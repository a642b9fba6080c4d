-------------------------- MODULE MCControlChannel --------------------------
(***************************************************************************)
(* The model checker's instance of ControlChannel: one worker that         *)
(* reconnects once, so that an old and a new handler overlap.              *)
(***************************************************************************)
EXTENDS ControlChannel
=============================================================================
