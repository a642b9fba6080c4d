----------------------------- MODULE MCStreamLog -----------------------------
(***************************************************************************)
(* The model checker's instance of StreamLog: one stream, two readers, a   *)
(* log shorter than the events received and a channel that overflows.      *)
(***************************************************************************)
EXTENDS StreamLog
=============================================================================
