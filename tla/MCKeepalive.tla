---------------------------- MODULE MCKeepalive ----------------------------
(***************************************************************************)
(* The model checker's instance of Keepalive: the constants of the code,   *)
(* and time enough for two pings and both read deadlines.                  *)
(***************************************************************************)
EXTENDS Keepalive
=============================================================================
