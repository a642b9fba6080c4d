----------------------------- MODULE MCWorkerRun -----------------------------
(***************************************************************************)
(* The model checker's instance of WorkerRun: one run, in any mode, on a   *)
(* connection that may break and come back.  Runs share nothing but the    *)
(* connection: containers and networks are named after the stream.         *)
(***************************************************************************)
EXTENDS WorkerRun
=============================================================================
