------------------------------ MODULE MCService ------------------------------
(***************************************************************************)
(* Service with one worker, which supports CUSTOM and so attracts the runs *)
(* of every runtime, one run and two console sessions of one browser.      *)
(***************************************************************************)
EXTENDS Service

CONSTANT w1

MCSupports == [w \in {w1} |-> {"custom"}]
=============================================================================
