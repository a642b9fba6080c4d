---------------------------- MODULE MCEnrollment ----------------------------
(***************************************************************************)
(* The model checker's instance of Enrollment: values in the configuration *)
(* files.  No symmetry, because a liveness property is checked.            *)
(***************************************************************************)
EXTENDS Enrollment
=============================================================================
