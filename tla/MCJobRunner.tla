---------------------------- MODULE MCJobRunner ----------------------------
(* JobRunner on a small instance. *)
EXTENDS JobRunner
=============================================================================
