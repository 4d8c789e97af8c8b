-------------------------- MODULE MCControlQueue --------------------------
(* ControlQueue on a small instance: a run and a namespace. *)
EXTENDS ControlQueue
=============================================================================
