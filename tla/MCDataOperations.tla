-------------------------- MODULE MCDataOperations --------------------------
(* DataOperations on a small instance. *)
EXTENDS DataOperations

\* Every two operations, a restore among them first or after maintenance, and a recovery of a recovery.
Pairs == {<<k, l>> : k \in AllKinds \ {"recovery"}, l \in AllKinds \ {"restore"}}
AllPlans == Pairs \cup {<<"maintenance", "restore">>, <<"maintenance", "recovery", "recovery">>}
=============================================================================
