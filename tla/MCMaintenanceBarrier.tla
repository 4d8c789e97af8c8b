-------------------------- MODULE MCMaintenanceBarrier --------------------------
(* MaintenanceBarrier on small instances. *)
EXTENDS MaintenanceBarrier

\* Any mode under each of three generations.
AnyThree == [generation : 1..3, mode : Modes]

\* A closed object opens, and is restricted again before it did.
ReopenedRestricted == {[generation |-> 1, mode |-> "closed"], [generation |-> 2, mode |-> "open"],
                       [generation |-> 3, mode |-> "read-only"]}
=============================================================================
