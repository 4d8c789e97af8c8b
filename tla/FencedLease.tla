---------------------------- MODULE FencedLease ----------------------------
(***************************************************************************)
(* What a lease of packages/control/src/lease.ts promises its users,       *)
(* without clocks, statements or deadlines.                                *)
(*                                                                         *)
(* The store remembers at most one holder of the key (owner).  At most one *)
(* holder acts on the key (active), it is the one the store remembers, and *)
(* ownership moves only while nobody acts.                                 *)
(***************************************************************************)
CONSTANTS Holders,  \* the lease tokens: one fresh uuid per acquisition
          NoHolder  \* the key is free

VARIABLES owner,    \* the holder the store remembers, or NoHolder
          active    \* the holders that may still act as the owner

absVars == <<owner, active>>

AbsInit == owner = NoHolder /\ active = {}

\* The key passes to h: nobody may be acting on it, and h starts to act once it learns of it.
Grant(h) == /\ active = {}
            /\ owner' = h
            /\ active' = {}

\* The owner starts (or resumes) acting.
Activate(h) == /\ owner = h
               /\ active' = {h}
               /\ owner' = owner

\* The owner stops acting: released, abandoned, past its deadline or dead.
Deactivate == /\ active' = {}
              /\ owner' = owner

\* The key is given back by an owner that no longer acts.
Free == /\ active = {}
        /\ owner' = NoHolder
        /\ active' = {}

AbsNext == \/ \E h \in Holders : Grant(h) \/ Activate(h)
           \/ Deactivate
           \/ Free

AbsSpec == AbsInit /\ [][AbsNext]_absVars
=============================================================================
