---------------------------- MODULE AtLeastOnce ----------------------------
(***************************************************************************)
(* What the control queue promises its senders (the header of              *)
(* packages/control/src/consumer.ts): a message about work that was        *)
(* accepted is in the queue for as long as the work is owed.  A deploy is  *)
(* owed until a handler moves its run from pending; from there on the      *)
(* cron's passes settle the run (RunLifecycle).  A namespace mutation is   *)
(* owed until its outcome is on record.  What is given up is not owed any  *)
(* more.  Nothing is said of how often work is handled.                    *)
(***************************************************************************)
CONSTANT Works        \* what a message points at: a run, a namespace

VARIABLES outstanding, \* some message is about it
          owed,        \* accepted, and nobody has taken it over
          givenUp      \* not owed any more: attempts spent, or dropped by a holder that lost its lease

absVars == <<outstanding, owed, givenUp>>

AbsInit == outstanding = {} /\ owed = {} /\ givenUp = {}

Accept(w) == /\ outstanding' = outstanding \cup {w} /\ owed' = owed \cup {w}
             /\ givenUp' = givenUp \ {w}

\* One more message about the same work, owed or not.
Repeat(w) == outstanding' = outstanding \cup {w} /\ UNCHANGED <<owed, givenUp>>

TakeOver(w) == owed' = owed \ {w} /\ UNCHANGED <<outstanding, givenUp>>

\* The last message about owed work is never dropped.
Drop(w) == /\ w \notin owed
           /\ outstanding' = outstanding \ {w}
           /\ UNCHANGED <<owed, givenUp>>

GiveUp(w) == /\ givenUp' = givenUp \cup {w} /\ owed' = owed \ {w}
             /\ outstanding' \in {outstanding, outstanding \ {w}}

AbsNext == \E w \in Works : Accept(w) \/ Repeat(w) \/ TakeOver(w) \/ Drop(w) \/ GiveUp(w)

AbsSpec == AbsInit /\ [][AbsNext]_absVars
=============================================================================
