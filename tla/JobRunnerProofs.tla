-------------------------- MODULE JobRunnerProofs --------------------------
(***************************************************************************)
(* One job of an application, for any number of runs, keys, kicks, fires,  *)
(* retries and faults.                                                     *)
(*                                                                         *)
(* No kick is dropped because a run that finishes consumes only wakes it   *)
(* owns, and what it owns was kicked before its attempt began (OwnedSeen): *)
(* a kick on the same key disowns the wake.  A kick is served at once      *)
(* because of the order of the flag and the lease (Covered): the flag is   *)
(* set before the lease is tried again, cleared before the attempt reads,  *)
(* and taken after the lease is released.                                  *)
(***************************************************************************)
EXTENDS JobRunner, WellFoundedInduction, TLAPS

Leased == {"clear", "attempt", "work", "ended"}

\* A run remembers a generation exactly while it has the lease or had it, and no two the same one.
Generations ==
  /\ \A r \in Runners : run[r].generation # 0 <=> run[r].pc \in Leased
  /\ \A r, s \in Runners : run[r].generation = run[s].generation /\ run[r].generation # 0 => r = s

\* Nothing is ahead of the kicks that were committed.
Behind ==
  /\ finished <= committed /\ handled <= committed /\ urgent <= committed
  /\ \A r \in Runners : run[r].seen <= committed
  /\ \A x \in wakes : x.newest <= committed

\* An attempt that holds the lease saw every kick of the wakes it owns, and what was handled before.
OwnedSeen ==
  \A r \in Runners : run[r].pc \in {"work", "ended"} /\ Holds(r) =>
    /\ \A x \in wakes : x.owned => x.newest <= run[r].seen
    /\ run[r].pc = "work" => handled <= run[r].seen
    /\ run[r].durable => \A x \in wakes : x.owned => x.attempt < run[r].attempt

\* While nothing failed a lease has one run, and the run its lease.
CleanLease ==
  clean =>
    /\ lease.time = "live"
    /\ ~Free => \E r \in Runners : run[r].pc \in Leased /\ Holds(r)
    /\ \A r \in Runners : run[r].pc \in Leased => Holds(r)
    /\ \A r \in Runners : run[r].pc = "ended" => run[r].outcome = "ok"

\* A run that will try for the lease and, where it is held, leave the flag.
WillTry(r) == \/ run[r].pc = "mark"
              \/ /\ run[r].pc = "try" /\ run[r].goal # "handover"
                 /\ ~(run[r].goal = "first" /\ run[r].by = "job")
\* A run whose attempt sees, or saw, every urgent kick.
WillSee(r) == \/ run[r].pc \in {"clear", "attempt"}
              \/ run[r].pc \in {"work", "ended"} /\ run[r].seen >= urgent
\* A run that finds the flag, or finds the lease held by one that does.
WillFind(r) == \/ run[r].pc \in {"work", "ended", "after"}
               \/ run[r].pc = "try" /\ run[r].goal = "handover"

\* While nothing failed a kick that was sent and not served yet has a run on its way to it.
Covered ==
  clean /\ urgent > finished =>
    \E r \in Runners : WillTry(r) \/ WillSee(r) \/ (pending /\ WillFind(r))

IInv == TypeOK /\ Generations /\ Behind /\ OwnedSeen /\ CleanLease /\ Covered /\ NoKickDropped /\ AlarmArmed

----------------------------------------------------------------------------
(* Numbers and values *)

\* A nonempty set of naturals has a least element.
LEMMA LeastNatural ==
  ASSUME NEW S, S \subseteq Nat, S # {}
  PROVE  \E x \in S : \A y \in S : x <= y
<1>1. IsWellFoundedOn(OpToRel(<, Nat), Nat)
  BY NatLessThanWellFounded
<1>2. PICK x \in S : \A y \in S : ~(<<y, x>> \in OpToRel(<, Nat))
  BY <1>1, WFMin
<1>3. \A y \in S : ~(y < x)
  BY <1>2 DEF OpToRel
<1> QED BY <1>3

\* A nonempty bounded one has a greatest.
LEMMA GreatestBounded ==
  ASSUME NEW n \in Nat, NEW S, S \subseteq 0..n, S # {}
  PROVE  \E x \in S : \A y \in S : y <= x
<1> DEFINE T == {n - x : x \in S}
<1>1. \A x \in S : n - x \in Nat
  OBVIOUS
<1>2. T \subseteq Nat /\ T # {}
  BY <1>1
<1>3. PICK t \in T : \A u \in T : t <= u
  BY <1>2, LeastNatural
<1>4. PICK x \in S : t = n - x
  OBVIOUS
<1>5. \A y \in S : n - x <= n - y
  BY <1>3, <1>4
<1>6. \A y \in S : y <= x
  BY <1>5
<1> QED BY <1>6

\* The bounds are naturals.
LEMMA Numbers == /\ Retries \in Nat /\ MaxKicks \in Nat /\ MaxFires \in Nat /\ MaxFaults \in Nat
                 /\ MaxGeneration \in Nat
BY ConstantsAssumption

\* An idle run and a new wake.
LEMMA Values ==
  /\ Idle \in Runs /\ Idle.pc = "idle" /\ Idle.generation = 0 /\ Idle.seen = 0 /\ Idle.attempt = 0
  /\ Idle.goal = "first" /\ Idle.durable = FALSE
  /\ \A key \in Keys \cup {"cron"}, due \in BOOLEAN :
       /\ Wake(key, due) \in Wakes /\ Wake(key, due).key = key /\ Wake(key, due).due = due
       /\ Wake(key, due).newest = 0 /\ ~Wake(key, due).owned /\ Wake(key, due).attempt = 0
<1>1. 0 \in 0..Retries /\ 0 \in 0..MaxKicks /\ 0 \in 0..MaxGeneration /\ 0 \in 0..(Retries + 1)
  BY Numbers
<1>2. Idle \in Runs
  BY <1>1 DEF Idle, Runs
<1>3. \A key \in Keys \cup {"cron"}, due \in BOOLEAN : Wake(key, due) \in Wakes
  BY <1>1 DEF Wake, Wakes
<1> QED BY <1>2, <1>3 DEF Idle, Wake

\* A lease is taken under a generation no run remembers.
LEMMA TakenFresh ==
  ASSUME TypeOK, Unused # {}
  PROVE  /\ Taken \in Leases
         /\ Taken.holder # 0 /\ Taken.time = "live" /\ Taken.holder \in 0..MaxGeneration
         /\ \A r \in Runners : run[r].generation # Taken.holder
<1>1. Unused \subseteq Nat
  BY Numbers DEF Unused
<1>2. \E g \in Unused : \A n \in Unused : g <= n
  BY <1>1, LeastNatural
<1> DEFINE g == CHOOSE g \in Unused : \A n \in Unused : g <= n
<1>3. g \in Unused
  BY <1>2
<1>4. Taken = [holder |-> g, time |-> "live"]
  BY DEF Taken
<1> HIDE DEF g
<1>5. g \in 1..MaxGeneration /\ \A r \in Runners : run[r].generation # g
  BY <1>3 DEF Unused
<1> QED BY <1>4, <1>5, Numbers DEF Leases

\* Owning and disowning wakes changes nothing else of them.
LEMMA OwnedWakes ==
  ASSUME NEW w, w \subseteq Wakes
  PROVE  /\ Owned(w) \subseteq Wakes /\ Disowned(w) \subseteq Wakes
         /\ \A x \in w : \E y \in Owned(w) : y.newest = x.newest
         /\ \A y \in Owned(w) : \E x \in w : y.newest = x.newest /\ y.attempt = x.attempt
         /\ \A x \in w : \E y \in Disowned(w) : y.newest = x.newest
         /\ \A y \in Disowned(w) : ~y.owned /\ \E x \in w : y.newest = x.newest /\ y.attempt = x.attempt
<1>1. \A x \in w : /\ [x EXCEPT !.owned = x.due] \in Wakes
                   /\ [x EXCEPT !.owned = x.due].newest = x.newest
                   /\ [x EXCEPT !.owned = x.due].attempt = x.attempt
                   /\ [x EXCEPT !.owned = FALSE] \in Wakes /\ ~[x EXCEPT !.owned = FALSE].owned
                   /\ [x EXCEPT !.owned = FALSE].newest = x.newest
                   /\ [x EXCEPT !.owned = FALSE].attempt = x.attempt
  BY DEF Wakes
<1> QED BY <1>1 DEF Owned, Disowned

\* A released lease is free.
LEMMA ReleasedFree ==
  ASSUME TypeOK
  PROVE  /\ Released \in Leases
         /\ Released.holder = 0 /\ Released.time = "live"
<1>1. lease \in Leases /\ 0 \in 0..MaxGeneration
  BY Numbers DEF TypeOK
<1> QED BY <1>1 DEF Released, Leases

\* A statement on the lease arms the alarm.
LEMMA ChangeArms ==
  ASSUME NEW l, NEW w, Change(l, w), cloudflare' = cloudflare
  PROVE  AlarmArmed' /\ alarm' \in Alarms
BY DEF Change, Projected, AlarmArmed, Free, Alarm, Alarms

\* The invariant holds when the job is registered.
LEMMA InitIInv == Init => IInv
<1> SUFFICES ASSUME Init PROVE IInv
  OBVIOUS
<1>1. lease.holder = 0 /\ lease.time = "live" /\ lease \in Leases
  BY Numbers DEF Init, Leases
<1>2. wakes \subseteq Wakes /\ \A x \in wakes : x.newest = 0 /\ ~x.owned
  <2>1. wakes \subseteq {Wake("cron", FALSE)}
    BY DEF Init
  <2>2. Wake("cron", FALSE) \in Wakes /\ Wake("cron", FALSE).newest = 0 /\ ~Wake("cron", FALSE).owned
    BY Values
  <2> QED BY <2>1, <2>2
<1>3. \A r \in Runners : run[r] = Idle
  BY DEF Init
<1>4. pending = FALSE /\ alarming = FALSE /\ open = TRUE /\ clean = TRUE
  BY DEF Init
<1>5. committed = 0 /\ urgent = 0 /\ finished = 0 /\ handled = 0 /\ faults = 0 /\ fires = 0
  BY DEF Init
<1>6. cloudflare \in BOOLEAN /\ alarm = Alarm(cloudflare)
  BY DEF Init
<1>7. TypeOK
  <2>1. run \in [Runners -> Runs]
    BY Values DEF Init
  <2>2. alarm \in Alarms
    BY <1>6 DEF Alarm, Alarms
  <2>3. 0 \in 0..MaxKicks /\ 0 \in 0..MaxFaults /\ 0 \in 0..MaxFires
    BY Numbers
  <2> QED BY <1>1, <1>2, <1>4, <1>5, <1>6, <2>1, <2>2, <2>3 DEF TypeOK
<1>8. Generations
  BY <1>3, Values DEF Generations, Leased
<1>9. Behind
  BY <1>2, <1>3, <1>5, Values DEF Behind
<1>10. OwnedSeen /\ CleanLease
  BY <1>1, <1>3, Values DEF OwnedSeen, CleanLease, Free, Leased
<1>11. Covered /\ NoKickDropped
  BY <1>5 DEF Covered, NoKickDropped
<1>12. AlarmArmed
  BY <1>6 DEF AlarmArmed, Alarm
<1> QED BY <1>7, <1>8, <1>9, <1>10, <1>11, <1>12 DEF IInv

----------------------------------------------------------------------------
(* Steps of a run that leave lease, wakes and progress *)

\* A run moves on its own: it keeps its generation or forgets it.
LEMMA RunMovesArmed ==
  ASSUME IInv, TypeOK', Covered', AlarmArmed', NEW r \in Runners,
         \A s \in Runners : s # r => run'[s] = run[s],
         UNCHANGED <<lease, wakes, committed, urgent, finished, handled>>,
         run'[r].generation \in {0, run[r].generation},
         run'[r].generation # 0 <=> run'[r].pc \in Leased,
         run'[r].seen <= committed,
         run'[r].pc \in {"work", "ended"} /\ run'[r].generation = lease.holder =>
           /\ \A x \in wakes : x.owned => x.newest <= run'[r].seen
           /\ run'[r].pc = "work" => handled <= run'[r].seen
           /\ run'[r].durable => \A x \in wakes : x.owned => x.attempt < run'[r].attempt,
         clean' => /\ clean /\ run'[r].generation = run[r].generation
                   /\ run'[r].pc = "ended" => run'[r].outcome = "ok"
  PROVE  IInv'
<1>1. Generations'
  BY DEF IInv, Generations
<1>2. Behind'
  BY DEF IInv, Behind
<1>3. OwnedSeen'
  BY DEF IInv, OwnedSeen, Holds
<1>4. CleanLease'
  <2> SUFFICES ASSUME clean' PROVE CleanLease'
    BY DEF CleanLease
  <2>1. lease.time = "live" /\ \A s \in Runners : run[s].pc \in Leased => Holds(s)
    BY DEF IInv, CleanLease
  <2>2. \A s \in Runners : /\ run'[s].generation = run[s].generation
                           /\ run'[s].pc \in Leased <=> run[s].pc \in Leased
    BY DEF IInv, Generations
  <2>3. ~Free => \E s \in Runners : run[s].pc \in Leased /\ Holds(s)
    BY DEF IInv, CleanLease
  <2>4. \A s \in Runners : run'[s].pc = "ended" => run'[s].outcome = "ok"
    BY DEF IInv, CleanLease
  <2> QED BY <2>1, <2>2, <2>3, <2>4 DEF CleanLease, Holds, Free
<1>5. NoKickDropped'
  BY DEF IInv, NoKickDropped
<1> QED BY <1>1, <1>2, <1>3, <1>4, <1>5 DEF IInv

\* And where the alarm is left alone it stays armed.
LEMMA RunMoves ==
  ASSUME IInv, TypeOK', Covered', NEW r \in Runners,
         \A s \in Runners : s # r => run'[s] = run[s],
         UNCHANGED <<lease, wakes, committed, urgent, finished, handled, alarm, alarming, open, cloudflare>>,
         run'[r].generation \in {0, run[r].generation},
         run'[r].generation # 0 <=> run'[r].pc \in Leased,
         run'[r].seen <= committed,
         run'[r].pc \in {"work", "ended"} /\ run'[r].generation = lease.holder =>
           /\ \A x \in wakes : x.owned => x.newest <= run'[r].seen
           /\ run'[r].pc = "work" => handled <= run'[r].seen
           /\ run'[r].durable => \A x \in wakes : x.owned => x.attempt < run'[r].attempt,
         clean' => /\ clean /\ run'[r].generation = run[r].generation
                   /\ run'[r].pc = "ended" => run'[r].outcome = "ok"
  PROVE  IInv'
<1>1. AlarmArmed'
  BY DEF IInv, AlarmArmed, Free
<1> QED BY <1>1, RunMovesArmed

\* A run becomes another record.
LEMMA RunUpdated ==
  ASSUME TypeOK, NEW r \in Runners, NEW v \in Runs, run' = [run EXCEPT ![r] = v]
  PROVE  /\ run' \in [Runners -> Runs] /\ run'[r] = v
         /\ \A s \in Runners : s # r => run'[s] = run[s]
BY DEF TypeOK

\* A run that leaves the flag still tries the lease once more.
LEMMA MarkPendingIInv == ASSUME IInv, NEW r \in Runners, MarkPending(r) PROVE IInv'
<1>1. run[r] \in Runs /\ run[r].pc = "mark" /\ pending' = TRUE
  BY DEF IInv, TypeOK, MarkPending
<1>2. /\ run' \in [Runners -> Runs] /\ run'[r].pc = "try" /\ run'[r].goal = "handover"
      /\ run'[r].generation = run[r].generation /\ run'[r].seen = run[r].seen
      /\ \A s \in Runners : s # r => run'[s] = run[s]
  BY <1>1 DEF IInv, TypeOK, MarkPending, Runs
<1>3. UNCHANGED <<lease, wakes, committed, urgent, finished, handled, alarm, alarming, open, clean,
                  faults, fires, cloudflare>>
  BY DEF MarkPending, progress, object, bounds
<1>4. TypeOK'
  BY <1>1, <1>2, <1>3 DEF IInv, TypeOK
<1>5. Covered'
  BY <1>1, <1>2 DEF Covered, WillFind
<1>6. run[r].generation = 0 /\ run[r].seen <= committed
  BY <1>1 DEF IInv, Generations, Behind, Leased
<1> QED BY <1>2, <1>3, <1>4, <1>5, <1>6, RunMoves DEF Leased

\* A run that finds the lease held leaves no kick without a run: the holder finds the flag.
LEMMA SkippedIInv == ASSUME IInv, NEW r \in Runners, Skipped(r) PROVE IInv'
<1> DEFINE gone == run[r].goal = "handover" \/ (run[r].goal = "first" /\ run[r].by = "job")
           marking == [run[r] EXCEPT !.pc = "mark"]
<1>1. run[r] \in Runs /\ run[r].pc = "try" /\ ~Available(r)
  BY DEF IInv, TypeOK, Skipped
<1>2. /\ marking \in Runs /\ marking.pc = "mark"
      /\ marking.generation = run[r].generation /\ marking.seen = run[r].seen
  BY <1>1 DEF Runs
<1>3. run' = [run EXCEPT ![r] = IF gone THEN Idle ELSE marking]
  BY DEF Skipped
<1> HIDE DEF marking
<1>4. run[r].generation = 0 /\ run[r].seen <= committed /\ 0 <= committed
  BY <1>1, Numbers DEF IInv, TypeOK, Generations, Behind, Leased
<1>5. /\ run' \in [Runners -> Runs] /\ run'[r].generation = 0 /\ run'[r].seen <= committed
      /\ run'[r].pc \in {"idle", "mark"} /\ (~gone => run'[r].pc = "mark")
      /\ \A s \in Runners : s # r => run'[s] = run[s]
  BY <1>2, <1>3, <1>4, Values DEF IInv, TypeOK
<1>6. UNCHANGED <<lease, wakes, pending, committed, urgent, finished, handled, alarm, alarming,
                  open, clean, faults, fires, cloudflare>>
  BY DEF Skipped, store, progress, object, bounds
<1>7. TypeOK'
  BY <1>5, <1>6 DEF IInv, TypeOK
<1>8. Covered'
  <2> SUFFICES ASSUME clean, urgent > finished
               PROVE  \E s \in Runners : WillTry(s)' \/ WillSee(s)' \/ (pending /\ WillFind(s)')
    BY <1>6 DEF Covered
  <2>1. PICK s \in Runners : WillTry(s) \/ WillSee(s) \/ (pending /\ WillFind(s))
    BY DEF IInv, Covered
  <2>2. CASE s # r
    BY <1>5, <1>6, <2>1, <2>2 DEF WillTry, WillSee, WillFind
  <2>3. CASE s = r /\ WillTry(r)
    BY <1>1, <1>5, <2>3 DEF WillTry
  <2>4. CASE s = r /\ ~WillTry(r)
    <3>1. pending /\ ~Free
      BY <1>1, <2>1, <2>4 DEF WillSee, Available
    <3>2. PICK h \in Runners : run[h].pc \in Leased /\ Holds(h)
      BY <3>1 DEF IInv, CleanLease
    <3>3. h # r
      BY <1>1, <3>2 DEF Leased
    <3> QED BY <1>5, <1>6, <3>1, <3>2, <3>3 DEF Leased, WillSee, WillFind
  <2> QED BY <2>2, <2>3, <2>4
<1> QED BY <1>4, <1>5, <1>6, <1>7, <1>8, RunMoves DEF Leased

\* The flag is cleared by a run that has yet to read.
LEMMA ClearPendingIInv == ASSUME IInv, NEW r \in Runners, ClearPending(r) PROVE IInv'
<1>1. run[r] \in Runs /\ run[r].pc = "clear" /\ pending' = FALSE
  BY DEF IInv, TypeOK, ClearPending
<1>2. /\ run' \in [Runners -> Runs] /\ run'[r].pc = "attempt"
      /\ run'[r].generation = run[r].generation /\ run'[r].seen = run[r].seen
      /\ \A s \in Runners : s # r => run'[s] = run[s]
  BY <1>1 DEF IInv, TypeOK, ClearPending, Step, Runs
<1>3. UNCHANGED <<lease, wakes, committed, urgent, finished, handled, alarm, alarming, open, clean,
                  faults, fires, cloudflare>>
  BY DEF ClearPending, progress, object, bounds
<1>4. TypeOK'
  BY <1>1, <1>2, <1>3 DEF IInv, TypeOK
<1>5. Covered'
  BY <1>2 DEF Covered, WillSee
<1>6. run[r].generation # 0 /\ run[r].seen <= committed
  BY <1>1 DEF IInv, Generations, Behind, Leased
<1> QED BY <1>2, <1>3, <1>4, <1>5, <1>6, RunMoves DEF Leased

\* The flag is taken by a run that tries again for it.
LEMMA TakePendingIInv == ASSUME IInv, NEW r \in Runners, TakePending(r) PROVE IInv'
<1> DEFINE again == [Idle EXCEPT !.pc = "try", !.goal = "again", !.by = run[r].by]
<1>1. run[r] \in Runs /\ run[r].pc = "after" /\ pending' = FALSE
  BY DEF IInv, TypeOK, TakePending
<1>2. /\ again \in Runs /\ again.pc = "try" /\ again.goal = "again"
      /\ again.generation = 0 /\ again.seen = 0
  BY <1>1, Values DEF Runs
<1>3. run' = [run EXCEPT ![r] = IF pending THEN again ELSE Idle]
  BY DEF TakePending
<1> HIDE DEF again
<1>4. /\ run' \in [Runners -> Runs] /\ run'[r].generation = 0 /\ run'[r].seen = 0
      /\ run'[r].pc \in {"idle", "try"} /\ (pending => run'[r].pc = "try" /\ run'[r].goal = "again")
      /\ \A s \in Runners : s # r => run'[s] = run[s]
  BY <1>2, <1>3, Values DEF IInv, TypeOK
<1>5. UNCHANGED <<lease, wakes, committed, urgent, finished, handled, alarm, alarming, open, clean,
                  faults, fires, cloudflare>>
  BY DEF TakePending, progress, object, bounds
<1>6. TypeOK'
  BY <1>1, <1>4, <1>5 DEF IInv, TypeOK
<1>7. Covered'
  <2> SUFFICES ASSUME clean, urgent > finished
               PROVE  \E s \in Runners : WillTry(s)' \/ WillSee(s)' \/ (pending' /\ WillFind(s)')
    BY <1>5 DEF Covered
  <2>1. CASE pending
    BY <1>4, <2>1 DEF WillTry
  <2>2. CASE ~pending
    <3>1. PICK s \in Runners : WillTry(s) \/ WillSee(s)
      BY <2>2 DEF IInv, Covered
    <3>2. s # r
      BY <1>1, <3>1 DEF WillTry, WillSee
    <3> QED BY <1>4, <1>5, <3>1, <3>2 DEF WillTry, WillSee
  <2> QED BY <2>1, <2>2
<1>8. run[r].generation = 0 /\ 0 <= committed
  BY <1>1, Numbers DEF IInv, TypeOK, Generations, Leased
<1> QED BY <1>4, <1>5, <1>6, <1>7, <1>8, RunMoves DEF Leased

\* The first attempt of a run is above the attempts its wakes count.
LEMMA FirstAttemptAbove ==
  ASSUME TypeOK, NEW r \in Runners
  PROVE  /\ FirstAttempt(r) \in 0..(Retries + 1)
         /\ \A n \in OwnAttempts(r) : n < FirstAttempt(r)
<1>1. OwnAttempts(r) \subseteq 0..Retries
  BY DEF TypeOK, OwnAttempts, Wakes
<1>2. CASE OwnAttempts(r) = {}
  BY <1>2, Numbers DEF FirstAttempt
<1>3. CASE OwnAttempts(r) # {}
  <2> DEFINE top == CHOOSE m \in OwnAttempts(r) : \A n \in OwnAttempts(r) : n <= m
  <2>1. \E m \in OwnAttempts(r) : \A n \in OwnAttempts(r) : n <= m
    BY <1>1, <1>3, Numbers, GreatestBounded
  <2>2. top \in OwnAttempts(r) /\ \A n \in OwnAttempts(r) : n <= top
    BY <2>1
  <2>3. FirstAttempt(r) = top + 1
    BY <1>3 DEF FirstAttempt
  <2> HIDE DEF top
  <2>4. top \in 0..Retries
    BY <1>1, <2>2
  <2> QED BY <1>1, <2>2, <2>3, <2>4, Numbers
<1> QED BY <1>2, <1>3

\* An attempt sees every kick committed when it starts.
LEMMA AttemptIInv == ASSUME IInv, NEW r \in Runners, Attempt(r) PROVE IInv'
<1> DEFINE durable == run[r].attempt = 0 /\ OwnAttempts(r) # {}
           count == IF run[r].attempt = 0 THEN FirstAttempt(r) ELSE run[r].attempt
           working == [run[r] EXCEPT !.pc = "work", !.seen = committed, !.durable = durable, !.attempt = count]
<1>1. run[r] \in Runs /\ run[r].pc = "attempt" /\ committed \in 0..MaxKicks
  BY DEF IInv, TypeOK, Attempt
<1>2. count \in 0..(Retries + 1) /\ durable \in BOOLEAN
  BY <1>1, FirstAttemptAbove DEF IInv, Runs
<1>3. durable => \A x \in wakes : x.owned => x.attempt < count
  <2>1. durable => \A x \in wakes : x.owned => x.attempt \in OwnAttempts(r)
    BY DEF OwnAttempts
  <2> QED BY <2>1, FirstAttemptAbove DEF IInv
<1>4. run' = [run EXCEPT ![r] = working]
  BY DEF Attempt
<1> HIDE DEF durable, count
<1>5. /\ working \in Runs /\ working.pc = "work" /\ working.seen = committed
      /\ working.durable = durable /\ working.attempt = count /\ working.generation = run[r].generation
  BY <1>1, <1>2 DEF Runs
<1> HIDE DEF working
<1>6. /\ run' \in [Runners -> Runs] /\ run'[r] = working
      /\ \A s \in Runners : s # r => run'[s] = run[s]
  BY <1>4, <1>5, RunUpdated DEF IInv
<1>7. UNCHANGED <<lease, wakes, pending, committed, urgent, finished, handled, alarm, alarming,
                  open, clean, faults, fires, cloudflare>>
  BY DEF Attempt, store, progress, object, bounds
<1>8. TypeOK'
  BY <1>6, <1>7 DEF IInv, TypeOK
<1>9. urgent <= committed /\ handled <= committed /\ committed <= committed
      /\ \A x \in wakes : x.newest <= committed
  BY <1>1, Numbers DEF IInv, Behind
<1>10. Covered'
  BY <1>1, <1>5, <1>6, <1>7, <1>9 DEF Covered, WillSee, IInv, TypeOK
<1>11. run[r].generation # 0
  BY <1>1 DEF IInv, Generations, Leased
<1> QED BY <1>3, <1>5, <1>6, <1>7, <1>8, <1>9, <1>10, <1>11, RunMoves DEF Leased

\* An attempt ends.
LEMMA OutcomeIInv ==
  ASSUME IInv, NEW r \in Runners, NEW o \in {"ok", "failed", "final"}, Outcome(r, o) PROVE IInv'
<1>1. run[r] \in Runs /\ run[r].pc = "work" /\ clean \in BOOLEAN
  BY DEF IInv, TypeOK, Outcome
<1>2. /\ run' \in [Runners -> Runs] /\ run'[r].pc = "ended" /\ run'[r].outcome = o
      /\ run'[r].generation = run[r].generation /\ run'[r].seen = run[r].seen
      /\ run'[r].durable = run[r].durable /\ run'[r].attempt = run[r].attempt
      /\ \A s \in Runners : s # r => run'[s] = run[s]
  BY <1>1 DEF IInv, TypeOK, Outcome, Runs
<1>3. /\ UNCHANGED <<lease, wakes, pending, committed, urgent, finished, handled, alarm, alarming,
                     open, faults, fires, cloudflare>>
      /\ clean' \in BOOLEAN /\ (clean' => clean /\ o = "ok")
  BY DEF Outcome, store, progress, object
<1>4. TypeOK'
  BY <1>2, <1>3 DEF IInv, TypeOK
<1>5. Covered'
  BY <1>1, <1>2, <1>3 DEF IInv, Covered, WillTry, WillSee, WillFind
<1>6. run[r].generation # 0 /\ run[r].seen <= committed
  BY <1>1 DEF IInv, Generations, Behind, Leased
<1>7. run[r].generation = lease.holder =>
        /\ \A x \in wakes : x.owned => x.newest <= run[r].seen
        /\ run[r].durable => \A x \in wakes : x.owned => x.attempt < run[r].attempt
  BY <1>1 DEF IInv, OwnedSeen, Holds
<1> QED BY <1>2, <1>3, <1>4, <1>5, <1>6, <1>7, RunMoves DEF Leased

\* After a fault nothing is said about promptness.
LEMMA FaultUnclean ==
  ASSUME TypeOK, Fault
  PROVE  /\ clean' = FALSE /\ faults' \in 0..MaxFaults /\ fires' = fires /\ cloudflare' = cloudflare
         /\ Covered' /\ CleanLease'
BY Numbers DEF TypeOK, Fault, Covered, CleanLease

\* A run dies.
LEMMA CrashIInv == ASSUME IInv, NEW r \in Runners, Crash(r) PROVE IInv'
<1>1. /\ clean' = FALSE /\ faults' \in 0..MaxFaults /\ fires' = fires /\ cloudflare' = cloudflare
      /\ Covered'
  BY FaultUnclean DEF IInv, Crash
<1>2. UNCHANGED <<lease, wakes, pending, committed, urgent, finished, handled, alarm, alarming, open>>
  BY DEF Crash, store, progress, object
<1>3. /\ run' \in [Runners -> Runs] /\ run'[r] = Idle
      /\ \A s \in Runners : s # r => run'[s] = run[s]
  BY RunUpdated, Values DEF IInv, Crash
<1>4. TypeOK'
  BY <1>1, <1>2, <1>3 DEF IInv, TypeOK
<1>5. 0 <= committed
  BY Numbers DEF IInv, TypeOK
<1> QED BY <1>1, <1>2, <1>3, <1>4, <1>5, Values, RunMoves DEF Leased

\* Trying again or anew covers what was covered.
LEMMA Tries ==
  ASSUME TypeOK, NEW r \in Runners, NEW by \in {"kick", "job", "alarm"}, Try(r, by)
  PROVE  /\ run' \in [Runners -> Runs] /\ run'[r].pc = "try" /\ run'[r].goal = "first" /\ run'[r].by = by
         /\ run'[r].generation = 0 /\ run'[r].seen = 0
         /\ \A s \in Runners : s # r => run'[s] = run[s]
<1> DEFINE trying == [Idle EXCEPT !.pc = "try", !.by = by]
<1>1. /\ trying \in Runs /\ trying.pc = "try" /\ trying.goal = "first" /\ trying.by = by
      /\ trying.generation = 0 /\ trying.seen = 0
  BY Values DEF Runs
<1>2. run' = [run EXCEPT ![r] = trying]
  BY DEF Try
<1> HIDE DEF trying
<1> QED BY <1>1, <1>2, RunUpdated

\* Crontab starts a run.
LEMMA CrontabIInv == ASSUME IInv, NEW r \in Runners, Crontab(r) PROVE IInv'
<1>1. /\ run' \in [Runners -> Runs] /\ run'[r].pc = "try" /\ run'[r].generation = 0 /\ run'[r].seen = 0
      /\ \A s \in Runners : s # r => run'[s] = run[s]
  BY Tries DEF IInv, Crontab
<1>2. UNCHANGED <<lease, wakes, pending, committed, urgent, finished, handled, alarm, alarming,
                  open, clean, faults, cloudflare>>
  BY DEF Crontab, store, progress, object
<1>3. fires' \in 0..MaxFires /\ 0 <= committed
  BY Numbers DEF IInv, TypeOK, Crontab
<1>4. TypeOK'
  BY <1>1, <1>2, <1>3 DEF IInv, TypeOK
<1>5. run[r].pc = "idle" /\ run[r].generation = 0
  BY DEF IInv, Generations, Leased, Crontab, Ready
<1>6. Covered'
  BY <1>1, <1>2, <1>5 DEF IInv, Covered, WillTry, WillSee, WillFind
<1> QED BY <1>1, <1>2, <1>3, <1>4, <1>5, <1>6, RunMoves DEF Leased

\* A handler commits under the fence of its lease.
LEMMA HandlerCommitIInv == ASSUME IInv, NEW r \in Runners, HandlerCommit(r) PROVE IInv'
<1>1. /\ run[r] \in Runs /\ run[r].pc = "work" /\ Holds(r) /\ handled' = run[r].seen
      /\ UNCHANGED <<lease, wakes, pending, run, committed, urgent, finished, alarm, alarming,
                     open, clean, faults, fires, cloudflare>>
  BY DEF IInv, TypeOK, HandlerCommit, store, object, bounds
<1>2. TypeOK'
  BY <1>1 DEF IInv, TypeOK, Runs
<1>3. Generations' /\ Behind'
  BY <1>1 DEF IInv, Generations, Behind
<1>4. \A s \in Runners : run[s].pc = "work" /\ Holds(s) => s = r
  BY <1>1 DEF IInv, Generations, Holds, Leased
<1>5. run[r].seen <= run[r].seen
  BY <1>1, Numbers DEF Runs
<1>6. OwnedSeen'
  BY <1>1, <1>4, <1>5 DEF IInv, OwnedSeen, Holds
<1>7. CleanLease' /\ Covered' /\ NoKickDropped' /\ AlarmArmed'
  BY <1>1 DEF IInv, CleanLease, Covered, WillTry, WillSee, WillFind, NoKickDropped, AlarmArmed, Free, Holds
<1> QED BY <1>2, <1>3, <1>6, <1>7 DEF IInv

----------------------------------------------------------------------------
(* Steps that take the lease *)

\* The lease is taken, under a new generation, by a run that has yet to attempt.
LEMMA LeaseTaken ==
  ASSUME IInv, TypeOK', AlarmArmed', NEW r \in Runners, Unused # {},
         lease' = Taken,
         \A s \in Runners : s # r => run'[s] = run[s],
         run'[r].generation = Taken.holder, run'[r].pc \in {"clear", "attempt"},
         run'[r].seen <= committed,
         \A x \in wakes : \E y \in wakes' : y.newest = x.newest,
         \A y \in wakes' : \E x \in wakes : y.newest = x.newest,
         UNCHANGED <<committed, urgent, finished, handled, clean>>,
         clean => Free \/ Holds(r)
  PROVE  IInv'
<1>1. /\ Taken.holder # 0 /\ Taken.time = "live"
      /\ \A s \in Runners : run[s].generation # Taken.holder
  BY TakenFresh DEF IInv
<1>2. run'[r].pc \in Leased /\ run'[r].pc \notin {"work", "ended"}
  BY DEF Leased
<1>3. Generations'
  BY <1>1, <1>2 DEF IInv, Generations
<1>4. Behind'
  BY DEF IInv, Behind
<1>5. OwnedSeen'
  BY <1>1, <1>2 DEF OwnedSeen, Holds
<1>6. CleanLease'
  <2> SUFFICES ASSUME clean PROVE CleanLease'
    BY DEF CleanLease
  <2>1. \A s \in Runners : s # r => run[s].pc \notin Leased
    <3> SUFFICES ASSUME NEW s \in Runners, s # r, run[s].pc \in Leased PROVE FALSE
      OBVIOUS
    <3>1. run[s].generation = lease.holder /\ run[s].generation # 0
      BY DEF IInv, CleanLease, Generations, Holds
    <3>2. run[r].generation = lease.holder
      BY <3>1 DEF Free, Holds
    <3> QED BY <3>1, <3>2 DEF IInv, Generations
  <2>2. run'[r].generation = lease'.holder /\ lease'.time = "live"
    BY <1>1
  <2> QED BY <1>2, <2>1, <2>2 DEF CleanLease, Holds, Leased
<1>7. Covered'
  BY DEF Covered, WillSee
<1>8. NoKickDropped'
  <2> SUFFICES ASSUME committed > finished PROVE \E y \in wakes' : y.newest >= committed
    BY DEF NoKickDropped
  <2>1. PICK x \in wakes : x.newest >= committed
    BY DEF IInv, NoKickDropped
  <2> QED BY <2>1
<1> QED BY <1>3, <1>4, <1>5, <1>6, <1>7, <1>8 DEF IInv

\* The wakes an acquired lease starts with are the ones there were.
LEMMA TakenWakes ==
  ASSUME TypeOK
  PROVE  /\ Owned(ReapedWakes) \subseteq Wakes
         /\ \A x \in wakes : \E y \in Owned(ReapedWakes) : y.newest = x.newest
         /\ \A y \in Owned(ReapedWakes) : \E x \in wakes : y.newest = x.newest
<1>1. wakes \subseteq Wakes
  BY DEF TypeOK
<1>2. /\ ReapedWakes \subseteq Wakes
      /\ \A x \in wakes : \E y \in ReapedWakes : y.newest = x.newest
      /\ \A y \in ReapedWakes : \E x \in wakes : y.newest = x.newest
  <2>1. CASE Expired
    <3>1. ReapedWakes = Disowned(wakes)
      BY <2>1 DEF ReapedWakes
    <3> QED BY <1>1, <3>1, OwnedWakes
  <2>2. CASE ~Expired
    BY <1>1, <2>2 DEF ReapedWakes
  <2> QED BY <2>1, <2>2
<1>3. /\ Owned(ReapedWakes) \subseteq Wakes
      /\ \A x \in ReapedWakes : \E y \in Owned(ReapedWakes) : y.newest = x.newest
      /\ \A y \in Owned(ReapedWakes) : \E x \in ReapedWakes : y.newest = x.newest
  BY <1>2, OwnedWakes
<1>4. ASSUME NEW x \in wakes PROVE \E y \in Owned(ReapedWakes) : y.newest = x.newest
  <2>1. PICK z \in ReapedWakes : z.newest = x.newest
    BY <1>2
  <2> QED BY <1>3, <2>1
<1>5. ASSUME NEW y \in Owned(ReapedWakes) PROVE \E x \in wakes : y.newest = x.newest
  <2>1. PICK z \in ReapedWakes : y.newest = z.newest
    BY <1>3
  <2> QED BY <1>2, <2>1
<1> QED BY <1>3, <1>4, <1>5

\* While nothing failed no lease expires.
LEMMA CleanLive == ASSUME IInv, clean PROVE ~Expired
BY DEF IInv, CleanLease, Expired

\* The lease acquired by a run that tried.
LEMMA AcquireIInv == ASSUME IInv, NEW r \in Runners, Acquire(r) PROVE IInv'
<1>1. run[r] \in Runs /\ run[r].pc = "try" /\ Available(r) /\ Unused # {} /\ run[r].seen <= committed
  BY DEF IInv, TypeOK, Behind, Acquire
<1>2. /\ Taken \in Leases /\ Taken.holder \in 0..MaxGeneration
  BY <1>1, TakenFresh DEF IInv
<1>3. Change(Taken, Owned(ReapedWakes))
  BY DEF Acquire
<1>4. /\ lease' = Taken /\ wakes' = Owned(ReapedWakes)
      /\ UNCHANGED <<pending, committed, urgent, finished, handled, alarming, open, clean, faults,
                     fires, cloudflare>>
  BY <1>3 DEF Acquire, Change, progress, bounds
<1>5. AlarmArmed' /\ alarm' \in Alarms
  BY <1>3, <1>4, ChangeArms
<1>6. run' = [run EXCEPT ![r].pc = "clear", ![r].generation = Taken.holder]
  BY DEF Acquire
<1> HIDE DEF Taken
<1>7. /\ run' \in [Runners -> Runs] /\ run'[r].pc = "clear" /\ run'[r].generation = Taken.holder
      /\ run'[r].seen = run[r].seen
      /\ \A s \in Runners : s # r => run'[s] = run[s]
  BY <1>1, <1>2, <1>6 DEF IInv, TypeOK, Runs
<1>8. TypeOK'
  BY <1>2, <1>4, <1>5, <1>7, TakenWakes DEF IInv, TypeOK
<1>9. clean => Free \/ Holds(r)
  BY <1>1, CleanLive DEF Available
<1>10. /\ \A x \in wakes : \E y \in wakes' : y.newest = x.newest
       /\ \A y \in wakes' : \E x \in wakes : y.newest = x.newest
  BY <1>4, TakenWakes DEF IInv
<1> QED BY <1>1, <1>4, <1>5, <1>7, <1>8, <1>9, <1>10, LeaseTaken

\* An inline retry renews the lease of the run that holds it, or the run ends.
LEMMA RenewIInv == ASSUME IInv, NEW r \in Runners, Renew(r) PROVE IInv'
<1>1. run[r] \in Runs /\ run[r].pc = "ended" /\ run[r].seen <= committed /\ run[r].attempt <= Retries
      /\ run[r].outcome = "failed"
  BY DEF IInv, TypeOK, Behind, Renew, Again
<1>2. ~clean
  BY <1>1 DEF IInv, CleanLease
<1>3. UNCHANGED <<pending, committed, urgent, finished, handled, alarming, open, clean, faults,
                  fires, cloudflare>>
  BY DEF Renew, progress, bounds
<1>4. CASE Holds(r) /\ ~Expired
  <2>1. Unused # {} /\ Change(Taken, wakes)
        /\ run' = [run EXCEPT ![r].pc = "attempt", ![r].attempt = @ + 1, ![r].generation = Taken.holder]
    BY <1>4 DEF Renew
  <2>2. Taken \in Leases /\ Taken.holder \in 0..MaxGeneration
    BY <2>1, TakenFresh DEF IInv
  <2>3. lease' = Taken /\ wakes' = wakes
    BY <2>1 DEF Change
  <2>4. AlarmArmed' /\ alarm' \in Alarms
    BY <1>3, <2>1, ChangeArms
  <2> HIDE DEF Taken
  <2>5. run[r].attempt + 1 \in 0..(Retries + 1)
    BY <1>1, Numbers DEF Runs
  <2>6. /\ run' \in [Runners -> Runs] /\ run'[r].pc = "attempt" /\ run'[r].generation = Taken.holder
        /\ run'[r].seen = run[r].seen
        /\ \A s \in Runners : s # r => run'[s] = run[s]
    BY <1>1, <2>1, <2>2, <2>5 DEF IInv, TypeOK, Runs
  <2>7. TypeOK'
    BY <1>3, <2>2, <2>3, <2>4, <2>6 DEF IInv, TypeOK
  <2> QED BY <1>1, <1>2, <1>3, <2>1, <2>3, <2>4, <2>6, <2>7, LeaseTaken
<1>5. CASE ~(Holds(r) /\ ~Expired)
  <2>1. run' = [run EXCEPT ![r] = Idle] /\ UNCHANGED <<lease, wakes, alarm>>
    BY <1>5 DEF Renew
  <2>2. /\ run' \in [Runners -> Runs] /\ run'[r] = Idle
        /\ \A s \in Runners : s # r => run'[s] = run[s]
    BY <2>1, RunUpdated, Values DEF IInv
  <2>3. TypeOK'
    BY <1>3, <2>1, <2>2 DEF IInv, TypeOK
  <2>4. Covered' /\ 0 <= committed
    BY <1>2, <1>3, Numbers DEF Covered, IInv, TypeOK
  <2> QED BY <1>2, <1>3, <2>1, <2>2, <2>3, <2>4, Values, RunMoves DEF Leased
<1> QED BY <1>4, <1>5

----------------------------------------------------------------------------
(* Steps that free the lease *)

\* The lease is freed; runs that end or start remember no generation.
LEMMA LeaseFreed ==
  ASSUME IInv, TypeOK', AlarmArmed', Covered', CleanLease', NoKickDropped',
         lease'.holder = 0,
         \A s \in Runners : \/ run'[s] = run[s]
                            \/ /\ run'[s].generation = 0 /\ run'[s].pc \notin Leased
                               /\ run'[s].seen <= committed,
         \A y \in wakes' : y.newest <= committed,
         finished' <= committed,
         UNCHANGED <<committed, urgent, handled>>
  PROVE  IInv'
<1>1. Generations'
  BY DEF IInv, Generations
<1>2. Behind'
  BY DEF IInv, Behind
<1>3. OwnedSeen'
  BY <1>1 DEF Generations, OwnedSeen, Holds, Leased
<1> QED BY <1>1, <1>2, <1>3 DEF IInv

\* Disowning keeps every kick a wake stands for.
LEMMA DisownedKept ==
  ASSUME IInv, wakes' = Disowned(wakes), UNCHANGED <<committed, finished>>
  PROVE  /\ wakes' \subseteq Wakes /\ NoKickDropped' /\ \A y \in wakes' : y.newest <= committed
<1>1. wakes \subseteq Wakes /\ \A x \in wakes : x.newest <= committed
  BY DEF IInv, TypeOK, Behind
<1>2. /\ wakes' \subseteq Wakes
      /\ \A x \in wakes : \E y \in wakes' : y.newest = x.newest
      /\ \A y \in wakes' : \E x \in wakes : y.newest = x.newest
  BY <1>1, OwnedWakes
<1>3. NoKickDropped'
  <2> SUFFICES ASSUME committed > finished PROVE \E y \in wakes' : y.newest >= committed
    BY DEF NoKickDropped
  <2>1. PICK x \in wakes : x.newest >= committed
    BY DEF IInv, NoKickDropped
  <2> QED BY <1>2, <2>1
<1> QED BY <1>1, <1>2, <1>3

\* An expired holder's lease is freed while runs stay or one starts.
LEMMA ReapedIInv ==
  ASSUME IInv, Expired, Change(Released, Disowned(wakes)),
         run' \in [Runners -> Runs],
         \A s \in Runners : \/ run'[s] = run[s]
                            \/ /\ run'[s].generation = 0 /\ run'[s].pc \notin Leased
                               /\ run'[s].seen <= committed,
         pending' \in BOOLEAN, alarming' \in BOOLEAN,
         UNCHANGED <<committed, urgent, finished, handled, open, clean, faults, fires, cloudflare>>
  PROVE  IInv'
<1>1. ~clean /\ AlarmArmed' /\ alarm' \in Alarms
  BY CleanLive, ChangeArms
<1>2. Covered' /\ CleanLease'
  BY <1>1 DEF Covered, CleanLease
<1>3. lease' = Released /\ wakes' = Disowned(wakes)
  BY DEF Change
<1>4. Released \in Leases /\ Released.holder = 0
  BY ReleasedFree DEF IInv
<1>5. /\ wakes' \subseteq Wakes /\ NoKickDropped' /\ \A y \in wakes' : y.newest <= committed
  BY <1>3, DisownedKept
<1>6. TypeOK'
  BY <1>1, <1>3, <1>4, <1>5 DEF IInv, TypeOK
<1>7. finished <= committed
  BY DEF IInv, Behind
<1> QED BY <1>1, <1>2, <1>3, <1>4, <1>5, <1>6, <1>7, LeaseFreed

\* The sweep that reaps.
LEMMA ReapIInv == ASSUME IInv, Reap PROVE IInv'
<1>1. /\ Expired /\ Change(Released, Disowned(wakes))
      /\ UNCHANGED <<pending, run, committed, urgent, finished, handled, alarming, open, clean,
                     faults, fires, cloudflare>>
  BY DEF Reap, progress, bounds
<1>2. run' \in [Runners -> Runs] /\ pending' \in BOOLEAN /\ alarming' \in BOOLEAN
  BY <1>1 DEF IInv, TypeOK
<1> QED BY <1>1, <1>2, ReapedIInv

\* Bun's wake timer.
LEMMA WakeTimerIInv == ASSUME IInv, NEW r \in Runners, WakeTimer(r) PROVE IInv'
<1>1. /\ run' \in [Runners -> Runs] /\ run'[r].pc = "try" /\ run'[r].generation = 0 /\ run'[r].seen = 0
      /\ \A s \in Runners : s # r => run'[s] = run[s]
  BY Tries DEF IInv, WakeTimer
<1>2. /\ Change(ReapedLease, ReapedWakes)
      /\ UNCHANGED <<pending, committed, urgent, finished, handled, alarming, open, clean, faults,
                     fires, cloudflare>>
  BY DEF WakeTimer, progress, bounds
<1>3. run[r].pc = "idle" /\ run[r].generation = 0
  BY DEF IInv, Generations, Leased, WakeTimer, Ready
<1>4. 0 <= committed
  BY Numbers DEF IInv, TypeOK
<1>5. CASE Expired
  <2>1. Change(Released, Disowned(wakes))
    BY <1>2, <1>5 DEF ReapedLease, ReapedWakes
  <2>2. pending' \in BOOLEAN /\ alarming' \in BOOLEAN
    BY <1>2 DEF IInv, TypeOK
  <2> QED BY <1>1, <1>2, <1>4, <1>5, <2>1, <2>2, ReapedIInv DEF Leased
<1>6. CASE ~Expired
  <2>1. Change(lease, wakes)
    BY <1>2, <1>6 DEF ReapedLease, ReapedWakes
  <2>2. AlarmArmed' /\ alarm' \in Alarms /\ UNCHANGED <<lease, wakes>>
    BY <1>2, <2>1, ChangeArms DEF Change
  <2>3. TypeOK'
    BY <1>1, <1>2, <2>2 DEF IInv, TypeOK
  <2>4. Covered'
    BY <1>1, <1>2, <1>3 DEF IInv, Covered, WillTry, WillSee, WillFind
  <2> QED BY <1>1, <1>2, <1>3, <1>4, <2>2, <2>3, <2>4, RunMovesArmed DEF Leased
<1> QED BY <1>5, <1>6

\* The alarm's transaction: it takes the lease, reaps it, or leaves the flag.
LEMMA AlarmTakeIInv == ASSUME IInv, NEW r \in Runners, AlarmTake(r) PROVE IInv'
<1> DEFINE due == \E x \in wakes : x.due
           takes == due /\ (Free \/ Expired)
           taking == [Idle EXCEPT !.pc = "clear", !.by = "alarm", !.generation = Taken.holder]
<1>1. /\ alarming' = FALSE
      /\ UNCHANGED <<committed, urgent, finished, handled, open, clean, faults, fires, cloudflare>>
  BY DEF AlarmTake, progress, bounds
<1>2. /\ takes => Ready(r) /\ Unused # {} /\ Change(Taken, Owned(ReapedWakes)) /\ run' = [run EXCEPT ![r] = taking]
      /\ ~takes => Change(ReapedLease, ReapedWakes) /\ run' = run
  BY DEF AlarmTake
<1>3. pending' = (pending \/ (due /\ ~takes /\ ~OwnedByHolder))
  BY DEF AlarmTake
<1>4. pending' \in BOOLEAN /\ (pending => pending')
  BY <1>3
<1>5. AlarmArmed' /\ alarm' \in Alarms
  BY <1>1, <1>2, ChangeArms
<1>6. 0 <= committed
  BY Numbers DEF IInv, TypeOK
<1> HIDE DEF due, takes, taking
<1>7. CASE takes
  <2>1. Taken.holder \in 0..MaxGeneration /\ Taken \in Leases
    BY <1>2, <1>7, TakenFresh DEF IInv
  <2> HIDE DEF Taken
  <2>2. /\ taking \in Runs /\ taking.pc = "clear" /\ taking.generation = Taken.holder /\ taking.seen = 0
    BY <2>1, Values DEF Runs, taking
  <2>3. /\ run' \in [Runners -> Runs] /\ run'[r] = taking
        /\ \A s \in Runners : s # r => run'[s] = run[s]
    BY <1>2, <1>7, <2>2, RunUpdated DEF IInv
  <2>4. lease' = Taken /\ wakes' = Owned(ReapedWakes)
    BY <1>2, <1>7 DEF Change
  <2>5. TypeOK'
    BY <1>1, <1>4, <1>5, <2>1, <2>3, <2>4, TakenWakes DEF IInv, TypeOK
  <2>6. clean => Free \/ Holds(r)
    BY <1>7, CleanLive DEF takes
  <2>7. /\ \A x \in wakes : \E y \in wakes' : y.newest = x.newest
        /\ \A y \in wakes' : \E x \in wakes : y.newest = x.newest
    BY <2>4, TakenWakes DEF IInv
  <2> QED BY <1>1, <1>2, <1>5, <1>6, <1>7, <2>2, <2>3, <2>4, <2>5, <2>6, <2>7, LeaseTaken
<1>8. CASE ~takes /\ Expired
  <2>1. Change(Released, Disowned(wakes)) /\ run' = run
    BY <1>2, <1>8 DEF ReapedLease, ReapedWakes
  <2>2. run' \in [Runners -> Runs] /\ alarming' \in BOOLEAN
    BY <1>1, <2>1 DEF IInv, TypeOK
  <2> QED BY <1>1, <1>4, <1>8, <2>1, <2>2, ReapedIInv
<1>9. CASE ~takes /\ ~Expired
  <2>1. Change(lease, wakes) /\ run' = run
    BY <1>2, <1>9 DEF ReapedLease, ReapedWakes
  <2>2. UNCHANGED <<lease, wakes>>
    BY <2>1 DEF Change
  <2>3. TypeOK'
    BY <1>1, <1>4, <1>5, <2>1, <2>2 DEF IInv, TypeOK
  <2>4. Covered'
    BY <1>1, <1>4, <2>1 DEF IInv, Covered, WillTry, WillSee, WillFind
  <2>5. Generations' /\ Behind' /\ OwnedSeen' /\ CleanLease' /\ NoKickDropped'
    BY <1>1, <2>1, <2>2
    DEF IInv, Generations, Behind, OwnedSeen, CleanLease, NoKickDropped, Free, Holds
  <2> QED BY <1>5, <2>3, <2>4, <2>5 DEF IInv
<1> QED BY <1>7, <1>8, <1>9

\* The wakes a finish leaves: what it owned is retried, or was seen and is gone.
LEMMA FinishedWakes ==
  ASSUME IInv, NEW r \in Runners, Finish(r), Holds(r)
  PROVE  /\ wakes' \subseteq Wakes /\ NoKickDropped' /\ \A y \in wakes' : y.newest <= committed
<1> DEFINE left == IF Again(r) THEN Retried ELSE Completed
<1>1. /\ run[r] \in Runs /\ run[r].pc = "ended" /\ (run[r].durable \/ ~Again(r))
      /\ wakes' = Disowned(left) /\ committed' = committed
      /\ finished' = IF Again(r) \/ run[r].seen < finished THEN finished ELSE run[r].seen
  BY DEF IInv, TypeOK, Finish, Change
<1>2. wakes \subseteq Wakes /\ committed \in Nat /\ finished \in Nat /\ run[r].seen \in Nat
      /\ \A x \in wakes : x.newest \in Nat /\ x.newest <= committed
  BY <1>1, Numbers DEF IInv, TypeOK, Behind, Wakes, Runs
<1>3. /\ \A x \in wakes : x.owned => x.newest <= run[r].seen
      /\ run[r].durable => \A x \in wakes : x.owned => x.attempt < run[r].attempt
  BY <1>1 DEF IInv, OwnedSeen
<1>4. /\ left \subseteq Wakes
      /\ \A y \in left : y.newest <= committed
      /\ \A x \in wakes : x.newest > finished' => \E y \in left : y.newest = x.newest
  <2>1. CASE Again(r)
    <3>1. \A x \in wakes : x.owned => x.attempt + 1 \in 0..Retries
      <4> SUFFICES ASSUME NEW x \in wakes, x.owned PROVE x.attempt + 1 \in 0..Retries
        OBVIOUS
      <4>1. x.attempt < run[r].attempt /\ run[r].attempt <= Retries
        BY <1>1, <1>3, <2>1 DEF Again
      <4>2. x.attempt \in 0..Retries /\ run[r].attempt \in 0..(Retries + 1)
        BY <1>1, <1>2 DEF Wakes, Runs
      <4> QED BY <4>1, <4>2, Numbers
    <3> DEFINE later(x) == IF x.owned THEN [x EXCEPT !.due = FALSE, !.attempt = @ + 1] ELSE x
    <3>2. \A x \in wakes : later(x) \in Wakes /\ later(x).newest = x.newest
      <4> SUFFICES ASSUME NEW x \in wakes PROVE later(x) \in Wakes /\ later(x).newest = x.newest
        OBVIOUS
      <4>1. x \in Wakes
        BY <1>2
      <4>2. CASE x.owned
        BY <3>1, <4>1, <4>2 DEF Wakes
      <4>3. CASE ~x.owned
        BY <4>1, <4>3
      <4> QED BY <4>2, <4>3
    <3>3. left = {later(x) : x \in wakes}
      BY <2>1 DEF Retried
    <3> HIDE DEF later
    <3> QED BY <1>2, <3>2, <3>3
  <2>2. CASE ~Again(r)
    <3>1. left = {x \in wakes : ~x.owned}
                 \cup {Wake("cron", FALSE) : x \in {y \in wakes : y.owned /\ y.key = "cron"}}
      BY <2>2 DEF Completed
    <3>2. Wake("cron", FALSE) \in Wakes /\ Wake("cron", FALSE).newest = 0
      BY Values
    <3> HIDE DEF left
    <3>3. left \subseteq Wakes /\ \A y \in left : y.newest <= committed
      <4> DEFINE cron == Wake("cron", FALSE)
      <4>1. \A y \in left : y \in wakes \/ y = cron
        BY <3>1
      <4>2. cron \in Wakes /\ cron.newest = 0
        BY <3>2
      <4> HIDE DEF cron
      <4>3. cron.newest <= committed
        BY <1>2, <4>2
      <4> QED BY <1>2, <4>1, <4>2, <4>3
    <3>4. \A x \in wakes : x.newest > finished' => ~x.owned
      BY <1>1, <1>2, <1>3, <2>2
    <3> QED BY <3>1, <3>3, <3>4
  <2> QED BY <2>1, <2>2
<1> HIDE DEF left
<1>5. /\ Disowned(left) \subseteq Wakes
      /\ \A x \in left : \E y \in Disowned(left) : y.newest = x.newest
      /\ \A y \in Disowned(left) : \E x \in left : y.newest = x.newest
  BY <1>4, OwnedWakes
<1>6. \A y \in wakes' : y.newest <= committed
  BY <1>1, <1>4, <1>5
<1>7. NoKickDropped'
  <2> SUFFICES ASSUME committed > finished' PROVE \E y \in wakes' : y.newest >= committed
    BY <1>1 DEF NoKickDropped
  <2>1. finished' >= finished /\ finished' \in Nat
    BY <1>1, <1>2
  <2>2. PICK x \in wakes : x.newest >= committed
    BY <1>2, <2>1 DEF IInv, NoKickDropped
  <2>3. x.newest > finished'
    BY <1>2, <2>1, <2>2
  <2>4. PICK z \in left : z.newest = x.newest
    BY <1>4, <2>3
  <2> QED BY <1>1, <1>5, <2>2, <2>4
<1> QED BY <1>1, <1>5, <1>6, <1>7

\* A run finishes: what it could not see is pending, and the flag is still to be taken.
LEMMA FinishIInv == ASSUME IInv, NEW r \in Runners, Finish(r) PROVE IInv'
<1>1. run[r] \in Runs /\ run[r].pc = "ended" /\ run[r].seen <= committed /\ run[r].generation # 0
  BY DEF IInv, TypeOK, Behind, Finish, Generations, Leased
<1>2. UNCHANGED <<pending, committed, urgent, handled, alarming, open, clean, faults, fires, cloudflare>>
  BY DEF Finish, bounds
<1>3. 0 <= committed
  BY Numbers DEF IInv, TypeOK
<1>4. CASE Holds(r)
  <2> DEFINE after == [Idle EXCEPT !.pc = "after", !.by = run[r].by]
             next == IF run[r].outcome = "ok" THEN after ELSE Idle
  <2>1. /\ after \in Runs /\ after.pc = "after" /\ after.generation = 0 /\ after.seen = 0
    BY <1>1, Values DEF Runs
  <2>2. run' = [run EXCEPT ![r] = next]
    BY <1>4 DEF Finish
  <2> HIDE DEF after
  <2>3. /\ next \in Runs /\ next.generation = 0 /\ next.seen = 0 /\ next.pc \in {"idle", "after"}
        /\ run[r].outcome = "ok" => next.pc = "after"
    BY <2>1, Values
  <2> HIDE DEF next
  <2>4. /\ run' \in [Runners -> Runs] /\ run'[r] = next
        /\ \A s \in Runners : s # r => run'[s] = run[s]
    BY <2>2, <2>3, RunUpdated DEF IInv
  <2>5. /\ Change(Released, Disowned(IF Again(r) THEN Retried ELSE Completed))
        /\ finished' = IF Again(r) \/ run[r].seen < finished THEN finished ELSE run[r].seen
    BY <1>4 DEF Finish
  <2>6. lease' = Released /\ Released \in Leases /\ Released.holder = 0 /\ Released.time = "live"
    BY <2>5, ReleasedFree DEF Change, IInv
  <2>7. AlarmArmed' /\ alarm' \in Alarms
    BY <1>2, <2>5, ChangeArms
  <2>8. wakes' \subseteq Wakes /\ NoKickDropped' /\ \A y \in wakes' : y.newest <= committed
    BY <1>4, FinishedWakes
  <2>9. finished' \in 0..MaxKicks /\ finished' <= committed
    BY <1>1, <2>5 DEF IInv, TypeOK, Behind, Runs
  <2>10. TypeOK'
    BY <1>2, <2>4, <2>6, <2>7, <2>8, <2>9 DEF IInv, TypeOK
  <2>11. CleanLease'
    <3> SUFFICES ASSUME clean PROVE CleanLease'
      BY <1>2 DEF CleanLease
    <3>1. \A s \in Runners : run'[s].pc \notin Leased
      <4> SUFFICES ASSUME NEW s \in Runners, run'[s].pc \in Leased PROVE FALSE
        OBVIOUS
      <4>1. s # r
        BY <2>3, <2>4 DEF Leased
      <4>2. run[s].pc \in Leased
        BY <2>4, <4>1
      <4>3. run[s].generation = run[r].generation
        BY <1>4, <4>2 DEF IInv, CleanLease, Holds
      <4> QED BY <1>1, <4>1, <4>3 DEF IInv, Generations
    <3> QED BY <2>6, <3>1 DEF CleanLease, Free, Leased
  <2>12. Covered'
    <3> SUFFICES ASSUME clean, urgent > finished'
                 PROVE  \E s \in Runners : WillTry(s)' \/ WillSee(s)' \/ (pending' /\ WillFind(s)')
      BY <1>2 DEF Covered
    <3>1. run[r].outcome = "ok"
      BY <1>1 DEF IInv, CleanLease
    <3>2. urgent > finished /\ ~(run[r].seen >= urgent)
      BY <1>1, <2>5, <3>1, Numbers DEF Again, IInv, TypeOK, Runs
    <3>3. PICK s \in Runners : WillTry(s) \/ WillSee(s) \/ (pending /\ WillFind(s))
      BY <3>2 DEF IInv, Covered
    <3>4. CASE s = r
      <4>1. pending
        BY <1>1, <3>2, <3>3, <3>4 DEF WillTry, WillSee
      <4> QED BY <1>2, <2>3, <2>4, <3>1, <4>1 DEF WillFind
    <3>5. CASE s # r
      BY <1>2, <2>4, <3>3, <3>5 DEF WillTry, WillSee, WillFind
    <3> QED BY <3>4, <3>5
  <2> QED BY <1>2, <1>3, <2>3, <2>4, <2>6, <2>7, <2>8, <2>9, <2>10, <2>11, <2>12, LeaseFreed DEF Leased
<1>5. CASE ~Holds(r)
  <2>1. run' = [run EXCEPT ![r] = Idle] /\ UNCHANGED <<lease, wakes, alarm, finished>>
    BY <1>5 DEF Finish
  <2>2. /\ run' \in [Runners -> Runs] /\ run'[r] = Idle
        /\ \A s \in Runners : s # r => run'[s] = run[s]
    BY <2>1, RunUpdated, Values DEF IInv
  <2>3. TypeOK'
    BY <1>2, <2>1, <2>2 DEF IInv, TypeOK
  <2>4. ~clean
    BY <1>1, <1>5 DEF IInv, CleanLease, Leased
  <2>5. Covered'
    BY <1>2, <2>4 DEF Covered
  <2> QED BY <1>2, <1>3, <2>1, <2>2, <2>3, <2>4, <2>5, Values, RunMoves DEF Leased
<1> QED BY <1>4, <1>5

\* A stopped run gives its lease back and leaves its wakes.
LEMMA StoppedIInv == ASSUME IInv, NEW r \in Runners, Stopped(r) PROVE IInv'
<1>1. /\ clean' = FALSE /\ faults' \in 0..MaxFaults /\ fires' = fires /\ cloudflare' = cloudflare
      /\ Covered' /\ CleanLease'
  BY FaultUnclean DEF IInv, Stopped
<1>2. UNCHANGED <<pending, committed, urgent, finished, handled, alarming, open>>
  BY DEF Stopped, progress
<1>3. /\ run' \in [Runners -> Runs] /\ run'[r] = Idle
      /\ \A s \in Runners : s # r => run'[s] = run[s]
  BY RunUpdated, Values DEF IInv, Stopped
<1>4. 0 <= committed /\ finished <= committed
  BY Numbers DEF IInv, TypeOK, Behind
<1>5. CASE Holds(r)
  <2>1. Change(Released, Disowned(wakes))
    BY <1>5 DEF Stopped
  <2>2. lease' = Released /\ Released \in Leases /\ Released.holder = 0 /\ wakes' = Disowned(wakes)
    BY <2>1, ReleasedFree DEF Change, IInv
  <2>3. AlarmArmed' /\ alarm' \in Alarms
    BY <1>1, <2>1, ChangeArms
  <2>4. wakes' \subseteq Wakes /\ NoKickDropped' /\ \A y \in wakes' : y.newest <= committed
    BY <1>2, <2>2, DisownedKept
  <2>5. TypeOK'
    BY <1>1, <1>2, <1>3, <2>2, <2>3, <2>4 DEF IInv, TypeOK
  <2> QED BY <1>1, <1>2, <1>3, <1>4, <2>2, <2>3, <2>4, <2>5, Values, LeaseFreed DEF Leased
<1>6. CASE ~Holds(r)
  <2>1. UNCHANGED <<lease, wakes, alarm>>
    BY <1>6 DEF Stopped
  <2>2. TypeOK'
    BY <1>1, <1>2, <1>3, <2>1 DEF IInv, TypeOK
  <2> QED BY <1>1, <1>2, <1>3, <1>4, <2>1, <2>2, Values, RunMoves DEF Leased
<1> QED BY <1>5, <1>6

----------------------------------------------------------------------------
(* Kicks, time and the alarm *)

\* Scheduling a kick leaves one wake for it and disowns the wake it joined.
LEMMA ScheduledWakes ==
  ASSUME TypeOK, NEW key \in Keys, NEW due \in BOOLEAN, NEW kick \in 0..MaxKicks
  PROVE  /\ Scheduled(key, due, kick) \subseteq Wakes
         /\ \E y \in Scheduled(key, due, kick) : y.newest = kick
         /\ \A y \in Scheduled(key, due, kick) : y \in wakes \/ (y.newest = kick /\ ~y.owned)
<1> DEFINE same == {x \in wakes : x.key = key}
           new == [Wake(key, due) EXCEPT !.newest = kick]
           joined(x) == [x EXCEPT !.due = @ \/ due, !.owned = FALSE, !.newest = kick]
<1>1. wakes \subseteq Wakes
  BY DEF TypeOK
<1>2. CASE same = {}
  <2>1. Scheduled(key, due, kick) = wakes \cup {new}
    BY <1>2 DEF Scheduled
  <2>2. Wake(key, due) \in Wakes /\ ~Wake(key, due).owned
    BY Values
  <2>3. new \in Wakes /\ new.newest = kick /\ ~new.owned
    BY <2>2 DEF Wakes
  <2> QED BY <1>1, <2>1, <2>3
<1>3. CASE same # {}
  <2>1. Scheduled(key, due, kick) = (wakes \ same) \cup {joined(x) : x \in same}
    BY <1>3 DEF Scheduled
  <2>2. \A x \in wakes : joined(x) \in Wakes /\ joined(x).newest = kick /\ ~joined(x).owned
    <3> SUFFICES ASSUME NEW x \in wakes
                 PROVE  joined(x) \in Wakes /\ joined(x).newest = kick /\ ~joined(x).owned
      OBVIOUS
    <3>1. x \in Wakes /\ (x.due \/ due) \in BOOLEAN
      BY <1>1
    <3> QED BY <3>1 DEF Wakes
  <2> HIDE DEF joined
  <2>3. same \subseteq wakes
    OBVIOUS
  <2>4. \E x \in same : TRUE
    BY <1>3
  <2> HIDE DEF same
  <2> QED BY <1>1, <2>1, <2>2, <2>3, <2>4
<1> QED BY <1>2, <1>3

\* A kick is committed, and a run may start for it.
LEMMA KickAdded ==
  ASSUME IInv, TypeOK', Covered', AlarmArmed',
         committed' = committed + 1, urgent' <= committed + 1,
         UNCHANGED <<lease, finished, handled, clean>>,
         \E y \in wakes' : y.newest = committed + 1,
         \A y \in wakes' : y \in wakes \/ (y.newest = committed + 1 /\ ~y.owned),
         \A s \in Runners : \/ run'[s] = run[s]
                            \/ /\ run[s].pc = "idle" /\ run'[s].pc = "try"
                               /\ run'[s].generation = 0 /\ run'[s].seen = 0
  PROVE  IInv'
<1>1. committed \in Nat /\ finished \in Nat /\ handled \in Nat /\ committed' \in Nat
      /\ committed <= committed' /\ 0 <= committed'
      /\ \A s \in Runners : run[s].seen \in Nat
  BY Numbers DEF IInv, TypeOK, Runs
<1>2. \A x \in wakes : x.newest \in Nat
  BY Numbers DEF IInv, TypeOK, Wakes
<1>3. Generations'
  BY DEF IInv, Generations, Leased
<1>4. Behind'
  <2>1. finished' <= committed' /\ handled' <= committed' /\ urgent' <= committed'
    BY <1>1 DEF IInv, Behind
  <2>2. \A s \in Runners : run'[s].seen <= committed'
    BY <1>1 DEF IInv, Behind
  <2>3. \A y \in wakes' : y.newest <= committed'
    BY <1>1, <1>2 DEF IInv, Behind
  <2> QED BY <2>1, <2>2, <2>3 DEF Behind
<1>5. OwnedSeen'
  BY DEF IInv, OwnedSeen, Holds
<1>6. CleanLease'
  BY DEF IInv, CleanLease, Holds, Free, Leased
<1>7. NoKickDropped'
  BY <1>1 DEF NoKickDropped
<1> QED BY <1>3, <1>4, <1>5, <1>6, <1>7 DEF IInv

\* A kick sent at once.
LEMMA KickIInv == ASSUME IInv, NEW r \in Runners, NEW key \in Keys, Kick(r, key) PROVE IInv'
<1>1. /\ run[r].pc = "idle" /\ committed < MaxKicks
      /\ committed' = committed + 1 /\ urgent' = committed + 1
      /\ UNCHANGED <<pending, finished, handled, alarming, open, clean, faults, fires, cloudflare>>
  BY DEF Kick, Ready, bounds
<1>2. committed + 1 \in 0..MaxKicks /\ committed + 1 <= committed + 1
  BY <1>1, Numbers DEF IInv, TypeOK
<1>3. Change(lease, Scheduled(key, TRUE, committed + 1))
  BY DEF Kick
<1>4. AlarmArmed' /\ alarm' \in Alarms
  BY <1>1, <1>3, ChangeArms
<1>5. lease' = lease /\ wakes' = Scheduled(key, TRUE, committed + 1)
  BY <1>3 DEF Change
<1>6. /\ wakes' \subseteq Wakes
      /\ \E y \in wakes' : y.newest = committed + 1
      /\ \A y \in wakes' : y \in wakes \/ (y.newest = committed + 1 /\ ~y.owned)
  BY <1>2, <1>5, ScheduledWakes DEF IInv
<1>7. /\ run' \in [Runners -> Runs] /\ run'[r].pc = "try" /\ run'[r].goal = "first" /\ run'[r].by = "kick"
      /\ run'[r].generation = 0 /\ run'[r].seen = 0
      /\ \A s \in Runners : s # r => run'[s] = run[s]
  BY Tries DEF IInv, Kick
<1>8. TypeOK'
  BY <1>1, <1>2, <1>4, <1>5, <1>6, <1>7 DEF IInv, TypeOK
<1>9. Covered'
  BY <1>7 DEF Covered, WillTry
<1> QED BY <1>1, <1>2, <1>4, <1>5, <1>6, <1>7, <1>8, <1>9, KickAdded

\* A kick with a due time.
LEMMA KickAtIInv == ASSUME IInv, NEW key \in Keys, KickAt(key) PROVE IInv'
<1>1. /\ committed < MaxKicks /\ committed' = committed + 1
      /\ UNCHANGED <<pending, run, urgent, finished, handled, alarming, open, clean, faults, fires, cloudflare>>
  BY DEF KickAt, bounds
<1>2. committed + 1 \in 0..MaxKicks /\ urgent <= committed + 1
  BY <1>1, Numbers DEF IInv, TypeOK, Behind
<1>3. Change(lease, Scheduled(key, FALSE, committed + 1))
  BY DEF KickAt
<1>4. AlarmArmed' /\ alarm' \in Alarms
  BY <1>1, <1>3, ChangeArms
<1>5. lease' = lease /\ wakes' = Scheduled(key, FALSE, committed + 1)
  BY <1>3 DEF Change
<1>6. /\ wakes' \subseteq Wakes
      /\ \E y \in wakes' : y.newest = committed + 1
      /\ \A y \in wakes' : y \in wakes \/ (y.newest = committed + 1 /\ ~y.owned)
  BY <1>2, <1>5, ScheduledWakes DEF IInv
<1>7. TypeOK'
  BY <1>1, <1>2, <1>4, <1>5, <1>6 DEF IInv, TypeOK
<1>8. Covered'
  BY <1>1 DEF IInv, Covered, WillTry, WillSee, WillFind
<1> QED BY <1>1, <1>2, <1>4, <1>5, <1>6, <1>7, <1>8, KickAdded

\* Time reaches a wake.
LEMMA BecomesDueIInv == ASSUME IInv, NEW x \in wakes, BecomesDue(x) PROVE IInv'
<1> DEFINE due == [x EXCEPT !.due = TRUE]
<1>1. UNCHANGED <<lease, pending, run, committed, urgent, finished, handled, alarm, alarming, open,
                  clean, faults, cloudflare>>
  BY DEF BecomesDue, progress, object
<1>2. due \in Wakes /\ due.newest = x.newest /\ due.owned = x.owned /\ due.attempt = x.attempt
  BY DEF IInv, TypeOK, Wakes
<1>3. wakes' = (wakes \ {x}) \cup {due}
  BY DEF BecomesDue
<1>4. fires' \in 0..MaxFires
  BY Numbers DEF BecomesDue, IInv, TypeOK
<1> HIDE DEF due
<1>5. TypeOK'
  BY <1>1, <1>2, <1>3, <1>4 DEF IInv, TypeOK
<1>6. \A y \in wakes' : \E z \in wakes : y.newest = z.newest /\ y.owned = z.owned /\ y.attempt = z.attempt
  BY <1>2, <1>3
<1>7. \A z \in wakes : \E y \in wakes' : y.newest = z.newest
  BY <1>2, <1>3
<1>8. Generations' /\ CleanLease' /\ Covered'
  BY <1>1 DEF IInv, Generations, CleanLease, Covered, WillTry, WillSee, WillFind, Holds, Free
<1>9. Behind'
  BY <1>1, <1>6 DEF IInv, Behind
<1>10. OwnedSeen'
  <2> SUFFICES ASSUME NEW r \in Runners, run[r].pc \in {"work", "ended"}, Holds(r)
               PROVE  /\ \A y \in wakes' : y.owned => y.newest <= run[r].seen
                      /\ run[r].pc = "work" => handled <= run[r].seen
                      /\ run[r].durable => \A y \in wakes' : y.owned => y.attempt < run[r].attempt
    BY <1>1 DEF OwnedSeen, Holds
  <2>1. /\ \A z \in wakes : z.owned => z.newest <= run[r].seen
        /\ run[r].pc = "work" => handled <= run[r].seen
        /\ run[r].durable => \A z \in wakes : z.owned => z.attempt < run[r].attempt
    BY DEF IInv, OwnedSeen
  <2> QED BY <1>6, <2>1
<1>11. NoKickDropped'
  <2> SUFFICES ASSUME committed > finished PROVE \E y \in wakes' : y.newest >= committed
    BY <1>1 DEF NoKickDropped
  <2>1. PICK z \in wakes : z.newest >= committed
    BY DEF IInv, NoKickDropped
  <2> QED BY <1>7, <2>1
<1>12. AlarmArmed'
  BY <1>1 DEF IInv, AlarmArmed, Free
<1> QED BY <1>5, <1>8, <1>9, <1>10, <1>11, <1>12 DEF IInv

\* The alarm fires, is refused or missed, or is armed by opening: no state but its own.
LEMMA AlarmOnly ==
  ASSUME IInv, alarm' \in Alarms, alarming' \in BOOLEAN, open' \in BOOLEAN, AlarmArmed',
         clean' = clean \/ clean' = FALSE, faults' \in 0..MaxFaults,
         UNCHANGED <<lease, wakes, pending, run, committed, urgent, finished, handled, fires, cloudflare>>
  PROVE  IInv'
<1>1. TypeOK'
  BY DEF IInv, TypeOK
<1>2. Generations' /\ CleanLease' /\ Covered'
  BY DEF IInv, Generations, CleanLease, Covered, WillTry, WillSee, WillFind, Holds, Free
<1>3. Behind' /\ OwnedSeen' /\ NoKickDropped'
  BY DEF IInv, Behind, OwnedSeen, NoKickDropped, Holds
<1> QED BY <1>1, <1>2, <1>3 DEF IInv

\* The alarm's own steps.
LEMMA AlarmIInv ==
  ASSUME IInv, AlarmFires \/ AlarmRefused \/ Reopen \/ ArmReopened
  PROVE  IInv'
<1>1. UNCHANGED <<lease, wakes, pending, run, committed, urgent, finished, handled, clean, faults,
                  fires, cloudflare>>
  BY DEF AlarmFires, AlarmRefused, Reopen, ArmReopened, store, progress, bounds
<1>2. alarm' \in Alarms /\ alarming' \in BOOLEAN /\ open' \in BOOLEAN /\ faults' \in 0..MaxFaults
  BY <1>1 DEF IInv, TypeOK, AlarmFires, AlarmRefused, Reopen, ArmReopened, Alarms
<1>3. AlarmArmed'
  BY DEF AlarmFires, AlarmRefused, Reopen, ArmReopened, AlarmArmed
<1> QED BY <1>1, <1>2, <1>3, AlarmOnly

\* An alarm that is missed counts as one.
LEMMA MissedIInv ==
  ASSUME IInv, ArmMissed \/ AlarmFails
  PROVE  IInv'
<1>1. clean' = FALSE /\ faults' \in 0..MaxFaults /\ fires' = fires /\ cloudflare' = cloudflare
  BY FaultUnclean DEF IInv, ArmMissed, AlarmFails
<1>2. UNCHANGED <<lease, wakes, pending, run, committed, urgent, finished, handled>>
  BY DEF ArmMissed, AlarmFails, store, progress
<1>3. alarm' \in {"set", "missed"} /\ alarming' \in BOOLEAN /\ open' \in BOOLEAN
  BY DEF IInv, TypeOK, ArmMissed, AlarmFails
<1>4. alarm' \in Alarms /\ AlarmArmed'
  BY <1>3 DEF Alarms, AlarmArmed
<1> QED BY <1>1, <1>2, <1>3, <1>4, AlarmOnly

\* The repair keeps the wakes, and arms the alarm.
LEMMA RepairIInv == ASSUME IInv, Repair PROVE IInv'
<1> DEFINE cron == Wake("cron", FALSE)
<1>1. cron \in Wakes /\ cron.newest = 0 /\ ~cron.owned
  BY Values
<1> HIDE DEF cron
<1>2. PICK w \in SUBSET Wakes : /\ Change(lease, w) /\ wakes \subseteq w
                              /\ \A x \in w : x \in wakes \/ (x.newest = 0 /\ ~x.owned)
  <2>1. Change(lease, wakes) \/ Change(lease, wakes \cup {cron})
    BY DEF Repair, cron
  <2>2. wakes \subseteq Wakes
    BY DEF IInv, TypeOK
  <2> QED BY <1>1, <2>1, <2>2
<1>3. /\ lease' = lease /\ wakes' = w
      /\ UNCHANGED <<pending, run, committed, urgent, finished, handled, alarming, open, clean, faults, fires, cloudflare>>
  BY <1>2 DEF Repair, Change, progress, bounds
<1>4. AlarmArmed' /\ alarm' \in Alarms
  BY <1>2, <1>3, ChangeArms
<1>5. TypeOK'
  BY <1>2, <1>3, <1>4 DEF IInv, TypeOK
<1>6. Generations' /\ CleanLease' /\ Covered'
  BY <1>3 DEF IInv, Generations, CleanLease, Covered, WillTry, WillSee, WillFind, Holds, Free
<1>7. Behind' /\ NoKickDropped'
  <2>1. 0 <= committed
    BY Numbers DEF IInv, TypeOK
  <2> QED BY <1>2, <1>3, <2>1 DEF IInv, Behind, NoKickDropped
<1>8. OwnedSeen'
  BY <1>2, <1>3 DEF IInv, OwnedSeen, Holds
<1> QED BY <1>4, <1>5, <1>6, <1>7, <1>8 DEF IInv

\* A deadline or an expiry passes: by itself only where no run holds the lease.
LEMMA LeaseTimeIInv == ASSUME IInv, LeaseTime PROVE IInv'
<1>1. /\ ~Free /\ lease' = [lease EXCEPT !.time = IF lease.time = "live" THEN "late" ELSE "expired"]
      /\ UNCHANGED <<wakes, pending, run, committed, urgent, finished, handled, alarm, alarming, open>>
  BY DEF LeaseTime, progress, object
<1>2. lease' \in Leases /\ lease'.holder = lease.holder
  BY <1>1 DEF IInv, TypeOK, Leases
<1>3. clean' = FALSE /\ faults' \in 0..MaxFaults /\ fires' = fires /\ cloudflare' = cloudflare
  <2>1. CASE Held
    BY <2>1, FaultUnclean DEF IInv, LeaseTime
  <2>2. CASE ~Held
    <3>1. ~clean
      BY <1>1, <2>2 DEF IInv, CleanLease, Held, Ready, Leased
    <3> QED BY <2>2, <3>1 DEF LeaseTime, bounds, IInv, TypeOK
  <2> QED BY <2>1, <2>2
<1>4. TypeOK'
  BY <1>1, <1>2, <1>3 DEF IInv, TypeOK
<1>5. Generations' /\ Behind' /\ OwnedSeen' /\ NoKickDropped' /\ AlarmArmed'
  BY <1>1, <1>2, <1>3 DEF IInv, Generations, Behind, OwnedSeen, NoKickDropped, AlarmArmed, Holds, Free
<1>6. CleanLease' /\ Covered'
  BY <1>3 DEF CleanLease, Covered
<1> QED BY <1>4, <1>5, <1>6 DEF IInv

\* Maintenance stops every run.
LEMMA RestrictIInv == ASSUME IInv, Restrict PROVE IInv'
<1>1. /\ clean' = FALSE /\ faults' \in 0..MaxFaults /\ fires' = fires /\ cloudflare' = cloudflare
      /\ Covered' /\ CleanLease'
  BY FaultUnclean DEF IInv, Restrict
<1>2. /\ open' = FALSE /\ run' = [r \in Runners |-> Idle]
      /\ UNCHANGED <<lease, wakes, pending, committed, urgent, finished, handled, alarming>> /\ alarm' \in Alarms
  BY DEF Restrict, store, progress, Alarm, Alarms
<1>3. run' \in [Runners -> Runs] /\ \A r \in Runners : run'[r] = Idle
  BY <1>2, Values
<1>4. TypeOK' /\ 0 <= committed
  <2>1. open' \in BOOLEAN /\ clean' \in BOOLEAN
    BY <1>1, <1>2
  <2>2. 0 <= committed
    BY Numbers DEF IInv, TypeOK
  <2> QED BY <1>1, <1>2, <1>3, <2>1, <2>2 DEF IInv, TypeOK
<1>5. Generations' /\ OwnedSeen'
  BY <1>3, Values DEF Generations, OwnedSeen, Leased
<1>6. Behind'
  BY <1>2, <1>3, <1>4, Values DEF IInv, Behind
<1>7. NoKickDropped' /\ AlarmArmed'
  BY <1>2 DEF IInv, NoKickDropped, AlarmArmed
<1> QED BY <1>1, <1>4, <1>5, <1>6, <1>7 DEF IInv

----------------------------------------------------------------------------
(* The inductive invariant *)

\* Every step of a run, of its platform and of its faults keeps the invariant.
LEMMA NextIInv == ASSUME IInv, [Next]_vars PROVE IInv'
<1>1. ASSUME NEW r \in Runners, RunStep(r) PROVE IInv'
  <2>1. CASE \E o \in {"ok", "failed", "final"} : Outcome(r, o)
    BY <2>1, OutcomeIInv
  <2>2. CASE MarkPending(r) \/ Acquire(r) \/ Skipped(r) \/ ClearPending(r) \/ Attempt(r)
    BY <2>2, MarkPendingIInv, AcquireIInv, SkippedIInv, ClearPendingIInv, AttemptIInv
  <2>3. CASE Renew(r) \/ Finish(r) \/ TakePending(r)
    BY <2>3, RenewIInv, FinishIInv, TakePendingIInv
  <2> QED BY <1>1, <2>1, <2>2, <2>3 DEF RunStep
<1>2. ASSUME NEW r \in Runners,
             HandlerCommit(r) \/ Crontab(r) \/ WakeTimer(r) \/ AlarmTake(r) \/ Crash(r) \/ Stopped(r)
      PROVE  IInv'
  BY <1>2, HandlerCommitIInv, CrontabIInv, WakeTimerIInv, AlarmTakeIInv, CrashIInv, StoppedIInv
<1>3. ASSUME NEW r \in Runners, NEW key \in Keys, Kick(r, key) PROVE IInv'
  BY <1>3, KickIInv
<1>4. ASSUME NEW key \in Keys, KickAt(key) PROVE IInv'
  BY <1>4, KickAtIInv
<1>5. ASSUME NEW x \in wakes, BecomesDue(x) PROVE IInv'
  BY <1>5, BecomesDueIInv
<1>6. CASE \/ Reap \/ Repair \/ AlarmFires \/ AlarmRefused \/ AlarmFails \/ LeaseTime
           \/ Restrict \/ Reopen \/ ArmReopened \/ ArmMissed
  BY <1>6, ReapIInv, RepairIInv, AlarmIInv, MissedIInv, LeaseTimeIInv, RestrictIInv
<1>7. CASE UNCHANGED vars
  <2>1. /\ UNCHANGED <<lease, wakes, pending, run, committed, urgent, finished, handled, clean,
                       faults, fires, cloudflare>>
        /\ UNCHANGED <<alarm, alarming, open>>
    BY <1>7 DEF vars
  <2>2. alarm' \in Alarms /\ alarming' \in BOOLEAN /\ open' \in BOOLEAN /\ faults' \in 0..MaxFaults
    BY <2>1 DEF IInv, TypeOK
  <2>3. AlarmArmed'
    BY <2>1 DEF IInv, AlarmArmed, Free
  <2> QED BY <2>1, <2>2, <2>3, AlarmOnly
<1> QED BY <1>1, <1>2, <1>3, <1>4, <1>5, <1>6, <1>7 DEF Next

\* The invariant holds in every behaviour.
LEMMA InductiveInvariant == Spec => []IInv
BY InitIInv, NextIInv, PTL DEF Spec

----------------------------------------------------------------------------
(* Theorems *)

\* Type correctness: in particular a wake's attempts never pass the declared retries.
THEOREM TypeCorrect == Spec => []TypeOK
<1>1. IInv => TypeOK
  BY DEF IInv
<1> QED BY <1>1, InductiveInvariant, PTL

\* A kick is never dropped: a run that finishes consumes only wakes whose kicks its attempt could see.
THEOREM KicksKept == Spec => []NoKickDropped
<1>1. IInv => NoKickDropped
  BY DEF IInv
<1> QED BY <1>1, InductiveInvariant, PTL

\* An open object with work ahead has its alarm set, being handled or owed by the request that opened it, unless
\* it was missed: no interleaving of runs, kicks, alarms and maintenance loses it without a failure.
THEOREM AlarmKept == Spec => []AlarmArmed
<1>1. IInv => AlarmArmed
  BY DEF IInv
<1> QED BY <1>1, InductiveInvariant, PTL

\* Without a failure a kick is served before the last run ends, whatever the interleaving of kicks, the
\* flag and the lease.
THEOREM ServedAtOnce == Spec => []PromptKick
<1>1. IInv => PromptKick
  <2> SUFFICES ASSUME IInv, clean, \A r \in Runners : Ready(r) PROVE finished >= urgent
    BY DEF PromptKick
  <2>1. ~(urgent > finished)
    BY DEF IInv, Covered, WillTry, WillSee, WillFind, Ready
  <2> QED BY <2>1, Numbers DEF IInv, TypeOK
<1> QED BY <1>1, InductiveInvariant, PTL

\* What the job's writes reflect never goes back: only the attempt holding the lease commits, and it saw
\* at least as much as every earlier commit.
THEOREM WritesGrow == Spec => HandledGrows
<1>1. IInv /\ [Next]_vars => [handled' >= handled]_vars
  <2> SUFFICES ASSUME IInv, Next PROVE handled' >= handled
    OBVIOUS
  <2>1. handled \in Nat
    BY Numbers DEF IInv, TypeOK
  <2>2. ASSUME NEW r \in Runners, HandlerCommit(r) PROVE handled' >= handled
    <3>1. run[r].pc = "work" /\ Holds(r) /\ handled' = run[r].seen
      BY <2>2 DEF HandlerCommit
    <3>2. run[r].seen \in Nat
      BY Numbers DEF IInv, TypeOK, Runs
    <3> QED BY <2>1, <3>1, <3>2 DEF IInv, OwnedSeen
  <2>3. ASSUME NEW r \in Runners, RunStep(r) PROVE handled' = handled
    BY <2>3 DEF RunStep, MarkPending, Acquire, Skipped, ClearPending, Attempt, Outcome, Renew, Finish,
                TakePending, progress
  <2>4. ASSUME NEW r \in Runners, Crontab(r) \/ WakeTimer(r) \/ AlarmTake(r) \/ Crash(r) \/ Stopped(r)
        PROVE  handled' = handled
    BY <2>4 DEF Crontab, WakeTimer, AlarmTake, Crash, Stopped, progress
  <2>5. ASSUME \/ \E r \in Runners, key \in Keys : Kick(r, key)
               \/ \E key \in Keys : KickAt(key)
               \/ \E x \in wakes : BecomesDue(x)
        PROVE  handled' = handled
    BY <2>5 DEF Kick, KickAt, BecomesDue, progress
  <2>6. ASSUME \/ Reap \/ Repair \/ AlarmFires \/ AlarmRefused \/ AlarmFails \/ LeaseTime
               \/ Restrict \/ Reopen \/ ArmReopened \/ ArmMissed
        PROVE  handled' = handled
    BY <2>6 DEF Reap, Repair, AlarmFires, AlarmRefused, AlarmFails, LeaseTime, Restrict, Reopen, ArmReopened,
                ArmMissed, progress
  <2> QED BY <2>1, <2>2, <2>3, <2>4, <2>5, <2>6 DEF Next
<1> QED BY <1>1, InductiveInvariant, PTL DEF Spec, HandledGrows
=============================================================================
