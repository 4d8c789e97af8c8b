---------------------- MODULE MaintenanceBarrierProofs ----------------------
(***************************************************************************)
(* The maintenance barrier for any invocations, transitions, put attempts, *)
(* data changes and faults.                                                *)
(*                                                                         *)
(* As long as no request was put over a later state, a put never lowers    *)
(* the generation R2 holds (Forward): it names the state it expects, which *)
(* is not later than its own.  What was acknowledged is then behind R2,    *)
(* and behind the memory of every instance that loads it.  A stretch that  *)
(* data changed in cannot come back (Broken): generations that start one   *)
(* are later, and the record, written before the change, names no earlier  *)
(* stretch at the published generation.                                    *)
(***************************************************************************)
EXTENDS MaintenanceBarrier, TLAPS

\* What Control asked for, and the state before anything was published.
Known == issued \cup {Unpublished}
Records == lateRecords \cup {record}
Restricting(g) == \E q \in issued : q.generation = g /\ q.mode # "open"

\* R2, memory and every put hold states Control asked for, and a generation has one mode.
Named ==
  /\ issued \subseteq Asked
  /\ \A a, b \in issued : a.generation = b.generation => a = b
  /\ acked \subseteq issued
  /\ r2 \in Known /\ Current \in Known /\ mem.stored \in Known
  /\ \A p \in latePuts : p.expected \in Known /\ p.request \in issued
  /\ turn.kind \in {"put", "froze", "drain"} => turn.request \in issued

\* The turn belongs to the running instance and acts on what memory holds.
InMemory ==
  /\ ~up => turn = Free
  /\ turn.kind = "put" => mem.generation <= turn.request.generation
  /\ turn.kind \in {"froze", "drain"} => turn.request = Current

\* No put lowers the published generation, and nothing acknowledged is later than it or than memory.
Forward ==
  ~faults.overtaken =>
    /\ \A p \in latePuts : p.expected.generation <= p.request.generation
    /\ turn.kind = "put" => mem.stored.generation <= turn.request.generation
    /\ turn.kind \in {"froze", "drain"} => turn.request.generation <= r2.generation
    /\ up => mem.stored.generation <= r2.generation
    /\ up /\ mem.mode = "open" => mem.generation <= r2.generation
    /\ \A a \in acked : a.generation <= r2.generation /\ (up => a.generation <= mem.generation)

\* Records name restrictions that were published, neither later than R2 nor than memory.
Recorded ==
  ~faults.overtaken =>
    \A k \in Records : /\ k.generation <= r2.generation /\ (up => k.generation <= mem.generation)
                       /\ k.generation # 0 => Restricting(k.generation)

\* A stretch lies behind the state it is in, and there is none while the object is open.
Stretches ==
  /\ \A k \in Records : k.since <= k.generation
  /\ up => mem.since <= mem.generation
  /\ up /\ mem.mode = "open" => mem.since = 0 \/ turn.kind = "froze"
  /\ turn.kind = "write" => /\ mem.since = mem.generation /\ IsPublished
                            /\ dump.generation # mem.generation

\* A dump began under a published restriction.
Dumped ==
  ~faults.overtaken /\ dump # NoDump =>
    /\ dump.since # 0 /\ dump.since <= dump.generation /\ dump.generation <= r2.generation
    /\ up => dump.generation <= mem.generation
    /\ dump.generation # 0 /\ Restricting(dump.generation)
    /\ dump.migrations <= db.migrations

\* Once data changed without a migration the stretch of the dump is over for good.
Broken ==
  ( /\ ~faults.overtaken /\ ~faults.unrecorded /\ dump # NoDump
    /\ db.migrations = dump.migrations /\ db.data # dump.data ) =>
    /\ dump.since < r2.generation
    /\ \A k \in Records : k.generation >= r2.generation => k.since # dump.since
    /\ up => /\ dump.since < mem.generation
             /\ mem.since # dump.since \/ (turn.kind = "froze" /\ turn.request.mode = "open")

IInv == TypeOK /\ Named /\ InMemory /\ Forward /\ Recorded /\ Stretches /\ Dumped /\ Broken

----------------------------------------------------------------------------
(* Values *)

\* The fixed values have their types.
LEMMA Values ==
  /\ Unpublished \in States /\ Unpublished.generation = 0 /\ Unpublished.mode = "open"
  /\ Free \in Turns /\ Free.kind = "free" /\ [kind |-> "write"] \in Turns
  /\ Asked \subseteq States /\ \A q \in Asked : q.generation # 0
  /\ NoDump \in [since : Nat, migrations : Nat, data : Nat, generation : Nat]
  /\ NoDump.generation = 0
BY AskedAssumption DEF Unpublished, States, Modes, Free, Turns, NoDump

\* What the turn holds follows from its kind.
LEMMA TurnShape ==
  ASSUME NEW x \in Turns
  PROVE  /\ x.kind \in {"free", "write", "put", "froze", "drain"}
         /\ x.kind = "free" => x = Free
         /\ x.kind \in {"put", "froze", "drain"} => x.request \in States
         /\ x.kind = "put" => /\ x.attempt \in 1..PutAttempts
                              /\ x = [kind |-> "put", request |-> x.request, attempt |-> x.attempt]
BY DEF Turns, Free

\* The memory of an instance that loads a state.
LEMMA LoadedShape ==
  ASSUME NEW q \in States, NEW n \in Nat
  PROVE  /\ Loaded(q, n) \in [mode : Modes, generation : Nat, stored : States, since : Nat]
         /\ Loaded(q, n).mode = q.mode /\ Loaded(q, n).generation = q.generation
         /\ Loaded(q, n).stored = q /\ Loaded(q, n).since = n
         /\ q = [generation |-> q.generation, mode |-> q.mode]
BY DEF Loaded, States

\* A restricting request takes over memory; what memory believes of R2 and its stretch stay.
LEMMA SwitchedShape ==
  ASSUME NEW request \in States,
         mem \in [mode : Modes, generation : Nat, stored : States, since : Nat],
         ~Refused(Current, request)
  PROVE  /\ Switched(request) \in [mode : Modes, generation : Nat, stored : States, since : Nat]
         /\ Switched(request).stored = mem.stored /\ Switched(request).since = mem.since
         /\ \/ Switched(request) = mem
            \/ /\ Switched(request).mode = request.mode /\ request.mode # "open"
               /\ Switched(request).generation = request.generation
         /\ mem.generation <= request.generation
         /\ Switched(request).generation <= request.generation
         /\ mem.generation <= Switched(request).generation
<1>1. request.mode \in Modes /\ request.generation \in Nat /\ mem.mode \in Modes /\ mem.generation \in Nat
  BY DEF States
<1>2. RankOf("open") = 0
  BY DEF RankOf
<1>3. RankOf(mem.mode) \in Nat
  BY <1>1 DEF RankOf, Modes
<1>4. RankOf(request.mode) > RankOf(mem.mode) => request.mode # "open"
  BY <1>2, <1>3
<1>5. mem.generation <= request.generation
  BY <1>1 DEF Refused, Current, Unpublished
<1>6. CASE RankOf(request.mode) > RankOf(mem.mode)
  <2>1. Switched(request) = [mem EXCEPT !.mode = request.mode, !.generation = request.generation]
    BY <1>6 DEF Switched
  <2>2. request.mode # "open"
    BY <1>4, <1>6
  <2>3. /\ Switched(request).mode = request.mode /\ Switched(request).generation = request.generation
        /\ Switched(request).stored = mem.stored /\ Switched(request).since = mem.since
    BY <2>1
  <2>4. Switched(request) \in [mode : Modes, generation : Nat, stored : States, since : Nat]
    BY <1>1, <2>1
  <2> QED BY <1>1, <1>5, <2>2, <2>3, <2>4
<1>7. CASE ~(RankOf(request.mode) > RankOf(mem.mode))
  <2>1. Switched(request) = mem
    BY <1>7 DEF Switched
  <2> QED BY <1>1, <1>5, <2>1
<1> QED BY <1>6, <1>7

----------------------------------------------------------------------------
(* Types *)

\* Every step keeps the types.
LEMMA TypeStep ==
  ASSUME TypeOK, Named, [Next]_vars
  PROVE  TypeOK'
<1> USE Values DEF TypeOK
<1>1. ASSUME NEW request \in Asked, Issue(request) PROVE TypeOK'
  BY <1>1 DEF Issue
<1>2. ASSUME NEW request \in issued, Transition(request) PROVE TypeOK'
  <2>1. request \in States
    OBVIOUS
  <2>2. mem' \in [mode : Modes, generation : Nat, stored : States, since : Nat]
    BY <1>2, <2>1, SwitchedShape DEF Transition
  <2>3. turn' \in Turns
    BY <1>2, <2>1, BoundsAssumption DEF Transition, Turns
  <2>4. faults' \in [count : Nat, unrecorded : BOOLEAN, overtaken : BOOLEAN]
    <3>1. (faults.overtaken \/ Overtaken(request)) \in BOOLEAN
      OBVIOUS
    <3> QED BY <1>2, <3>1 DEF Transition
  <2> QED BY <1>2, <2>2, <2>3, <2>4 DEF Transition
<1>3. CASE PutPublished
  <2>1. turn.request \in States
    BY <1>3, TurnShape DEF PutPublished
  <2> QED BY <1>3, <2>1 DEF PutPublished, States, Turns
<1>4. CASE PutConflict
  <2>1. turn = [kind |-> "put", request |-> turn.request, attempt |-> turn.attempt]
        /\ turn.request \in States /\ turn.attempt \in 1..PutAttempts
    BY <1>4, TurnShape DEF PutConflict
  <2>2. turn' \in Turns
    <3>1. turn.attempt < PutAttempts => turn.attempt + 1 \in 1..PutAttempts
      BY <2>1, BoundsAssumption
    <3>2. turn.attempt < PutAttempts => [turn EXCEPT !.attempt = @ + 1] \in Turns
      BY <2>1, <3>1 DEF Turns
    <3> QED BY <1>4, <3>2 DEF PutConflict
  <2>3. mem' \in [mode : Modes, generation : Nat, stored : States, since : Nat]
    <3>1. (IF r2.mode = "open" THEN 0 ELSE r2.generation) \in Nat
      BY DEF States
    <3> QED BY <1>4, <3>1, LoadedShape DEF PutConflict
  <2> QED BY <1>4, <2>2, <2>3 DEF PutConflict
<1>5. CASE PutFailed
  <2>1. turn.request \in States
    BY <1>5, TurnShape DEF PutFailed
  <2> QED BY <1>5, <2>1 DEF PutFailed, Fault
<1>6. CASE Froze
  <2>1. turn.request \in States
    BY <1>6, TurnShape DEF Froze
  <2>2. turn' \in Turns
    BY <1>6, <2>1 DEF Froze, Turns
  <2>3. turn.request.generation \in Nat
    BY <2>1 DEF States
  <2> QED BY <1>6, <2>2, <2>3 DEF Froze, PutRecord, Fault
<1>7. CASE Acknowledge
  <2>1. turn.request \in States
    BY <1>7, TurnShape DEF Acknowledge
  <2> QED BY <1>7, <2>1 DEF Acknowledge
<1>8. ASSUME NEW put \in latePuts, LandLatePut(put) PROVE TypeOK'
  BY <1>8 DEF LandLatePut
<1>9. ASSUME NEW late \in lateRecords, LandLateRecord(late) PROVE TypeOK'
  BY <1>9 DEF LandLateRecord
<1>10. CASE Evict
  <2>1. turn.kind = "put" => turn.request \in States
    BY TurnShape
  <2>2. Out \in [phase : {"out", "arrived", "running"}, captured : States]
    BY DEF Out
  <2>3. latePuts' \subseteq [expected : States, request : States]
    BY <1>10, <2>1 DEF Evict
  <2>4. client' \in [Clients -> [phase : {"out", "arrived", "running"}, captured : States]]
    BY <1>10, <2>2 DEF Evict
  <2>5. faults' \in [count : Nat, unrecorded : BOOLEAN, overtaken : BOOLEAN]
    BY <1>10 DEF Evict, Fault
  <2> QED BY <1>10, <2>3, <2>4, <2>5 DEF Evict
<1>11. CASE Load
  <2>1. FrozenOnLoad \in Nat
    BY DEF FrozenOnLoad, States
  <2> QED BY <1>11, <2>1, LoadedShape DEF Load
<1>12. ASSUME NEW c \in Clients, Arrive(c) \/ Admit(c) \/ Commit(c) \/ Release(c) PROVE TypeOK'
  <2>1. Out \in [phase : {"out", "arrived", "running"}, captured : States]
    BY DEF Out
  <2>2. Current \in States
    BY DEF Current, States
  <2>3. CASE Arrive(c)
    BY <2>2, <2>3 DEF Arrive
  <2>4. CASE Admit(c)
    BY <2>1, <2>4 DEF Admit
  <2>5. CASE Commit(c)
    BY <2>5 DEF Commit
  <2>6. CASE Release(c)
    BY <2>1, <2>6 DEF Release
  <2> QED BY <1>12, <2>3, <2>4, <2>5, <2>6
<1>13. CASE Migrate
  BY <1>13 DEF Migrate
<1>14. CASE DataStep
  BY <1>14 DEF DataStep, RestrictedWrite, PutRecord, Fault
<1>15. CASE DataWrite
  <2>1. (faults.unrecorded \/ Unrecorded) \in BOOLEAN
    OBVIOUS
  <2>2. faults' \in [count : Nat, unrecorded : BOOLEAN, overtaken : BOOLEAN]
    BY <1>15, <2>1 DEF DataWrite
  <2>3. db' \in [data : Nat, migrations : Nat] /\ turn' \in Turns /\ importing' \in BOOLEAN
    BY <1>15 DEF DataWrite
  <2> QED BY <1>15, <2>2, <2>3 DEF DataWrite
<1>16. CASE BeginDump
  BY <1>16 DEF BeginDump
<1>17. CASE EndDump
  BY <1>17 DEF EndDump
<1>18. CASE UNCHANGED vars
  BY <1>18 DEF vars
<1> QED BY <1>1, <1>2, <1>3, <1>4, <1>5, <1>6, <1>7, <1>8, <1>9, <1>10, <1>11, <1>12, <1>13,
           <1>14, <1>15, <1>16, <1>17, <1>18 DEF Next

----------------------------------------------------------------------------
(* What memory, R2 and the puts hold *)

\* A published state was asked for.
LEMMA PublishedAsked ==
  ASSUME TypeOK, Named, IsPublished
  PROVE  Current \in issued /\ Current = mem.stored /\ mem.generation # 0
         /\ Current.generation = mem.generation /\ Current.mode = mem.mode
BY Values DEF TypeOK, Named, IsPublished, Current, Known

\* Two known states of one generation are the same.
LEMMA OneMode ==
  ASSUME TypeOK, Named, NEW a \in Known, NEW b \in Known, a.generation = b.generation
  PROVE  a = b
<1>1. \A q \in issued : q.generation # 0
  BY Values DEF Named
<1> QED BY <1>1, Values DEF Named, Known

\* Every step keeps to the states Control asked for.
LEMMA NamedStep ==
  ASSUME TypeOK, Named, InMemory, [Next]_vars
  PROVE  Named'
<1> USE DEF Named
<1>1. ASSUME NEW request \in Asked, Issue(request) PROVE Named'
  <2>1. issued' = issued \cup {request} /\ Known \subseteq Known'
    BY <1>1 DEF Issue, Known
  <2>2. Current' = Current
    BY <1>1 DEF Issue, Current
  <2>3. \A a, b \in issued' : a.generation = b.generation => a = b
    BY <1>1, <2>1, Values DEF Issue, TypeOK, States
  <2> QED BY <1>1, <2>1, <2>2, <2>3 DEF Issue
<1>2. ASSUME NEW request \in issued, Transition(request) PROVE Named'
  <2>1. request \in States
    BY DEF TypeOK
  <2>2. ~Refused(Current, request)
    BY <1>2 DEF Transition
  <2>3. mem' = mem \/ mem' = Switched(request)
    BY <1>2 DEF Transition
  <2>4. mem'.stored = mem.stored
    BY <2>1, <2>2, <2>3, SwitchedShape DEF TypeOK
  <2>5. Current' \in Known
    <3>1. CASE mem' = mem
      BY <3>1 DEF Current
    <3>2. CASE mem' # mem
      <4>1. mem'.mode = request.mode /\ mem'.generation = request.generation
        BY <2>1, <2>2, <2>3, <3>2, SwitchedShape DEF TypeOK
      <4> QED BY <2>1, <4>1 DEF Current, States, Known
    <3> QED BY <3>1, <3>2
  <2>6. turn'.request \in issued
    BY <1>2 DEF Transition
  <2> QED BY <1>2, <2>4, <2>5, <2>6 DEF Transition, Known
<1>3. CASE PutPublished
  <2>1. turn.request \in issued /\ turn.request \in States
    BY <1>3, TurnShape DEF PutPublished, TypeOK
  <2>2. /\ mem'.stored = turn.request /\ mem'.mode = turn.request.mode
        /\ mem'.generation = turn.request.generation
    BY <1>3 DEF PutPublished, TypeOK
  <2>3. Current' = turn.request
    BY <2>1, <2>2 DEF Current, States
  <2> QED BY <1>3, <2>1, <2>2, <2>3 DEF PutPublished, Known
<1>4. CASE PutConflict
  <2>1. turn.request \in issued
    BY <1>4 DEF PutConflict
  <2>2. turn' = Free \/ (turn'.kind = "put" /\ turn'.request = turn.request)
    BY <1>4, TurnShape DEF PutConflict, TypeOK
  <2>3. mem'.stored = r2 /\ Current' \in Known
    <3>1. (IF r2.mode = "open" THEN 0 ELSE r2.generation) \in Nat /\ r2 \in States
      BY DEF TypeOK, States
    <3>2. CASE Refused(r2, turn.request)
      BY <1>4, <3>1, <3>2, LoadedShape DEF PutConflict, Current
    <3>3. CASE ~Refused(r2, turn.request)
      BY <1>4, <3>3 DEF PutConflict, Current, TypeOK
    <3> QED BY <3>2, <3>3
  <2> QED BY <1>4, <2>1, <2>2, <2>3, Values DEF PutConflict, Known
<1>5. CASE PutFailed
  BY <1>5, Values DEF PutFailed, Current, Known
<1>6. CASE Froze
  <2>1. mem'.stored = mem.stored /\ mem'.mode = mem.mode /\ mem'.generation = mem.generation
    BY <1>6 DEF Froze, TypeOK
  <2> QED BY <1>6, <2>1 DEF Froze, Current, Known
<1>7. CASE Acknowledge
  BY <1>7, Values DEF Acknowledge, Current, Known
<1>8. ASSUME NEW put \in latePuts, LandLatePut(put) PROVE Named'
  BY <1>8 DEF LandLatePut, Current, Known
<1>9. ASSUME NEW late \in lateRecords, LandLateRecord(late) PROVE Named'
  BY <1>9 DEF LandLateRecord, Current, Known
<1>10. CASE Evict
  BY <1>10, Values DEF Evict, Current, Known
<1>11. CASE Load
  <2>1. mem'.stored = r2 /\ Current' = r2
    <3>1. FrozenOnLoad \in Nat /\ r2 \in States
      BY DEF FrozenOnLoad, TypeOK, States
    <3> QED BY <1>11, <3>1, LoadedShape DEF Load, Current
  <2> QED BY <1>11, <2>1 DEF Load, Known
<1>12. ASSUME NEW c \in Clients, Arrive(c) \/ Admit(c) \/ Commit(c) \/ Release(c) PROVE Named'
  BY <1>12 DEF Arrive, Admit, Commit, Release, Current, Known
<1>13. CASE Migrate
  BY <1>13 DEF Migrate, Current, Known
<1>14. CASE DataStep
  <2>1. mem'.stored = mem.stored /\ mem'.mode = mem.mode /\ mem'.generation = mem.generation
    BY <1>14 DEF DataStep, RestrictedWrite, TypeOK
  <2>2. turn' = turn \/ turn'.kind = "write"
    BY <1>14 DEF DataStep, RestrictedWrite
  <2> QED BY <1>14, <2>1, <2>2 DEF DataStep, Current, Known
<1>15. CASE DataWrite
  BY <1>15, Values DEF DataWrite, Current, Known
<1>16. CASE BeginDump
  BY <1>16 DEF BeginDump, Current, Known
<1>17. CASE EndDump
  BY <1>17 DEF EndDump, Current, Known
<1>18. CASE UNCHANGED vars
  BY <1>18 DEF vars, Current, Known
<1> QED BY <1>1, <1>2, <1>3, <1>4, <1>5, <1>6, <1>7, <1>8, <1>9, <1>10, <1>11, <1>12, <1>13,
           <1>14, <1>15, <1>16, <1>17, <1>18 DEF Next

\* The turn stays with the instance and with what its memory holds.
LEMMA InMemoryStep ==
  ASSUME TypeOK, Named, InMemory, [Next]_vars
  PROVE  InMemory'
<1> USE DEF InMemory
<1>1. ASSUME NEW request \in Asked, Issue(request) PROVE InMemory'
  BY <1>1 DEF Issue, Current
<1>2. ASSUME NEW request \in issued, Transition(request) PROVE InMemory'
  <2>1. request \in States /\ ~Refused(Current, request) /\ up /\ up' = up
    BY <1>2 DEF TypeOK, Transition, InTurn
  <2>2. CASE mem.generation = request.generation /\ IsPublished
    <3>1. turn' = [kind |-> "drain", request |-> request] /\ mem' = mem
      BY <1>2, <2>2 DEF Transition
    <3>2. request = Current
      BY <2>2, PublishedAsked, OneMode DEF Known
    <3> QED BY <2>1, <3>1, <3>2 DEF Current
  <2>3. CASE ~(mem.generation = request.generation /\ IsPublished)
    <3>1. turn' = [kind |-> "put", request |-> request, attempt |-> 1] /\ mem' = Switched(request)
      BY <1>2, <2>3 DEF Transition
    <3> QED BY <2>1, <3>1, SwitchedShape DEF TypeOK
  <2> QED BY <2>2, <2>3
<1>3. CASE PutPublished
  <2>1. up /\ turn.request \in States
    BY <1>3, TurnShape, Values DEF PutPublished, TypeOK
  <2>2. mem'.mode = turn.request.mode /\ mem'.generation = turn.request.generation
    BY <1>3 DEF PutPublished, TypeOK
  <2>3. Current' = turn.request
    BY <2>1, <2>2 DEF Current, States
  <2> QED BY <1>3, <2>1, <2>3 DEF PutPublished
<1>4. CASE PutConflict
  <2>1. up /\ up' = up
    BY <1>4, Values DEF PutConflict
  <2>2. CASE turn' = Free
    BY <2>1, <2>2, Values
  <2>3. CASE turn' # Free
    <3>1. /\ turn'.kind = "put" /\ turn'.request = turn.request
          /\ mem'.generation = mem.generation
      BY <1>4, <2>3, TurnShape DEF PutConflict, TypeOK
    <3> QED BY <1>4, <2>1, <3>1 DEF PutConflict
  <2> QED BY <2>2, <2>3
<1>5. CASE PutFailed
  BY <1>5, Values DEF PutFailed, Current
<1>6. CASE Froze
  <2>1. up /\ mem'.mode = mem.mode /\ mem'.generation = mem.generation
    BY <1>6, Values DEF Froze, TypeOK
  <2> QED BY <1>6, <2>1 DEF Froze, Current
<1>7. CASE Acknowledge
  BY <1>7, Values DEF Acknowledge, Current
<1>8. ASSUME NEW put \in latePuts, LandLatePut(put) PROVE InMemory'
  BY <1>8 DEF LandLatePut, Current
<1>9. ASSUME NEW late \in lateRecords, LandLateRecord(late) PROVE InMemory'
  BY <1>9 DEF LandLateRecord, Current
<1>10. CASE Evict
  BY <1>10, Values DEF Evict, Current
<1>11. CASE Load
  BY <1>11, Values DEF Load, Current
<1>12. ASSUME NEW c \in Clients, Arrive(c) \/ Admit(c) \/ Commit(c) \/ Release(c) PROVE InMemory'
  BY <1>12 DEF Arrive, Admit, Commit, Release, Current
<1>13. CASE Migrate
  BY <1>13 DEF Migrate, Current
<1>14. CASE DataStep
  <2>1. up /\ mem'.mode = mem.mode /\ mem'.generation = mem.generation
    BY <1>14 DEF DataStep, RestrictedWrite, TypeOK, InTurn
  <2>2. turn' = turn \/ turn'.kind = "write"
    BY <1>14 DEF DataStep, RestrictedWrite
  <2> QED BY <1>14, <2>1, <2>2 DEF DataStep, Current
<1>15. CASE DataWrite
  BY <1>15, Values DEF DataWrite, Current
<1>16. CASE BeginDump
  BY <1>16 DEF BeginDump, Current
<1>17. CASE EndDump
  BY <1>17 DEF EndDump, Current
<1>18. CASE UNCHANGED vars
  BY <1>18 DEF vars, Current
<1> QED BY <1>1, <1>2, <1>3, <1>4, <1>5, <1>6, <1>7, <1>8, <1>9, <1>10, <1>11, <1>12, <1>13,
           <1>14, <1>15, <1>16, <1>17, <1>18 DEF Next

----------------------------------------------------------------------------
(* Generations rise *)

\* The steps that touch neither the states, their puts nor the turn.
Aside == \/ \E request \in Asked : Issue(request)
         \/ \E late \in lateRecords : LandLateRecord(late)
         \/ \E c \in Clients : Arrive(c) \/ Admit(c) \/ Commit(c) \/ Release(c)
         \/ Migrate \/ BeginDump \/ EndDump

\* They change nothing that Forward speaks of.
LEMMA AsideCore ==
  ASSUME Aside
  PROVE  UNCHANGED <<acked, r2, latePuts, up, mem, turn, faults>>
BY DEF Aside, Issue, LandLateRecord, Arrive, Admit, Commit, Release, Migrate, BeginDump, EndDump

\* An exception, once met, stays on record.
LEMMA FlagsStay ==
  ASSUME TypeOK, [Next]_vars
  PROVE  /\ ~faults'.overtaken => ~faults.overtaken
         /\ ~faults'.unrecorded => ~faults.unrecorded
<1> USE DEF TypeOK
<1>1. CASE Aside \/ PutPublished \/ PutConflict \/ Acknowledge \/ Load
           \/ \E put \in latePuts : LandLatePut(put)
  BY <1>1, AsideCore DEF PutPublished, PutConflict, Acknowledge, Load, LandLatePut
<1>2. ASSUME NEW request \in issued, Transition(request)
      PROVE  (~faults'.overtaken => ~faults.overtaken) /\ (~faults'.unrecorded => ~faults.unrecorded)
  BY <1>2 DEF Transition
<1>3. CASE PutFailed \/ Evict
  BY <1>3 DEF PutFailed, Evict, Fault
<1>4. CASE Froze
  BY <1>4 DEF Froze, PutRecord, Fault
<1>5. CASE DataStep
  BY <1>5 DEF DataStep, RestrictedWrite, PutRecord, Fault
<1>6. CASE DataWrite
  BY <1>6 DEF DataWrite
<1>7. CASE UNCHANGED vars
  BY <1>7 DEF vars
<1> QED BY <1>1, <1>2, <1>3, <1>4, <1>5, <1>6, <1>7 DEF Next, Aside

\* A put that succeeds moves R2 forward, or writes what it held.
LEMMA R2Rises ==
  ASSUME TypeOK, Named, InMemory, Forward, [Next]_vars, ~faults.overtaken
  PROVE  r2.generation <= r2'.generation /\ (r2'.generation = r2.generation => r2' = r2)
<1>1. r2.generation \in Nat
  BY DEF TypeOK, States
<1>2. CASE r2' = r2
  BY <1>1, <1>2
<1>3. CASE PutPublished
  <2>1. r2 = mem.stored /\ r2' = turn.request /\ turn.request \in issued
    BY <1>3 DEF PutPublished, PutMatches, Named
  <2>2. mem.stored.generation <= turn.request.generation
    BY <1>3 DEF PutPublished, Forward
  <2>3. r2 \in Known /\ r2' \in Known
    BY <2>1 DEF Named, Known
  <2> QED BY <2>1, <2>2, <2>3, OneMode
<1>4. ASSUME NEW put \in latePuts, LandLatePut(put)
      PROVE  r2.generation <= r2'.generation /\ (r2'.generation = r2.generation => r2' = r2)
  <2>1. CASE r2 = put.expected
    <3>1. r2' = put.request /\ r2 \in Known /\ put.request \in Known
      BY <1>4, <2>1 DEF LandLatePut, Named, Known
    <3> QED BY <2>1, <3>1, OneMode DEF Forward
  <2>2. CASE r2 # put.expected
    BY <1>1, <1>4, <2>2 DEF LandLatePut
  <2> QED BY <2>1, <2>2
<1>5. r2' = r2 \/ PutPublished \/ \E put \in latePuts : LandLatePut(put)
  BY AsideCore DEF Next, Aside, Transition, PutConflict, PutFailed, Froze, Acknowledge, Evict, Load,
                   DataStep, DataWrite, vars
<1> QED BY <1>2, <1>3, <1>4, <1>5

\* While an instance runs its memory moves forward, or stays at the state it holds.
LEMMA MemoryRises ==
  ASSUME TypeOK, Named, InMemory, [Next]_vars, up
  PROVE  mem.generation <= mem'.generation
<1>1. mem.generation \in Nat
  BY DEF TypeOK
<1>2. CASE mem' = mem
  BY <1>1, <1>2
<1>3. ASSUME NEW request \in issued, Transition(request) PROVE mem.generation <= mem'.generation
  <2>1. request \in States /\ ~Refused(Current, request)
    BY <1>3 DEF TypeOK, Transition
  <2> QED BY <1>1, <1>3, <2>1, SwitchedShape DEF Transition, TypeOK
<1>4. CASE PutPublished
  BY <1>4 DEF PutPublished, TypeOK, InMemory
<1>5. CASE PutConflict
  <2>1. CASE Refused(r2, turn.request)
    <3>1. r2 \in States /\ turn.request \in States
          /\ (IF r2.mode = "open" THEN 0 ELSE r2.generation) \in Nat
      BY <1>5, TurnShape DEF TypeOK, PutConflict, States
    <3>2. mem'.generation = r2.generation
      BY <1>5, <2>1, <3>1, LoadedShape DEF PutConflict
    <3>3. turn.request.generation <= r2.generation
      BY <2>1, <3>1 DEF Refused, States
    <3>4. mem.generation <= turn.request.generation
      BY <1>5 DEF PutConflict, InMemory
    <3> QED BY <1>1, <3>1, <3>2, <3>3, <3>4 DEF States
  <2>2. CASE ~Refused(r2, turn.request)
    BY <1>1, <1>5, <2>2 DEF PutConflict, TypeOK
  <2> QED BY <2>1, <2>2
<1>6. CASE Froze \/ DataStep
  <2>1. CASE Froze
    BY <1>1, <2>1 DEF Froze, TypeOK
  <2>2. CASE DataStep
    BY <1>1, <2>2 DEF DataStep, RestrictedWrite, TypeOK
  <2> QED BY <1>6, <2>1, <2>2
<1>7. \/ mem' = mem \/ PutPublished \/ PutConflict \/ Froze \/ DataStep
      \/ \E request \in issued : Transition(request)
  BY AsideCore DEF Next, Aside, PutFailed, Acknowledge, Evict, Load, LandLatePut, DataWrite, vars
<1> QED BY <1>2, <1>3, <1>4, <1>5, <1>6, <1>7

\* An instance starts from what R2 holds.
LEMMA LoadMemory ==
  ASSUME TypeOK, [Next]_vars, ~up, up'
  PROVE  /\ Load /\ mem' = Loaded(r2, FrozenOnLoad) /\ r2' = r2 /\ faults' = faults
         /\ mem'.generation = r2.generation /\ mem'.stored = r2 /\ mem'.since = FrozenOnLoad
         /\ mem'.mode = r2.mode
<1>1. Load
  BY DEF Next, vars, Issue, Transition, InTurn, PutPublished, PutConflict, PutFailed, Froze, Acknowledge, LandLatePut,
         LandLateRecord, Evict, Arrive, Admit, Commit, Release, Migrate, DataStep, DataWrite, BeginDump, EndDump
<1>2. FrozenOnLoad \in Nat /\ r2 \in States
  BY DEF FrozenOnLoad, TypeOK, States
<1> QED BY <1>1, <1>2, LoadedShape DEF Load

----------------------------------------------------------------------------
(* No step goes back *)

\* No step lets a put lower the published generation, or an acknowledgement get ahead of it.
LEMMA ForwardStep ==
  ASSUME TypeOK, TypeOK', Named, InMemory, Forward, [Next]_vars
  PROVE  Forward'
<1> SUFFICES ASSUME ~faults'.overtaken
             PROVE  /\ \A p \in latePuts' : p.expected.generation <= p.request.generation
                    /\ turn'.kind = "put" => mem'.stored.generation <= turn'.request.generation
                    /\ turn'.kind \in {"froze", "drain"} => turn'.request.generation <= r2'.generation
                    /\ up' => mem'.stored.generation <= r2'.generation
                    /\ up' /\ mem'.mode = "open" => mem'.generation <= r2'.generation
                    /\ \A a \in acked' : /\ a.generation <= r2'.generation
                                         /\ up' => a.generation <= mem'.generation
  BY DEF Forward
<1>1. ~faults.overtaken
  BY FlagsStay
<1>2. r2.generation <= r2'.generation
  BY <1>1, R2Rises
<1>3. up => mem.generation <= mem'.generation
  BY MemoryRises
<1>4. /\ r2.generation \in Nat /\ r2'.generation \in Nat
      /\ mem.generation \in Nat /\ mem'.generation \in Nat
      /\ mem.stored.generation \in Nat /\ mem'.stored.generation \in Nat
      /\ \A a \in acked' \cup acked : a.generation \in Nat
  BY DEF TypeOK, States
<1>5. /\ \A p \in latePuts : p.expected.generation <= p.request.generation
      /\ turn.kind = "put" => mem.stored.generation <= turn.request.generation
      /\ turn.kind \in {"froze", "drain"} => turn.request.generation <= r2.generation
      /\ up => mem.stored.generation <= r2.generation
      /\ up /\ mem.mode = "open" => mem.generation <= r2.generation
      /\ \A a \in acked : a.generation <= r2.generation /\ (up => a.generation <= mem.generation)
  BY <1>1 DEF Forward
<1>6. turn.kind \in {"put", "froze", "drain"} => turn.request.generation \in Nat /\ up
  BY TurnShape, Values DEF TypeOK, States, InMemory
<1>7. \A a \in acked' : a.generation <= r2'.generation /\ (up' => a.generation <= mem'.generation)
  <2>1. ASSUME NEW a \in acked
        PROVE  a.generation <= r2'.generation /\ (up' => a.generation <= mem'.generation)
    <3>1. a.generation <= r2'.generation
      BY <1>2, <1>4, <1>5
    <3>2. ASSUME up, up' PROVE a.generation <= mem'.generation
      BY <1>3, <1>4, <1>5, <3>2
    <3>3. ASSUME ~up, up' PROVE a.generation <= mem'.generation
      <4>1. mem'.generation = r2.generation
        BY <3>3, LoadMemory
      <4> QED BY <1>5, <4>1
    <3> QED BY <3>1, <3>2, <3>3
  <2>2. CASE acked' = acked
    BY <2>1, <2>2
  <2>3. CASE Acknowledge
    <3>1. /\ turn.kind = "drain" /\ acked' = acked \cup {turn.request} /\ up' = up
          /\ mem' = mem /\ r2' = r2 /\ turn.request = Current
      BY <2>3 DEF Acknowledge, InMemory
    <3>2. turn.request.generation <= r2'.generation /\ turn.request.generation <= mem'.generation
      BY <1>4, <1>5, <3>1 DEF Current
    <3> QED BY <2>1, <3>1, <3>2
  <2>4. acked' = acked \/ Acknowledge
    BY AsideCore DEF Next, Aside, Transition, PutPublished, PutConflict, PutFailed, Froze, LandLatePut,
                     Evict, Load, DataStep, DataWrite, vars
  <2> QED BY <2>2, <2>3, <2>4
<1>8. CASE Aside \/ UNCHANGED vars
  BY <1>5, <1>7, <1>8, AsideCore DEF vars
<1>9. ASSUME NEW request \in issued, Transition(request) PROVE Forward'
  <2>1. request \in States /\ ~Refused(Current, request) /\ up /\ up' = up /\ r2' = r2
        /\ latePuts' = latePuts /\ faults' = [faults EXCEPT !.overtaken = @ \/ Overtaken(request)]
    BY <1>9 DEF TypeOK, Transition, InTurn
  <2>2. ~Overtaken(request)
    BY <2>1 DEF TypeOK
  <2>3. mem.generation <= request.generation /\ request.generation \in Nat
    BY <2>1, SwitchedShape DEF TypeOK, States
  <2>4. mem.stored.generation <= request.generation
    BY <1>4, <2>2, <2>3 DEF Overtaken
  <2>5. CASE mem.generation = request.generation /\ IsPublished
    <3>1. turn' = [kind |-> "drain", request |-> request] /\ mem' = mem
      BY <1>9, <2>5 DEF Transition
    <3>2. request.generation = mem.stored.generation
      BY <2>5, PublishedAsked
    <3> QED BY <1>4, <1>5, <1>7, <2>1, <3>1, <3>2 DEF Forward
  <2>6. CASE ~(mem.generation = request.generation /\ IsPublished)
    <3>1. turn' = [kind |-> "put", request |-> request, attempt |-> 1] /\ mem' = Switched(request)
      BY <1>9, <2>6 DEF Transition
    <3>2. mem'.stored = mem.stored /\ (mem' = mem \/ mem'.mode # "open")
      BY <2>1, <3>1, SwitchedShape DEF TypeOK
    <3> QED BY <1>5, <1>7, <2>1, <2>4, <3>1, <3>2 DEF Forward
  <2> QED BY <2>5, <2>6
<1>10. CASE PutPublished
  <2>1. /\ r2' = turn.request /\ mem'.stored = turn.request /\ mem'.generation = turn.request.generation
        /\ turn' = [kind |-> "froze", request |-> turn.request] /\ latePuts' = latePuts
    BY <1>10 DEF PutPublished, TypeOK
  <2> QED BY <1>4, <1>5, <1>7, <2>1
<1>11. CASE PutConflict
  <2>1. turn.kind = "put" /\ r2' = r2 /\ latePuts' = latePuts /\ up /\ up' = up
    BY <1>6, <1>11 DEF PutConflict
  <2>2. CASE Refused(r2, turn.request)
    <3>1. r2 \in States /\ (IF r2.mode = "open" THEN 0 ELSE r2.generation) \in Nat
      BY DEF TypeOK, States
    <3>2. mem'.stored = r2 /\ mem'.generation = r2.generation /\ turn' = Free
      BY <1>11, <2>2, <3>1, LoadedShape DEF PutConflict
    <3> QED BY <1>4, <1>5, <1>7, <2>1, <3>2, Values
  <2>3. CASE ~Refused(r2, turn.request)
    <3>1. /\ mem'.stored = r2 /\ mem'.generation = mem.generation /\ mem'.mode = mem.mode
          /\ turn' = Free \/ (turn'.kind = "put" /\ turn'.request = turn.request)
      BY <1>11, <2>3, TurnShape DEF PutConflict, TypeOK
    <3>2. r2.generation <= turn.request.generation
      BY <1>4, <1>6, <2>1, <2>3, Values DEF Refused
    <3> QED BY <1>4, <1>5, <1>7, <2>1, <3>1, <3>2, Values
  <2> QED BY <2>2, <2>3
<1>12. CASE PutFailed
  <2>1. /\ latePuts' = latePuts \cup {[expected |-> mem.stored, request |-> turn.request]}
        /\ turn' = Free /\ mem' = mem /\ r2' = r2 /\ up' = up /\ turn.kind = "put"
    BY <1>12 DEF PutFailed
  <2> QED BY <1>5, <1>7, <2>1, Values
<1>13. CASE Froze
  <2>1. /\ turn.kind = "froze" /\ turn' = [kind |-> "drain", request |-> turn.request]
        /\ r2' = r2 /\ latePuts' = latePuts /\ up' = up
    BY <1>13 DEF Froze
  <2>2. mem'.stored = mem.stored /\ mem'.generation = mem.generation /\ mem'.mode = mem.mode
    BY <1>13 DEF Froze, TypeOK
  <2> QED BY <1>5, <1>7, <2>1, <2>2
<1>14. CASE Acknowledge
  BY <1>5, <1>7, <1>14, Values DEF Acknowledge
<1>15. ASSUME NEW put \in latePuts, LandLatePut(put) PROVE Forward'
  <2>1. latePuts' \subseteq latePuts /\ turn' = turn /\ mem' = mem /\ up' = up
    BY <1>15 DEF LandLatePut
  <2> QED BY <1>2, <1>4, <1>5, <1>6, <1>7, <2>1 DEF Forward
<1>16. CASE Evict
  <2>1. /\ turn' = Free /\ up' = FALSE
        /\ latePuts' = IF turn.kind = "put"
                         THEN latePuts \cup {[expected |-> mem.stored, request |-> turn.request]}
                         ELSE latePuts
    BY <1>16 DEF Evict
  <2> QED BY <1>5, <1>7, <2>1, Values
<1>17. CASE Load
  <2>1. turn' = Free /\ latePuts' = latePuts /\ ~up /\ up' = TRUE
    BY <1>17 DEF Load, InMemory
  <2>2. mem'.generation = r2'.generation /\ mem'.stored = r2'
    BY <2>1, LoadMemory
  <2> QED BY <1>4, <1>5, <1>7, <2>1, <2>2, Values
<1>18. CASE DataStep
  <2>1. mem'.stored = mem.stored /\ mem'.mode = mem.mode /\ mem'.generation = mem.generation
    BY <1>18 DEF DataStep, RestrictedWrite, TypeOK
  <2>2. turn' = turn \/ turn'.kind = "write"
    BY <1>18 DEF DataStep, RestrictedWrite
  <2> QED BY <1>5, <1>7, <1>18, <2>1, <2>2 DEF DataStep
<1>19. CASE DataWrite
  BY <1>5, <1>7, <1>19, Values DEF DataWrite
<1> QED BY <1>8, <1>9, <1>10, <1>11, <1>12, <1>13, <1>14, <1>15, <1>16, <1>17, <1>18, <1>19
        DEF Next, Aside, Forward

----------------------------------------------------------------------------
(* Records and stretches *)

\* A new record is of the restriction just published, or of a stretch that starts at the generation.
LEMMA NewRecord ==
  ASSUME TypeOK, [Next]_vars, NEW k \in Records'
  PROVE  \/ k \in Records
         \/ /\ Froze /\ turn.request.mode # "open"
            /\ k = [generation |-> turn.request.generation,
                    since |-> IF mem.since = 0 THEN turn.request.generation ELSE mem.since]
         \/ /\ DataStep /\ k = [generation |-> mem.generation, since |-> mem.generation]
<1> USE DEF Records
<1>1. CASE Froze
  BY <1>1 DEF Froze, PutRecord
<1>2. CASE DataStep
  BY <1>2 DEF DataStep, RestrictedWrite, PutRecord
<1>3. CASE ~Froze /\ ~DataStep
  <2>1. \/ record' = record /\ lateRecords' = lateRecords
        \/ \E late \in lateRecords : LandLateRecord(late)
    BY <1>3 DEF Next, vars, Issue, Transition, PutPublished, PutConflict, PutFailed, Acknowledge, LandLatePut,
                Evict, Load, Arrive, Admit, Commit, Release, Migrate, DataWrite, BeginDump, EndDump
  <2> QED BY <2>1 DEF LandLateRecord
<1> QED BY <1>1, <1>2, <1>3

\* The numbers of a record.
LEMMA RecordShape ==
  ASSUME TypeOK, NEW k \in Records
  PROVE  k.generation \in Nat /\ k.since \in Nat
BY DEF TypeOK, Records

\* What Control asked for stays asked for.
LEMMA StillRestricting ==
  ASSUME [Next]_vars, NEW g, Restricting(g)
  PROVE  Restricting(g)'
<1>1. issued \subseteq issued'
  BY DEF Next, vars, Issue, Transition, PutPublished, PutConflict, PutFailed, Froze, Acknowledge, LandLatePut,
         LandLateRecord, Evict, Load, Arrive, Admit, Commit, Release, Migrate, DataStep, DataWrite,
         BeginDump, EndDump
<1> QED BY <1>1 DEF Restricting

\* The generation of an open state restricts nothing.
LEMMA OpenGeneration ==
  ASSUME TypeOK, Named, mem.mode = "open", NEW g, Restricting(g)
  PROVE  g # mem.generation
<1>1. PICK q \in issued : q.generation = g /\ q.mode # "open"
  BY DEF Restricting
<1>2. Current \in Known /\ q \in Known
  BY DEF Named, Known
<1>3. g = mem.generation => q = Current
  BY <1>1, <1>2, OneMode DEF Current
<1> QED BY <1>1, <1>3 DEF Current

\* A generation behind R2 and memory stays behind both, across evictions too.
LEMMA StaysBehind ==
  ASSUME TypeOK, TypeOK', Named, InMemory, Forward, [Next]_vars, ~faults.overtaken,
         NEW g \in Nat, g <= r2.generation, up => g <= mem.generation
  PROVE  g <= r2'.generation /\ (up' => g <= mem'.generation)
<1>1. /\ r2.generation \in Nat /\ r2'.generation \in Nat
      /\ mem.generation \in Nat /\ mem'.generation \in Nat
  BY DEF TypeOK, States
<1>2. g <= r2'.generation
  BY <1>1, R2Rises
<1>3. ASSUME up, up' PROVE g <= mem'.generation
  BY <1>1, <1>3, MemoryRises
<1>4. ASSUME ~up, up' PROVE g <= mem'.generation
  BY <1>4, LoadMemory
<1> QED BY <1>2, <1>3, <1>4

\* A published memory is not ahead of R2.
LEMMA PublishedBehind ==
  ASSUME TypeOK, Named, Forward, ~faults.overtaken, up, IsPublished
  PROVE  mem.generation <= r2.generation
BY PublishedAsked DEF Forward

\* Every step keeps the records behind what they record.
LEMMA RecordedStep ==
  ASSUME TypeOK, TypeOK', Named, InMemory, Forward, Recorded, [Next]_vars
  PROVE  Recorded'
<1> SUFFICES ASSUME ~faults'.overtaken, NEW k \in Records'
             PROVE  /\ k.generation <= r2'.generation /\ (up' => k.generation <= mem'.generation)
                    /\ k.generation # 0 => Restricting(k.generation)'
  BY DEF Recorded, Restricting
<1>1. ~faults.overtaken
  BY FlagsStay
<1>2. CASE k \in Records
  BY <1>1, <1>2, RecordShape, StaysBehind, StillRestricting DEF Recorded
<1>3. CASE /\ Froze /\ turn.request.mode # "open" /\ k.generation = turn.request.generation
  <2>1. turn.request \in issued /\ turn.request = Current
    BY <1>3 DEF Froze, Named, InMemory
  <2>2. k.generation \in Nat /\ k.generation = mem.generation /\ k.generation <= r2.generation
    BY <1>1, <1>3, <2>1 DEF TypeOK, Current, Forward, Froze
  <2>3. Restricting(k.generation)
    BY <1>3, <2>1 DEF Restricting
  <2> QED BY <1>1, <2>2, <2>3, StaysBehind, StillRestricting
<1>4. CASE DataStep /\ k.generation = mem.generation
  <2>1. up /\ IsPublished /\ mem.mode = "inspect"
    BY <1>4 DEF DataStep, InTurn
  <2>2. k.generation \in Nat /\ k.generation <= r2.generation
    BY <1>1, <1>4, <2>1, PublishedBehind DEF TypeOK
  <2>3. Restricting(k.generation)
    BY <1>4, <2>1, PublishedAsked DEF Restricting
  <2> QED BY <1>1, <1>4, <2>2, <2>3, StaysBehind, StillRestricting DEF TypeOK
<1> QED BY <1>2, <1>3, <1>4, NewRecord

\* A load finds a stretch behind R2, and none of an open state.
LEMMA LoadedStretch ==
  ASSUME TypeOK, Stretches
  PROVE  /\ FrozenOnLoad \in Nat /\ FrozenOnLoad <= r2.generation
         /\ r2.mode = "open" => FrozenOnLoad = 0
         /\ \/ FrozenOnLoad = 0 \/ FrozenOnLoad = r2.generation
            \/ FrozenOnLoad = record.since /\ record.generation = r2.generation
BY DEF FrozenOnLoad, TypeOK, States, Stretches, Records

\* Every step keeps the stretch behind the state it is in.
LEMMA StretchesStep ==
  ASSUME TypeOK, TypeOK', Named, InMemory, Stretches, [Next]_vars
  PROVE  Stretches'
<1>1. mem.generation \in Nat /\ mem.since \in Nat /\ mem'.generation \in Nat /\ r2.generation \in Nat
  BY DEF TypeOK, States
<1>2. \A k \in Records' : k.since <= k.generation
  <2> TAKE k \in Records'
  <2>1. CASE k \in Records
    BY <2>1 DEF Stretches
  <2>2. CASE /\ Froze
             /\ k = [generation |-> turn.request.generation,
                     since |-> IF mem.since = 0 THEN turn.request.generation ELSE mem.since]
    <3>1. up /\ turn.request = Current
      BY <2>2, Values DEF Froze, InMemory
    <3> QED BY <1>1, <2>2, <3>1 DEF Stretches, Current
  <2>3. CASE k = [generation |-> mem.generation, since |-> mem.generation]
    BY <1>1, <2>3
  <2> QED BY <2>1, <2>2, <2>3, NewRecord
<1> DEFINE Rest == /\ up => mem.since <= mem.generation
                   /\ up /\ mem.mode = "open" => mem.since = 0 \/ turn.kind = "froze"
                   /\ turn.kind = "write" => /\ mem.since = mem.generation /\ IsPublished
                                             /\ dump.generation # mem.generation
<1>3. Rest
  BY DEF Stretches
<1>4. ASSUME UNCHANGED <<up, mem, turn, dump>> PROVE Rest'
  BY <1>3, <1>4 DEF IsPublished, Current
<1>5. ASSUME NEW request \in issued, Transition(request) PROVE Rest'
  <2>1. request \in States /\ ~Refused(Current, request) /\ up /\ up' = up /\ turn = Free
    BY <1>5 DEF TypeOK, Transition, InTurn
  <2>2. /\ mem'.since = mem.since /\ (mem' = mem \/ mem'.mode # "open")
        /\ mem.generation <= mem'.generation
    BY <1>1, <1>5, <2>1, SwitchedShape DEF TypeOK, Transition
  <2>3. turn'.kind # "write"
    BY <1>5 DEF Transition
  <2> QED BY <1>1, <1>3, <2>1, <2>2, <2>3, Values
<1>6. ASSUME PutPublished PROVE Rest'
  <2>1. up /\ up' = up /\ turn' = [kind |-> "froze", request |-> turn.request] /\ mem'.since = mem.since
    BY <1>6, Values DEF PutPublished, TypeOK, InMemory
  <2>2. mem.generation <= mem'.generation
    BY <2>1, MemoryRises
  <2> QED BY <1>1, <1>3, <2>1, <2>2
<1>7. ASSUME PutConflict PROVE Rest'
  <2>1. turn.kind = "put" /\ up /\ turn'.kind # "write"
    BY <1>7, TurnShape, Values DEF PutConflict, TypeOK, InMemory
  <2>2. CASE Refused(r2, turn.request)
    <3>1. r2 \in States /\ (IF r2.mode = "open" THEN 0 ELSE r2.generation) \in Nat
      BY DEF TypeOK, States
    <3>2. /\ mem'.mode = r2.mode /\ mem'.generation = r2.generation
          /\ mem'.since = IF r2.mode = "open" THEN 0 ELSE r2.generation
      BY <1>7, <2>2, <3>1, LoadedShape DEF PutConflict
    <3> QED BY <1>1, <2>1, <3>2
  <2>3. CASE ~Refused(r2, turn.request)
    <3>1. mem'.generation = mem.generation /\ mem'.mode = mem.mode /\ mem'.since = mem.since
      BY <1>7, <2>3 DEF PutConflict, TypeOK
    <3> QED BY <1>3, <2>1, <3>1
  <2> QED BY <2>2, <2>3
<1>8. ASSUME PutFailed PROVE Rest'
  BY <1>3, <1>8, Values DEF PutFailed
<1>9. ASSUME Froze PROVE Rest'
  <2>1. up /\ turn.request = Current
    BY <1>9, Values DEF Froze, InMemory
  <2>2. /\ mem'.generation = mem.generation /\ mem'.mode = mem.mode /\ turn'.kind = "drain"
        /\ mem'.since = IF turn.request.mode = "open" THEN 0
                        ELSE IF mem.since = 0 THEN turn.request.generation ELSE mem.since
    BY <1>9 DEF Froze, TypeOK
  <2> QED BY <1>1, <1>3, <2>1, <2>2 DEF Current
<1>10. ASSUME Acknowledge PROVE Rest'
  BY <1>3, <1>10, Values DEF Acknowledge
<1>11. ASSUME Evict PROVE Rest'
  BY <1>11, Values DEF Evict
<1>12. ASSUME Load PROVE Rest'
  <2>1. ~up /\ up' /\ turn' = Free
    BY <1>12 DEF Load, InMemory
  <2>2. mem'.generation = r2.generation /\ mem'.since = FrozenOnLoad /\ mem'.mode = r2.mode
    BY <2>1, LoadMemory
  <2> QED BY <2>1, <2>2, LoadedStretch, Values
<1>13. ASSUME DataStep PROVE Rest'
  <2>1. /\ up /\ IsPublished /\ mem.mode = "inspect" /\ turn = Free /\ dump.generation # mem.generation
        /\ dump' = dump /\ up' = up
    BY <1>13 DEF DataStep, InTurn
  <2>2. /\ mem'.stored = mem.stored /\ mem'.mode = mem.mode /\ mem'.generation = mem.generation
        /\ mem'.since = mem.generation
    BY <1>13 DEF DataStep, RestrictedWrite, TypeOK
  <2>3. IsPublished'
    BY <2>1, <2>2 DEF IsPublished, Current
  <2> QED BY <1>1, <2>1, <2>2, <2>3
<1>14. ASSUME DataWrite PROVE Rest'
  <2>1. up /\ up' = up /\ turn' = Free /\ mem' = mem /\ turn.kind = "write"
    BY <1>14, Values DEF DataWrite, InMemory
  <2> QED BY <1>3, <2>1, Values
<1>15. ASSUME BeginDump PROVE Rest'
  BY <1>3, <1>15, Values DEF BeginDump, DumpAdmitted, InTurn
<1>16. ASSUME EndDump PROVE Rest'
  <2>1. /\ UNCHANGED <<up, mem, turn>> /\ dump'.generation = 0
    BY <1>16, Values DEF EndDump
  <2>2. IsPublished => IsPublished' /\ mem.generation # 0
    BY <2>1, PublishedAsked DEF IsPublished, Current
  <2> QED BY <1>3, <2>1, <2>2
<1>17. Rest'
  <2>1. ASSUME NEW put \in latePuts, LandLatePut(put) PROVE UNCHANGED <<up, mem, turn, dump>>
    BY <2>1 DEF LandLatePut
  <2>2. ASSUME NEW late \in lateRecords, LandLateRecord(late) PROVE UNCHANGED <<up, mem, turn, dump>>
    BY <2>2 DEF LandLateRecord
  <2>3. ASSUME NEW request \in Asked, Issue(request) PROVE UNCHANGED <<up, mem, turn, dump>>
    BY <2>3 DEF Issue
  <2>4. ASSUME NEW c \in Clients, Arrive(c) \/ Admit(c) \/ Commit(c) \/ Release(c)
        PROVE  UNCHANGED <<up, mem, turn, dump>>
    BY <2>4 DEF Arrive, Admit, Commit, Release
  <2>5. Migrate \/ UNCHANGED vars => UNCHANGED <<up, mem, turn, dump>>
    BY DEF Migrate, vars
  <2> HIDE DEF Rest
  <2> QED BY <1>4, <1>5, <1>6, <1>7, <1>8, <1>9, <1>10, <1>11, <1>12, <1>13, <1>14, <1>15, <1>16,
             <2>1, <2>2, <2>3, <2>4, <2>5 DEF Next
<1> QED BY <1>2, <1>17 DEF Stretches

----------------------------------------------------------------------------
(* Dumps *)

\* What a step does to the dump and to the database.
LEMMA DumpChanges ==
  ASSUME [Next]_vars
  PROVE  \/ dump' = dump /\ db' = db
         \/ dump' = dump /\ (Migrate \/ DataWrite \/ \E c \in Clients : Commit(c))
         \/ BeginDump /\ db' = db
         \/ dump' = NoDump
BY DEF Next, vars, Issue, Transition, PutPublished, PutConflict, PutFailed, Froze, Acknowledge, LandLatePut,
       LandLateRecord, Evict, Load, Arrive, Admit, Commit, Release, Migrate, DataStep, DataWrite,
       BeginDump, EndDump

\* Every step keeps the dump behind the restriction it began under.
LEMMA DumpedStep ==
  ASSUME TypeOK, TypeOK', Named, InMemory, Forward, Stretches, Dumped, [Next]_vars
  PROVE  Dumped'
<1> SUFFICES ASSUME ~faults'.overtaken, dump' # NoDump
             PROVE  /\ dump'.since # 0 /\ dump'.since <= dump'.generation
                    /\ dump'.generation <= r2'.generation
                    /\ up' => dump'.generation <= mem'.generation
                    /\ dump'.generation # 0 /\ Restricting(dump.generation)'
                    /\ dump'.migrations <= db'.migrations
  BY DEF Dumped, Restricting
<1>1. ~faults.overtaken
  BY FlagsStay
<1>2. db.migrations <= db'.migrations /\ db.migrations \in Nat /\ db'.migrations \in Nat
      /\ dump.generation \in Nat /\ dump.migrations \in Nat
  <2>1. db.migrations \in Nat /\ db'.migrations \in Nat
    BY DEF TypeOK
  <2>2. db' = db \/ Migrate \/ DataWrite \/ \E c \in Clients : Commit(c)
    BY DEF Next, vars, Issue, Transition, PutPublished, PutConflict, PutFailed, Froze, Acknowledge,
           LandLatePut, LandLateRecord, Evict, Load, Arrive, Admit, Release, DataStep, BeginDump, EndDump
  <2>3. db'.migrations = db.migrations \/ db'.migrations = db.migrations + 1
    BY <2>2 DEF Migrate, DataWrite, Commit, TypeOK
  <2> QED BY <2>1, <2>3 DEF TypeOK
<1>3. CASE dump' = dump
  <2>1. /\ dump.since # 0 /\ dump.since <= dump.generation /\ dump.generation <= r2.generation
        /\ up => dump.generation <= mem.generation
        /\ dump.generation # 0 /\ Restricting(dump.generation)
        /\ dump.migrations <= db.migrations
    BY <1>1, <1>3 DEF Dumped
  <2>2. dump.generation <= r2'.generation /\ (up' => dump.generation <= mem'.generation)
    BY <1>1, <1>2, <2>1, StaysBehind
  <2>3. Restricting(dump.generation)'
    <3>1. PICK q \in issued : q.generation = dump.generation /\ q.mode # "open"
      BY <2>1 DEF Restricting
    <3>2. issued \subseteq issued'
      BY DEF Next, vars, Issue, Transition, PutPublished, PutConflict, PutFailed, Froze, Acknowledge,
             LandLatePut, LandLateRecord, Evict, Load, Arrive, Admit, Commit, Release, Migrate, DataStep,
             DataWrite, BeginDump, EndDump
    <3> QED BY <1>3, <3>1, <3>2 DEF Restricting
  <2> QED BY <1>2, <1>3, <2>1, <2>2, <2>3 DEF Restricting
<1>4. CASE BeginDump
  <2>1. up /\ IsPublished /\ mem.mode # "open" /\ mem.since # 0
    BY <1>4 DEF BeginDump, DumpAdmitted, InTurn
  <2>2. /\ dump' = [since |-> mem.since, migrations |-> db.migrations, data |-> db.data,
                    generation |-> mem.generation]
        /\ r2' = r2 /\ mem' = mem /\ up' = up /\ issued' = issued /\ db' = db
    BY <1>4 DEF BeginDump
  <2>3. mem.since <= mem.generation /\ mem.generation <= r2.generation /\ mem.generation \in Nat
    BY <1>1, <2>1, PublishedBehind DEF Stretches, TypeOK
  <2>4. mem.generation # 0 /\ Restricting(mem.generation)
    BY <2>1, PublishedAsked DEF Restricting
  <2> QED BY <1>2, <2>1, <2>2, <2>3, <2>4 DEF Restricting
<1> QED BY <1>3, <1>4, DumpChanges

\* Once broken, the stretch of a dump does not come back.
LEMMA BrokenStays ==
  ASSUME TypeOK, TypeOK', Named, InMemory, Forward, Recorded, Stretches, Dumped, [Next]_vars,
         ~faults.overtaken, dump # NoDump,
         dump.since < r2.generation,
         \A k \in Records : k.generation >= r2.generation => k.since # dump.since,
         up => /\ dump.since < mem.generation
               /\ mem.since # dump.since \/ (turn.kind = "froze" /\ turn.request.mode = "open")
  PROVE  /\ dump.since < r2'.generation
         /\ \A k \in Records' : k.generation >= r2'.generation => k.since # dump.since
         /\ up' => /\ dump.since < mem'.generation
                   /\ \/ mem'.since # dump.since
                      \/ turn'.kind = "froze" /\ turn'.request.mode = "open"
<1>1. /\ r2.generation \in Nat /\ r2'.generation \in Nat /\ dump.since \in Nat /\ mem.since \in Nat
      /\ mem.generation \in Nat /\ mem'.generation \in Nat
  BY DEF TypeOK, States
<1>2. dump.since # 0
  BY DEF Dumped
<1>3. r2.generation <= r2'.generation
  BY R2Rises
<1>4. turn.kind \in {"put", "froze", "drain"} => up
  BY Values DEF InMemory
<1>5. turn.kind = "froze" => turn.request.generation = mem.generation
  BY DEF InMemory, Current
<1>6. ASSUME NEW k \in Records', k.generation >= r2'.generation PROVE k.since # dump.since
  <2>1. CASE k \in Records
    BY <1>1, <1>3, <1>6, <2>1, RecordShape
  <2>2. CASE /\ Froze /\ turn.request.mode # "open"
             /\ k = [generation |-> turn.request.generation,
                     since |-> IF mem.since = 0 THEN turn.request.generation ELSE mem.since]
    <3>1. up /\ turn.request.generation = mem.generation
      BY <1>4, <1>5, <2>2 DEF Froze
    <3> QED BY <1>1, <2>2, <3>1
  <2>3. CASE DataStep /\ k = [generation |-> mem.generation, since |-> mem.generation]
    BY <1>1, <2>3 DEF DataStep, InTurn
  <2> QED BY <2>1, <2>2, <2>3, NewRecord
<1>7. ASSUME up'
      PROVE  /\ dump.since < mem'.generation
             /\ mem'.since # dump.since \/ (turn'.kind = "froze" /\ turn'.request.mode = "open")
  <2>1. CASE ~up
    <3>1. mem'.generation = r2.generation /\ mem'.since = FrozenOnLoad
      BY <1>7, <2>1, LoadMemory
    <3>2. record \in Records
      BY DEF Records
    <3>3. FrozenOnLoad # dump.since
      BY <1>1, <1>2, <3>2, LoadedStretch
    <3> QED BY <3>1, <3>3
  <2>2. CASE up
    <3>1. dump.since < mem'.generation
      BY <1>1, <2>2, MemoryRises
    <3>2. CASE UNCHANGED <<mem, turn>>
      BY <2>2, <3>1, <3>2
    <3>3. ASSUME NEW request \in issued, Transition(request) PROVE mem'.since # dump.since
      <4>1. request \in States /\ ~Refused(Current, request) /\ turn = Free
        BY <3>3 DEF TypeOK, Transition, InTurn
      <4>2. mem'.since = mem.since
        BY <3>3, <4>1, SwitchedShape DEF TypeOK, Transition
      <4> QED BY <2>2, <4>1, <4>2, Values
    <3>4. PutPublished => mem'.since # dump.since
      BY <2>2 DEF PutPublished, TypeOK
    <3>5. ASSUME PutConflict PROVE mem'.since # dump.since
      <4>1. CASE Refused(r2, turn.request)
        <5>1. r2 \in States /\ (IF r2.mode = "open" THEN 0 ELSE r2.generation) \in Nat
          BY DEF TypeOK, States
        <5>2. mem'.since = IF r2.mode = "open" THEN 0 ELSE r2.generation
          BY <3>5, <4>1, <5>1, LoadedShape DEF PutConflict
        <5> QED BY <1>1, <1>2, <5>2
      <4>2. CASE ~Refused(r2, turn.request)
        BY <2>2, <3>5, <4>2 DEF PutConflict, TypeOK
      <4> QED BY <4>1, <4>2
    <3>6. ASSUME Froze PROVE mem'.since # dump.since
      <4>1. mem'.since = IF turn.request.mode = "open" THEN 0
                         ELSE IF mem.since = 0 THEN turn.request.generation ELSE mem.since
        BY <3>6 DEF Froze, TypeOK
      <4> QED BY <1>1, <1>2, <1>5, <2>2, <3>6, <4>1 DEF Froze
    <3>7. ASSUME DataStep PROVE mem'.since # dump.since
      <4>1. mem'.since = mem.generation
        BY <3>7 DEF DataStep, RestrictedWrite, TypeOK
      <4> QED BY <1>1, <2>2, <4>1
    <3>8. PutFailed \/ Acknowledge \/ DataWrite => mem'.since # dump.since
      BY <2>2 DEF PutFailed, Acknowledge, DataWrite
    <3>9. ~Evict /\ ~Load
      BY <1>7, <2>2 DEF Evict, Load
    <3>10. \/ UNCHANGED <<mem, turn>> \/ PutPublished \/ PutConflict \/ Froze \/ DataStep
           \/ PutFailed \/ Acknowledge \/ DataWrite \/ \E request \in issued : Transition(request)
      BY <3>9, AsideCore DEF Next, Aside, LandLatePut, vars
    <3> QED BY <3>1, <3>2, <3>3, <3>4, <3>5, <3>6, <3>7, <3>8, <3>10
  <2> QED BY <2>1, <2>2
<1> QED BY <1>1, <1>3, <1>6, <1>7

\* A write of an invocation or of a data step ends the stretch of the dump for good.
LEMMA WriteBreaks ==
  ASSUME TypeOK, Named, InMemory, Forward, Recorded, Stretches, Dumped,
         ~faults'.overtaken, ~faults'.unrecorded, ~faults.overtaken, dump # NoDump,
         DataWrite \/ \E c \in Clients : Commit(c)
  PROVE  /\ dump.since < r2.generation
         /\ \A k \in Records : k.generation >= r2.generation => k.since # dump.since
         /\ dump.since < mem.generation
         /\ mem.since # dump.since \/ (turn.kind = "froze" /\ turn.request.mode = "open")
<1>1. /\ r2.generation \in Nat /\ dump.since \in Nat /\ dump.generation \in Nat
      /\ mem.generation \in Nat /\ mem.since \in Nat
  BY DEF TypeOK, States
<1>2. up
  BY Values DEF DataWrite, Commit, InMemory
<1>3. /\ dump.since # 0 /\ dump.since <= dump.generation /\ dump.generation <= mem.generation
      /\ Restricting(dump.generation)
  BY <1>2 DEF Dumped
<1>4. CASE DataWrite
  <2>1. turn.kind = "write" /\ mem.since = mem.generation /\ IsPublished /\ dump.generation # mem.generation
    BY <1>4 DEF DataWrite, Stretches
  <2>2. dump.since < mem.generation /\ mem.generation <= r2.generation
    BY <1>1, <1>2, <1>3, <2>1, PublishedBehind
  <2>3. ~Unrecorded
    BY <1>4 DEF DataWrite, TypeOK
  <2>4. ASSUME NEW k \in Records, k.generation >= r2.generation PROVE k.since # dump.since
    <3>1. k.generation = mem.generation
      BY <1>1, <1>2, <2>2, <2>4, RecordShape DEF Recorded
    <3>2. k.since = mem.since
      BY <2>3, <3>1 DEF Unrecorded, Records
    <3> QED BY <1>1, <2>1, <2>2, <3>2
  <2> QED BY <1>1, <2>1, <2>2, <2>4
<1>5. CASE \E c \in Clients : Commit(c)
  <2>1. mem.mode = "open"
    BY <1>5 DEF Commit, Writable
  <2>2. dump.generation # mem.generation
    BY <1>3, <2>1, OpenGeneration
  <2>3. dump.since < mem.generation /\ mem.generation <= r2.generation
    BY <1>1, <1>2, <1>3, <2>1, <2>2 DEF Forward
  <2>4. ASSUME NEW k \in Records, k.generation >= r2.generation PROVE k.since # dump.since
    <3>1. k.generation = mem.generation /\ Restricting(k.generation)
      BY <1>1, <1>2, <2>3, <2>4, RecordShape DEF Recorded
    <3> QED BY <2>1, <3>1, OpenGeneration
  <2>5. mem.since = 0 \/ (turn.kind = "froze" /\ turn.request.mode = "open")
    BY <1>2, <2>1 DEF Stretches, InMemory, Current
  <2> QED BY <1>1, <1>3, <2>3, <2>4, <2>5
<1> QED BY <1>4, <1>5

\* Every step keeps a broken stretch broken.
LEMMA BrokenStep ==
  ASSUME TypeOK, TypeOK', Named, InMemory, Forward, Recorded, Stretches, Dumped, Broken, [Next]_vars
  PROVE  Broken'
<1> SUFFICES ASSUME ~faults'.overtaken, ~faults'.unrecorded, dump' # NoDump,
                    db'.migrations = dump'.migrations, db'.data # dump'.data
             PROVE  Broken'
  BY DEF Broken
<1>1. ~faults.overtaken /\ ~faults.unrecorded
  BY FlagsStay
<1>2. ASSUME dump' = dump, db' = db PROVE Broken'
  <2>1. /\ dump.since < r2.generation
        /\ \A k \in Records : k.generation >= r2.generation => k.since # dump.since
        /\ up => /\ dump.since < mem.generation
                 /\ mem.since # dump.since \/ (turn.kind = "froze" /\ turn.request.mode = "open")
    BY <1>1, <1>2 DEF Broken
  <2> QED BY <1>1, <1>2, <2>1, BrokenStays DEF Broken
<1>3. ASSUME dump' = dump, DataWrite \/ \E c \in Clients : Commit(c) PROVE Broken'
  <2>1. /\ dump.since < r2.generation
        /\ \A k \in Records : k.generation >= r2.generation => k.since # dump.since
        /\ dump.since < mem.generation
        /\ mem.since # dump.since \/ (turn.kind = "froze" /\ turn.request.mode = "open")
    BY <1>1, <1>3, WriteBreaks
  <2> QED BY <1>1, <1>3, <2>1, BrokenStays DEF Broken
<1>4. ~(dump' = dump /\ Migrate)
  BY <1>1 DEF Migrate, Dumped, TypeOK
<1>5. ~(BeginDump /\ db' = db)
  BY DEF BeginDump
<1> QED BY <1>2, <1>3, <1>4, <1>5, DumpChanges

----------------------------------------------------------------------------
(* Theorems *)

\* The start.
LEMMA InitIInv ==
  ASSUME Init
  PROVE  IInv
<1>1. mem = Loaded(Unpublished, 0) /\ mem.generation = 0 /\ mem.mode = "open" /\ mem.stored = Unpublished
      /\ mem.since = 0 /\ mem \in [mode : Modes, generation : Nat, stored : States, since : Nat]
  BY LoadedShape, Values DEF Init
<1>2. TypeOK
  <2>1. Out \in [phase : {"out", "arrived", "running"}, captured : States]
    BY Values DEF Out
  <2> QED BY <1>1, <2>1, Values DEF Init, TypeOK
<1>3. Named
  BY <1>1, Values DEF Init, Named, Known, Current, Unpublished
<1>4. InMemory /\ Forward
  BY <1>1, Values DEF Init, InMemory, Forward
<1>5. Recorded /\ Stretches
  BY <1>1, Values DEF Init, Recorded, Stretches, Records
<1>6. Dumped /\ Broken
  BY DEF Init, Dumped, Broken
<1> QED BY <1>2, <1>3, <1>4, <1>5, <1>6 DEF IInv

\* The inductive invariant holds in every reachable state.
LEMMA Always == Spec => []IInv
<1>1. IInv /\ [Next]_vars => IInv'
  <2> SUFFICES ASSUME IInv, [Next]_vars PROVE IInv'
    OBVIOUS
  <2> USE DEF IInv
  <2>1. TypeOK'
    BY TypeStep
  <2>2. Named' /\ InMemory'
    BY NamedStep, InMemoryStep
  <2>3. Forward' /\ Recorded' /\ Stretches'
    BY <2>1, ForwardStep, RecordedStep, StretchesStep
  <2>4. Dumped' /\ Broken'
    BY <2>1, DumpedStep, BrokenStep
  <2> QED BY <2>1, <2>2, <2>3, <2>4
<1> QED BY <1>1, InitIInv, PTL DEF Spec

\* R2, the memory of an instance, its turn and the puts under way keep their types.
THEOREM TypeCorrect == Spec => []TypeOK
BY Always, PTL DEF IInv

\* Whatever is evicted, fails or lands late, an acknowledged state is what R2 holds or is behind it.
THEOREM AcknowledgedPublished == Spec => []AcknowledgedIsPublished
<1>1. IInv => AcknowledgedIsPublished
  BY OneMode DEF IInv, AcknowledgedIsPublished, Forward, Named, Known
<1> QED BY <1>1, Always, PTL

\* No put, of a replaced instance included, takes the published generation back.
THEOREM NeverGoesBack == Spec => PublishedNeverGoesBack
<1>1. IInv /\ [Next]_vars => [~faults.overtaken => r2'.generation >= r2.generation]_vars
  BY R2Rises DEF IInv, TypeOK, States
<1> QED BY <1>1, Always, PTL DEF Spec, PublishedNeverGoesBack

\* After an acknowledged restriction no ordinary invocation commits before Control asks for an open.
THEOREM QuietAfterAck == Spec => AcknowledgedIsQuiet
<1>1. ASSUME IInv, [Next]_vars, commits' # commits, ~faults.overtaken PROVE RestrictionsLifted
  <2> USE DEF IInv
  <2>1. PICK c \in Clients : Commit(c)
    BY <1>1 DEF Next, vars, Issue, Transition, PutPublished, PutConflict, PutFailed, Froze, Acknowledge,
                LandLatePut, LandLateRecord, Evict, Load, Arrive, Admit, Release, Migrate, DataStep,
                DataWrite, BeginDump, EndDump
  <2>2. up /\ mem.mode = "open"
    BY <2>1 DEF Commit, Writable
  <2> SUFFICES ASSUME NEW a \in acked, a.mode # "open"
               PROVE  \E r \in issued : r.mode = "open" /\ r.generation > a.generation
    BY DEF RestrictionsLifted
  <2>3. a \in issued /\ a.generation \in Nat /\ a.generation # 0
    BY <1>1, Values DEF Named, TypeOK, States
  <2>4. a.generation <= mem.generation /\ mem.generation \in Nat
    BY <1>1, <2>2 DEF Forward, TypeOK
  <2>5. a.generation # mem.generation
    BY <1>1, <2>2, <2>3, OpenGeneration DEF Restricting
  <2>6. Current \in issued
    BY <1>1, <2>3, <2>4, Values DEF Named, Known, Current
  <2> QED BY <2>2, <2>3, <2>4, <2>5, <2>6 DEF Current
<1>2. IInv /\ [Next]_vars => [commits' # commits /\ ~faults.overtaken => RestrictionsLifted]_vars
  BY <1>1
<1> QED BY <1>2, Always, PTL DEF Spec, AcknowledgedIsQuiet

\* A dump that still sees its stretch and its ledger reads the data of its begin.
THEOREM DumpConsistent == Spec => []ConsistentDump
<1>1. ASSUME IInv PROVE ConsistentDump
  <2> SUFFICES ASSUME ~faults.unrecorded, ~faults.overtaken, dump # NoDump, DumpAdmitted,
                      mem.since = dump.since, db.migrations = dump.migrations, db.data # dump.data
               PROVE  FALSE
    BY DEF ConsistentDump
  <2>1. up /\ turn.kind # "froze"
    BY Values DEF DumpAdmitted, InTurn
  <2> QED BY <1>1, <2>1 DEF IInv, Broken
<1> QED BY <1>1, Always, PTL
=============================================================================
