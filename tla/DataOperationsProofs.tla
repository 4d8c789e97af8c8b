------------------------ MODULE DataOperationsProofs ------------------------
(***************************************************************************)
(* The data operations of an environment, for any plans of operations,     *)
(* resolutions, generations, writes and stops.                             *)
(*                                                                         *)
(* First, no object is ever asked for two modes under one generation.  A   *)
(* generation belongs to one record (Distinct), and whoever takes an       *)
(* operation over takes a fresh one, unless nothing was asked for yet      *)
(* (Untouched).  So what was asked for under the generation of the driven  *)
(* operation was asked for by its holder, at the steps since it took the   *)
(* generation, and these agree on the mode of each object (Planned).       *)
(*                                                                         *)
(* Second, along a straight history no write is lost, and an environment   *)
(* recorded open serves from an open object that holds every write.  One   *)
(* operation is the base, and how far it came says where the writes are    *)
(* (Grounded), which arms are harmless, which run may still move the       *)
(* traffic (OneRun), what the record of an ended operation promises        *)
(* (Finals) and what its holder relies on (Driving, Placed).               *)
(***************************************************************************)
EXTENDS DataOperations, SequenceTheorems, WellFoundedInduction, TLAPS

----------------------------------------------------------------------------
(* The invariant *)

\* What was asked for under a generation: it reached its object, or is on its way.
AskedFor(g) ==
  {p \in Objects \X Modes :
     \/ obj[p[1]] = [generation |-> g, mode |-> p[2]]
     \/ \E r \in sent : r.kind = "state" /\ r.object = p[1] /\ r.mode = p[2] /\ r.generation = g}

\* What a holder is still about to publish.
Ahead(todo) == {todo[k] : k \in 1..Len(todo)}

OneModeEach(pairs) == \A p, q \in pairs : p[1] = q[1] => p[2] = q[2]
Everywhere(mode) == {<<o, mode>> : o \in Objects}

\* The steps of each kind, with the mode they are in where a fence publishes it.
RestoreSteps == {"list", "restrict", "backup", "verify", "import", "promote",
                 "point", "serve", "rewind", "check", "revert", "open"}
Stepped(row) ==
  /\ row.kind = "maintenance" => row.step \in {"restrict", "open"}
  /\ row.kind = "backup" => \/ row.step \in {"restrict", "backup"} /\ row.mode = "read-only"
                            \/ row.step \in {"open", "verify"} /\ row.mode = "open"
  /\ row.kind = "migrate" => \/ /\ row.step \in {"restrict", "backup", "verify", "deploy", "migrate"}
                                /\ row.mode = "read-only"
                             \/ row.step = "open" /\ row.mode = "open"
  /\ row.kind = "recovery" => \/ row.step \in {"reconcile", "restrict", "resume"}
                              \/ row.step = "open" /\ row.mode = "open"
  /\ row.kind = "restore" => row.step \in RestoreSteps

\* The modes a step, the ones before it under its generation and its fence agree on.
RecoveryAgreed(row, pc) ==
  IF row.step \in {"open", "resume"} THEN Everywhere(row.mode)
  ELSE IF row.step = "reconcile" \/ pc \in {"step", "revert"} THEN {} ELSE Everywhere("closed")
RestoreAgreed(row) ==
  CASE row.step = "list" -> {<<row.original, "open">>}
    [] row.step \in {"restrict", "backup", "verify"} -> {<<row.original, "read-only">>}
    [] row.step = "import" -> {<<row.original, "read-only">>, <<row.clone, "inspect">>}
    [] row.step \in {"promote", "point", "serve", "rewind", "check"} ->
         {<<row.original, "inspect">>, <<row.clone, "open">>}
    [] row.step = "revert" -> {<<row.original, "inspect">>, <<row.clone, "inspect">>}
    [] row.step = "open" -> {<<row.original, "open">>, <<row.clone, "inspect">>}
Agreed(row, pc) ==
  CASE row.kind \in {"maintenance", "backup", "migrate"} -> Everywhere(row.mode)
    [] row.kind = "recovery" -> RecoveryAgreed(row, pc)
    [] row.kind = "restore" -> RestoreAgreed(row)

\* Places from where nothing more is published under the record's generation.
Silent(row, pc, todo) ==
  /\ todo = <<>>
  /\ \/ row.kind = "restore" /\ row.step = "revert"
     \/ row.kind = "recovery" /\ (row.step = "resume" \/ (row.step = "open" /\ pc = "acked"))

\* The places of a recovery that opens past a restore: what is left to publish is all there is.
Settling(row, pc) == row.kind = "recovery" /\ row.step = "restrict" /\ pc \in {"kept", "settle"}

\* What was asked for, and what is about to be, is what the place agrees on.
Agrees(row, pc, todo, asked) ==
  \/ Silent(row, pc, todo)
  \/ Settling(row, pc) /\ OneModeEach(asked \cup Ahead(todo))
  \/ ~Settling(row, pc) /\ asked \cup Ahead(todo) \subseteq Agreed(row, pc)

Requests == [kind : {"state", "arm"}, object : Objects, mode : Modes,
             generation : 1..MaxGeneration, op : 0..MaxOps]

Types ==
  /\ ops \in Seq(OpRecords) /\ Len(ops) <= MaxOps /\ generation \in 0..MaxGeneration
  /\ serving \in 0..Len(ops) /\ sent \subseteq Requests
  /\ obj \in [Objects -> [generation : 0..MaxGeneration, mode : Modes]]

RowOK(i, row, last) ==
  /\ row.clone = i /\ row.original < i /\ row.recovers < i /\ row.generation <= last
  /\ row.kind = "recovery" => row.recovers # 0
  /\ Stepped(row)
Rows == \A i \in 1..Len(ops) : RowOK(i, ops[i], generation)

Distinct == \A i, j \in 1..Len(ops) : ops[i].generation = ops[j].generation => i = j
Allocated == /\ \A o \in Objects : obj[o].generation <= generation
             /\ \A r \in sent : r.generation <= generation
Untouched == \A i \in 1..Len(ops) :
               ops[i].kind = "recovery" /\ ops[i].step = "reconcile" => AskedFor(ops[i].generation) = {}

\* The records, with what was asked for under them.
Records == Types /\ Rows /\ Distinct /\ Allocated /\ Untouched

Places == {"step", "acked", "arm", "kept", "revert", "settle"}
Drivers == [stack : Seq(1..Len(ops)), pc : Places, todo : Seq(Objects \X Modes), starter : BOOLEAN]

\* Below the operation that is driven are the recoveries that resume it, each newer.
Stacked == \A k, l \in 1..Len(drv.stack) :
             k < l => /\ drv.stack[k] > drv.stack[l]
                      /\ ops[drv.stack[k]].kind = "recovery" /\ ops[drv.stack[k]].step = "resume"
Planned == drv.stack # <<>> => Agrees(Op, drv.pc, drv.todo, AskedFor(Op.generation))

Holder == drv \in Drivers /\ Stacked /\ Planned

\* The counts of writes, and where the traffic goes.
Counted == /\ data \in [Objects -> 0..MaxWrites] /\ total \in 0..MaxWrites
           /\ \A o \in Objects : data[o] <= total
           /\ \A i \in 1..Len(ops) : ops[i].dump <= total
Around == /\ deployed \in Objects /\ listed \subseteq Objects /\ sentinel \subseteq 1..MaxOps
          /\ stops \in 0..MaxStops

IInv == Records /\ Holder /\ Counted /\ Around

----------------------------------------------------------------------------
(* Records *)

LEMMA Bounds == MaxOps \in Nat /\ MaxGeneration \in Nat /\ MaxWrites \in Nat /\ MaxStops \in Nat
                /\ MaxArms \in Nat \ {0}
  BY BoundsAssumption

LEMMA Fields ==
  ASSUME NEW row \in OpRecords
  PROVE  /\ row.generation \in Nat /\ row.generation \in 1..MaxGeneration /\ row.dump \in 0..MaxWrites
         /\ row.kind \in AllKinds /\ row.step \in Steps /\ row.mode \in Modes
         /\ row.original \in Objects /\ row.clone \in Objects /\ row.recovers \in 0..MaxOps
         /\ row.runs \in [Deploys -> Statuses] /\ row.arms \in 0..MaxArms
<1>1. row.generation \in 1..MaxGeneration
    BY DEF OpRecords
<1>2. row.generation \in Nat
    BY <1>1, Bounds
<1> QED BY <1>1, <1>2 DEF OpRecords

\* The invariant that every run checks is part of the one that is proved.
LEMMA Typed == IInv => TypeOK
<1> SUFFICES ASSUME IInv PROVE TypeOK
    OBVIOUS
<1>1. Len(ops) \in Nat /\ Len(ops) <= MaxOps
    BY DEF IInv, Records, Types
<1>2. drv.stack \in Seq(1..MaxOps)
    <2>1. drv.stack \in Seq(1..Len(ops))
        BY DEF IInv, Holder, Drivers
    <2>2. 1..Len(ops) \subseteq 1..MaxOps
        BY <1>1, Bounds
    <2> QED BY <2>1, <2>2, SeqMonotonic
<1>3. serving \in Objects
    BY <1>1, Bounds DEF IInv, Records, Types, Objects
<1> QED BY <1>2, <1>3 DEF IInv, Records, Types, Counted, Around, TypeOK, Requests

\* Nothing was asked for under a generation that was not allocated.
LEMMA Unasked ==
  ASSUME Records
  PROVE  AskedFor(generation + 1) = {}
<1>1. \A o \in Objects : obj[o].generation # generation + 1
    BY Bounds DEF Records, Types, Allocated
<1>2. \A r \in sent : r.generation # generation + 1
    BY Bounds DEF Records, Types, Allocated, Requests
<1> QED BY <1>1, <1>2 DEF AskedFor

\* What was asked for is a matter of the objects and the requests.
LEMMA AskedSame ==
  ASSUME obj' = obj, sent' = sent
  PROVE  \A g : AskedFor(g)' = AskedFor(g)
BY DEF AskedFor

\* A record keeps what it was created with, and moves at its generation or at a fresh one.
Kept(row, old) == /\ row.kind = old.kind /\ row.clone = old.clone /\ row.original = old.original
                  /\ row.recovers = old.recovers
SameGeneration(row, old) ==
  /\ generation' = generation /\ row.generation = old.generation
  /\ row.step = "reconcile" => old.step = "reconcile"
FreshGeneration(row) ==
  generation < MaxGeneration /\ generation' = generation + 1 /\ row.generation = generation + 1

\* A write of one record.
LEMMA RowMoves ==
  ASSUME Records, NEW i \in 1..Len(ops), NEW row \in OpRecords, ops' = [ops EXCEPT ![i] = row],
         Kept(row, ops[i]), Stepped(row), SameGeneration(row, ops[i]) \/ FreshGeneration(row),
         obj' = obj, sent' = sent, serving' \in 0..Len(ops)
  PROVE  /\ Records' /\ Len(ops') = Len(ops)
         /\ \A k \in 1..Len(ops) : ops'[k] = IF k = i THEN row ELSE ops[k]
         /\ \A g : AskedFor(g)' = AskedFor(g)
<1>1. /\ ops \in Seq(OpRecords) /\ Len(ops) \in Nat /\ generation \in 0..MaxGeneration
      /\ \A k \in 1..Len(ops) : ops[k] \in OpRecords
    BY DEF Records, Types
<1>2. ops' \in Seq(OpRecords) /\ Len(ops') = Len(ops)
    BY <1>1
<1>3. \A k \in 1..Len(ops) : ops'[k] = IF k = i THEN row ELSE ops[k]
    BY <1>1
<1>4. \A g : AskedFor(g)' = AskedFor(g)
    BY AskedSame
<1>5. /\ generation' \in 0..MaxGeneration /\ generation <= generation' /\ row.generation <= generation'
      /\ row.generation \in Nat
    BY <1>1, Fields, Bounds DEF SameGeneration, FreshGeneration, Records, Rows, RowOK
<1>6. Types'
    BY <1>2, <1>5 DEF Records, Types
<1>7. Rows'
    <2> SUFFICES ASSUME NEW k \in 1..Len(ops)
                 PROVE  RowOK(k, ops'[k], generation')
        BY <1>2 DEF Rows
    <2>1. RowOK(k, ops[k], generation) /\ ops[k].generation \in Nat
        BY <1>1, Fields DEF Records, Rows
    <2>2. CASE k = i
        BY <2>1, <2>2, <1>3, <1>5 DEF RowOK, Kept
    <2>3. CASE k # i
        BY <2>1, <2>3, <1>1, <1>3, <1>5 DEF RowOK
    <2> QED BY <2>2, <2>3
<1>8. Distinct'
    <2> SUFFICES ASSUME NEW k \in 1..Len(ops), NEW l \in 1..Len(ops), ops'[k].generation = ops'[l].generation
                 PROVE  k = l
        BY <1>2 DEF Distinct
    <2>1. /\ ops[k].generation \in Nat /\ ops[k].generation <= generation
          /\ ops[l].generation \in Nat /\ ops[l].generation <= generation
        BY <1>1, Fields DEF Records, Rows, RowOK
    <2>2. ops[k].generation = ops[l].generation => k = l
        BY DEF Records, Distinct
    <2> QED BY <2>1, <2>2, <1>1, <1>3 DEF SameGeneration, FreshGeneration
<1>9. Allocated'
    BY <1>1, <1>5, Bounds DEF Records, Types, Allocated, Requests
<1>10. Untouched'
    <2> SUFFICES ASSUME NEW k \in 1..Len(ops), ops'[k].kind = "recovery", ops'[k].step = "reconcile"
                 PROVE  AskedFor(ops'[k].generation) = {}
        BY <1>2, <1>4 DEF Untouched
    <2>1. ops[k].kind = "recovery" /\ ops[k].step = "reconcile" => AskedFor(ops[k].generation) = {}
        BY DEF Records, Untouched
    <2>2. AskedFor(generation + 1) = {}
        BY Unasked
    <2>3. CASE k # i
        BY <2>1, <2>3, <1>3
    <2>4. CASE k = i
        BY <2>1, <2>2, <2>4, <1>3 DEF Kept, SameGeneration, FreshGeneration
    <2> QED BY <2>3, <2>4
<1> QED BY <1>2, <1>3, <1>4, <1>6, <1>7, <1>8, <1>9, <1>10 DEF Records

----------------------------------------------------------------------------
(* The holder *)

LEMMA TopIn ==
  ASSUME IInv, drv.stack # <<>>
  PROVE  /\ Top \in 1..Len(ops) /\ Op \in OpRecords /\ RowOK(Top, Op, generation)
         /\ Len(drv.stack) \in Nat \ {0} /\ drv.stack \in Seq(1..Len(ops))
         /\ Agrees(Op, drv.pc, drv.todo, AskedFor(Op.generation))
         /\ drv.todo \in Seq(Objects \X Modes) /\ drv.pc \in Places
<1>1. drv.stack \in Seq(1..Len(ops)) /\ drv.todo \in Seq(Objects \X Modes) /\ drv.pc \in Places
    BY DEF IInv, Holder, Drivers
<1>2. Len(drv.stack) \in Nat \ {0}
    BY <1>1, EmptySeq
<1>3. Top \in 1..Len(ops)
    BY <1>1, <1>2, ElementOfSeq DEF Top
<1>4. Op \in OpRecords
    BY <1>3, ElementOfSeq DEF Op, IInv, Records, Types
<1> QED BY <1>1, <1>2, <1>3, <1>4 DEF IInv, Records, Rows, Op, Holder, Planned

\* The stack is below the records, whatever moves but the steps of what it resumes.
LEMMA StackKeeps ==
  ASSUME IInv, drv'.stack = drv.stack, Len(ops') = Len(ops), NEW i \in 1..Len(ops),
         \A k \in 1..Len(ops) : k # i => ops'[k] = ops[k],
         ops'[i].kind = ops[i].kind, ops'[i].step = ops[i].step \/ (drv.stack # <<>> /\ i = Top)
  PROVE  Stacked'
<1>1. drv.stack \in Seq(1..Len(ops)) /\ Stacked
    BY DEF IInv, Holder, Drivers
<1> SUFFICES ASSUME NEW k \in 1..Len(drv.stack), NEW l \in 1..Len(drv.stack), k < l
             PROVE  /\ drv.stack[k] > drv.stack[l]
                    /\ ops'[drv.stack[k]].kind = "recovery" /\ ops'[drv.stack[k]].step = "resume"
    BY DEF Stacked
<1>2. /\ drv.stack[k] > drv.stack[l] /\ drv.stack[k] \in 1..Len(ops)
      /\ ops[drv.stack[k]].kind = "recovery" /\ ops[drv.stack[k]].step = "resume"
    BY <1>1 DEF Stacked
<1>3. drv.stack # <<>> => drv.stack[k] # Top
    <2>1. Len(drv.stack) \in Nat /\ k < Len(drv.stack) /\ Len(drv.stack) \in 1..Len(drv.stack)
        BY <1>1
    <2>2. drv.stack[k] > drv.stack[Len(drv.stack)]
        BY <1>1, <2>1 DEF Stacked
    <2>3. drv.stack[Len(drv.stack)] \in 1..Len(ops)
        BY <1>1, <2>1
    <2> QED BY <2>2, <2>3, <1>2 DEF Top
<1> QED BY <1>2, <1>3

\* The holder writes the record of the operation it drives, and moves on.
LEMMA TopMoves ==
  ASSUME IInv, drv.stack # <<>>, NEW row \in OpRecords, NEW pc \in Places, NEW todo \in Seq(Objects \X Modes),
         Write(row), To(pc, todo), Kept(row, Op), Stepped(row),
         SameGeneration(row, Op) \/ FreshGeneration(row),
         obj' = obj, sent' = sent, serving' \in 0..Len(ops),
         Agrees(row, pc, todo, AskedFor(row.generation))
  PROVE  /\ Records' /\ Holder' /\ Len(ops') = Len(ops)
         /\ \A k \in 1..Len(ops) : ops'[k] = IF k = Top THEN row ELSE ops[k]
<1>1. Top \in 1..Len(ops) /\ drv.stack \in Seq(1..Len(ops)) /\ Op = ops[Top] /\ Records /\ drv \in Drivers
    BY TopIn DEF Op, IInv, Holder
<1>2. /\ Records' /\ Len(ops') = Len(ops)
      /\ \A k \in 1..Len(ops) : ops'[k] = IF k = Top THEN row ELSE ops[k]
      /\ \A g : AskedFor(g)' = AskedFor(g)
    BY <1>1, RowMoves DEF Write
<1>3. /\ drv'.stack = drv.stack /\ drv'.pc = pc /\ drv'.todo = todo /\ drv' \in Drivers'
    BY <1>1, <1>2 DEF To, Drivers
<1>4. Stacked'
    BY <1>1, <1>2, <1>3, StackKeeps DEF Kept
<1>5. Op' = row
    BY <1>1, <1>2, <1>3 DEF Op, Top
<1>6. Planned'
    BY <1>2, <1>3, <1>5 DEF Planned, Agrees, Silent, Settling
<1> QED BY <1>2, <1>3, <1>4, <1>6 DEF Holder

\* The holder moves, and no record does.
LEMMA HolderMoves ==
  ASSUME IInv, drv.stack # <<>>, NEW pc \in Places, NEW todo \in Seq(Objects \X Modes),
         To(pc, todo), UNCHANGED <<ops, generation, serving, obj, sent>>,
         Agrees(Op, pc, todo, AskedFor(Op.generation))
  PROVE  Records' /\ Holder'
<1>1. Records' /\ (\A g : AskedFor(g)' = AskedFor(g))
    BY AskedSame DEF IInv, Records, Types, Rows, Distinct, Allocated, Untouched
<1>2. drv'.stack = drv.stack /\ drv'.pc = pc /\ drv'.todo = todo /\ drv' \in Drivers'
    BY DEF To, Drivers, IInv, Holder
<1>3. Stacked' /\ Op' = Op
    BY <1>2 DEF IInv, Holder, Stacked, Op, Top
<1>4. Planned'
    BY <1>1, <1>2, <1>3 DEF Planned
<1> QED BY <1>1, <1>2, <1>3, <1>4 DEF Holder

\* A record moves beside the holder: its runs, its state and its code alone.
LEMMA BesideMoves ==
  ASSUME IInv, NEW i \in 1..Len(ops), NEW row \in OpRecords, ops' = [ops EXCEPT ![i] = row],
         Kept(row, ops[i]), row.step = ops[i].step, row.mode = ops[i].mode,
         row.generation = ops[i].generation, row.dump = ops[i].dump,
         UNCHANGED <<generation, serving, obj, sent, drv, data, total>>
  PROVE  Records' /\ Holder' /\ Counted'
<1>1. Records /\ ops[i] \in OpRecords /\ RowOK(i, ops[i], generation) /\ ops \in Seq(OpRecords)
    BY DEF IInv, Records, Types, Rows
<1>2. Stepped(row) /\ SameGeneration(row, ops[i]) /\ serving' \in 0..Len(ops)
    BY <1>1 DEF Stepped, RowOK, Kept, SameGeneration, Records, Types
<1>3. /\ Records' /\ Len(ops') = Len(ops)
      /\ \A k \in 1..Len(ops) : ops'[k] = IF k = i THEN row ELSE ops[k]
      /\ \A g : AskedFor(g)' = AskedFor(g)
    BY <1>1, <1>2, RowMoves
<1>4. Counted'
    BY <1>3 DEF IInv, Counted
<1>5. Stacked' /\ drv' \in Drivers'
    BY <1>3, StackKeeps DEF Kept, IInv, Holder, Drivers
<1>6. Planned'
    <2> SUFFICES ASSUME drv.stack # <<>>
                 PROVE  Agrees(Op', drv.pc, drv.todo, AskedFor(Op'.generation))
        BY <1>3 DEF Planned
    <2>1. Top \in 1..Len(ops) /\ Agrees(Op, drv.pc, drv.todo, AskedFor(Op.generation))
        BY TopIn
    <2>2. /\ Op'.kind = Op.kind /\ Op'.step = Op.step /\ Op'.mode = Op.mode /\ Op'.original = Op.original
          /\ Op'.clone = Op.clone /\ Op'.generation = Op.generation
        BY <1>3, <2>1 DEF Op, Top, Kept
    <2>3. Agreed(Op', drv.pc) = Agreed(Op, drv.pc)
        BY <2>2 DEF Agreed, RecoveryAgreed, RestoreAgreed
    <2> QED BY <2>1, <2>2, <2>3 DEF Agrees, Silent, Settling
<1> QED BY <1>3, <1>4, <1>5, <1>6 DEF Holder

LEMMA DriverType ==
  ASSUME NEW S, NEW P, NEW Q, NEW B, NEW s \in S, NEW p \in P, NEW q \in Q, NEW b \in B
  PROVE  [stack |-> s, pc |-> p, todo |-> q, starter |-> b] \in [stack : S, pc : P, todo : Q, starter : B]
OBVIOUS

\* The driven operation ends: the recovery that resumed it goes on, and has nothing to publish.
LEMMA TopEnds ==
  ASSUME IInv, drv.stack # <<>>, NEW state \in {"succeeded", "failed"}, NEW code \in Codes,
         End(state, code), UNCHANGED <<obj, sent, data, total>>
  PROVE  Records' /\ Holder' /\ Counted'
<1> DEFINE row == [Op EXCEPT !.state = state, !.code = code]
<1>1. /\ Top \in 1..Len(ops) /\ Op \in OpRecords /\ RowOK(Top, Op, generation) /\ Op = ops[Top] /\ Records
      /\ Len(drv.stack) \in Nat \ {0} /\ drv.stack \in Seq(1..Len(ops))
    BY TopIn DEF Op, IInv
<1>2. /\ row \in OpRecords /\ Kept(row, Op) /\ row.step = Op.step /\ row.mode = Op.mode
      /\ row.generation = Op.generation /\ row.dump = Op.dump
    BY <1>1 DEF OpRecords, Kept
<1>3. Stepped(row) /\ SameGeneration(row, Op) /\ serving' \in 0..Len(ops)
    BY <1>1, <1>2 DEF Stepped, RowOK, Kept, SameGeneration, Records, Types, End, pointer
<1>4. ops' = [ops EXCEPT ![Top] = row]
    BY DEF End, Write
<1> HIDE DEF row
<1>5. /\ Records' /\ Len(ops') = Len(ops)
      /\ \A k \in 1..Len(ops) : ops'[k] = IF k = Top THEN row ELSE ops[k]
    BY <1>1, <1>2, <1>3, <1>4, RowMoves
<1>6. Counted'
    BY <1>1, <1>2, <1>5 DEF IInv, Counted
<1> DEFINE s == SubSeq(drv.stack, 1, Len(drv.stack) - 1)
<1>7. /\ s \in Seq(1..Len(ops)) /\ Len(s) = Len(drv.stack) - 1 /\ Len(s) \in Nat
      /\ \A k \in 1..Len(s) : s[k] = drv.stack[k] /\ s[k] \in 1..Len(ops) /\ s[k] # Top
    <2>1. s \in Seq(1..Len(ops)) /\ Len(s) = Len(drv.stack) - 1 /\ Len(s) \in Nat
        BY <1>1
    <2>2. \A k \in 1..Len(s) : s[k] = drv.stack[k]
        BY <1>1, <2>1
    <2>3. ASSUME NEW k \in 1..Len(s) PROVE drv.stack[k] \in 1..Len(ops) /\ drv.stack[k] # Top
        <3>1. k \in 1..Len(drv.stack) /\ Len(drv.stack) \in 1..Len(drv.stack) /\ k < Len(drv.stack)
            BY <1>1, <2>1
        <3>2. drv.stack[k] \in 1..Len(ops)
            BY <1>1, <3>1, ElementOfSeq
        <3>3. drv.stack[k] > Top
            BY <3>1 DEF IInv, Holder, Stacked, Top
        <3> QED BY <3>2, <3>3, <1>1
    <2> QED BY <2>1, <2>2, <2>3
<1>8. drv'.stack = s /\ drv'.pc = "step" /\ drv'.todo = <<>> /\ drv'.starter = FALSE
      /\ drv' = [stack |-> s, pc |-> "step", todo |-> <<>>, starter |-> FALSE]
    BY DEF End, Idle
<1> HIDE DEF s
<1>9. drv' \in Drivers'
    <2>1. <<>> \in Seq(Objects \X Modes)
        BY EmptySeq
    <2>2. s \in Seq(1..Len(ops'))
        BY <1>5, <1>7
    <2>3. "step" \in Places
        BY DEF Places
    <2>4. FALSE \in BOOLEAN
        OBVIOUS
    <2>5. [stack |-> s, pc |-> "step", todo |-> <<>>, starter |-> FALSE]
            \in [stack : Seq(1..Len(ops')), pc : Places, todo : Seq(Objects \X Modes), starter : BOOLEAN]
        BY <2>1, <2>2, <2>3, <2>4, DriverType, Zenon
    <2> QED BY <2>5, <1>8, Zenon DEF Drivers
<1>10. \A k \in 1..Len(s) : ops'[s[k]].kind = "recovery" /\ ops'[s[k]].step = "resume"
    <2> SUFFICES ASSUME NEW k \in 1..Len(s)
                 PROVE  ops'[s[k]].kind = "recovery" /\ ops'[s[k]].step = "resume"
        OBVIOUS
    <2>1. k \in 1..Len(drv.stack) /\ Len(drv.stack) \in 1..Len(drv.stack) /\ k < Len(drv.stack)
        BY <1>1, <1>7
    <2>2. ops[drv.stack[k]].kind = "recovery" /\ ops[drv.stack[k]].step = "resume"
        BY <2>1 DEF IInv, Holder, Stacked
    <2> QED BY <2>2, <1>5, <1>7
<1>11. Stacked'
    <2> SUFFICES ASSUME NEW k \in 1..Len(s), NEW l \in 1..Len(s), k < l
                 PROVE  s[k] > s[l]
        BY <1>8, <1>10 DEF Stacked
    <2>1. k \in 1..Len(drv.stack) /\ l \in 1..Len(drv.stack)
        BY <1>1, <1>7
    <2> QED BY <2>1, <1>7 DEF IInv, Holder, Stacked
<1>12. Planned'
    <2> SUFFICES ASSUME s # <<>> PROVE Silent(Op', "step", <<>>)
        BY <1>8 DEF Planned, Agrees
    <2>1. Len(s) \in 1..Len(s)
        BY <1>7, EmptySeq
    <2>2. Op'.kind = "recovery" /\ Op'.step = "resume"
        BY <2>1, <1>8, <1>10 DEF Op, Top
    <2> QED BY <2>2 DEF Silent
<1> QED BY <1>5, <1>6, <1>9, <1>11, <1>12 DEF Holder

\* What a step leaves of the invariant, when the world does not move with it.
Moved == /\ Records' /\ Holder' /\ Len(ops') = Len(ops)
         /\ \A k \in 1..Len(ops) : ops'[k].dump <= total

LEMMA Whole ==
  ASSUME IInv, Moved, UNCHANGED <<listed, world, stops>>
  PROVE  IInv'
<1>1. Counted'
    BY DEF IInv, Moved, Counted, world
<1>2. Around'
    BY DEF IInv, Moved, Around, world
<1> QED BY <1>1, <1>2 DEF IInv, Moved

\* The holder writes its record at any place, under the same generation or a fresh one.
LEMMA MovesTo ==
  ASSUME IInv, drv.stack # <<>>, NEW row \in OpRecords, NEW pc \in Places, NEW todo \in Seq(Objects \X Modes),
         Write(row), To(pc, todo), Kept(row, Op), Stepped(row), row.dump = Op.dump \/ row.dump <= total,
         SameGeneration(row, Op) \/ FreshGeneration(row),
         obj' = obj, sent' = sent, serving' \in 0..Len(ops),
         Agrees(row, pc, todo, AskedFor(row.generation))
  PROVE  Moved
<1>1. /\ Records' /\ Holder' /\ Len(ops') = Len(ops)
      /\ \A k \in 1..Len(ops) : ops'[k] = IF k = Top THEN row ELSE ops[k]
    BY TopMoves
<1>2. Op.dump <= total /\ \A k \in 1..Len(ops) : ops[k].dump <= total
    BY TopIn DEF IInv, Counted, Op
<1> QED BY <1>1, <1>2 DEF Moved

\* advance under the same generation: what was asked for still agrees.
LEMMA Advances ==
  ASSUME IInv, drv.stack # <<>>, NEW row \in OpRecords, Advance(row), Kept(row, Op), Stepped(row),
         row.dump = Op.dump \/ row.dump <= total, row.generation = Op.generation, row.step # "reconcile",
         obj' = obj, sent' = sent,
         \/ Silent(row, "step", <<>>)
         \/ /\ ~Silent(Op, drv.pc, drv.todo) /\ ~Settling(Op, drv.pc)
            /\ Agreed(Op, drv.pc) \subseteq Agreed(row, "step")
  PROVE  Moved
<1>1. SameGeneration(row, Op) /\ serving' \in 0..Len(ops)
    BY DEF Advance, SameGeneration, pointer, IInv, Records, Types
<1>2. Agrees(row, "step", <<>>, AskedFor(row.generation))
    <2>1. CASE Silent(row, "step", <<>>)
        BY <2>1 DEF Agrees
    <2>2. CASE /\ ~Silent(Op, drv.pc, drv.todo) /\ ~Settling(Op, drv.pc)
               /\ Agreed(Op, drv.pc) \subseteq Agreed(row, "step")
        <3>1. AskedFor(row.generation) \subseteq Agreed(row, "step")
            BY <2>2, TopIn DEF Agrees
        <3>2. Ahead(<<>>) = {} /\ ~Settling(row, "step")
            BY DEF Ahead, Settling
        <3> QED BY <3>1, <3>2 DEF Agrees
    <2> QED BY <2>1, <2>2
<1>3. "step" \in Places /\ <<>> \in Seq(Objects \X Modes)
    BY DEF Places
<1> QED BY <1>1, <1>2, <1>3, MovesTo DEF Advance

\* advance at a fresh generation: nothing was asked for yet.
LEMMA FreshAgrees ==
  ASSUME IInv, NEW row, row.generation = generation + 1
  PROVE  /\ AskedFor(row.generation) = {} /\ Agrees(row, "step", <<>>, AskedFor(row.generation))
<1>1. AskedFor(row.generation) = {}
    BY Unasked DEF IInv
<1>2. Ahead(<<>>) = {} /\ ~Settling(row, "step")
    BY DEF Ahead, Settling
<1> QED BY <1>1, <1>2 DEF Agrees

LEMMA FreshRow ==
  ASSUME IInv, NEW row \in OpRecords, generation < MaxGeneration
  PROVE  /\ [row EXCEPT !.generation = generation + 1] \in OpRecords
         /\ [row EXCEPT !.generation = generation + 1].generation = generation + 1
<1>1. generation + 1 \in 1..MaxGeneration
    BY Bounds DEF IInv, Records, Types
<1> QED BY <1>1 DEF OpRecords

LEMMA AdvancesFresh ==
  ASSUME IInv, drv.stack # <<>>, NEW row \in OpRecords, AdvanceFresh(row), Kept(row, Op), Stepped(row),
         row.dump = Op.dump \/ row.dump <= total, obj' = obj, sent' = sent
  PROVE  Moved
<1> DEFINE new == [row EXCEPT !.generation = generation + 1]
<1>1. new \in OpRecords /\ new.generation = generation + 1
    BY FreshRow DEF AdvanceFresh, Allocate
<1>2. new.dump = row.dump /\ Kept(new, Op) /\ Stepped(new)
    BY DEF Kept, Stepped, OpRecords
<1>3. FreshGeneration(new) /\ serving' \in 0..Len(ops) /\ Write(new) /\ To("step", <<>>)
    BY <1>1 DEF AdvanceFresh, Allocate, FreshGeneration, pointer, IInv, Records, Types
<1> HIDE DEF new
<1>4. Agrees(new, "step", <<>>, AskedFor(new.generation))
    BY <1>1, FreshAgrees
<1>5. "step" \in Places /\ <<>> \in Seq(Objects \X Modes)
    BY DEF Places
<1> QED BY <1>1, <1>2, <1>3, <1>4, <1>5, MovesTo

LEMMA Reopens ==
  ASSUME IInv, drv.stack # <<>>, NEW row \in OpRecords, Reopen(row), Kept(row, Op),
         row.dump = Op.dump \/ row.dump <= total, obj' = obj, sent' = sent
  PROVE  Moved
<1> DEFINE new == [row EXCEPT !.step = "open", !.mode = "open"]
<1>1. new \in OpRecords /\ new.step = "open" /\ new.mode = "open" /\ new.dump = row.dump /\ Kept(new, Op)
    BY DEF OpRecords, Kept, Steps, Modes
<1>2. AdvanceFresh(new)
    BY DEF Reopen
<1> HIDE DEF new
<1>3. Stepped(new)
    BY <1>1 DEF Stepped, RestoreSteps
<1> QED BY <1>1, <1>2, <1>3, AdvancesFresh

LEMMA Ends ==
  ASSUME IInv, drv.stack # <<>>, NEW state \in {"succeeded", "failed"}, NEW code \in Codes,
         End(state, code), UNCHANGED <<listed, world, stops>>
  PROVE  IInv'
<1>1. Records' /\ Holder' /\ Counted'
    BY TopEnds DEF world
<1> QED BY <1>1 DEF IInv, Around, world

----------------------------------------------------------------------------
(* The restore a recovery opens past *)

\* A chain of recoveries names ever older operations, so it ends at one that is no recovery.
LEMMA RecoveredIn ==
  ASSUME Records, NEW i \in 1..Len(ops)
  PROVE  Recovered(i) \in 1..Len(ops) /\ Recovered(i) \in Chain(i) /\ ops[Recovered(i)].recovers = 0
<1>1. /\ \A n \in 1..Len(ops) : ops[n].recovers \in Nat /\ ops[n].recovers < n
      /\ Len(ops) \in Nat
    BY Fields, Bounds DEF Records, Types, Rows, RowOK
<1>2. Chain(i) \subseteq Nat /\ Chain(i) # {} /\ Chain(i) \subseteq 1..Len(ops) /\ i \in Chain(i)
    BY <1>1 DEF Chain
<1>3. PICK n \in Chain(i) : \A m \in Chain(i) : ~(<<m, n>> \in OpToRel(<, Nat))
    BY <1>2, WFMin, NatLessThanWellFounded
<1>4. ops[n].recovers = 0
    <2> SUFFICES ASSUME ops[n].recovers # 0 PROVE FALSE
        OBVIOUS
    <2> DEFINE m == ops[n].recovers
    <2>1. n \in 1..Len(ops) /\ m \in 1..Len(ops) /\ m < n /\ m \in Nat /\ n \in Nat
        BY <1>1, <1>2
    <2>2. m \in Chain(i)
        <3> SUFFICES ASSUME NEW S \in SUBSET (1..Len(ops)), i \in S, \A k \in S : ops[k].recovers \in S \cup {0}
                     PROVE  m \in S
            BY <2>1 DEF Chain
        <3>1. n \in S
            BY DEF Chain
        <3> QED BY <3>1
    <2>3. <<m, n>> \in OpToRel(<, Nat)
        BY <2>1 DEF OpToRel
    <2> QED BY <2>2, <2>3, <1>3
<1> QED BY <1>2, <1>4 DEF Recovered

LEMMA RecoversIn ==
  ASSUME IInv, drv.stack # <<>>, Op.kind = "recovery"
  PROVE  /\ Op.recovers \in 1..Len(ops) /\ Op.recovers < Top
         /\ ops[Op.recovers] \in OpRecords /\ RowOK(Op.recovers, ops[Op.recovers], generation)
<1>1. Top \in 1..Len(ops) /\ Op \in OpRecords /\ Op.recovers < Top /\ Op.recovers # 0
    BY TopIn DEF RowOK
<1>2. Op.recovers \in Nat
    BY <1>1, Fields, Bounds
<1>3. ops \in Seq(OpRecords) /\ Len(ops) \in Nat /\ Rows
    BY DEF IInv, Records, Types
<1>4. Op.recovers \in 1..Len(ops)
    BY <1>1, <1>2, <1>3
<1> QED BY <1>1, <1>3, <1>4 DEF Rows

LEMMA PastIn ==
  ASSUME IInv, drv.stack # <<>>, Op.kind = "recovery"
  PROVE  /\ Past \in 1..Len(ops) /\ ops[Past] \in OpRecords
         /\ ops[Past].clone \in Objects /\ ops[Past].original \in Objects
         /\ ops[Past].clone \in 0..Len(ops) /\ ops[Past].original \in 0..Len(ops)
         /\ ops[Past].original # ops[Past].clone
<1>1. Op.recovers \in 1..Len(ops) /\ Records
    BY RecoversIn DEF IInv
<1>2. Past \in 1..Len(ops)
    BY <1>1, RecoveredIn DEF Past
<1>3. ops[Past] \in OpRecords /\ RowOK(Past, ops[Past], generation)
    BY <1>1, <1>2 DEF Records, Types, Rows
<1>4. ops[Past].clone \in Objects /\ ops[Past].original \in Objects
    BY <1>3, Fields
<1>5. Len(ops) \in Nat /\ ops[Past].original \in Nat
    BY <1>1, <1>4, Bounds DEF Objects, Records, Types
<1>6. ops[Past].clone = Past /\ ops[Past].original < Past
    BY <1>3 DEF RowOK
<1> QED BY <1>2, <1>3, <1>4, <1>5, <1>6

----------------------------------------------------------------------------
(* What steps and fences publish *)

LEMMA AheadOf ==
  ASSUME NEW p \in Objects \X Modes, NEW q \in Objects \X Modes
  PROVE  /\ <<>> \in Seq(Objects \X Modes) /\ Ahead(<<>>) = {}
         /\ <<p>> \in Seq(Objects \X Modes) /\ Ahead(<<p>>) = {p}
         /\ <<p, q>> \in Seq(Objects \X Modes) /\ Ahead(<<p, q>>) = {p, q}
<1>1. Len(<<>>) = 0 /\ Len(<<p>>) = 1 /\ Len(<<p, q>>) = 2
    OBVIOUS
<1>2. <<p>>[1] = p /\ <<p, q>>[1] = p /\ <<p, q>>[2] = q
    OBVIOUS
<1>3. 1..1 = {1} /\ 1..2 = {1, 2} /\ 1..0 = {}
    OBVIOUS
<1>4. Ahead(<<>>) = {} /\ Ahead(<<p>>) = {p} /\ Ahead(<<p, q>>) = {p, q}
    BY <1>1, <1>2, <1>3 DEF Ahead
<1>5. <<>> \in Seq(Objects \X Modes) /\ <<p>> \in Seq(Objects \X Modes) /\ <<p, q>> \in Seq(Objects \X Modes)
    OBVIOUS
<1> QED BY <1>4, <1>5

LEMMA NoneAhead ==
  ASSUME NEW todo, todo = <<>>, NEW A
  PROVE  todo \in Seq(Objects \X Modes) /\ Ahead(todo) \subseteq A
BY DEF Ahead

LEMMA OneAhead ==
  ASSUME NEW todo, NEW p \in Objects \X Modes, todo = <<p>>, NEW A, p \in A
  PROVE  todo \in Seq(Objects \X Modes) /\ Ahead(todo) \subseteq A
<1>1. <<p>> \in Seq(Objects \X Modes) /\ Ahead(<<p>>) = {p}
    BY AheadOf
<1> QED BY <1>1, Zenon

LEMMA TwoAhead ==
  ASSUME NEW todo, NEW p \in Objects \X Modes, NEW q \in Objects \X Modes, todo = <<p, q>>,
         NEW A, p \in A, q \in A
  PROVE  todo \in Seq(Objects \X Modes) /\ Ahead(todo) \subseteq A
<1>1. <<p, q>> \in Seq(Objects \X Modes) /\ Ahead(<<p, q>>) = {p, q}
    BY AheadOf
<1> QED BY <1>1, Zenon

LEMMA JoinAhead ==
  ASSUME NEW p, NEW q
  PROVE  <<p>> \o <<q>> = <<p, q>> /\ <<>> \o <<q>> = <<q>>
<1>1. <<p>> \o <<q>> = <<p, q>>
    <2> DEFINE S == {p, q}
    <2>1. <<p>> \in Seq(S) /\ <<q>> \in Seq(S) /\ <<p, q>> \in Seq(S)
        OBVIOUS
    <2>2. Len(<<p>>) = 1 /\ Len(<<q>>) = 1 /\ Len(<<p, q>>) = 2 /\ <<p, q>>[1] = p /\ <<p, q>>[2] = q
        OBVIOUS
    <2>3. <<p>>[1] = p /\ <<q>>[1] = q
        OBVIOUS
    <2> DEFINE c == <<p>> \o <<q>>
    <2>4. c \in Seq(S) /\ Len(c) = Len(<<p>>) + Len(<<q>>)
        BY <2>1, ConcatProperties
    <2>5. \A i \in 1..Len(<<p>>) + Len(<<q>>) :
             c[i] = IF i <= Len(<<p>>) THEN <<p>>[i] ELSE <<q>>[i - Len(<<p>>)]
        BY <2>1, ConcatProperties
    <2> HIDE DEF c
    <2>6. Len(c) = 2 /\ c[1] = p /\ c[2] = q
        BY <2>2, <2>3, <2>4, <2>5
    <2>7. \A i \in 1..Len(c) : c[i] = <<p, q>>[i]
        BY <2>2, <2>6
    <2>8. c = <<p, q>>
        BY <2>1, <2>2, <2>4, <2>6, <2>7, SeqEqual
    <2> QED BY <2>8 DEF c
<1>2. <<>> \o <<q>> = <<q>>
    OBVIOUS
<1> QED BY <1>1, <1>2

LEMMA AgreedEverywhere ==
  ASSUME NEW row, row.kind \in {"maintenance", "backup", "migrate"}, NEW pc
  PROVE  Agreed(row, pc) = Everywhere(row.mode)
BY DEF Agreed

LEMMA AgreedRecovery ==
  ASSUME NEW row, row.kind = "recovery", NEW pc
  PROVE  Agreed(row, pc) = RecoveryAgreed(row, pc)
BY DEF Agreed

LEMMA AgreedRestore ==
  ASSUME NEW row, row.kind = "restore", NEW pc
  PROVE  Agreed(row, pc) = RestoreAgreed(row)
BY DEF Agreed

LEMMA ServingIn ==
  ASSUME IInv
  PROVE  serving \in Objects /\ \A m \in Modes : <<serving, m>> \in Objects \X Modes /\ <<serving, m>> \in Everywhere(m)
<1>1. serving \in Objects
    BY Bounds DEF IInv, Records, Types, Objects
<1> QED BY <1>1 DEF Everywhere

\* What a step publishes is what its place agrees on.
LEMMA StepModesAgree ==
  ASSUME IInv, NEW i \in 1..Len(ops), ops[i].kind = "recovery" => ops[i].step # "resume"
  PROVE  StepModes(ops[i]) \in Seq(Objects \X Modes) /\ Ahead(StepModes(ops[i])) \subseteq Agreed(ops[i], "acked")
<1> DEFINE row == ops[i]
<1>1. row \in OpRecords /\ RowOK(i, row, generation)
    BY DEF IInv, Records, Types, Rows
<1>2. /\ row.kind \in AllKinds /\ row.step \in Steps /\ row.mode \in Modes
      /\ row.original \in Objects /\ row.clone \in Objects /\ Stepped(row)
    BY <1>1, Fields DEF RowOK
<1>3. \A m \in Modes : <<row.original, m>> \in Objects \X Modes /\ <<row.clone, m>> \in Objects \X Modes
    BY <1>2
<1>4. {"open", "read-only", "closed", "inspect"} = Modes
    BY DEF Modes
<1> HIDE DEF row
<1>5. CASE row.kind \in {"maintenance", "backup", "migrate"}
    <2> DEFINE p == <<serving, row.mode>>
    <2>1. StepModes(row) = <<p>> \/ StepModes(row) = <<>>
        BY <1>2, <1>5 DEF StepModes, Stepped
    <2>2. p \in Objects \X Modes /\ p \in Agreed(row, "acked")
        BY <1>2, <1>5, ServingIn, AgreedEverywhere
    <2> HIDE DEF p
    <2> QED BY <2>1, <2>2, NoneAhead, OneAhead DEF row
<1>6. CASE row.kind = "recovery"
    <2>1. CASE row.step \in {"restrict", "open"}
        <3> DEFINE m == IF row.step = "open" THEN "open" ELSE "closed"
        <3> DEFINE p == <<serving, m>>
        <3>1. StepModes(row) = <<p>>
            BY <1>6, <2>1 DEF StepModes
        <3>2. Agreed(row, "acked") = Everywhere(m)
            BY <1>2, <1>6, <2>1, AgreedRecovery DEF RecoveryAgreed, Stepped
        <3>3. p \in Objects \X Modes /\ p \in Everywhere(m)
            BY <1>4, ServingIn
        <3> HIDE DEF p, m
        <3> QED BY <3>1, <3>2, <3>3, OneAhead DEF row
    <2>2. CASE row.step = "reconcile"
        <3>1. StepModes(row) = <<>>
            BY <1>6, <2>2 DEF StepModes
        <3> QED BY <3>1, NoneAhead DEF row
    <2> QED BY <2>1, <2>2, <1>2, <1>6 DEF Stepped, row
<1>7. CASE row.kind = "restore"
    <2> DEFINE at(m) == <<row.original, m>>
    <2> DEFINE to(m) == <<row.clone, m>>
    <2>1. /\ Agreed(row, "acked") = RestoreAgreed(row)
          /\ at("open") \in Objects \X Modes /\ at("read-only") \in Objects \X Modes
          /\ at("inspect") \in Objects \X Modes /\ to("open") \in Objects \X Modes
          /\ to("inspect") \in Objects \X Modes
        BY <1>3, <1>4, <1>7, AgreedRestore
    <2>2. CASE row.step = "restrict"
        <3>1. StepModes(row) = << at("read-only") >> /\ at("read-only") \in RestoreAgreed(row)
            BY <1>7, <2>2 DEF StepModes, RestoreAgreed
        <3> HIDE DEF at, to
        <3> QED BY <3>1, <2>1, OneAhead DEF row
    <2>3. CASE row.step = "import"
        <3>1. StepModes(row) = << to("inspect") >> /\ to("inspect") \in RestoreAgreed(row)
            BY <1>7, <2>3 DEF StepModes, RestoreAgreed
        <3> HIDE DEF at, to
        <3> QED BY <3>1, <2>1, OneAhead DEF row
    <2>4. CASE row.step = "promote"
        <3>1. /\ StepModes(row) = << to("open"), at("inspect") >>
              /\ at("inspect") \in RestoreAgreed(row) /\ to("open") \in RestoreAgreed(row)
            BY <1>7, <2>4 DEF StepModes, RestoreAgreed
        <3> HIDE DEF at, to
        <3> QED BY <3>1, <2>1, TwoAhead DEF row
    <2>5. CASE row.step = "rewind"
        <3>1. StepModes(row) = << at("inspect") >> /\ at("inspect") \in RestoreAgreed(row)
            BY <1>7, <2>5 DEF StepModes, RestoreAgreed
        <3> HIDE DEF at, to
        <3> QED BY <3>1, <2>1, OneAhead DEF row
    <2>6. CASE row.step = "open"
        <3>1. StepModes(row) = (IF row.failure \in CloneOpenedCodes THEN << to("inspect") >> ELSE <<>>)
                                  \o << at("open") >>
            BY <1>7, <2>6 DEF StepModes
        <3>2. at("open") \in RestoreAgreed(row) /\ to("inspect") \in RestoreAgreed(row)
            BY <2>6 DEF RestoreAgreed
        <3> HIDE DEF at, to
        <3>3. StepModes(row) = << to("inspect"), at("open") >> \/ StepModes(row) = << at("open") >>
            BY <3>1, <2>1, JoinAhead
        <3>4. CASE StepModes(row) = << to("inspect"), at("open") >>
            BY <3>2, <3>4, <2>1, TwoAhead DEF row
        <3>5. CASE StepModes(row) = << at("open") >>
            BY <3>2, <3>5, <2>1, OneAhead DEF row
        <3> QED BY <3>3, <3>4, <3>5
    <2>7. CASE row.step \in {"list", "backup", "verify", "point", "serve", "check", "revert"}
        <3>1. StepModes(row) = <<>>
            BY <1>7, <2>7 DEF StepModes
        <3> QED BY <3>1, NoneAhead DEF row
    <2> QED BY <2>2, <2>3, <2>4, <2>5, <2>6, <2>7, <1>2, <1>7 DEF Stepped, RestoreSteps
<1> QED BY <1>2, <1>5, <1>6, <1>7 DEF AllKinds, row

\* What a successor's fence publishes agrees with the step it finds.
LEMMA FenceModesAgree ==
  ASSUME IInv, NEW i \in 1..Len(ops)
  PROVE  FenceModes(ops[i]) \in Seq(Objects \X Modes) /\ Ahead(FenceModes(ops[i])) \subseteq Agreed(ops[i], "step")
<1> DEFINE row == ops[i]
<1>1. row \in OpRecords /\ RowOK(i, row, generation)
    BY DEF IInv, Records, Types, Rows
<1>2. /\ row.kind \in AllKinds /\ row.step \in Steps /\ row.mode \in Modes
      /\ row.original \in Objects /\ row.clone \in Objects /\ Stepped(row)
    BY <1>1, Fields DEF RowOK
<1>3. \A m \in Modes : <<row.original, m>> \in Objects \X Modes /\ <<row.clone, m>> \in Objects \X Modes
    BY <1>2
<1>4. {"open", "read-only", "closed", "inspect"} = Modes
    BY DEF Modes
<1> HIDE DEF row
<1>5. CASE row.kind \in {"maintenance", "backup", "migrate"}
    <2> DEFINE p == <<serving, row.mode>>
    <2>1. FenceModes(row) = <<p>>
        BY <1>5 DEF FenceModes
    <2>2. p \in Objects \X Modes /\ p \in Agreed(row, "step")
        BY <1>2, <1>5, ServingIn, AgreedEverywhere
    <2> HIDE DEF p
    <2> QED BY <2>1, <2>2, OneAhead DEF row
<1>6. CASE row.kind = "recovery"
    <2>1. CASE row.step \in {"open", "resume"}
        <3> DEFINE p == <<serving, row.mode>>
        <3>1. FenceModes(row) = <<p>>
            BY <1>6, <2>1 DEF FenceModes
        <3>2. Agreed(row, "step") = Everywhere(row.mode)
            BY <1>6, <2>1, AgreedRecovery DEF RecoveryAgreed
        <3>3. p \in Objects \X Modes /\ p \in Everywhere(row.mode)
            BY <1>2, ServingIn
        <3> HIDE DEF p
        <3> QED BY <3>1, <3>2, <3>3, OneAhead DEF row
    <2>2. CASE row.step \in {"reconcile", "restrict"}
        <3>1. FenceModes(row) = <<>>
            BY <1>6, <2>2 DEF FenceModes
        <3> QED BY <3>1, NoneAhead DEF row
    <2> QED BY <2>1, <2>2, <1>2, <1>6 DEF Stepped
<1>7. CASE row.kind = "restore"
    <2> DEFINE at(m) == <<row.original, m>>
    <2> DEFINE to(m) == <<row.clone, m>>
    <2>1. /\ Agreed(row, "step") = RestoreAgreed(row)
          /\ at("open") \in Objects \X Modes /\ at("read-only") \in Objects \X Modes
          /\ at("inspect") \in Objects \X Modes /\ to("open") \in Objects \X Modes
          /\ to("inspect") \in Objects \X Modes
        BY <1>3, <1>4, <1>7, AgreedRestore
    <2>2. CASE row.step = "list"
        <3>1. FenceModes(row) = << at("open") >> /\ at("open") \in RestoreAgreed(row)
            BY <1>7, <2>2 DEF FenceModes, RestoreAgreed
        <3> HIDE DEF at, to
        <3> QED BY <3>1, <2>1, OneAhead DEF row
    <2>3. CASE row.step \in {"restrict", "backup", "verify"}
        <3>1. FenceModes(row) = << at("read-only") >> /\ at("read-only") \in RestoreAgreed(row)
            BY <1>7, <2>3 DEF FenceModes, RestoreAgreed
        <3> HIDE DEF at, to
        <3> QED BY <3>1, <2>1, OneAhead DEF row
    <2>4. CASE row.step = "import"
        <3>1. /\ FenceModes(row) = << at("read-only"), to("inspect") >>
              /\ at("read-only") \in RestoreAgreed(row) /\ to("inspect") \in RestoreAgreed(row)
            BY <1>7, <2>4 DEF FenceModes, RestoreAgreed
        <3> HIDE DEF at, to
        <3> QED BY <3>1, <2>1, TwoAhead DEF row
    <2>5. CASE row.step \in {"promote", "point", "serve", "rewind", "check"}
        <3>1. /\ FenceModes(row) = << to("open"), at("inspect") >>
              /\ at("inspect") \in RestoreAgreed(row) /\ to("open") \in RestoreAgreed(row)
            BY <1>7, <2>5 DEF FenceModes, RestoreAgreed
        <3> HIDE DEF at, to
        <3> QED BY <3>1, <2>1, TwoAhead DEF row
    <2>6. CASE row.step = "revert"
        <3>1. /\ FenceModes(row) = << to("inspect"), at("inspect") >>
              /\ at("inspect") \in RestoreAgreed(row) /\ to("inspect") \in RestoreAgreed(row)
            BY <1>7, <2>6 DEF FenceModes, RestoreAgreed
        <3> HIDE DEF at, to
        <3> QED BY <3>1, <2>1, TwoAhead DEF row
    <2>7. CASE row.step = "open"
        <3>1. FenceModes(row) = (IF row.clone \in listed /\ row.failure \in CloneOpenedCodes
                                   THEN << to("inspect") >> ELSE <<>>) \o << at("open") >>
            BY <1>7, <2>7 DEF FenceModes
        <3>2. at("open") \in RestoreAgreed(row) /\ to("inspect") \in RestoreAgreed(row)
            BY <2>7 DEF RestoreAgreed
        <3> HIDE DEF at, to
        <3>3. FenceModes(row) = << to("inspect"), at("open") >> \/ FenceModes(row) = << at("open") >>
            BY <3>1, <2>1, JoinAhead
        <3>4. CASE FenceModes(row) = << to("inspect"), at("open") >>
            BY <3>2, <3>4, <2>1, TwoAhead DEF row
        <3>5. CASE FenceModes(row) = << at("open") >>
            BY <3>2, <3>5, <2>1, OneAhead DEF row
        <3> QED BY <3>3, <3>4, <3>5
    <2> QED BY <2>2, <2>3, <2>4, <2>5, <2>6, <2>7, <1>2, <1>7 DEF Stepped, RestoreSteps
<1> QED BY <1>2, <1>5, <1>6, <1>7 DEF AllKinds, row

----------------------------------------------------------------------------
(* Starts, successors and stops *)

LEMMA IdleDrives ==
  ASSUME NEW n, NEW s \in Seq(1..n), NEW todo \in Seq(Objects \X Modes), NEW b \in BOOLEAN
  PROVE  [stack |-> s, pc |-> "step", todo |-> todo, starter |-> b]
           \in [stack : Seq(1..n), pc : Places, todo : Seq(Objects \X Modes), starter : BOOLEAN]
<1>1. "step" \in Places
    BY DEF Places
<1> QED BY <1>1, DriverType, Zenon

\* A holder that drives nothing has nothing to publish.
LEMMA IdleHolds ==
  ASSUME drv' = Idle
  PROVE  Holder'
<1>1. <<>> \in Seq(Objects \X Modes) /\ <<>> \in Seq(1..Len(ops'))
    BY EmptySeq
<1>2. FALSE \in BOOLEAN
    OBVIOUS
<1>3. Idle \in Drivers'
    BY <1>1, <1>2, IdleDrives, Zenon DEF Idle, Drivers
<1>4. drv'.stack = <<>>
    BY DEF Idle
<1> QED BY <1>3, <1>4 DEF Holder, Stacked, Planned

LEMMA StopHolds == IInv /\ Stop => IInv'
<1> SUFFICES ASSUME IInv, Stop PROVE IInv'
    OBVIOUS
<1>1. Holder'
    BY IdleHolds DEF Stop
<1>2. Records'
    BY AskedSame DEF Stop, world, pointer, IInv, Records, Types, Rows, Distinct, Allocated, Untouched
<1>3. Counted' /\ Around'
    BY Bounds DEF Stop, world, pointer, IInv, Counted, Around
<1> QED BY <1>1, <1>2, <1>3 DEF IInv

\* A driver of one operation, at its first place.
LEMMA DrivesOne ==
  ASSUME NEW n \in Nat, NEW i \in 1..n, Len(ops') = n, NEW todo \in Seq(Objects \X Modes), NEW b \in BOOLEAN,
         drv' = [stack |-> <<i>>, pc |-> "step", todo |-> todo, starter |-> b],
         \A g : AskedFor(g)' = AskedFor(g), Agrees(ops'[i], "step", todo, AskedFor(ops'[i].generation))
  PROVE  Holder'
<1>1. <<i>> \in Seq(1..n) /\ Len(<<i>>) = 1 /\ <<i>>[1] = i /\ <<i>> # <<>>
    OBVIOUS
<1>2. drv' \in Drivers'
    BY <1>1, IdleDrives, Zenon DEF Drivers
<1>3. drv'.stack = <<i>> /\ drv'.pc = "step" /\ drv'.todo = todo
    OBVIOUS
<1>4. Stacked'
    BY <1>1, <1>3 DEF Stacked
<1>5. Op' = ops'[i]
    BY <1>1, <1>3 DEF Op, Top
<1>6. Planned'
    BY <1>3, <1>5 DEF Planned
<1> QED BY <1>2, <1>4, <1>6 DEF Holder

LEMMA ResumeHolds == IInv /\ Resume => IInv'
<1> SUFFICES ASSUME IInv, Resume PROVE IInv'
    OBVIOUS
<1> DEFINE i == Len(ops)
<1>1. i \in 1..Len(ops) /\ i \in Nat /\ ops \in Seq(OpRecords) /\ ops[i] \in OpRecords
      /\ RowOK(i, ops[i], generation)
    <2>1. ops \in Seq(OpRecords) /\ ops # <<>>
        BY DEF IInv, Records, Types, Resume
    <2>2. i \in 1..Len(ops) /\ i \in Nat
        BY <2>1, EmptySeq
    <2> QED BY <2>1, <2>2 DEF IInv, Records, Rows
<1> DEFINE row == [ops[i] EXCEPT !.generation = generation + 1]
<1>2. row \in OpRecords /\ row.generation = generation + 1
    BY <1>1, FreshRow DEF Resume, Allocate
<1>3. /\ Kept(row, ops[i]) /\ Stepped(row) /\ row.dump = ops[i].dump /\ FreshGeneration(row)
      /\ Agreed(row, "step") = Agreed(ops[i], "step") /\ ~Settling(row, "step")
      /\ ops' = [ops EXCEPT ![i] = row]
    <2>1. /\ row.kind = ops[i].kind /\ row.step = ops[i].step /\ row.mode = ops[i].mode /\ row.clone = ops[i].clone
          /\ row.original = ops[i].original /\ row.recovers = ops[i].recovers /\ row.dump = ops[i].dump
        BY <1>1 DEF OpRecords
    <2>2. FreshGeneration(row) /\ ops' = [ops EXCEPT ![i] = row]
        BY <1>2 DEF Resume, Allocate, FreshGeneration
    <2> HIDE DEF row
    <2>3. Kept(row, ops[i]) /\ Stepped(row) /\ ~Settling(row, "step")
        BY <2>1, <1>1 DEF Kept, Stepped, RowOK, Settling
    <2>4. Agreed(row, "step") = Agreed(ops[i], "step")
        BY <2>1 DEF Agreed, RecoveryAgreed, RestoreAgreed
    <2> QED BY <2>1, <2>2, <2>3, <2>4
<1> HIDE DEF row
<1>4. /\ Records' /\ Len(ops') = Len(ops)
      /\ \A k \in 1..Len(ops) : ops'[k] = IF k = i THEN row ELSE ops[k]
      /\ \A g : AskedFor(g)' = AskedFor(g)
    BY <1>1, <1>2, <1>3, RowMoves DEF IInv, Records, Types, Resume, pointer, world
<1>5. /\ FenceModes(ops[i]) \in Seq(Objects \X Modes) /\ Ahead(FenceModes(ops[i])) \subseteq Agreed(row, "step")
    BY <1>1, <1>3, FenceModesAgree
<1>6. Agrees(row, "step", FenceModes(ops[i]), AskedFor(row.generation))
    BY <1>2, <1>3, <1>5, FreshAgrees DEF Agrees
<1>7. drv' = [stack |-> <<i>>, pc |-> "step", todo |-> FenceModes(ops[i]), starter |-> FALSE]
    BY DEF Resume, Idle, Latest
<1>8. Holder'
    <2>1. ops'[i] = row /\ FALSE \in BOOLEAN
        BY <1>1, <1>4
    <2> QED BY <2>1, <1>1, <1>4, <1>5, <1>6, <1>7, DrivesOne
<1>9. Moved
    BY <1>1, <1>3, <1>4, <1>8 DEF Moved, IInv, Counted
<1> QED BY <1>9, Whole DEF Resume, pointer

\* No plan is longer than the bound of the operations.
LEMMA PlanBound ==
  ASSUME IInv, NEW plan \in Plans, Len(ops) < Len(plan)
  PROVE  Len(ops) + 1 \in 1..MaxOps
<1>1. PICK n \in 1..MaxOps : plan \in [1..n -> AllKinds]
    BY BoundsAssumption
<1>2. n \in Nat /\ n <= MaxOps
    BY Bounds
<1>3. plan \in Seq(AllKinds) /\ Len(plan) = n
    BY <1>1, <1>2
<1>4. Len(ops) \in Nat
    BY DEF IInv, Records, Types
<1> QED BY <1>2, <1>3, <1>4, Bounds

\* A new record, at a fresh generation.
LEMMA RowAdded ==
  ASSUME IInv, NEW row \in OpRecords, ops' = Append(ops, row), Len(ops) + 1 \in 1..MaxOps,
         generation < MaxGeneration, generation' = generation + 1, row.generation = generation + 1,
         RowOK(Len(ops) + 1, row, generation + 1), UNCHANGED <<serving, obj, sent>>
  PROVE  /\ Records' /\ Len(ops') = Len(ops) + 1 /\ ops'[Len(ops) + 1] = row
         /\ \A k \in 1..Len(ops) : ops'[k] = ops[k]
         /\ \A g : AskedFor(g)' = AskedFor(g)
<1>1. /\ ops \in Seq(OpRecords) /\ Len(ops) \in Nat /\ generation \in 0..MaxGeneration /\ generation \in Nat
      /\ \A k \in 1..Len(ops) : ops[k] \in OpRecords
    BY Bounds DEF IInv, Records, Types
<1> DEFINE n == Len(ops) + 1
<1>2. ops' \in Seq(OpRecords) /\ Len(ops') = n /\ ops'[n] = row /\ \A k \in 1..Len(ops) : ops'[k] = ops[k]
    BY <1>1
<1>3. \A k \in 1..Len(ops') : k \in 1..Len(ops) \/ k = n
    BY <1>1, <1>2
<1>4. \A g : AskedFor(g)' = AskedFor(g)
    BY AskedSame
<1>5. Types'
    BY <1>1, <1>2, Bounds DEF IInv, Records, Types
<1>6. Rows'
    <2> SUFFICES ASSUME NEW k \in 1..Len(ops') PROVE RowOK(k, ops'[k], generation + 1)
        BY DEF Rows
    <2>1. CASE k = n
        BY <1>2, <2>1
    <2>2. CASE k \in 1..Len(ops)
        <3>1. RowOK(k, ops[k], generation) /\ ops[k].generation \in Nat
            BY <1>1, <2>2, Fields DEF IInv, Records, Rows
        <3> QED BY <1>1, <1>2, <2>2, <3>1 DEF RowOK
    <2> QED BY <1>3, <2>1, <2>2
<1>7. \A k \in 1..Len(ops) : ops[k].generation # generation + 1
    BY <1>1, Fields DEF IInv, Records, Rows, RowOK
<1>8. Distinct'
    BY <1>2, <1>3, <1>7 DEF IInv, Records, Distinct
<1>9. Allocated'
    BY <1>1, Bounds DEF IInv, Records, Types, Allocated, Requests
<1>10. Untouched'
    <2>1. AskedFor(generation + 1) = {}
        BY Unasked DEF IInv
    <2> QED BY <1>2, <1>3, <1>4, <2>1 DEF IInv, Records, Untouched
<1> QED BY <1>2, <1>4, <1>5, <1>6, <1>8, <1>9, <1>10 DEF Records

\* A start that records a row as create makes it.
LEMMA StartHolds ==
  ASSUME IInv, NEW row, NEW driven \in BOOLEAN, Start(row, driven),
         Len(ops) + 1 \in 1..MaxOps => row \in OpRecords,
         row.generation = generation + 1, row.clone = Len(ops) + 1, row.original = serving,
         row.recovers \in Nat, row.recovers <= Len(ops), row.kind = "recovery" => row.recovers # 0,
         Stepped(row), row.dump = 0
  PROVE  IInv'
<1>1. Len(ops) + 1 \in 1..MaxOps /\ Len(ops) \in Nat
    BY PlanBound DEF Start, IInv, Records, Types
<1>2. row \in OpRecords
    BY <1>1
<1>3. serving \in 0..Len(ops) /\ generation \in Nat
    BY Bounds DEF IInv, Records, Types
<1>4. RowOK(Len(ops) + 1, row, generation + 1)
    BY <1>1, <1>3 DEF RowOK
<1>5. /\ Records' /\ Len(ops') = Len(ops) + 1 /\ ops'[Len(ops) + 1] = row
      /\ \A k \in 1..Len(ops) : ops'[k] = ops[k]
      /\ \A g : AskedFor(g)' = AskedFor(g)
    BY <1>1, <1>2, <1>4, RowAdded DEF Start, pointer, world
<1>6. Counted'
    <2>1. \A k \in 1..Len(ops') : k \in 1..Len(ops) \/ k = Len(ops) + 1
        BY <1>1, <1>5
    <2>2. 0 <= total
        BY Bounds DEF IInv, Counted
    <2> QED BY <1>5, <2>1, <2>2 DEF IInv, Counted, Start, world
<1>7. Around'
    BY DEF IInv, Around, Start, world, pointer
<1>8. Holder'
    <2>1. CASE ~driven
        BY <2>1, IdleHolds DEF Start
    <2>2. CASE driven
        <3>1. drv' = [stack |-> <<Len(ops) + 1>>, pc |-> "step", todo |-> <<>>, starter |-> TRUE]
            BY <2>2 DEF Start, Idle
        <3>2. Len(ops') \in Nat /\ Len(ops) + 1 \in 1..Len(ops')
            BY <1>1, <1>5
        <3>3. Agrees(row, "step", <<>>, AskedFor(row.generation))
            BY FreshAgrees
        <3>4. <<>> \in Seq(Objects \X Modes) /\ TRUE \in BOOLEAN
            OBVIOUS
        <3> QED BY <1>5, <3>1, <3>2, <3>3, <3>4, DrivesOne
    <2> QED BY <2>1, <2>2
<1> QED BY <1>5, <1>6, <1>7, <1>8 DEF IInv

LEMMA RecordType ==
  ASSUME IInv, generation < MaxGeneration, Len(ops) + 1 \in 1..MaxOps,
         NEW kind \in AllKinds, NEW step \in Steps, NEW mode \in Modes,
         NEW recovers \in 0..MaxOps, NEW resolution \in {"none", "open", "resume"}
  PROVE  Record(kind, step, mode, recovers, resolution) \in OpRecords
<1>1. serving \in Objects /\ Len(ops) + 1 \in Objects /\ generation + 1 \in 1..MaxGeneration
    BY Bounds DEF IInv, Records, Types, Objects
<1>2. NoRuns \in [Deploys -> Statuses]
    BY DEF NoRuns, Statuses
<1>3. 0 \in 0..MaxWrites /\ 0 \in 0..MaxArms /\ "none" \in Codes
    BY Bounds DEF Codes
<1> QED BY <1>1, <1>2, <1>3 DEF Record, OpRecords

LEMMA StartStepHolds == IInv /\ StartStep => IInv'
<1> SUFFICES ASSUME IInv, StartStep PROVE IInv'
    OBVIOUS
<1>1. /\ Len(ops) \in Nat /\ TRUE \in BOOLEAN /\ FALSE \in BOOLEAN /\ 0 \in 0..MaxOps
      /\ generation \in Nat
    BY Bounds DEF IInv, Records, Types
<1>2. ASSUME NEW mode \in Modes, StartMaintenance(mode) PROVE IInv'
    <2> DEFINE step == IF mode = "open" THEN "open" ELSE "restrict"
    <2> DEFINE row == Record("maintenance", step, mode, 0, "none")
    <2>1. Start(row, TRUE) /\ generation < MaxGeneration
        BY <1>2 DEF StartMaintenance, Start
    <2>2. step \in Steps /\ "maintenance" \in AllKinds
        BY DEF Steps, AllKinds
    <2>3. Len(ops) + 1 \in 1..MaxOps => row \in OpRecords
        BY <1>1, <2>1, <2>2, RecordType
    <2>4. /\ row.generation = generation + 1 /\ row.clone = Len(ops) + 1 /\ row.original = serving
          /\ row.recovers = 0 /\ row.kind = "maintenance" /\ row.dump = 0 /\ row.step = step
        BY DEF Record
    <2> HIDE DEF row
    <2>5. Stepped(row)
        BY <2>4 DEF Stepped
    <2>6. row.recovers \in Nat /\ row.recovers <= Len(ops) /\ row.kind # "recovery"
        BY <1>1, <2>4
    <2> QED BY <1>1, <2>6, <2>1, <2>3, <2>4, <2>5, StartHolds
<1>3. CASE StartBackup
    <2> DEFINE row == Record("backup", "restrict", "read-only", 0, "none")
    <2>1. Start(row, TRUE) /\ generation < MaxGeneration
        BY <1>3 DEF StartBackup, Start
    <2>2. Len(ops) + 1 \in 1..MaxOps => row \in OpRecords
        BY <1>1, <2>1, RecordType DEF Steps, AllKinds, Modes
    <2>3. /\ row.generation = generation + 1 /\ row.clone = Len(ops) + 1 /\ row.original = serving
          /\ row.recovers = 0 /\ row.kind = "backup" /\ row.dump = 0
          /\ row.step = "restrict" /\ row.mode = "read-only"
        BY DEF Record
    <2> HIDE DEF row
    <2>4. Stepped(row)
        BY <2>3 DEF Stepped
    <2>5. row.recovers \in Nat /\ row.recovers <= Len(ops) /\ row.kind # "recovery"
        BY <1>1, <2>3
    <2> QED BY <1>1, <2>5, <2>1, <2>2, <2>3, <2>4, StartHolds
<1>4. CASE StartMigration
    <2> DEFINE old == Record("migrate", "restrict", "read-only", 0, "none")
    <2> DEFINE row == [old EXCEPT !.runs["migrate"] = "pending"]
    <2>1. Start(row, TRUE) /\ generation < MaxGeneration
        BY <1>4 DEF StartMigration, Start
    <2>2. Len(ops) + 1 \in 1..MaxOps => old \in OpRecords
        BY <1>1, <2>1, RecordType DEF Steps, AllKinds, Modes
    <2>3. /\ row.generation = generation + 1 /\ row.clone = Len(ops) + 1 /\ row.original = serving
          /\ row.recovers = 0 /\ row.kind = "migrate" /\ row.dump = 0
          /\ row.step = "restrict" /\ row.mode = "read-only"
        BY DEF Record
    <2> HIDE DEF old
    <2>4. Len(ops) + 1 \in 1..MaxOps => row \in OpRecords
        BY <2>2 DEF OpRecords, Statuses
    <2> HIDE DEF row
    <2>5. Stepped(row)
        BY <2>3 DEF Stepped
    <2>6. row.recovers \in Nat /\ row.recovers <= Len(ops) /\ row.kind # "recovery"
        BY <1>1, <2>3
    <2> QED BY <1>1, <2>6, <2>1, <2>3, <2>4, <2>5, StartHolds
<1>5. CASE StartRestore
    <2> DEFINE row == Record("restore", "list", "open", 0, "none")
    <2>1. Start(row, FALSE) /\ generation < MaxGeneration
        BY <1>5 DEF StartRestore, Start
    <2>2. Len(ops) + 1 \in 1..MaxOps => row \in OpRecords
        BY <1>1, <2>1, RecordType DEF Steps, AllKinds, Modes
    <2>3. /\ row.generation = generation + 1 /\ row.clone = Len(ops) + 1 /\ row.original = serving
          /\ row.recovers = 0 /\ row.kind = "restore" /\ row.dump = 0 /\ row.step = "list"
        BY DEF Record
    <2> HIDE DEF row
    <2>4. Stepped(row)
        BY <2>3 DEF Stepped, RestoreSteps
    <2>5. row.recovers \in Nat /\ row.recovers <= Len(ops) /\ row.kind # "recovery"
        BY <1>1, <2>3
    <2> QED BY <1>1, <2>5, <2>1, <2>2, <2>3, <2>4, StartHolds
<1>6. ASSUME NEW i \in 1..Len(ops), NEW resolution \in Resolutions, StartRecovery(i, resolution) PROVE IInv'
    <2> DEFINE row == Record("recovery", "reconcile", "closed", i, resolution)
    <2>1. Start(row, TRUE) /\ generation < MaxGeneration
        BY <1>6 DEF StartRecovery, Start
    <2>2. resolution \in {"none", "open", "resume"} /\ i \in 0..MaxOps /\ i # 0 /\ i \in Nat /\ i <= Len(ops)
        BY <1>1, Bounds, BoundsAssumption DEF IInv, Records, Types
    <2>3. Len(ops) + 1 \in 1..MaxOps => row \in OpRecords
        BY <2>1, <2>2, RecordType DEF Steps, AllKinds, Modes
    <2>4. /\ row.generation = generation + 1 /\ row.clone = Len(ops) + 1 /\ row.original = serving
          /\ row.recovers = i /\ row.kind = "recovery" /\ row.dump = 0 /\ row.step = "reconcile"
        BY DEF Record
    <2> HIDE DEF row
    <2>5. Stepped(row)
        BY <2>4 DEF Stepped
    <2> QED BY <1>1, <2>1, <2>2, <2>3, <2>4, <2>5, StartHolds
<1> QED BY <1>2, <1>3, <1>4, <1>5, <1>6 DEF StartStep

----------------------------------------------------------------------------
(* Requests, objects and deploys *)

LEMMA AheadIn ==
  ASSUME NEW todo \in Seq(Objects \X Modes), todo # <<>>
  PROVE  /\ todo[1] \in Objects \X Modes /\ todo[1] \in Ahead(todo)
         /\ Tail(todo) \in Seq(Objects \X Modes) /\ Ahead(Tail(todo)) \subseteq Ahead(todo)
<1>1. Len(todo) \in Nat \ {0}
    BY EmptySeq
<1>2. todo[1] \in Objects \X Modes /\ todo[1] \in Ahead(todo)
    BY <1>1, ElementOfSeq DEF Ahead
<1>3. /\ Tail(todo) \in Seq(Objects \X Modes) /\ Len(Tail(todo)) = Len(todo) - 1
      /\ \A k \in 1..Len(Tail(todo)) : Tail(todo)[k] = todo[k + 1] /\ k + 1 \in 1..Len(todo)
    BY <1>1
<1> QED BY <1>2, <1>3 DEF Ahead

\* Fewer requests agree as well, and so does a fresh generation.
LEMMA AgreesLess ==
  ASSUME NEW old, NEW row, NEW pc, NEW todo, NEW rest, NEW asked, NEW less,
         Agrees(old, pc, todo, asked), less \cup Ahead(rest) \subseteq asked \cup Ahead(todo),
         todo = <<>> => rest = <<>>,
         row.kind = old.kind, row.step = old.step, row.mode = old.mode, row.original = old.original,
         row.clone = old.clone
  PROVE  Agrees(row, pc, rest, less)
<1>1. Agreed(row, pc) = Agreed(old, pc)
    BY DEF Agreed, RecoveryAgreed, RestoreAgreed
<1>2. Settling(row, pc) <=> Settling(old, pc)
    BY DEF Settling
<1>3. Silent(old, pc, todo) => Silent(row, pc, rest)
    BY DEF Silent
<1>4. OneModeEach(asked \cup Ahead(todo)) => OneModeEach(less \cup Ahead(rest))
    BY DEF OneModeEach
<1> QED BY <1>1, <1>2, <1>3, <1>4 DEF Agrees

\* The world moves, and under each record's generation nothing is asked for that its holder did not publish.
LEMMA WorldMoves ==
  ASSUME IInv, UNCHANGED <<ops, generation, serving, drv>>, Types', Allocated',
         \A i \in 1..Len(ops) :
           AskedFor(ops[i].generation)' \subseteq
             AskedFor(ops[i].generation) \cup (IF drv.stack # <<>> /\ i = Top THEN Ahead(drv.todo) ELSE {})
  PROVE  Records' /\ Holder'
<1>1. drv.stack # <<>> => /\ Top \in 1..Len(ops) /\ Op = ops[Top]
                          /\ Agrees(Op, drv.pc, drv.todo, AskedFor(Op.generation))
    BY TopIn DEF Op
<1>2. Rows' /\ Distinct'
    BY DEF IInv, Records, Rows, Distinct
<1>3. Untouched'
    <2> SUFFICES ASSUME NEW i \in 1..Len(ops), ops[i].kind = "recovery", ops[i].step = "reconcile"
                 PROVE  AskedFor(ops[i].generation)' = {}
        BY DEF Untouched
    <2>1. AskedFor(ops[i].generation) = {}
        BY DEF IInv, Records, Untouched
    <2>2. CASE drv.stack # <<>> /\ i = Top
        <3>1. Ahead(drv.todo) \subseteq Agreed(Op, drv.pc) /\ Agreed(Op, drv.pc) = {}
            BY <1>1, <2>2 DEF Agrees, Silent, Settling, Agreed, RecoveryAgreed
        <3> QED BY <2>1, <2>2, <3>1
    <2>3. CASE ~(drv.stack # <<>> /\ i = Top)
        BY <2>1, <2>3
    <2> QED BY <2>2, <2>3
<1>4. Stacked' /\ drv' \in Drivers'
    BY DEF IInv, Holder, Stacked, Drivers
<1>5. Planned'
    <2> SUFFICES ASSUME drv.stack # <<>>
                 PROVE  Agrees(Op, drv.pc, drv.todo, AskedFor(Op.generation)')
        BY DEF Planned, Op, Top
    <2>1. AskedFor(Op.generation)' \subseteq AskedFor(Op.generation) \cup Ahead(drv.todo)
        <3>1. Op' = Op
            BY DEF Op, Top
        <3> QED BY <1>1, <3>1
    <2> QED BY <1>1, <2>1, AgreesLess
<1> QED BY <1>2, <1>3, <1>4, <1>5 DEF Records, Holder

LEMMA RequestIn ==
  ASSUME IInv, Publishes
  PROVE  /\ drv.stack # <<>> /\ drv.todo # <<>> /\ Request \in Requests /\ Request.kind = "state"
         /\ Request.object = drv.todo[1][1] /\ Request.mode = drv.todo[1][2]
         /\ Request.generation = Op.generation /\ Op.generation <= generation
         /\ drv.todo[1] = <<Request.object, Request.mode>> /\ drv.todo[1] \in Ahead(drv.todo)
<1>1. drv.stack # <<>> /\ drv.todo # <<>>
    BY DEF Publishes
<1>2. drv.todo[1] \in Objects \X Modes /\ drv.todo[1] \in Ahead(drv.todo)
    BY <1>1, TopIn, AheadIn
<1>3. Op.generation \in 1..MaxGeneration /\ Op.generation <= generation
    BY <1>1, TopIn, Fields DEF RowOK
<1>4. /\ Request.kind = "state" /\ Request.object = drv.todo[1][1] /\ Request.mode = drv.todo[1][2]
      /\ Request.generation = Op.generation /\ Request.op = 0
    BY DEF Request
<1>5. drv.todo[1][1] \in Objects /\ drv.todo[1][2] \in Modes /\ drv.todo[1] = <<drv.todo[1][1], drv.todo[1][2]>>
    BY <1>2
<1>6. Request \in Requests
    BY <1>3, <1>5, Bounds DEF Request, Requests
<1> QED BY <1>1, <1>2, <1>3, <1>4, <1>5, <1>6

LEMMA SendHolds == IInv /\ Send => IInv'
<1> SUFFICES ASSUME IInv, Send PROVE IInv'
    OBVIOUS
<1>1. Publishes /\ sent' = sent \cup {Request} /\ obj' = obj /\ UNCHANGED <<ops, generation, serving, drv>>
    BY DEF Send, pointer
<1>2. /\ drv.stack # <<>> /\ Request \in Requests /\ Request.generation = Op.generation
      /\ drv.todo[1] = <<Request.object, Request.mode>> /\ drv.todo[1] \in Ahead(drv.todo)
      /\ Op.generation <= generation
    BY <1>1, RequestIn
<1>3. Types' /\ Allocated'
    BY <1>1, <1>2 DEF IInv, Records, Types, Allocated
<1>4. ASSUME NEW i \in 1..Len(ops)
      PROVE  AskedFor(ops[i].generation)' \subseteq
               AskedFor(ops[i].generation) \cup (IF drv.stack # <<>> /\ i = Top THEN Ahead(drv.todo) ELSE {})
    <2>1. Top \in 1..Len(ops) /\ Op = ops[Top] /\ (ops[i].generation = Op.generation => i = Top)
        BY <1>2, TopIn DEF Op, IInv, Records, Distinct
    <2> DEFINE g == ops[i].generation
    <2>2. ASSUME NEW p \in AskedFor(g)', p \notin AskedFor(g) PROVE p = drv.todo[1] /\ g = Op.generation
        <3>1. g' = g
            BY <1>1
        <3>2. p \in Objects \X Modes /\ p = <<p[1], p[2]>>
            BY <2>2 DEF AskedFor
        <3>3. Request.object = p[1] /\ Request.mode = p[2] /\ Request.generation = g
            BY <1>1, <2>2, <3>1 DEF AskedFor
        <3> QED BY <1>2, <3>2, <3>3
    <2> HIDE DEF g
    <2>3. \A p \in AskedFor(g)' : p \in AskedFor(g) \/ (p \in Ahead(drv.todo) /\ i = Top)
        BY <1>2, <2>1, <2>2 DEF g
    <2> QED BY <1>2, <2>3 DEF g
<1>5. Records' /\ Holder'
    BY <1>1, <1>3, <1>4, WorldMoves
<1>6. Counted' /\ Around'
    BY DEF IInv, Counted, Around, Send, pointer
<1> QED BY <1>5, <1>6 DEF IInv

LEMMA AckedHolds == IInv /\ Acked => IInv'
<1> SUFFICES ASSUME IInv, Acked PROVE IInv'
    OBVIOUS
<1>1. drv.stack # <<>> /\ drv.todo # <<>> /\ drv \in Drivers
    BY DEF Acked, Publishes, IInv, Holder
<1>2. Tail(drv.todo) \in Seq(Objects \X Modes) /\ Ahead(Tail(drv.todo)) \subseteq Ahead(drv.todo)
    BY <1>1, TopIn, AheadIn
<1>3. Agrees(Op, drv.pc, Tail(drv.todo), AskedFor(Op.generation))
    BY <1>1, <1>2, TopIn, AgreesLess
<1>4. To(drv.pc, Tail(drv.todo))
    BY <1>1 DEF Acked, To, Drivers
<1>5. Records' /\ Holder'
    BY <1>1, <1>2, <1>3, <1>4, TopIn, HolderMoves DEF Acked, pointer, world
<1>6. Counted' /\ Around'
    BY DEF IInv, Counted, Around, Acked, pointer, world
<1> QED BY <1>5, <1>6 DEF IInv

LEMMA AdoptHolds == IInv /\ Adopt => IInv'
<1> SUFFICES ASSUME IInv, Adopt PROVE IInv'
    OBVIOUS
<1> DEFINE row == [Op EXCEPT !.generation = generation + 1]
<1>1. drv.stack # <<>> /\ drv \in Drivers /\ generation < MaxGeneration /\ generation' = generation + 1
    BY DEF Adopt, Publishes, IInv, Holder, Allocate
<1>2. /\ Op \in OpRecords /\ Stepped(Op) /\ drv.todo \in Seq(Objects \X Modes) /\ drv.pc \in Places
      /\ Agrees(Op, drv.pc, drv.todo, AskedFor(Op.generation))
    BY <1>1, TopIn DEF RowOK
<1>3. row \in OpRecords /\ row.generation = generation + 1
    BY <1>1, <1>2, FreshRow
<1>4. /\ row.kind = Op.kind /\ row.step = Op.step /\ row.mode = Op.mode /\ row.clone = Op.clone
      /\ row.original = Op.original /\ row.recovers = Op.recovers /\ row.dump = Op.dump
    BY <1>2 DEF OpRecords
<1>5. Write(row) /\ To(drv.pc, drv.todo) /\ obj' = obj /\ sent' = sent /\ serving' \in 0..Len(ops)
    BY <1>1 DEF Adopt, To, Drivers, world, pointer, IInv, Records, Types
<1> HIDE DEF row
<1>6. Kept(row, Op) /\ Stepped(row) /\ FreshGeneration(row)
    BY <1>1, <1>2, <1>3, <1>4 DEF Kept, Stepped, FreshGeneration
<1>7. AskedFor(row.generation) = {}
    BY <1>3, FreshAgrees
<1>8. Agrees(row, drv.pc, drv.todo, AskedFor(row.generation))
    BY <1>2, <1>4, <1>7, AgreesLess
<1>9. Moved
    BY <1>1, <1>2, <1>3, <1>4, <1>5, <1>6, <1>8, MovesTo
<1> QED BY <1>9, Whole DEF Adopt, pointer

\* A request that reaches its object is no longer on its way, and was asked for before.
LEMMA LandHolds == \A r \in sent : IInv /\ Land(r) => IInv'
<1> SUFFICES ASSUME NEW r \in sent, IInv, Land(r) PROVE IInv'
    OBVIOUS
<1>1. /\ r \in Requests /\ r.object \in Objects /\ r.mode \in Modes /\ r.generation \in 1..MaxGeneration
      /\ r.generation <= generation /\ r.kind = "state" /\ sent' \subseteq sent
      /\ obj' = [obj EXCEPT ![r.object] = [generation |-> r.generation, mode |-> r.mode]]
      /\ UNCHANGED <<ops, generation, serving, drv>>
    BY DEF IInv, Records, Types, Allocated, Requests, Land, pointer
<1>2. r.generation \in 0..MaxGeneration
    BY <1>1, Bounds
<1>3. \A o \in Objects : obj'[o] = IF o = r.object THEN [generation |-> r.generation, mode |-> r.mode] ELSE obj[o]
    BY <1>1 DEF IInv, Records, Types
<1>4. Types'
    BY <1>1, <1>2 DEF IInv, Records, Types
<1>5. Allocated'
    BY <1>1, <1>3 DEF IInv, Records, Allocated
<1>6. \A i \in 1..Len(ops) : AskedFor(ops[i].generation)' \subseteq AskedFor(ops[i].generation)
    <2> SUFFICES ASSUME NEW i \in 1..Len(ops), NEW p \in AskedFor(ops[i].generation)'
                 PROVE  p \in AskedFor(ops[i].generation)
        OBVIOUS
    <2> DEFINE g == ops[i].generation
    <2>1. g' = g
        BY <1>1
    <2> HIDE DEF g
    <2>2. /\ p \in Objects \X Modes
          /\ \/ obj'[p[1]] = [generation |-> g, mode |-> p[2]]
             \/ \E q \in sent' : q.kind = "state" /\ q.object = p[1] /\ q.mode = p[2] /\ q.generation = g
        BY <2>1 DEF AskedFor, g
    <2>3. CASE \E q \in sent' : q.kind = "state" /\ q.object = p[1] /\ q.mode = p[2] /\ q.generation = g
        BY <2>2, <2>3, <1>1 DEF AskedFor, g
    <2>4. CASE obj'[p[1]] = [generation |-> g, mode |-> p[2]]
        <3>1. CASE p[1] = r.object
            <4>1. r.generation = g /\ r.mode = p[2]
                BY <1>3, <2>2, <2>4, <3>1
            <4> QED BY <2>2, <3>1, <4>1, <1>1 DEF AskedFor, g
        <3>2. CASE p[1] # r.object
            BY <1>3, <2>2, <2>4, <3>2 DEF AskedFor, g
        <3> QED BY <3>1, <3>2
    <2> QED BY <2>2, <2>3, <2>4
<1>7. Records' /\ Holder'
    BY <1>1, <1>4, <1>5, <1>6, WorldMoves
<1>8. Counted' /\ Around'
    BY DEF IInv, Counted, Around, Land, pointer
<1> QED BY <1>7, <1>8 DEF IInv

\* What was asked for under any generation is no more than before, if fewer requests are on their way.
LEMMA FewerRequests ==
  ASSUME IInv, UNCHANGED <<ops, generation, serving, drv, obj>>, sent' \subseteq sent
  PROVE  Records' /\ Holder'
<1>1. Types' /\ Allocated'
    BY DEF IInv, Records, Types, Allocated
<1>2. \A i \in 1..Len(ops) : AskedFor(ops[i].generation)' \subseteq AskedFor(ops[i].generation)
    BY DEF AskedFor
<1> QED BY <1>1, <1>2, WorldMoves

\* An arm takes the writes of its object back, and none is counted twice.
LEMMA LandArmHolds == \A r \in sent : IInv /\ LandArm(r) => IInv'
<1> SUFFICES ASSUME NEW r \in sent, IInv, LandArm(r) PROVE IInv'
    OBVIOUS
<1>1. Records' /\ Holder'
    BY FewerRequests DEF LandArm, pointer
<1>2. Counted'
    <2>1. /\ data \in [Objects -> 0..MaxWrites] /\ total \in 0..MaxWrites /\ 0 \in 0..MaxWrites /\ 0 <= total
          /\ \A o \in Objects : data[o] <= total
        BY Bounds DEF IInv, Counted
    <2>2. data' = [data EXCEPT ![r.object] = 0] /\ total' = total /\ ops' = ops
        BY DEF LandArm
    <2>3. \A o \in Objects : data'[o] = 0 \/ data'[o] = data[o]
        BY <2>1, <2>2
    <2>4. data' \in [Objects -> 0..MaxWrites]
        BY <2>1, <2>2
    <2> QED BY <2>1, <2>2, <2>3, <2>4 DEF IInv, Counted
<1>3. Around'
    BY DEF IInv, Around, LandArm, pointer
<1> QED BY <1>1, <1>2, <1>3 DEF IInv

LEMMA ClientWriteHolds == IInv /\ ClientWrite => IInv'
<1> SUFFICES ASSUME IInv, ClientWrite PROVE IInv'
    OBVIOUS
<1>1. Records' /\ Holder'
    BY FewerRequests DEF ClientWrite, pointer
<1>2. Counted'
    <2>1. /\ data \in [Objects -> 0..MaxWrites] /\ total \in Nat /\ total < MaxWrites /\ deployed \in Objects
          /\ \A o \in Objects : data[o] \in Nat /\ data[o] <= total
        BY Bounds DEF IInv, Counted, Around, ClientWrite
    <2>2. data' = [data EXCEPT ![deployed] = @ + 1] /\ total' = total + 1 /\ ops' = ops
        BY DEF ClientWrite
    <2>3. \A o \in Objects : data'[o] = IF o = deployed THEN data[o] + 1 ELSE data[o]
        BY <2>1, <2>2
    <2>4. \A o \in Objects : data'[o] \in 0..MaxWrites /\ data'[o] <= total'
        BY <2>1, <2>2, <2>3, Bounds
    <2>5. data' \in [Objects -> 0..MaxWrites]
        BY <2>1, <2>2, <2>4
    <2>6. \A i \in 1..Len(ops) : ops[i].dump <= total + 1
        <3>1. \A i \in 1..Len(ops) : ops[i].dump \in Nat /\ ops[i].dump <= total
            BY Fields, Bounds DEF IInv, Records, Types, Counted
        <3> QED BY <2>1, <3>1
    <2> QED BY <2>1, <2>2, <2>4, <2>5, <2>6, Bounds DEF Counted
<1>3. Around'
    BY DEF IInv, Around, ClientWrite, pointer
<1> QED BY <1>1, <1>2, <1>3 DEF IInv

LEMMA DeployHolds == IInv /\ Deploy => IInv'
<1> SUFFICES ASSUME IInv, Deploy PROVE IInv'
    OBVIOUS
<1>1. Records' /\ Holder'
    BY FewerRequests DEF Deploy, pointer
<1>2. Counted'
    BY DEF IInv, Counted, Deploy
<1>3. Around'
    BY ServingIn DEF IInv, Around, Deploy, pointer
<1> QED BY <1>1, <1>2, <1>3 DEF IInv

LEMMA DeployLandsHolds == \A i \in 1..Len(ops), d \in Deploys : IInv /\ DeployLands(i, d) => IInv'
<1> SUFFICES ASSUME NEW i \in 1..Len(ops), NEW d \in Deploys, IInv, DeployLands(i, d) PROVE IInv'
    OBVIOUS
<1>1. Records' /\ Holder'
    BY FewerRequests DEF DeployLands, pointer
<1>2. Counted'
    BY DEF IInv, Counted, DeployLands
<1>3. ops[i].clone \in Objects /\ ops[i].original \in Objects /\ serving \in Objects
    BY Fields, ServingIn DEF IInv, Records, Types
<1>4. PointerOf(i, d) \in Objects
    BY <1>3 DEF PointerOf
<1>5. Around'
    BY <1>4 DEF IInv, Around, DeployLands, pointer
<1> QED BY <1>1, <1>2, <1>5 DEF IInv

\* A run moves, and nothing else of its record.
LEMMA RunSetHolds ==
  ASSUME IInv, NEW i \in 1..Len(ops), NEW d \in Deploys, NEW status \in Statuses, RunSet(i, d, status),
         UNCHANGED <<generation, pointer, world, drv, stops>>
  PROVE  IInv'
<1> DEFINE row == [ops[i] EXCEPT !.runs[d] = status]
<1>1. ops[i] \in OpRecords /\ ops \in Seq(OpRecords) /\ ops[i].runs \in [Deploys -> Statuses]
    BY Fields DEF IInv, Records, Types
<1>2. row \in OpRecords
    BY <1>1 DEF OpRecords
<1>3. /\ Kept(row, ops[i]) /\ row.step = ops[i].step /\ row.mode = ops[i].mode
      /\ row.generation = ops[i].generation /\ row.dump = ops[i].dump
    BY <1>1 DEF OpRecords, Kept
<1>4. ops' = [ops EXCEPT ![i] = row]
    BY <1>1 DEF RunSet
<1> HIDE DEF row
<1>5. Records' /\ Holder' /\ Counted'
    BY <1>2, <1>3, <1>4, BesideMoves DEF pointer, world
<1>6. Around'
    BY DEF IInv, Around, pointer, world
<1> QED BY <1>5, <1>6 DEF IInv

LEMMA RunEndsHolds == \A i \in 1..Len(ops), d \in Deploys : IInv /\ RunEnds(i, d) => IInv'
<1> SUFFICES ASSUME NEW i \in 1..Len(ops), NEW d \in Deploys, IInv, RunEnds(i, d) PROVE IInv'
    OBVIOUS
<1>1. PICK status \in {"rejected", "succeeded", "failed"} : RunSet(i, d, status)
    BY DEF RunEnds
<1>2. status \in Statuses
    BY DEF Statuses
<1> QED BY <1>1, <1>2, RunSetHolds DEF RunEnds

LEMMA RestoreDeployHolds ==
  ASSUME IInv, NEW i \in 1..Len(ops), NEW d \in Deploys, RestoreDeploy(i, d)
  PROVE  IInv'
<1>1. PICK status \in {"named", "pending", "running"} : RunSet(i, d, status)
    BY DEF RestoreDeploy
<1>2. status \in Statuses
    BY DEF Statuses
<1> QED BY <1>1, <1>2, RunSetHolds DEF RestoreDeploy

----------------------------------------------------------------------------
(* The steps *)

LEMMA BeginStepHolds == IInv /\ BeginStep => IInv'
<1> SUFFICES ASSUME IInv, BeginStep PROVE IInv'
    OBVIOUS
<1>1. /\ drv.stack # <<>> /\ drv.todo = <<>> /\ drv.pc = "step" /\ Op.step # "resume"
      /\ To("acked", StepModes(Op)) /\ UNCHANGED <<ops, generation, pointer, world, stops>>
    BY DEF BeginStep, At
<1>2. /\ Top \in 1..Len(ops) /\ Op = ops[Top] /\ Op.kind \in AllKinds
      /\ Agrees(Op, "step", <<>>, AskedFor(Op.generation))
    BY <1>1, TopIn, Fields DEF Op
<1>3. StepModes(Op) \in Seq(Objects \X Modes) /\ Ahead(StepModes(Op)) \subseteq Agreed(Op, "acked")
    BY <1>1, <1>2, StepModesAgree
<1>4. Agrees(Op, "acked", StepModes(Op), AskedFor(Op.generation))
    <2>1. CASE Op.kind = "restore" /\ Op.step = "revert"
        <3>1. StepModes(Op) = <<>>
            BY <2>1 DEF StepModes
        <3> QED BY <2>1, <3>1 DEF Agrees, Silent
    <2>2. CASE ~(Op.kind = "restore" /\ Op.step = "revert")
        <3>1. ~Silent(Op, "step", <<>>) /\ ~Settling(Op, "acked")
            BY <1>1, <2>2 DEF Silent, Settling
        <3>2. AskedFor(Op.generation) \subseteq Agreed(Op, "step")
            BY <1>2, <3>1 DEF Agrees, Settling
        <3>3. Agreed(Op, "step") \subseteq Agreed(Op, "acked")
            BY <1>2 DEF Agreed, RecoveryAgreed, AllKinds
        <3> QED BY <1>3, <3>1, <3>2, <3>3 DEF Agrees
    <2> QED BY <2>1, <2>2
<1>5. "acked" \in Places
    BY DEF Places
<1>6. Records' /\ Holder'
    BY <1>1, <1>3, <1>4, <1>5, HolderMoves DEF pointer, world
<1>7. Counted' /\ Around'
    BY <1>1 DEF IInv, Counted, Around, pointer, world
<1> QED BY <1>6, <1>7 DEF IInv

\* The record of a step at the same generation.
LEMMA RowTo ==
  ASSUME IInv, drv.stack # <<>>, NEW step \in Steps, NEW mode \in Modes
  PROVE  /\ [Op EXCEPT !.step = step] \in OpRecords
         /\ [Op EXCEPT !.step = step].step = step
         /\ [Op EXCEPT !.step = step].mode = Op.mode
         /\ [Op EXCEPT !.step = step].kind = Op.kind
         /\ [Op EXCEPT !.step = step].original = Op.original
         /\ [Op EXCEPT !.step = step].clone = Op.clone
         /\ [Op EXCEPT !.step = step].generation = Op.generation
         /\ [Op EXCEPT !.step = step].dump = Op.dump
         /\ Kept([Op EXCEPT !.step = step], Op)
         /\ [Op EXCEPT !.step = step, !.mode = mode] \in OpRecords
         /\ [Op EXCEPT !.step = step, !.mode = mode].step = step
         /\ [Op EXCEPT !.step = step, !.mode = mode].mode = mode
         /\ [Op EXCEPT !.step = step, !.mode = mode].kind = Op.kind
         /\ [Op EXCEPT !.step = step, !.mode = mode].original = Op.original
         /\ [Op EXCEPT !.step = step, !.mode = mode].clone = Op.clone
         /\ [Op EXCEPT !.step = step, !.mode = mode].generation = Op.generation
         /\ [Op EXCEPT !.step = step, !.mode = mode].dump = Op.dump
         /\ Kept([Op EXCEPT !.step = step, !.mode = mode], Op)
<1>1. Op \in OpRecords
    BY TopIn
<1> QED BY <1>1 DEF OpRecords, Kept

LEMMA FailedStepHolds == IInv /\ FailedStep => IInv'
<1> SUFFICES ASSUME IInv, FailedStep PROVE IInv'
    OBVIOUS
<1>1. drv.stack # <<>> /\ Op.kind = "restore" /\ Op \in OpRecords /\ UNCHANGED <<world, stops>>
    BY TopIn DEF FailedStep, At
<1>2. CASE Op.step = "serve"
    <2> DEFINE row == [Op EXCEPT !.step = "revert"]
    <2>1. /\ row \in OpRecords /\ row.step = "revert" /\ row.kind = Op.kind /\ Kept(row, Op)
          /\ row.generation = Op.generation /\ row.dump = Op.dump
        BY <1>1, RowTo DEF Steps, Modes
    <2>2. Advance(row)
        BY <1>2 DEF FailedStep
    <2> HIDE DEF row
    <2>3. Stepped(row) /\ Silent(row, "step", <<>>)
        BY <1>1, <2>1 DEF Stepped, RestoreSteps, Silent
    <2>4. Moved
        BY <1>1, <2>1, <2>2, <2>3, Advances DEF world
    <2> QED BY <1>1, <2>2, <2>4, Whole DEF Advance, pointer
<1>3. CASE Op.step # "serve"
    <2>1. Reopen(Op) /\ Kept(Op, Op)
        BY <1>3 DEF FailedStep, Kept
    <2>2. Moved
        BY <1>1, <2>1, Reopens DEF world
    <2> QED BY <1>1, <2>1, <2>2, Whole DEF Reopen, AdvanceFresh, pointer
<1> QED BY <1>2, <1>3

\* The first failure of a restore is recorded, and its step begins again.
LEMMA Abandons ==
  ASSUME IInv, drv.stack # <<>>, Op.kind = "restore", Op.step # "revert", drv.todo = <<>>,
         NEW code \in Codes, Abandon(code), obj' = obj, sent' = sent
  PROVE  Moved /\ listed' = listed
<1> DEFINE row == [Op EXCEPT !.failure = code]
<1>1. Op \in OpRecords /\ Stepped(Op)
    BY TopIn DEF RowOK
<1>2. /\ row \in OpRecords /\ row.step = Op.step /\ row.kind = Op.kind /\ row.mode = Op.mode /\ Kept(row, Op)
      /\ row.generation = Op.generation /\ row.dump = Op.dump /\ row.original = Op.original /\ row.clone = Op.clone
    BY <1>1 DEF OpRecords, Kept
<1>3. Advance(row) /\ listed' = listed
    BY DEF Abandon, Advance, pointer
<1> HIDE DEF row
<1>4. Stepped(row) /\ row.step # "reconcile" /\ ~Silent(Op, drv.pc, drv.todo) /\ ~Settling(Op, drv.pc)
    BY <1>1, <1>2 DEF Stepped, RestoreSteps, Silent, Settling
<1>5. Agreed(row, "step") = Agreed(Op, drv.pc)
    BY <1>2 DEF Agreed, RestoreAgreed
<1> QED BY <1>2, <1>3, <1>4, <1>5, Advances

LEMMA MaintenanceStepHolds == IInv /\ MaintenanceStep => IInv'
BY Ends DEF MaintenanceStep, At, Codes, End, pointer

LEMMA RestrictStepHolds == \A kind \in {"backup", "migrate", "restore"} : IInv /\ RestrictStep(kind) => IInv'
<1> SUFFICES ASSUME NEW kind \in {"backup", "migrate", "restore"}, IInv, RestrictStep(kind) PROVE IInv'
    OBVIOUS
<1> DEFINE row == [Op EXCEPT !.step = "backup"]
<1>1. /\ drv.stack # <<>> /\ Op.kind = kind /\ Op.step = "restrict" /\ drv.todo = <<>>
      /\ Advance(row) /\ UNCHANGED <<world, stops>>
    BY DEF RestrictStep, At
<1>2. Op \in OpRecords /\ Stepped(Op)
    BY <1>1, TopIn DEF RowOK
<1>3. /\ row \in OpRecords /\ row.step = "backup" /\ row.kind = Op.kind /\ row.mode = Op.mode /\ Kept(row, Op)
      /\ row.generation = Op.generation /\ row.dump = Op.dump /\ row.original = Op.original /\ row.clone = Op.clone
    BY <1>1, RowTo DEF Steps, Modes
<1> HIDE DEF row
<1>4. Stepped(row) /\ ~Silent(Op, drv.pc, drv.todo) /\ ~Settling(Op, drv.pc)
    BY <1>1, <1>2, <1>3 DEF Stepped, RestoreSteps, Silent, Settling
<1>5. Agreed(Op, drv.pc) \subseteq Agreed(row, "step")
    BY <1>1, <1>3 DEF Agreed, RestoreAgreed
<1>6. Moved
    BY <1>1, <1>3, <1>4, <1>5, Advances DEF world
<1> QED BY <1>1, <1>6, Whole DEF Advance, pointer

LEMMA DumpStepHolds == \A kind \in {"backup", "migrate", "restore"} : IInv /\ DumpStep(kind) => IInv'
<1> SUFFICES ASSUME NEW kind \in {"backup", "migrate", "restore"}, IInv, DumpStep(kind) PROVE IInv'
    OBVIOUS
<1> DEFINE dumped == [Op EXCEPT !.dump = data[Op.original]]
<1> DEFINE broken == [Op EXCEPT !.backup = "failed"]
<1> DEFINE row == [dumped EXCEPT !.step = "verify"]
<1>1. /\ drv.stack # <<>> /\ Op.kind = kind /\ Op.step = "backup" /\ drv.todo = <<>>
      /\ UNCHANGED <<world, stops>>
      /\ \/ kind = "backup" /\ Reopen(dumped)
         \/ kind # "backup" /\ Advance(row)
         \/ Reopen(broken)
    BY DEF DumpStep, At
<1>2. Op \in OpRecords /\ Stepped(Op) /\ data[Op.original] \in 0..MaxWrites /\ data[Op.original] <= total
    BY <1>1, TopIn, Fields DEF RowOK, IInv, Counted
<1>3. dumped \in OpRecords /\ Kept(dumped, Op) /\ dumped.dump = data[Op.original]
    BY <1>2 DEF OpRecords, Kept
<1>4. broken \in OpRecords /\ Kept(broken, Op) /\ broken.dump = Op.dump
    BY <1>2 DEF OpRecords, Kept
<1>5. /\ row \in OpRecords /\ row.step = "verify" /\ row.kind = Op.kind /\ row.mode = Op.mode /\ Kept(row, Op)
      /\ row.generation = Op.generation /\ row.dump = data[Op.original]
      /\ row.original = Op.original /\ row.clone = Op.clone
    BY <1>2 DEF OpRecords, Kept, Steps
<1> HIDE DEF dumped, broken, row
<1>6. CASE kind = "backup" /\ Reopen(dumped)
    <2>1. Moved
        BY <1>1, <1>2, <1>3, <1>6, Reopens DEF world
    <2> QED BY <1>1, <1>6, <2>1, Whole DEF Reopen, AdvanceFresh, pointer
<1>7. CASE kind # "backup" /\ Advance(row)
    <2>1. Stepped(row) /\ ~Silent(Op, drv.pc, drv.todo) /\ ~Settling(Op, drv.pc)
        BY <1>1, <1>2, <1>5, <1>7 DEF Stepped, RestoreSteps, Silent, Settling
    <2>2. Agreed(Op, drv.pc) \subseteq Agreed(row, "step")
        BY <1>1, <1>5, <1>7 DEF Agreed, RestoreAgreed
    <2>3. Moved
        BY <1>1, <1>2, <1>5, <1>7, <2>1, <2>2, Advances DEF world
    <2> QED BY <1>1, <1>7, <2>3, Whole DEF Advance, pointer
<1>8. CASE Reopen(broken)
    <2>1. Moved
        BY <1>1, <1>4, <1>8, Reopens DEF world
    <2> QED BY <1>1, <1>8, <2>1, Whole DEF Reopen, AdvanceFresh, pointer
<1> QED BY <1>1, <1>6, <1>7, <1>8

\* The same, with the world as it is.
LEMMA AdvanceHolds ==
  ASSUME IInv, drv.stack # <<>>, NEW row \in OpRecords, Advance(row), Kept(row, Op), Stepped(row),
         row.dump = Op.dump, row.generation = Op.generation, row.step # "reconcile", UNCHANGED <<world, stops>>,
         \/ Silent(row, "step", <<>>)
         \/ /\ ~Silent(Op, drv.pc, drv.todo) /\ ~Settling(Op, drv.pc)
            /\ Agreed(Op, drv.pc) \subseteq Agreed(row, "step")
  PROVE  IInv'
<1>1. Moved
    BY Advances DEF world
<1> QED BY <1>1, Whole DEF Advance, pointer

LEMMA AdvanceFreshHolds ==
  ASSUME IInv, drv.stack # <<>>, NEW row \in OpRecords, AdvanceFresh(row), Kept(row, Op), Stepped(row),
         row.dump = Op.dump, UNCHANGED <<world, stops>>
  PROVE  IInv'
<1>1. Moved
    BY AdvancesFresh DEF world
<1> QED BY <1>1, Whole DEF AdvanceFresh, pointer

LEMMA ReopenHolds ==
  ASSUME IInv, drv.stack # <<>>, NEW row \in OpRecords, Reopen(row), Kept(row, Op), row.dump = Op.dump,
         UNCHANGED <<world, stops>>
  PROVE  IInv'
<1>1. Moved
    BY Reopens DEF world
<1> QED BY <1>1, Whole DEF Reopen, AdvanceFresh, pointer

LEMMA ReopenSame ==
  ASSUME IInv, drv.stack # <<>>, Reopen(Op), UNCHANGED <<world, stops>>
  PROVE  IInv'
BY TopIn, ReopenHolds DEF Kept

LEMMA EndHolds ==
  ASSUME IInv, drv.stack # <<>>, NEW state \in {"succeeded", "failed"}, NEW code \in Codes,
         End(state, code), UNCHANGED <<world, stops>>
  PROVE  IInv'
BY Ends DEF End, pointer

LEMMA KnownCodes ==
  {"none", "recovered", "deploy_failed", "migration_failed", "revert_failed", "resume_failed", "backup_failed",
   "deploy_not_started", "list_failed", "import_failed", "point_failed", "pointer_not_deployed",
   "bookmark_unavailable", "rewind_failed", "unexpected_schema"} \subseteq Codes
BY DEF Codes, ReopenedCodes

LEMMA VerifyStepHolds == \A kind \in {"migrate", "restore"} : IInv /\ VerifyStep(kind) => IInv'
<1> SUFFICES ASSUME NEW kind \in {"migrate", "restore"}, IInv, VerifyStep(kind) PROVE IInv'
    OBVIOUS
<1> DEFINE step == IF kind = "migrate" THEN "deploy" ELSE "import"
<1> DEFINE row == [Op EXCEPT !.backup = "succeeded", !.step = step]
<1> DEFINE broken == [Op EXCEPT !.backup = "failed"]
<1>1. /\ drv.stack # <<>> /\ Op.kind = kind /\ Op.step = "verify" /\ drv.todo = <<>>
      /\ UNCHANGED <<world, stops>> /\ (Advance(row) \/ Reopen(broken))
    BY DEF VerifyStep, At
<1>2. Op \in OpRecords /\ Stepped(Op)
    BY <1>1, TopIn DEF RowOK
<1>3. /\ row \in OpRecords /\ row.step = step /\ row.kind = Op.kind /\ row.mode = Op.mode /\ Kept(row, Op)
      /\ row.generation = Op.generation /\ row.dump = Op.dump /\ row.original = Op.original /\ row.clone = Op.clone
    BY <1>2 DEF OpRecords, Kept, Steps
<1>4. broken \in OpRecords /\ Kept(broken, Op) /\ broken.dump = Op.dump
    BY <1>2 DEF OpRecords, Kept
<1> HIDE DEF row, broken
<1>5. CASE Advance(row)
    <2>1. Stepped(row) /\ ~Silent(Op, drv.pc, drv.todo) /\ ~Settling(Op, drv.pc) /\ row.step # "reconcile"
        BY <1>1, <1>2, <1>3 DEF Stepped, RestoreSteps, Silent, Settling
    <2>2. Agreed(Op, drv.pc) \subseteq Agreed(row, "step")
        BY <1>1, <1>3 DEF Agreed, RestoreAgreed
    <2> QED BY <1>1, <1>3, <1>5, <2>1, <2>2, AdvanceHolds
<1>6. CASE Reopen(broken)
    BY <1>1, <1>4, <1>6, ReopenHolds
<1> QED BY <1>1, <1>5, <1>6

LEMMA BackupOpenedHolds == IInv /\ BackupOpened => IInv'
<1> SUFFICES ASSUME IInv, BackupOpened PROVE IInv'
    OBVIOUS
<1>1. drv.stack # <<>> /\ Op.kind = "backup" /\ Op.step = "open" /\ UNCHANGED <<world, stops>>
    BY DEF BackupOpened, At
<1>2. CASE Op.backup = "failed"
    BY <1>1, <1>2, EndHolds, KnownCodes DEF BackupOpened
<1>3. CASE Op.backup # "failed"
    <2> DEFINE row == [Op EXCEPT !.step = "verify"]
    <2>1. AdvanceFresh(row)
        BY <1>3 DEF BackupOpened
    <2>2. /\ row \in OpRecords /\ row.step = "verify" /\ row.kind = Op.kind /\ row.mode = Op.mode /\ Kept(row, Op)
          /\ row.dump = Op.dump
        BY <1>1, RowTo DEF Steps, Modes
    <2> HIDE DEF row
    <2>3. Stepped(Op) /\ Stepped(row)
        BY <1>1, <2>2, TopIn DEF RowOK, Stepped
    <2> QED BY <1>1, <2>1, <2>2, <2>3, AdvanceFreshHolds
<1> QED BY <1>2, <1>3

LEMMA BackupVerifiedHolds == IInv /\ BackupVerified => IInv'
BY EndHolds, KnownCodes DEF BackupVerified, At

LEMMA MigrateDeployHolds == IInv /\ MigrateDeploy => IInv'
BY TopIn, RestoreDeployHolds DEF MigrateDeploy, At, Deploys

LEMMA MigrateDeployedHolds == IInv /\ MigrateDeployed => IInv'
<1> SUFFICES ASSUME IInv, MigrateDeployed PROVE IInv'
    OBVIOUS
<1> DEFINE row == [Op EXCEPT !.step = "migrate"]
<1>1. /\ drv.stack # <<>> /\ Op.kind = "migrate" /\ Op.step = "deploy" /\ drv.todo = <<>>
      /\ UNCHANGED <<world, stops>>
      /\ Advance(row) \/ Reopen(Op) \/ End("failed", "deploy_failed")
    BY DEF MigrateDeployed, At, Ended, Op
<1>2. Op \in OpRecords /\ Stepped(Op)
    BY <1>1, TopIn DEF RowOK
<1>3. /\ row \in OpRecords /\ row.step = "migrate" /\ row.kind = Op.kind /\ row.mode = Op.mode /\ Kept(row, Op)
      /\ row.generation = Op.generation /\ row.dump = Op.dump
    BY <1>1, RowTo DEF Steps, Modes
<1> HIDE DEF row
<1>4. CASE Advance(row)
    <2>1. Stepped(row) /\ ~Silent(Op, drv.pc, drv.todo) /\ ~Settling(Op, drv.pc)
        BY <1>1, <1>2, <1>3 DEF Stepped, Silent, Settling
    <2>2. Agreed(Op, drv.pc) \subseteq Agreed(row, "step")
        BY <1>1, <1>3 DEF Agreed
    <2> QED BY <1>1, <1>3, <1>4, <2>1, <2>2, AdvanceHolds
<1>5. CASE Reopen(Op)
    BY <1>1, <1>5, ReopenSame
<1>6. CASE End("failed", "deploy_failed")
    BY <1>1, <1>6, EndHolds, KnownCodes
<1> QED BY <1>1, <1>4, <1>5, <1>6

LEMMA MigrateRequestHolds == IInv /\ MigrateRequest => IInv'
BY EndHolds, ReopenSame, KnownCodes DEF MigrateRequest, At

LEMMA MigrateOpenedHolds == IInv /\ MigrateOpened => IInv'
BY EndHolds, KnownCodes DEF MigrateOpened, At

LEMMA RestoreRunHolds == \A d \in {"list", "point", "revert"} : IInv /\ RestoreRun(d, d) => IInv'
BY TopIn, RestoreDeployHolds DEF RestoreRun, At, Deploys

LEMMA ListStepHolds == IInv /\ ListStep => IInv'
<1> SUFFICES ASSUME IInv, ListStep PROVE IInv'
    OBVIOUS
<1> DEFINE row == [Op EXCEPT !.step = "restrict", !.mode = "read-only", !.generation = generation + 1]
<1>1. drv.stack # <<>> /\ Op.kind = "restore" /\ Op \in OpRecords /\ Op.clone \in Objects /\ UNCHANGED <<world, stops>>
    BY TopIn, Fields DEF ListStep, At
<1>2. CASE End("failed", "list_failed")
    BY <1>1, <1>2, EndHolds, KnownCodes
<1>3. CASE /\ Allocate /\ Write(row) /\ listed' = listed \cup {Op.clone} /\ serving' = serving /\ To("step", <<>>)
    <2>1. generation + 1 \in 1..MaxGeneration
        BY <1>3, Bounds DEF Allocate, IInv, Records, Types
    <2>2. /\ row \in OpRecords /\ row.step = "restrict" /\ row.kind = Op.kind /\ Kept(row, Op)
          /\ row.dump = Op.dump /\ row.generation = generation + 1
        <3>1. row \in OpRecords
            BY <1>1, <2>1 DEF OpRecords, Steps, Modes
        <3>2. row.step = "restrict" /\ row.dump = Op.dump /\ row.generation = generation + 1
            BY <1>1 DEF OpRecords
        <3>3. row.kind = Op.kind /\ Kept(row, Op)
            BY <1>1 DEF OpRecords, Kept
        <3> QED BY <3>1, <3>2, <3>3
    <2> HIDE DEF row
    <2>3. Stepped(row)
        BY <1>1, <2>2 DEF Stepped, RestoreSteps
    <2>4. FreshGeneration(row) /\ serving' \in 0..Len(ops) /\ Write(row) /\ To("step", <<>>)
        BY <1>3, <2>2 DEF FreshGeneration, Allocate, IInv, Records, Types
    <2>5. Agrees(row, "step", <<>>, AskedFor(row.generation))
        BY <2>2, FreshAgrees
    <2>6. "step" \in Places /\ <<>> \in Seq(Objects \X Modes)
        BY DEF Places
    <2>7. Moved
        BY <1>1, <2>2, <2>3, <2>4, <2>5, <2>6, MovesTo DEF world
    <2>8. Counted'
        BY <1>1, <2>7 DEF IInv, Moved, Counted, world
    <2>9. Around'
        BY <1>1, <1>3 DEF IInv, Around, world
    <2> QED BY <2>7, <2>8, <2>9 DEF IInv, Moved
<1> QED BY <1>2, <1>3 DEF ListStep

LEMMA ImportStepHolds == IInv /\ ImportStep => IInv'
<1> SUFFICES ASSUME IInv, ImportStep PROVE IInv'
    OBVIOUS
<1> DEFINE row == [Op EXCEPT !.step = "promote", !.mode = "inspect"]
<1>1. /\ drv.stack # <<>> /\ Op.kind = "restore" /\ Op.step = "import" /\ drv.todo = <<>> /\ Op \in OpRecords
      /\ UNCHANGED <<deployed, obj, total, sentinel, sent, stops>> /\ Top \in 1..Len(ops)
    BY TopIn DEF ImportStep, At
<1>2. CASE Abandon("import_failed") /\ data' = data
    <2>1. Moved /\ listed' = listed
        BY <1>1, <1>2, Abandons, KnownCodes
    <2> QED BY <1>1, <1>2, <2>1, Whole DEF world
<1>3. CASE AdvanceFresh(row) /\ data' = [data EXCEPT ![Op.clone] = Op.dump]
    <2>1. row \in OpRecords /\ row.step = "promote" /\ row.kind = Op.kind /\ Kept(row, Op) /\ row.dump = Op.dump
        BY <1>1, RowTo DEF Steps, Modes
    <2> HIDE DEF row
    <2>2. Stepped(row)
        BY <1>1, <2>1 DEF Stepped, RestoreSteps
    <2>3. Moved
        BY <1>1, <1>3, <2>1, <2>2, AdvancesFresh
    <2>4. Counted'
        <3>1. /\ data \in [Objects -> 0..MaxWrites] /\ total' = total /\ Op.dump \in 0..MaxWrites /\ Op.dump <= total
              /\ \A o \in Objects : data[o] <= total
            BY <1>1, Fields DEF IInv, Counted, Op
        <3>2. data' \in [Objects -> 0..MaxWrites] /\ \A o \in Objects : data'[o] = data[o] \/ data'[o] = Op.dump
            BY <1>3, <3>1
        <3> QED BY <2>3, <3>1, <3>2 DEF IInv, Moved, Counted
    <2>5. Around'
        BY <1>1, <1>3 DEF IInv, Around, AdvanceFresh, pointer
    <2> QED BY <2>3, <2>4, <2>5 DEF IInv, Moved
<1> QED BY <1>2, <1>3 DEF ImportStep

LEMMA PromoteStepHolds == IInv /\ PromoteStep => IInv'
<1> SUFFICES ASSUME IInv, PromoteStep PROVE IInv'
    OBVIOUS
<1> DEFINE row == [Op EXCEPT !.step = "point"]
<1>1. /\ drv.stack # <<>> /\ Op.kind = "restore" /\ Op.step = "promote" /\ drv.todo = <<>>
      /\ UNCHANGED <<world, stops>> /\ Advance(row)
    BY DEF PromoteStep, At
<1>2. /\ row \in OpRecords /\ row.step = "point" /\ row.kind = Op.kind /\ Kept(row, Op) /\ row.dump = Op.dump
      /\ row.generation = Op.generation /\ row.original = Op.original /\ row.clone = Op.clone
    BY <1>1, RowTo DEF Steps, Modes
<1> HIDE DEF row
<1>3. Stepped(row) /\ ~Silent(Op, drv.pc, drv.todo) /\ ~Settling(Op, drv.pc)
    BY <1>1, <1>2 DEF Stepped, RestoreSteps, Silent, Settling
<1>4. Agreed(Op, drv.pc) \subseteq Agreed(row, "step")
    BY <1>1, <1>2 DEF Agreed, RestoreAgreed
<1> QED BY <1>1, <1>2, <1>3, <1>4, AdvanceHolds

\* A restore's record moves within its step and generation: what was asked for still agrees.
LEMMA RestoreStays ==
  ASSUME IInv, drv.stack # <<>>, Op.kind = "restore", Op.step # "revert", drv.todo = <<>>,
         NEW row, row.kind = "restore", row.generation = Op.generation,
         RestoreAgreed(Op) \subseteq RestoreAgreed(row), NEW pc
  PROVE  Agrees(row, pc, <<>>, AskedFor(row.generation))
<1>1. AskedFor(Op.generation) \subseteq RestoreAgreed(Op)
    BY TopIn, AgreedRestore DEF Agrees, Silent, Settling
<1>2. Ahead(<<>>) = {} /\ ~Settling(row, pc)
    BY DEF Ahead, Settling
<1> QED BY <1>1, <1>2, AgreedRestore DEF Agrees

LEMMA PointStepHolds == IInv /\ PointStep => IInv'
<1> SUFFICES ASSUME IInv, PointStep PROVE IInv'
    OBVIOUS
<1> DEFINE row == [Op EXCEPT !.step = "serve", !.mode = "open"]
<1>1. /\ drv.stack # <<>> /\ Op.kind = "restore" /\ Op.step = "point" /\ drv.todo = <<>>
      /\ Top \in 1..Len(ops) /\ UNCHANGED <<world, stops>>
    BY TopIn DEF PointStep, At
<1>2. CASE Abandon("point_failed")
    <2>1. Moved /\ listed' = listed
        BY <1>1, <1>2, Abandons, KnownCodes DEF world
    <2> QED BY <1>1, <2>1, Whole
<1>3. CASE Write(row) /\ To("step", <<>>) /\ serving' = Op.clone /\ UNCHANGED <<listed, generation>>
    <2>1. /\ row \in OpRecords /\ row.step = "serve" /\ row.kind = Op.kind /\ Kept(row, Op) /\ row.dump = Op.dump
          /\ row.generation = Op.generation /\ row.original = Op.original /\ row.clone = Op.clone
        BY <1>1, RowTo DEF Steps, Modes
    <2>2. Write(row) /\ To("step", <<>>)
        BY <1>3
    <2> HIDE DEF row
    <2>3. Stepped(row) /\ SameGeneration(row, Op)
        BY <1>1, <1>3, <2>1 DEF Stepped, RestoreSteps, SameGeneration
    <2>4. RestoreAgreed(Op) = RestoreAgreed(row)
        BY <1>1, <2>1 DEF RestoreAgreed
    <2>5. Agrees(row, "step", <<>>, AskedFor(row.generation))
        BY <1>1, <2>1, <2>4, RestoreStays
    <2>6. serving' \in 0..Len(ops)
        BY <1>1, <1>3, TopIn DEF RowOK, IInv, Records, Types
    <2>7. "step" \in Places /\ <<>> \in Seq(Objects \X Modes)
        BY DEF Places
    <2>8. Moved
        BY <1>1, <2>1, <2>2, <2>3, <2>5, <2>6, <2>7, MovesTo DEF world
    <2> QED BY <1>1, <1>3, <2>8, Whole
<1> QED BY <1>2, <1>3 DEF PointStep

LEMMA ServeStepHolds == IInv /\ ServeStep => IInv'
<1> SUFFICES ASSUME IInv, ServeStep PROVE IInv'
    OBVIOUS
<1> DEFINE row == [Op EXCEPT !.bookmark = TRUE]
<1>1. /\ drv.stack # <<>> /\ Op.kind = "restore" /\ Op.step = "serve" /\ drv.todo = <<>> /\ Op \in OpRecords
      /\ Top \in 1..Len(ops) /\ UNCHANGED <<deployed, obj, data, total, sent, stops>>
    BY TopIn DEF ServeStep, At
<1>2. CASE Abandon("pointer_not_deployed") /\ sentinel' = sentinel
    <2>1. Moved /\ listed' = listed
        BY <1>1, <1>2, Abandons, KnownCodes
    <2> QED BY <1>1, <1>2, <2>1, Whole DEF world
<1>3. CASE /\ sentinel' = sentinel \cup {Top} /\ Write(row) /\ To("acked", <<>>) /\ UNCHANGED <<generation, pointer>>
    <2>1. /\ row \in OpRecords /\ row.step = "serve" /\ row.kind = Op.kind /\ Kept(row, Op) /\ row.dump = Op.dump
          /\ row.generation = Op.generation /\ row.original = Op.original /\ row.clone = Op.clone
        BY <1>1 DEF OpRecords, Kept
    <2>2. Write(row) /\ To("acked", <<>>)
        BY <1>3
    <2> HIDE DEF row
    <2>3. Stepped(row) /\ SameGeneration(row, Op) /\ serving' \in 0..Len(ops)
        BY <1>1, <1>3, <2>1 DEF Stepped, RestoreSteps, SameGeneration, pointer, IInv, Records, Types
    <2>4. RestoreAgreed(Op) = RestoreAgreed(row)
        BY <1>1, <2>1 DEF RestoreAgreed
    <2>5. Agrees(row, "acked", <<>>, AskedFor(row.generation))
        BY <1>1, <2>1, <2>4, RestoreStays
    <2>6. "acked" \in Places /\ <<>> \in Seq(Objects \X Modes)
        BY DEF Places
    <2>7. Moved
        BY <1>1, <2>1, <2>2, <2>3, <2>5, <2>6, MovesTo
    <2>8. Counted'
        BY <1>1, <2>7 DEF IInv, Moved, Counted
    <2>9. Top \in 1..MaxOps
        BY <1>1, Bounds DEF IInv, Records, Types
    <2>10. Around'
        BY <1>1, <1>3, <2>9 DEF IInv, Around, pointer
    <2> QED BY <2>7, <2>8, <2>10 DEF IInv, Moved
<1>4. CASE (End("failed", "bookmark_unavailable") \/ End("failed", "rewind_failed")) /\ sentinel' = sentinel
    BY <1>1, <1>4, EndHolds, KnownCodes DEF world
<1> QED BY <1>2, <1>3, <1>4 DEF ServeStep

LEMMA BootedHolds == IInv /\ Booted => IInv'
<1> SUFFICES ASSUME IInv, Booted PROVE IInv'
    OBVIOUS
<1> DEFINE row == [Op EXCEPT !.step = "rewind"]
<1>1. drv.stack # <<>> /\ Op.kind = "restore" /\ UNCHANGED <<world, stops>> /\ AdvanceFresh(row)
    BY DEF Booted, Boots, At
<1>2. row \in OpRecords /\ row.step = "rewind" /\ row.kind = Op.kind /\ Kept(row, Op) /\ row.dump = Op.dump
    BY <1>1, RowTo DEF Steps, Modes
<1> HIDE DEF row
<1>3. Stepped(row)
    BY <1>1, <1>2 DEF Stepped, RestoreSteps
<1> QED BY <1>1, <1>2, <1>3, AdvanceFreshHolds

LEMMA RewindStepHolds == IInv /\ RewindStep => IInv'
<1> SUFFICES ASSUME IInv, RewindStep PROVE IInv'
    OBVIOUS
<1> DEFINE checked == [Op EXCEPT !.step = "check"]
<1> DEFINE row == [Op EXCEPT !.arms = @ + 1]
<1>1. /\ drv.stack # <<>> /\ Op.kind = "restore" /\ Op.step = "rewind" /\ drv.todo = <<>> /\ Op \in OpRecords
      /\ UNCHANGED <<world, stops>>
    BY TopIn DEF RewindStep, At
<1>2. CASE Advance(checked)
    <2>1. /\ checked \in OpRecords /\ checked.step = "check" /\ checked.kind = Op.kind /\ Kept(checked, Op)
          /\ checked.dump = Op.dump /\ checked.generation = Op.generation
          /\ checked.original = Op.original /\ checked.clone = Op.clone
        BY <1>1, RowTo DEF Steps, Modes
    <2>2. Advance(checked)
        BY <1>2
    <2> HIDE DEF checked
    <2>3. Stepped(checked) /\ ~Silent(Op, drv.pc, drv.todo) /\ ~Settling(Op, drv.pc)
        BY <1>1, <2>1 DEF Stepped, RestoreSteps, Silent, Settling
    <2>4. Agreed(Op, drv.pc) \subseteq Agreed(checked, "step")
        BY <1>1, <2>1 DEF Agreed, RestoreAgreed
    <2> QED BY <1>1, <2>1, <2>2, <2>3, <2>4, AdvanceHolds
<1>3. CASE End("failed", "rewind_failed")
    BY <1>1, <1>3, EndHolds, KnownCodes
<1>4. CASE Op.arms # MaxArms /\ Write(row) /\ To("arm", <<>>) /\ UNCHANGED <<generation, pointer>>
    <2>1. Op.arms \in 0..MaxArms /\ Op.arms + 1 \in 0..MaxArms
        BY <1>1, <1>4, Fields, Bounds
    <2>2. /\ row \in OpRecords /\ row.step = "rewind" /\ row.kind = Op.kind /\ Kept(row, Op) /\ row.dump = Op.dump
          /\ row.generation = Op.generation /\ row.original = Op.original /\ row.clone = Op.clone
        BY <1>1, <2>1 DEF OpRecords, Kept
    <2>3. Write(row) /\ To("arm", <<>>)
        BY <1>4
    <2> HIDE DEF row
    <2>4. Stepped(row) /\ SameGeneration(row, Op) /\ serving' \in 0..Len(ops)
        BY <1>1, <1>4, <2>2 DEF Stepped, RestoreSteps, SameGeneration, pointer, IInv, Records, Types
    <2>5. RestoreAgreed(Op) = RestoreAgreed(row)
        BY <1>1, <2>2 DEF RestoreAgreed
    <2>6. Agrees(row, "arm", <<>>, AskedFor(row.generation))
        BY <1>1, <2>2, <2>5, RestoreStays
    <2>7. "arm" \in Places /\ <<>> \in Seq(Objects \X Modes)
        BY DEF Places
    <2>8. Moved
        BY <1>1, <2>2, <2>3, <2>4, <2>6, <2>7, MovesTo DEF world
    <2> QED BY <1>1, <1>4, <2>8, Whole DEF pointer
<1> QED BY <1>2, <1>3, <1>4 DEF RewindStep

\* An arm asks for no mode.
LEMMA ArmHolds == IInv /\ Arm => IInv'
<1> SUFFICES ASSUME IInv, Arm PROVE IInv'
    OBVIOUS
<1> DEFINE arm == [kind |-> "arm", object |-> Op.original, mode |-> "inspect", generation |-> Op.generation, op |-> Top]
<1>1. /\ drv.stack # <<>> /\ Op.kind = "restore" /\ Op.step = "rewind" /\ drv.todo = <<>> /\ Op \in OpRecords
      /\ Top \in 1..Len(ops) /\ UNCHANGED <<deployed, obj, data, total, sentinel, stops>>
    BY TopIn DEF Arm, At
<1>2. CASE End("failed", "bookmark_unavailable") /\ sent' = sent
    BY <1>1, <1>2, EndHolds, KnownCodes DEF world
<1>3. CASE sent' = sent \cup {arm} /\ To("acked", <<>>) /\ UNCHANGED <<ops, generation, pointer>>
    <2>1. Op.original \in Objects /\ Op.generation \in 1..MaxGeneration /\ Op.generation <= generation
        BY <1>1, TopIn, Fields DEF RowOK
    <2>2. Top \in 0..MaxOps
        BY <1>1, Bounds DEF IInv, Records, Types
    <2>3. arm \in Requests /\ arm.kind = "arm" /\ arm.generation <= generation
        BY <2>1, <2>2 DEF Requests, Modes
    <2>4. sent' = sent \cup {arm}
        BY <1>3
    <2> HIDE DEF arm
    <2>5. Types' /\ Allocated'
        BY <1>1, <1>3, <2>3, <2>4 DEF IInv, Records, Types, Allocated, pointer
    <2>6. \A g : AskedFor(g)' = AskedFor(g)
        BY <1>1, <2>3, <2>4 DEF AskedFor
    <2>7. Rows' /\ Distinct' /\ Untouched'
        BY <1>3, <2>6 DEF IInv, Records, Rows, Distinct, Untouched
    <2>8. drv'.stack = drv.stack /\ drv'.pc = "acked" /\ drv'.todo = <<>> /\ drv' \in Drivers'
        <3>1. "acked" \in Places /\ <<>> \in Seq(Objects \X Modes)
            BY DEF Places
        <3> QED BY <1>3, <3>1 DEF To, Drivers, IInv, Holder
    <2>9. Stacked' /\ Op' = Op
        BY <1>3, <2>8 DEF IInv, Holder, Stacked, Op, Top
    <2>10. Agrees(Op, "acked", <<>>, AskedFor(Op.generation))
        BY <1>1, RestoreStays
    <2>11. Planned'
        BY <2>6, <2>8, <2>9, <2>10 DEF Planned
    <2>12. Counted' /\ Around'
        BY <1>1, <1>3 DEF IInv, Counted, Around, pointer
    <2> QED BY <2>5, <2>7, <2>8, <2>9, <2>11, <2>12 DEF IInv, Records, Holder
<1> QED BY <1>2, <1>3 DEF Arm

LEMMA CheckStepHolds == IInv /\ CheckStep => IInv'
BY EndHolds, KnownCodes DEF CheckStep, At

LEMMA RevertStepHolds == IInv /\ RevertStep => IInv'
<1> SUFFICES ASSUME IInv, RevertStep PROVE IInv'
    OBVIOUS
<1> DEFINE row == [Op EXCEPT !.step = "open", !.mode = "open", !.generation = generation + 1]
<1>1. drv.stack # <<>> /\ Op.kind = "restore" /\ Op \in OpRecords /\ Top \in 1..Len(ops) /\ UNCHANGED <<world, stops>>
    BY TopIn DEF RevertStep, At
<1>2. CASE End("failed", "revert_failed")
    BY <1>1, <1>2, EndHolds, KnownCodes
<1>3. CASE Allocate /\ To("step", <<>>) /\ serving' = Op.original /\ listed' = listed /\ Write(row)
    <2>1. generation + 1 \in 1..MaxGeneration
        BY <1>3, Bounds DEF Allocate, IInv, Records, Types
    <2>2. /\ row \in OpRecords /\ row.step = "open" /\ row.kind = Op.kind /\ Kept(row, Op)
          /\ row.dump = Op.dump /\ row.generation = generation + 1
        <3>1. row \in OpRecords
            BY <1>1, <2>1 DEF OpRecords, Steps, Modes
        <3>2. row.step = "open" /\ row.dump = Op.dump /\ row.generation = generation + 1
            BY <1>1 DEF OpRecords
        <3>3. row.kind = Op.kind /\ Kept(row, Op)
            BY <1>1 DEF OpRecords, Kept
        <3> QED BY <3>1, <3>2, <3>3
    <2>3. Write(row)
        BY <1>3
    <2> HIDE DEF row
    <2>4. Stepped(row)
        BY <1>1, <2>2 DEF Stepped, RestoreSteps
    <2>5. serving' \in 0..Len(ops)
        <3>1. Op.original < Top /\ Op.original \in Nat
            BY <1>1, TopIn, Fields, Bounds DEF RowOK, Objects
        <3> QED BY <1>1, <1>3, <3>1 DEF IInv, Records, Types
    <2>6. FreshGeneration(row) /\ To("step", <<>>)
        BY <1>3, <2>2 DEF FreshGeneration, Allocate
    <2>7. Agrees(row, "step", <<>>, AskedFor(row.generation))
        BY <2>2, FreshAgrees
    <2>8. "step" \in Places /\ <<>> \in Seq(Objects \X Modes)
        BY DEF Places
    <2>9. Moved
        BY <1>1, <2>2, <2>3, <2>4, <2>5, <2>6, <2>7, <2>8, MovesTo DEF world
    <2> QED BY <1>1, <1>3, <2>9, Whole
<1> QED BY <1>2, <1>3 DEF RevertStep

LEMMA RestoreOpenedHolds == IInv /\ RestoreOpened => IInv'
<1> SUFFICES ASSUME IInv, RestoreOpened PROVE IInv'
    OBVIOUS
<1>1. drv.stack # <<>> /\ Op \in OpRecords /\ UNCHANGED <<world, stops>>
    BY TopIn DEF RestoreOpened, At
<1> DEFINE code == IF Op.backup = "failed" THEN "backup_failed" ELSE Op.failure
<1>2. code \in Codes
    BY <1>1, KnownCodes DEF OpRecords
<1>3. End("failed", code)
    BY DEF RestoreOpened
<1> HIDE DEF code
<1> QED BY <1>1, <1>2, <1>3, EndHolds

\* A recovery has a place where nothing was asked for, and the places it settles from.
LEMMA RecoveryUnasked ==
  ASSUME IInv, drv.stack # <<>>, Op.kind = "recovery", Op.step \in {"reconcile", "restrict"},
         Op.step = "restrict" => drv.pc \in {"step", "revert"}
  PROVE  AskedFor(Op.generation) = {}
<1>1. Agreed(Op, drv.pc) = {} /\ ~Settling(Op, drv.pc) /\ ~Silent(Op, drv.pc, drv.todo)
    BY AgreedRecovery DEF RecoveryAgreed, Settling, Silent
<1> QED BY <1>1, TopIn DEF Agrees

LEMMA ReconcileHolds == IInv /\ Reconcile => IInv'
<1> SUFFICES ASSUME IInv, Reconcile PROVE IInv'
    OBVIOUS
<1> DEFINE row == [Op EXCEPT !.step = "restrict"]
<1>1. /\ drv.stack # <<>> /\ Op.kind = "recovery" /\ Op.step = "reconcile" /\ UNCHANGED <<world, stops>>
      /\ Advance(row)
    BY DEF Reconcile, At
<1>2. /\ row \in OpRecords /\ row.step = "restrict" /\ row.kind = Op.kind /\ Kept(row, Op) /\ row.dump = Op.dump
      /\ row.generation = Op.generation
    BY <1>1, RowTo DEF Steps, Modes
<1> HIDE DEF row
<1>3. Stepped(row) /\ ~Silent(Op, drv.pc, drv.todo) /\ ~Settling(Op, drv.pc)
    BY <1>1, <1>2 DEF Stepped, Silent, Settling
<1>4. Agreed(Op, drv.pc) \subseteq Agreed(row, "step")
    BY <1>1, AgreedRecovery DEF RecoveryAgreed
<1> QED BY <1>1, <1>2, <1>3, <1>4, AdvanceHolds

LEMMA RecoveryRestrictedHolds == IInv /\ RecoveryRestricted => IInv'
<1> SUFFICES ASSUME IInv, RecoveryRestricted PROVE IInv'
    OBVIOUS
<1> DEFINE mode == ops[Op.recovers].mode
<1> DEFINE row == [Op EXCEPT !.step = "resume", !.mode = mode]
<1>1. drv.stack # <<>> /\ Op.kind = "recovery" /\ UNCHANGED <<world, stops>> /\ (Reopen(Op) \/ Advance(row))
    BY DEF RecoveryRestricted, At
<1>2. CASE Reopen(Op)
    BY <1>1, <1>2, ReopenSame
<1>3. CASE Advance(row)
    <2>1. mode \in Modes
        BY <1>1, RecoversIn, Fields
    <2>2. Advance(row)
        BY <1>3
    <2> HIDE DEF mode
    <2>3. /\ row \in OpRecords /\ row.step = "resume" /\ row.kind = Op.kind /\ Kept(row, Op) /\ row.dump = Op.dump
          /\ row.generation = Op.generation
        <3>1. "resume" \in Steps
            BY DEF Steps
        <3>2. \A step \in Steps, m \in Modes :
                LET r == [Op EXCEPT !.step = step, !.mode = m]
                IN  /\ r \in OpRecords /\ r.step = step /\ r.kind = Op.kind /\ Kept(r, Op) /\ r.dump = Op.dump
                    /\ r.generation = Op.generation
            BY <1>1, RowTo
        <3> QED BY <2>1, <3>1, <3>2
    <2> HIDE DEF row
    <2>4. Stepped(row) /\ Silent(row, "step", <<>>)
        BY <1>1, <2>3 DEF Stepped, Silent
    <2> QED BY <1>1, <2>2, <2>3, <2>4, AdvanceHolds
<1> QED BY <1>1, <1>2, <1>3

\* The resumed operation is driven on top of the recovery, whose stack it continues downwards.
LEMMA StackGrows ==
  ASSUME IInv, drv.stack # <<>>, Op.kind = "recovery", Op.step = "resume", drv.pc = "step",
         NEW j \in 1..Len(ops), j < Top, NEW todo \in Seq(Objects \X Modes),
         drv' = [drv EXCEPT !.stack = Append(@, j), !.todo = todo], Len(ops') = Len(ops),
         \A k \in 1..Len(ops) : ops'[k].kind = ops[k].kind /\ ops'[k].step = ops[k].step,
         \A g : AskedFor(g)' = AskedFor(g), Agrees(ops'[j], "step", todo, AskedFor(ops'[j].generation))
  PROVE  Holder'
<1> DEFINE n == Len(drv.stack)
<1> DEFINE s == Append(drv.stack, j)
<1>1. /\ drv.stack \in Seq(1..Len(ops)) /\ n \in Nat \ {0} /\ drv \in Drivers /\ Stacked
      /\ Top = drv.stack[n] /\ Op = ops[Top] /\ Top \in 1..Len(ops)
    BY TopIn DEF IInv, Holder, Top, Op
<1>2. /\ s \in Seq(1..Len(ops)) /\ Len(s) = n + 1 /\ s[n + 1] = j /\ \A k \in 1..n : s[k] = drv.stack[k]
    BY <1>1
<1>3. drv'.stack = s /\ drv'.pc = "step" /\ drv'.todo = todo /\ drv' \in Drivers'
    BY <1>1, <1>2 DEF Drivers
<1> HIDE DEF s
<1>4. \A k \in 1..n : /\ s[k] > j /\ s[k] \in 1..Len(ops)
                      /\ ops[s[k]].kind = "recovery" /\ ops[s[k]].step = "resume"
    <2> SUFFICES ASSUME NEW k \in 1..n
                 PROVE  /\ drv.stack[k] > j /\ drv.stack[k] \in 1..Len(ops)
                        /\ ops[drv.stack[k]].kind = "recovery" /\ ops[drv.stack[k]].step = "resume"
        BY <1>2
    <2>1. drv.stack[k] \in 1..Len(ops)
        BY <1>1, ElementOfSeq
    <2>2. CASE k = n
        BY <1>1, <2>1, <2>2
    <2>3. CASE k < n
        <3>1. n \in 1..n
            BY <1>1
        <3>2. /\ drv.stack[k] > drv.stack[n] /\ ops[drv.stack[k]].kind = "recovery"
              /\ ops[drv.stack[k]].step = "resume"
            BY <1>1, <2>3, <3>1 DEF Stacked
        <3> QED BY <1>1, <2>1, <3>2
    <2> QED BY <1>1, <2>2, <2>3
<1>5. Stacked'
    <2> SUFFICES ASSUME NEW k \in 1..Len(s), NEW l \in 1..Len(s), k < l
                 PROVE  s[k] > s[l] /\ ops'[s[k]].kind = "recovery" /\ ops'[s[k]].step = "resume"
        BY <1>3 DEF Stacked
    <2>1. k \in 1..n /\ (l \in 1..n \/ l = n + 1)
        <3>1. n \in Nat /\ Len(s) = n + 1
            BY <1>1, <1>2
        <3> HIDE DEF n
        <3> QED BY <3>1
    <2>2. ops'[s[k]].kind = "recovery" /\ ops'[s[k]].step = "resume"
        BY <1>4, <2>1
    <2>3. CASE l = n + 1
        BY <1>2, <1>4, <2>1, <2>3
    <2>4. CASE l \in 1..n
        <3>1. drv.stack[k] > drv.stack[l]
            BY <1>1, <2>1, <2>4 DEF Stacked
        <3> QED BY <1>2, <2>1, <2>2, <2>4, <3>1
    <2> QED BY <2>1, <2>2, <2>3, <2>4
<1>6. Op' = ops'[j]
    BY <1>2, <1>3 DEF Op, Top
<1>7. Planned'
    BY <1>3, <1>6 DEF Planned
<1> QED BY <1>3, <1>5, <1>7 DEF Holder

LEMMA RecoveryResumesHolds == IInv /\ RecoveryResumes => IInv'
<1> SUFFICES ASSUME IInv, RecoveryResumes PROVE IInv'
    OBVIOUS
<1> DEFINE j == Op.recovers
<1> DEFINE todo == FenceModes(ops[j])
<1>1. /\ drv.stack # <<>> /\ Op.kind = "recovery" /\ Op.step = "resume" /\ drv.pc = "step"
      /\ UNCHANGED <<pointer, world, stops>>
      /\ drv' = [drv EXCEPT !.stack = Append(@, j), !.todo = todo]
    BY DEF RecoveryResumes, At
<1>2. j \in 1..Len(ops) /\ j < Top /\ ops[j] \in OpRecords /\ RowOK(j, ops[j], generation)
    BY <1>1, RecoversIn
<1>3. todo \in Seq(Objects \X Modes) /\ Ahead(todo) \subseteq Agreed(ops[j], "step")
    BY <1>2, FenceModesAgree
<1>4. Records /\ ops \in Seq(OpRecords) /\ \A k \in 1..Len(ops) : ops[k].dump <= total
    BY DEF IInv, Records, Types, Counted
<1> HIDE DEF todo
<1>5. CASE ops[j].step = "reconcile"
    <2>1. UNCHANGED <<generation, ops>>
        BY <1>5 DEF RecoveryResumes
    <2>2. Records' /\ (\A g : AskedFor(g)' = AskedFor(g))
        BY <1>1, <1>4, <2>1, AskedSame DEF Records, Types, Rows, Distinct, Allocated, Untouched, pointer, world
    <2>3. ops[j].kind = "recovery"
        BY <1>2, <1>5, Fields DEF RowOK, Stepped, RestoreSteps, AllKinds
    <2>4. AskedFor(ops[j].generation) = {}
        BY <1>2, <1>4, <1>5, <2>3 DEF Records, Untouched
    <2>5. Agrees(ops[j], "step", todo, AskedFor(ops[j].generation))
        BY <1>3, <2>4 DEF Agrees, Settling
    <2>6. Holder'
        BY <1>1, <1>2, <1>3, <2>1, <2>2, <2>5, StackGrows
    <2>7. Moved
        BY <1>4, <2>1, <2>2, <2>6 DEF Moved
    <2> QED BY <1>1, <2>7, Whole DEF pointer
<1>6. CASE ops[j].step # "reconcile"
    <2> DEFINE row == [ops[j] EXCEPT !.generation = generation + 1]
    <2>1. generation < MaxGeneration /\ generation' = generation + 1 /\ ops' = [ops EXCEPT ![j] = row]
        BY <1>6 DEF RecoveryResumes, Allocate
    <2>2. row \in OpRecords /\ row.generation = generation + 1
        BY <1>2, <2>1, FreshRow
    <2>3. /\ row.kind = ops[j].kind /\ row.step = ops[j].step /\ row.mode = ops[j].mode /\ row.clone = ops[j].clone
          /\ row.original = ops[j].original /\ row.recovers = ops[j].recovers /\ row.dump = ops[j].dump
        BY <1>2 DEF OpRecords
    <2> HIDE DEF row
    <2>4. Kept(row, ops[j]) /\ Stepped(row) /\ FreshGeneration(row) /\ ~Settling(row, "step")
        BY <1>2, <2>1, <2>2, <2>3 DEF Kept, Stepped, RowOK, FreshGeneration, Settling
    <2>5. Agreed(row, "step") = Agreed(ops[j], "step")
        BY <2>3 DEF Agreed, RecoveryAgreed, RestoreAgreed
    <2>6. /\ Records' /\ Len(ops') = Len(ops)
          /\ \A k \in 1..Len(ops) : ops'[k] = IF k = j THEN row ELSE ops[k]
          /\ \A g : AskedFor(g)' = AskedFor(g)
        BY <1>1, <1>2, <1>4, <2>1, <2>2, <2>4, RowMoves DEF Records, Types, pointer, world
    <2>7. Agrees(row, "step", todo, AskedFor(row.generation))
        BY <1>3, <2>2, <2>4, <2>5, FreshAgrees DEF Agrees
    <2>8. \A k \in 1..Len(ops) : ops'[k].kind = ops[k].kind /\ ops'[k].step = ops[k].step /\ ops'[k].dump <= total
        BY <1>4, <2>3, <2>6
    <2>9. Holder'
        BY <1>1, <1>2, <1>3, <2>6, <2>7, <2>8, StackGrows
    <2>10. Moved
        BY <2>6, <2>8, <2>9 DEF Moved
    <2> QED BY <1>1, <2>10, Whole DEF pointer
<1> QED BY <1>5, <1>6

LEMMA RecoveryResumedHolds == IInv /\ RecoveryResumed => IInv'
<1> SUFFICES ASSUME IInv, RecoveryResumed PROVE IInv'
    OBVIOUS
<1> DEFINE mode == ops[Op.recovers].mode
<1> DEFINE row == [Op EXCEPT !.mode = mode]
<1>1. drv.stack # <<>> /\ Op.kind = "recovery" /\ Op.step = "resume" /\ Op \in OpRecords /\ UNCHANGED <<world, stops>>
    BY TopIn DEF RecoveryResumed, At
<1>2. CASE End("failed", "resume_failed")
    BY <1>1, <1>2, EndHolds, KnownCodes
<1>3. CASE Write(row) /\ To("acked", <<>>) /\ UNCHANGED <<generation, pointer>>
    <2>1. mode \in Modes
        BY <1>1, RecoversIn, Fields
    <2>2. Write(row)
        BY <1>3
    <2> HIDE DEF mode
    <2>3. /\ row \in OpRecords /\ row.step = "resume" /\ row.kind = Op.kind /\ Kept(row, Op) /\ row.dump = Op.dump
          /\ row.generation = Op.generation
        BY <1>1, <2>1 DEF OpRecords, Kept
    <2> HIDE DEF row
    <2>4. Stepped(row) /\ Agrees(row, "acked", <<>>, AskedFor(row.generation))
        BY <1>1, <2>3 DEF Stepped, Agrees, Silent
    <2>5. SameGeneration(row, Op) /\ serving' \in 0..Len(ops)
        BY <1>3, <2>3 DEF SameGeneration, pointer, IInv, Records, Types
    <2>6. "acked" \in Places /\ <<>> \in Seq(Objects \X Modes)
        BY DEF Places
    <2>7. Moved
        BY <1>1, <1>3, <2>2, <2>3, <2>4, <2>5, <2>6, MovesTo DEF world
    <2> QED BY <1>1, <1>3, <2>7, Whole DEF pointer
<1> QED BY <1>2, <1>3 DEF RecoveryResumed

LEMMA RecoveryEndsHolds == IInv /\ RecoveryEnds => IInv'
<1> SUFFICES ASSUME IInv, RecoveryEnds PROVE IInv'
    OBVIOUS
<1>1. drv.stack # <<>> /\ UNCHANGED <<world, stops>>
    BY DEF RecoveryEnds
<1>2. CASE End("succeeded", "none")
    BY <1>1, <1>2, EndHolds, KnownCodes
<1>3. CASE \E n \in 1..Len(ops) : /\ ops' = [ops EXCEPT ![n].state = "failed", ![n].code = "recovered"]
                                  /\ UNCHANGED <<drv, generation, pointer>>
    <2>1. PICK n \in 1..Len(ops) : /\ ops' = [ops EXCEPT ![n].state = "failed", ![n].code = "recovered"]
                                   /\ UNCHANGED <<drv, generation, pointer>>
        BY <1>3
    <2> DEFINE row == [ops[n] EXCEPT !.state = "failed", !.code = "recovered"]
    <2>2. ops \in Seq(OpRecords) /\ ops[n] \in OpRecords /\ "recovered" \in Codes
        BY KnownCodes DEF IInv, Records, Types
    <2>3. ops' = [ops EXCEPT ![n] = row]
        BY <2>1, <2>2
    <2>4. /\ row \in OpRecords /\ Kept(row, ops[n]) /\ row.step = ops[n].step /\ row.mode = ops[n].mode
          /\ row.generation = ops[n].generation /\ row.dump = ops[n].dump
        BY <2>2 DEF OpRecords, Kept
    <2> HIDE DEF row
    <2>5. Records' /\ Holder' /\ Counted'
        BY <1>1, <2>1, <2>3, <2>4, BesideMoves DEF pointer, world
    <2>6. Around'
        BY <1>1, <2>1 DEF IInv, Around, pointer, world
    <2> QED BY <2>5, <2>6 DEF IInv
<1>4. Chain(Op.recovers) \subseteq 1..Len(ops)
    BY DEF Chain
<1> QED BY <1>2, <1>3, <1>4 DEF RecoveryEnds

\* What settles a recovery is one mode for each of the two objects.
LEMMA SettlesWith ==
  ASSUME IInv, drv.stack # <<>>, Op.kind = "recovery", Op.step = "restrict", AskedFor(Op.generation) = {},
         NEW pc \in {"kept", "settle"}, NEW p \in Objects \X Modes, NEW q \in Objects \X Modes, p[1] # q[1],
         NEW todo, todo = <<p>> \/ todo = <<p, q>>,
         To(pc, todo), UNCHANGED <<ops, generation, pointer, world, stops>>
  PROVE  IInv'
<1>1. todo \in Seq(Objects \X Modes) /\ Ahead(todo) \subseteq {p, q}
    BY OneAhead, TwoAhead
<1>2. OneModeEach(AskedFor(Op.generation) \cup Ahead(todo))
    BY <1>1 DEF OneModeEach
<1>3. Agrees(Op, pc, todo, AskedFor(Op.generation)) /\ pc \in Places
    BY <1>2 DEF Agrees, Settling, Places
<1>4. Records' /\ Holder'
    BY <1>1, <1>3, HolderMoves DEF pointer, world
<1>5. Counted' /\ Around'
    BY DEF IInv, Counted, Around, pointer, world
<1> QED BY <1>4, <1>5 DEF IInv

LEMMA RecoverRestoreHolds == IInv /\ RecoverRestore => IInv'
<1> SUFFICES ASSUME IInv, RecoverRestore PROVE IInv'
    OBVIOUS
<1> DEFINE p == <<ops[Past].original, "inspect">>
<1> DEFINE q == <<ops[Past].clone, "open">>
<1>1. /\ drv.stack # <<>> /\ Op.kind = "recovery" /\ Op.step = "restrict" /\ drv.pc = "step"
      /\ UNCHANGED <<ops, generation, pointer, world, stops>> /\ (To("kept", <<p, q>>) \/ To("revert", <<>>))
    BY DEF RecoverRestore, At
<1>2. AskedFor(Op.generation) = {}
    BY <1>1, RecoveryUnasked
<1>3. p \in Objects \X Modes /\ q \in Objects \X Modes /\ p[1] # q[1]
    BY <1>1, PastIn DEF Modes
<1>4. CASE To("kept", <<p, q>>)
    <2>1. To("kept", <<p, q>>)
        BY <1>4
    <2> HIDE DEF p, q
    <2> QED BY <1>1, <1>2, <1>3, <2>1, SettlesWith
<1>5. CASE To("revert", <<>>)
    <2>1. Agrees(Op, "revert", <<>>, AskedFor(Op.generation))
        BY <1>2 DEF Agrees, Settling, Ahead
    <2>2. "revert" \in Places /\ <<>> \in Seq(Objects \X Modes)
        BY DEF Places
    <2>3. Records' /\ Holder'
        BY <1>1, <1>5, <2>1, <2>2, HolderMoves DEF pointer, world
    <2>4. Counted' /\ Around'
        BY <1>1 DEF IInv, Counted, Around, pointer, world
    <2> QED BY <2>3, <2>4 DEF IInv
<1> QED BY <1>1, <1>4, <1>5

LEMMA SettleRecoveryHolds ==
  ASSUME IInv, drv.stack # <<>>, Op.kind = "recovery", NEW o \in 0..Len(ops), NEW l \in SUBSET Objects,
         SettleRecovery(o, l), UNCHANGED <<world, stops>>
  PROVE  IInv'
<1> DEFINE row == [Op EXCEPT !.step = "open", !.mode = "open"]
<1>1. /\ row \in OpRecords /\ row.step = "open" /\ row.mode = "open" /\ row.kind = Op.kind /\ Kept(row, Op)
      /\ row.dump = Op.dump /\ row.generation = Op.generation
    BY RowTo DEF Steps, Modes
<1>2. Write(row) /\ serving' = o /\ listed' = l /\ To("acked", <<>>) /\ generation' = generation
    BY DEF SettleRecovery
<1> HIDE DEF row
<1>3. Stepped(row) /\ Agrees(row, "acked", <<>>, AskedFor(row.generation))
    BY <1>1 DEF Stepped, Agrees, Silent
<1>4. SameGeneration(row, Op) /\ serving' \in 0..Len(ops)
    BY <1>1, <1>2 DEF SameGeneration
<1>5. "acked" \in Places /\ <<>> \in Seq(Objects \X Modes)
    BY DEF Places
<1>6. Moved
    BY <1>1, <1>2, <1>3, <1>4, <1>5, MovesTo DEF world
<1>7. Counted' /\ Around'
    BY <1>2, <1>6 DEF IInv, Moved, Counted, Around, world
<1> QED BY <1>6, <1>7 DEF IInv, Moved

LEMMA KeepCloneHolds == IInv /\ KeepClone => IInv'
<1> SUFFICES ASSUME IInv, KeepClone PROVE IInv'
    OBVIOUS
<1>1. /\ drv.stack # <<>> /\ Op.kind = "recovery" /\ Op.step = "restrict" /\ Op \in OpRecords
      /\ UNCHANGED <<world, stops>> /\ listed \subseteq Objects
    BY TopIn DEF KeepClone, At, IInv, Around
<1>2. CASE SettleRecovery(ops[Past].clone, listed \cup {ops[Past].clone})
    <2>1. ops[Past].clone \in 0..Len(ops) /\ listed \cup {ops[Past].clone} \in SUBSET Objects
        BY <1>1, PastIn
    <2> QED BY <1>1, <1>2, <2>1, SettleRecoveryHolds
<1>3. CASE Allocate /\ Write([Op EXCEPT !.generation = generation + 1]) /\ To("revert", <<>>) /\ UNCHANGED pointer
    <2> DEFINE row == [Op EXCEPT !.generation = generation + 1]
    <2>1. row \in OpRecords /\ row.generation = generation + 1
        BY <1>1, <1>3, FreshRow DEF Allocate
    <2>2. row.step = "restrict" /\ row.kind = Op.kind /\ Kept(row, Op) /\ row.dump = Op.dump
        BY <1>1 DEF OpRecords, Kept
    <2>3. Write(row)
        BY <1>3
    <2> HIDE DEF row
    <2>4. Stepped(row) /\ FreshGeneration(row) /\ serving' \in 0..Len(ops)
        BY <1>1, <1>3, <2>1, <2>2
           DEF Stepped, FreshGeneration, Allocate, pointer, IInv, Records, Types
    <2>5. AskedFor(row.generation) = {}
        BY <2>1, FreshAgrees
    <2>6. Agrees(row, "revert", <<>>, AskedFor(row.generation))
        BY <2>5 DEF Agrees, Settling, Ahead
    <2>7. "revert" \in Places /\ <<>> \in Seq(Objects \X Modes)
        BY DEF Places
    <2>8. Moved
        BY <1>1, <1>3, <2>1, <2>2, <2>3, <2>4, <2>6, <2>7, MovesTo DEF world
    <2> QED BY <1>1, <1>3, <2>8, Whole DEF pointer
<1> QED BY <1>2, <1>3 DEF KeepClone

LEMMA RecoveryRevertsHolds == IInv /\ RecoveryReverts => IInv'
BY PastIn, RestoreDeployHolds DEF RecoveryReverts, At, Deploys

LEMMA RecoveryRevertedHolds == IInv /\ RecoveryReverted => IInv'
<1> SUFFICES ASSUME IInv, RecoveryReverted PROVE IInv'
    OBVIOUS
<1> DEFINE p == <<ops[Past].clone, "inspect">>
<1> DEFINE q == <<ops[Past].original, "open">>
<1>1. /\ drv.stack # <<>> /\ Op.kind = "recovery" /\ Op.step = "restrict" /\ drv.pc = "revert"
      /\ UNCHANGED <<world, stops>>
    BY DEF RecoveryReverted, At
<1>2. CASE End("failed", "revert_failed")
    BY <1>1, <1>2, EndHolds, KnownCodes
<1>3. CASE /\ To("settle", (IF ops[Past].clone \in listed THEN <<p>> ELSE <<>>) \o <<q>>)
           /\ UNCHANGED <<ops, generation, pointer>>
    <2>1. AskedFor(Op.generation) = {}
        BY <1>1, RecoveryUnasked
    <2>2. p \in Objects \X Modes /\ q \in Objects \X Modes /\ p[1] # q[1] /\ q[1] # p[1]
        BY <1>1, PastIn DEF Modes
    <2>3. To("settle", (IF ops[Past].clone \in listed THEN <<p>> ELSE <<>>) \o <<q>>)
        BY <1>3
    <2> HIDE DEF p, q
    <2>4. To("settle", <<p, q>>) \/ To("settle", <<q>>)
        BY <2>3, JoinAhead
    <2>5. CASE To("settle", <<p, q>>)
        BY <1>1, <1>3, <2>1, <2>2, <2>5, SettlesWith
    <2>6. CASE To("settle", <<q>>)
        BY <1>1, <1>3, <2>1, <2>2, <2>6, SettlesWith
    <2> QED BY <2>4, <2>5, <2>6
<1> QED BY <1>2, <1>3 DEF RecoveryReverted

LEMMA KeepOriginalHolds == IInv /\ KeepOriginal => IInv'
<1> SUFFICES ASSUME IInv, KeepOriginal PROVE IInv'
    OBVIOUS
<1>1. /\ drv.stack # <<>> /\ Op.kind = "recovery" /\ SettleRecovery(ops[Past].original, listed)
      /\ UNCHANGED <<world, stops>> /\ listed \in SUBSET Objects
    BY DEF KeepOriginal, At, IInv, Around
<1>2. ops[Past].original \in 0..Len(ops)
    BY <1>1, PastIn
<1> QED BY <1>1, <1>2, SettleRecoveryHolds

----------------------------------------------------------------------------
(* The theorems *)

LEMMA InitHolds == Init => IInv
<1> SUFFICES ASSUME Init PROVE IInv
    OBVIOUS
<1>1. ops = <<>> /\ Len(ops) = 0 /\ sent = {} /\ drv = Idle /\ drv.stack = <<>> /\ generation = 0
    BY DEF Init, Idle
<1>2. 0 \in 0..MaxGeneration /\ 0 \in Objects /\ 0 \in 0..MaxWrites /\ 0 \in 0..MaxStops /\ "open" \in Modes
    BY Bounds DEF Objects, Modes
<1>3. obj = [o \in Objects |-> [generation |-> 0, mode |-> "open"]]
    BY DEF Init
<1>4. obj \in [Objects -> [generation : 0..MaxGeneration, mode : Modes]] /\ \A o \in Objects : obj[o].generation = 0
    BY <1>2, <1>3
<1>5. Records
    <2>1. Types
        BY <1>1, <1>2, <1>4, Bounds, EmptySeq DEF Types, Init
    <2>2. Rows /\ Distinct /\ Untouched
        BY <1>1 DEF Rows, Distinct, Untouched
    <2>3. Allocated
        BY <1>1, <1>4 DEF Allocated
    <2> QED BY <2>1, <2>2, <2>3 DEF Records
<1>6. Holder
    <2>1. <<>> \in Seq(Objects \X Modes) /\ <<>> \in Seq(1..Len(ops))
        BY EmptySeq
    <2>2. FALSE \in BOOLEAN
        OBVIOUS
    <2>3. Idle \in Drivers
        BY <2>1, <2>2, IdleDrives, Zenon DEF Idle, Drivers
    <2> QED BY <1>1, <2>3 DEF Holder, Stacked, Planned
<1>7. Counted /\ Around
    BY <1>1, <1>2 DEF Init, Counted, Around
<1> QED BY <1>5, <1>6, <1>7 DEF IInv

LEMMA DriveStepHolds == IInv /\ DriveStep => IInv'
BY BeginStepHolds, FailedStepHolds, MaintenanceStepHolds, RestrictStepHolds, DumpStepHolds, VerifyStepHolds,
   BackupOpenedHolds, BackupVerifiedHolds, MigrateDeployHolds, MigrateDeployedHolds, MigrateRequestHolds,
   MigrateOpenedHolds, RestoreRunHolds, ListStepHolds, ImportStepHolds, PromoteStepHolds, PointStepHolds,
   ServeStepHolds, BootedHolds, RewindStepHolds, ArmHolds, CheckStepHolds, RevertStepHolds, RestoreOpenedHolds,
   ReconcileHolds, RecoveryRestrictedHolds, RecoveryResumesHolds, RecoveryResumedHolds, RecoveryEndsHolds,
   RecoverRestoreHolds, KeepCloneHolds, RecoveryRevertsHolds, RecoveryRevertedHolds, KeepOriginalHolds, StopHolds
   DEF DriveStep, HolderStep, BootFails

LEMMA NextHolds == IInv /\ [Next]_vars => IInv'
<1> SUFFICES ASSUME IInv, [Next]_vars PROVE IInv'
    OBVIOUS
<1>1. CASE UNCHANGED vars
    <2>1. Records' /\ Holder'
        BY <1>1, FewerRequests DEF vars
    <2> QED BY <1>1, <2>1 DEF vars, IInv, Counted, Around
<1>2. CASE StartStep \/ Resume \/ Stop \/ Send \/ Acked \/ Adopt
    BY <1>2, StartStepHolds, ResumeHolds, StopHolds, SendHolds, AckedHolds, AdoptHolds
<1>3. CASE DriveStep
    BY <1>3, DriveStepHolds
<1>4. CASE RunStep
    BY <1>4, DeployLandsHolds, RunEndsHolds DEF RunStep
<1>5. CASE (\E r \in sent : Land(r) \/ LandArm(r)) \/ ClientWrite \/ Deploy
    BY <1>5, LandHolds, LandArmHolds, ClientWriteHolds, DeployHolds
<1> QED BY <1>1, <1>2, <1>3, <1>4, <1>5 DEF Next

\* The invariant holds throughout: every action of Next keeps it.
THEOREM Invariant == Spec => []IInv
<1>1. Init => IInv
    BY InitHolds
<1>2. IInv /\ [Next]_vars => IInv'
    BY NextHolds
<1> QED BY <1>1, <1>2, PTL DEF Spec

\* The type invariant, for every plan of operations.
THEOREM TypeCorrect == Spec => []TypeOK
BY Invariant, Typed, PTL

\* The modes a place agrees on are one for each object: a restore's clone is not its original.
LEMMA AgreedOnce ==
  ASSUME IInv, drv.stack # <<>>
  PROVE  OneModeEach(Agreed(Op, drv.pc))
<1>1. Op.kind \in AllKinds /\ Op.original # Op.clone /\ Stepped(Op)
    BY TopIn, Fields, Bounds DEF RowOK, Objects
<1>2. CASE Op.kind \in {"maintenance", "backup", "migrate"}
    BY <1>2, AgreedEverywhere DEF OneModeEach, Everywhere
<1>3. CASE Op.kind = "recovery"
    BY <1>3, AgreedRecovery DEF OneModeEach, Everywhere, RecoveryAgreed
<1>4. CASE Op.kind = "restore"
    <2>1. RestoreAgreed(Op) \in {{<<Op.original, "open">>}, {<<Op.original, "read-only">>},
                                 {<<Op.original, "read-only">>, <<Op.clone, "inspect">>},
                                 {<<Op.original, "inspect">>, <<Op.clone, "open">>},
                                 {<<Op.original, "inspect">>, <<Op.clone, "inspect">>},
                                 {<<Op.original, "open">>, <<Op.clone, "inspect">>}}
        BY <1>1, <1>4 DEF RestoreAgreed, Stepped, RestoreSteps
    <2> QED BY <1>1, <1>4, <2>1, AgreedRestore DEF OneModeEach
<1> QED BY <1>1, <1>2, <1>3, <1>4 DEF AllKinds

\* No holder, fence or successor asks an object for a second mode under one generation, whatever operations
\* are planned, stopped, resumed and recovered, and however late a request lands: the code's publish and
\* opsTransitionRefused never meet on a request that repeats a generation in another mode.
THEOREM OneMode == Spec => []OneModePerGeneration
<1>1. IInv => OneModePerGeneration
    <2> SUFFICES ASSUME IInv, Publishes, Request.generation = obj[Request.object].generation
                 PROVE  Request.mode = obj[Request.object].mode
        BY DEF OneModePerGeneration
    <2>1. /\ drv.stack # <<>> /\ drv.todo # <<>> /\ Request.object \in Objects /\ Request.generation = Op.generation
          /\ drv.todo[1] = <<Request.object, Request.mode>> /\ drv.todo[1] \in Ahead(drv.todo)
        BY RequestIn DEF Requests
    <2> DEFINE p == <<Request.object, obj[Request.object].mode>>
    <2>2. obj[Request.object] \in [generation : 0..MaxGeneration, mode : Modes]
        BY <2>1 DEF IInv, Records, Types
    <2>3. p \in AskedFor(Op.generation)
        BY <2>1, <2>2 DEF AskedFor
    <2>4. OneModeEach(AskedFor(Op.generation) \cup Ahead(drv.todo))
        <3>1. Agrees(Op, drv.pc, drv.todo, AskedFor(Op.generation)) /\ ~Silent(Op, drv.pc, drv.todo)
            BY <2>1, TopIn DEF Silent
        <3>2. OneModeEach(Agreed(Op, drv.pc))
            BY <2>1, AgreedOnce
        <3> QED BY <3>1, <3>2 DEF Agrees, OneModeEach
    <2>5. drv.todo[1][1] = p[1] => drv.todo[1][2] = p[2]
        BY <2>1, <2>3, <2>4 DEF OneModeEach
    <2> QED BY <2>1, <2>5
<1> QED BY <1>1, Invariant, PTL
----------------------------------------------------------------------------
(* Where the writes are *)

\* An object is in one of the modes, and stays there whatever request still reaches it.
Within(o, modes) ==
  /\ obj[o].mode \in modes
  /\ \A q \in sent : q.kind = "state" /\ q.object = o /\ q.generation > obj[o].generation => q.mode \in modes
Stays(o, mode) == Within(o, {mode})
Shut(o) == Within(o, Modes \ {"open"})
Full(o) == data[o] = total

\* The newest operation that is no recovery, the restores whose pointer deploy a provider may have taken, and
\* the base a holder may still drive on.
Base(b) == /\ b \in 1..Len(ops) /\ ops[b].kind # "recovery"
           /\ \A j \in 1..Len(ops) : j > b => ops[j].kind = "recovery"
Begun(row) == row.kind = "restore" /\ row.runs["point"] \in {"running", "succeeded", "failed"}
NoneBegun == \A b \in 1..Len(ops) : Base(b) => ~Begun(ops[b])
Drivable(b) == Len(ops) = b \/ (Len(ops) = b + 1 /\ ops[Len(ops)].resolution = "resume")

\* No restore has moved anything: the serving object holds every write, and nothing is written elsewhere.
Steady == Full(serving) /\ (deployed # serving => Shut(deployed))

\* A restore before its pointer deploy: the original is frozen, then dumped, then the clone holds the dump.
Waits(b, row) ==
  /\ deployed # row.clone /\ row.runs["revert"] = "none" /\ ~row.bookmark
  /\ row.step \in {"list", "restrict", "backup", "verify", "import", "promote", "point", "open"}
  /\ Drivable(b) /\ row.state = "running" =>
       /\ row.step \in {"backup", "verify", "import", "promote", "point"} => Shut(row.original)
       /\ row.step \in {"verify", "import", "promote", "point"} => row.dump = total
       /\ row.step \in {"promote", "point"} => Full(row.clone)

\* A restore from its pointer deploy on: until the way back is deployed, the clone holds every write and the
\* original takes none.  The way back is taken only where the traffic never left the original.
Carries(b, row) ==
  /\ row.step \in {"point", "serve", "rewind", "check", "revert", "open"}
  /\ row.runs["point"] = "running" =>
       row.step = "point" /\ row.runs["revert"] = "none" /\ row.failure = "none" /\ ~row.bookmark
  /\ row.step \in {"rewind", "check"} => row.bookmark
  /\ serving \in {row.original, row.clone}
  /\ row.runs["revert"] # "succeeded" => Full(row.clone) /\ Shut(row.original)
  /\ deployed # row.clone /\ ~row.bookmark => Full(row.original)
  /\ row.runs["revert"] # "none" \/ row.failure # "none" => deployed = row.original
  /\ row.bookmark => deployed # row.original
  /\ deployed \notin {row.original, row.clone} => Shut(deployed)
  /\ Drivable(b) =>
       /\ row.step \in {"point", "open"} => serving = row.original
       /\ row.step \in {"serve", "rewind", "check", "revert"} => serving = row.clone
       /\ row.step \in {"point", "serve", "rewind", "check"} => row.runs["revert"] = "none"
       /\ row.step = "open" => row.runs["revert"] = "succeeded"
       /\ row.failure # "none" => row.step \in {"serve", "revert", "open"}
       /\ row.step = "revert" => row.failure # "none"

BaseOK(b, row) ==
  /\ Begun(row) => Carries(b, row)
  /\ ~Begun(row) => serving = row.original
  /\ ~Begun(row) /\ row.kind = "restore" => Waits(b, row)
Grounded == /\ \A b \in 1..Len(ops) : Base(b) => BaseOK(b, ops[b])
            /\ NoneBegun => Steady
            /\ deployed \in 0..Len(ops)

\* An arm on its way rewinds an object no write is on.
Spares(o, row) == row.kind = "restore" => o # row.clone /\ (o = row.original => row.bookmark)
Harmless == \A q \in sent : q.kind = "arm" =>
              /\ q.object \in 0..Len(ops) /\ q.object # serving
              /\ \A b \in 1..Len(ops) : Base(b) => Spares(q.object, ops[b])

\* One run deploys at a time: the base's pointer, or the one that is served anyway.
OneRun ==
  /\ \A i, j \in 1..Len(ops), d, e \in Deploys :
       ops[i].runs[d] = "running" /\ ops[j].runs[e] = "running" => i = j /\ d = e
  /\ \A i \in 1..Len(ops), d \in Deploys : ops[i].runs[d] = "running" =>
       \/ d \in {"list", "migrate"} /\ ops[i].original = serving /\ NoneBegun
       \/ d \in {"point", "revert"} /\ Base(i) /\ ops[i].kind = "restore"

\* What an operation that ended leaves behind.
OpenOf(row) == (row.state = "succeeded" /\ row.mode = "open") \/ (row.state = "failed" /\ row.code \in ReopenedCodes)
Landed(row) ==
  /\ row.runs["point"] # "running" /\ row.runs["revert"] # "running"
  /\ serving = row.clone => row.runs["revert"] # "succeeded"
  /\ serving = row.original => deployed = row.original
Remains(row) == serving = row.clone => row.failure = "none" /\ row.runs["revert"] = "none"
EndOK(row) ==
  row.state # "running" =>
    /\ OpenOf(row) => Stays(serving, "open")
    /\ \A b \in 1..Len(ops) : Base(b) /\ Begun(ops[b]) => Landed(ops[b]) /\ (OpenOf(row) => Remains(ops[b]))
Finals ==
  /\ ops = <<>> => Stays(serving, "open")
  /\ ops # <<>> => EndOK(Latest)
  /\ ops # <<>> /\ Latest.kind = "recovery" /\ Latest.resolution = "resume" /\ Latest.state = "running" =>
       /\ Latest.step # "resume" => ops[Len(ops) - 1].state = "running"
       /\ EndOK(ops[Len(ops) - 1])

\* The holder drives the newest operation, or the one below that it resumes, at the newest generation.
Driving ==
  drv.stack # <<>> =>
    /\ drv.stack[1] = Len(ops) /\ Latest.state = "running" /\ Op.state = "running"
    /\ \/ Len(drv.stack) = 1
       \/ /\ Len(drv.stack) = 2 /\ drv.stack[2] = Len(ops) - 1
          /\ Latest.kind = "recovery" /\ Latest.step = "resume" /\ Latest.resolution = "resume"
    /\ Op.generation = generation \/ (Op.kind = "recovery" /\ Op.step = "resume")

\* What a holder relies on is about to be published, or published and there to stay.
Sure(o, mode, todo) == <<o, mode>> \in Ahead(todo) \/ Stays(o, mode)
PlaceOK(row, pc, todo) ==
  /\ pc \in {"step", "acked", "arm"}
  /\ row.kind = "maintenance" /\ pc = "acked" => Sure(serving, row.mode, todo)
  /\ row.kind = "backup" /\ (row.step = "verify" \/ (row.step = "open" /\ pc = "acked")) => Sure(serving, "open", todo)
  /\ row.kind = "migrate" /\ row.step = "open" /\ pc = "acked" => Sure(serving, "open", todo)
  /\ row.kind = "restore" =>
       /\ row.step = "list" => Sure(row.original, "open", todo)
       /\ row.step = "restrict" /\ pc = "acked" => Sure(row.original, "read-only", todo)
       /\ row.step = "promote" /\ pc = "acked" => Sure(row.clone, "open", todo)
       /\ row.step \in {"point", "serve", "rewind", "check"} => Sure(row.clone, "open", todo)
       /\ row.step = "open" /\ pc = "acked" => Sure(row.original, "open", todo)
       /\ row.step \in {"import", "promote", "point", "serve"} /\ pc = "acked" => row.failure = "none"
  /\ row.kind # "restore" => \A p \in Ahead(todo) : p = <<serving, row.mode>>

\* The places of a recovery that opens past the restore row.
Passes(row, pc, todo) ==
  /\ row.kind = "restore" /\ row.runs["point"] \notin {"pending", "running"}
  /\ pc = "kept" => /\ Begun(row) /\ row.failure = "none" /\ row.runs["revert"] \notin {"pending", "running"}
                    /\ Ahead(todo) \subseteq {<<row.original, "inspect">>, <<row.clone, "open">>}
                    /\ Sure(row.clone, "open", todo)
  /\ pc = "revert" => todo = <<>> /\ (Begun(row) => deployed = row.original)
  /\ pc = "settle" => /\ Begun(row) => row.runs["revert"] = "succeeded"
                      /\ Ahead(todo) \subseteq {<<row.original, "open">>, <<row.clone, "inspect">>}
                      /\ Sure(row.original, "open", todo)
RecoveryOK(row, pc, todo) ==
  /\ row.step \in {"reconcile", "resume"} \/ pc = "step" => todo = <<>>
  /\ row.step = "restrict" /\ pc = "acked" =>
       /\ \A p \in Ahead(todo) : p = <<serving, "closed">>
       /\ row.resolution = "open" => \A b \in 1..Len(ops) : Base(b) => ops[b].kind # "restore"
  /\ row.step = "open" =>
       /\ row.resolution = "open" /\ \A p \in Ahead(todo) : p = <<serving, "open">>
       /\ pc = "acked" => Sure(serving, "open", todo)
       /\ \A b \in 1..Len(ops) : Base(b) /\ ops[b].kind = "restore" =>
            pc = "acked" /\ todo = <<>> /\ (Begun(ops[b]) => Landed(ops[b]) /\ Remains(ops[b]))
  /\ row.step = "resume" => row.resolution = "resume"
  /\ row.step = "resume" /\ pc = "acked" =>
       ops[Len(ops) - 1].state = "succeeded" /\ row.mode = ops[Len(ops) - 1].mode
  /\ pc \in {"kept", "revert", "settle"} =>
       /\ row.step = "restrict" /\ row.resolution = "open"
       /\ \A b \in 1..Len(ops) : Base(b) => Passes(ops[b], pc, todo)
  /\ pc # "arm"
Placed == drv.stack # <<>> =>
            /\ Op.kind # "recovery" => PlaceOK(Op, drv.pc, drv.todo)
            /\ Op.kind = "recovery" => RecoveryOK(Op, drv.pc, drv.todo)

Linked == \A i \in 1..Len(ops) : /\ ops[i].kind = "recovery" => ops[i].resolution \in {"open", "resume"}
                                 /\ ops[i].kind # "recovery" => ops[i].recovers = 0

Sound == Linked /\ Grounded /\ Harmless /\ OneRun /\ Finals /\ Driving /\ Placed

----------------------------------------------------------------------------
(* The base *)

\* The records keep what they were created with.
Alike == /\ Len(ops') = Len(ops)
         /\ \A k \in 1..Len(ops) : Kept(ops'[k], ops[k]) /\ ops'[k].resolution = ops[k].resolution

LEMMA AlikeBase ==
  ASSUME IInv, Alike
  PROVE  /\ Straight' <=> Straight
         /\ \A b : Base(b)' <=> Base(b)
         /\ \A b \in 1..Len(ops) : Drivable(b)' <=> Drivable(b)
<1>1. Len(ops') = Len(ops) /\ Len(ops) \in Nat
    BY DEF Alike, IInv, Records, Types
<1>2. \A k \in 1..Len(ops) : /\ ops'[k].kind = ops[k].kind /\ ops'[k].recovers = ops[k].recovers
                             /\ ops'[k].resolution = ops[k].resolution
    BY DEF Alike, Kept
<1>3. \A b : Base(b)' <=> Base(b)
    BY <1>1, <1>2 DEF Base
<1>4. \A b \in 1..Len(ops) : Drivable(b)' <=> Drivable(b)
    <2> SUFFICES ASSUME NEW b \in 1..Len(ops) PROVE Drivable(b)' <=> Drivable(b)
        OBVIOUS
    <2>1. Len(ops) \in 1..Len(ops)
        BY <1>1
    <2> QED BY <1>1, <1>2, <2>1 DEF Drivable
<1>5. Straight' <=> Straight
    <2>1. ASSUME NEW i \in 1..Len(ops)
          PROVE  (ops'[i].kind = "recovery" =>
                     ops'[i].recovers = i - 1 /\ (ops'[i].resolution = "resume" => ops'[i - 1].kind # "recovery"))
                 <=> (ops[i].kind = "recovery" =>
                     ops[i].recovers = i - 1 /\ (ops[i].resolution = "resume" => ops[i - 1].kind # "recovery"))
        <3>1. CASE i - 1 \in 1..Len(ops)
            BY <1>2, <3>1
        <3>2. CASE i = 1
            BY <1>2, <3>2 DEF IInv, Records, Rows, RowOK
        <3> QED BY <1>1, <3>1, <3>2
    <2> QED BY <1>1, <2>1 DEF Straight
<1> QED BY <1>3, <1>4, <1>5

LEMMA OneBase ==
  ASSUME Len(ops) \in Nat, NEW b, NEW c, Base(b), Base(c)
  PROVE  b = c /\ b \in 1..Len(ops)
<1>1. b \in 1..Len(ops) /\ c \in 1..Len(ops) /\ b \in Nat /\ c \in Nat
    BY DEF Base
<1>2. ~(b < c) /\ ~(c < b)
    BY <1>1 DEF Base
<1> QED BY <1>1, <1>2

\* What a holder drives is the base, or the newest record.
LEMMA Driven ==
  ASSUME IInv, Straight, Sound, drv.stack # <<>>
  PROVE  /\ Len(ops) \in Nat /\ Len(ops) \in 1..Len(ops) /\ ops # <<>> /\ Top \in 1..Len(ops) /\ Op = ops[Top]
         /\ Op.state = "running" /\ Latest.state = "running" /\ drv.stack[1] = Len(ops)
         /\ \/ Top = Len(ops) /\ Len(drv.stack) = 1
            \/ /\ Top = Len(ops) - 1 /\ Len(drv.stack) = 2 /\ drv.stack[2] = Top /\ Op.kind # "recovery"
               /\ Latest.kind = "recovery" /\ Latest.step = "resume" /\ Latest.resolution = "resume"
         /\ Op.kind # "recovery" => /\ Base(Top) /\ Drivable(Top) /\ BaseOK(Top, Op) /\ Op.generation = generation
                                    /\ PlaceOK(Op, drv.pc, drv.todo)
         /\ Op.kind = "recovery" => Top = Len(ops) /\ Op = Latest /\ RecoveryOK(Op, drv.pc, drv.todo)
<1>1. /\ Top \in 1..Len(ops) /\ drv.stack \in Seq(1..Len(ops)) /\ Len(drv.stack) \in Nat \ {0} /\ Op = ops[Top]
      /\ ops \in Seq(OpRecords) /\ Len(ops) \in Nat
    BY TopIn DEF Op, IInv, Records, Types
<1>2. ops # <<>> /\ Len(ops) \in 1..Len(ops)
    BY <1>1
<1>3. Driving /\ Placed /\ Grounded
    BY DEF Sound
<1>4. /\ drv.stack[1] = Len(ops) /\ Latest.state = "running" /\ Op.state = "running"
      /\ \/ Len(drv.stack) = 1
         \/ /\ Len(drv.stack) = 2 /\ drv.stack[2] = Len(ops) - 1
            /\ Latest.kind = "recovery" /\ Latest.step = "resume" /\ Latest.resolution = "resume"
      /\ Op.generation = generation \/ (Op.kind = "recovery" /\ Op.step = "resume")
    BY <1>3 DEF Driving
<1>5. CASE Len(drv.stack) = 1
    <2>1. Top = Len(ops)
        BY <1>4, <1>5 DEF Top
    <2>2. Op.kind # "recovery" => Base(Top) /\ Drivable(Top)
        BY <1>1, <1>2, <2>1 DEF Base, Drivable
    <2> QED BY <1>1, <1>2, <1>3, <1>4, <1>5, <2>1, <2>2 DEF Placed, Grounded, Latest, Op
<1>6. CASE /\ Len(drv.stack) = 2 /\ drv.stack[2] = Len(ops) - 1
           /\ Latest.kind = "recovery" /\ Latest.step = "resume" /\ Latest.resolution = "resume"
    <2>1. Top = Len(ops) - 1 /\ drv.stack[2] = Top
        BY <1>6 DEF Top
    <2>2. Op.kind # "recovery"
        BY <1>1, <1>2, <1>6, <2>1 DEF Straight, Latest
    <2>3. Base(Top) /\ Drivable(Top)
        BY <1>1, <1>2, <1>6, <2>1, <2>2 DEF Base, Drivable, Latest
    <2> QED BY <1>1, <1>2, <1>3, <1>4, <1>6, <2>1, <2>2, <2>3 DEF Placed, Grounded
<1> QED BY <1>4, <1>5, <1>6

----------------------------------------------------------------------------
(* Steps that move no object, request, write or pointer *)

Quiet == /\ serving' = serving /\ deployed' = deployed /\ obj' = obj /\ sent' = sent
         /\ data' = data /\ total' = total

LEMMA Unmoved ==
  ASSUME obj' = obj, sent' = sent
  PROVE  \A o, modes : Within(o, modes)' <=> Within(o, modes)
BY DEF Within

LEMMA QuietSame ==
  ASSUME IInv, Alike, Quiet
  PROVE  /\ \A o, mode : Stays(o, mode)' <=> Stays(o, mode)
         /\ \A o : Shut(o)' <=> Shut(o)
         /\ \A o : Full(o)' <=> Full(o)
         /\ Steady' <=> Steady
         /\ \A b \in 1..Len(ops) : \A row : BaseOK(b, row)' <=> BaseOK(b, row)
         /\ \A row : (Landed(row)' <=> Landed(row)) /\ (Remains(row)' <=> Remains(row))
         /\ \A row, pc, todo : PlaceOK(row, pc, todo)' <=> PlaceOK(row, pc, todo)
         /\ \A row, pc, todo : Passes(row, pc, todo)' <=> Passes(row, pc, todo)
<1>1. /\ serving' = serving /\ deployed' = deployed /\ obj' = obj /\ sent' = sent
      /\ data' = data /\ total' = total
    BY DEF Quiet
<1>2. \A o, mode : Stays(o, mode)' <=> Stays(o, mode)
    BY <1>1, Unmoved DEF Stays
<1>3. \A o : Shut(o)' <=> Shut(o)
    BY <1>1, Unmoved DEF Shut
<1>4. \A o : Full(o)' <=> Full(o)
    BY <1>1 DEF Full
<1>5. Steady' <=> Steady
    BY <1>1, <1>3, <1>4 DEF Steady
<1>6. \A b \in 1..Len(ops) : Drivable(b)' <=> Drivable(b)
    BY AlikeBase
<1>7. ASSUME NEW b \in 1..Len(ops), NEW row PROVE BaseOK(b, row)' <=> BaseOK(b, row)
    <2>1. Carries(b, row)' <=> Carries(b, row)
        BY <1>1, <1>3, <1>4, <1>6 DEF Carries
    <2>2. Waits(b, row)' <=> Waits(b, row)
        BY <1>1, <1>3, <1>4, <1>6 DEF Waits
    <2> QED BY <1>1, <2>1, <2>2 DEF BaseOK, Begun
<1>8. \A row : (Landed(row)' <=> Landed(row)) /\ (Remains(row)' <=> Remains(row))
    BY <1>1 DEF Landed, Remains
<1>9. \A o, mode, todo : Sure(o, mode, todo)' <=> Sure(o, mode, todo)
    BY <1>2 DEF Sure, Ahead
<1>10. \A row, pc, todo : PlaceOK(row, pc, todo)' <=> PlaceOK(row, pc, todo)
    BY <1>1, <1>9 DEF PlaceOK, Ahead
<1>11. \A row, pc, todo : Passes(row, pc, todo)' <=> Passes(row, pc, todo)
    BY <1>1, <1>9 DEF Passes, Ahead, Begun
<1> QED BY <1>2, <1>3, <1>4, <1>5, <1>7, <1>8, <1>10, <1>11

\* A record moves, with its runs, its bookmark and what it was created with.
Onward(row, old) == /\ Kept(row, old) /\ row.resolution = old.resolution /\ row.runs = old.runs
                    /\ old.bookmark => row.bookmark

LEMMA RowAlike ==
  ASSUME IInv, NEW i \in 1..Len(ops), NEW row, Onward(row, ops[i]), ops' = [ops EXCEPT ![i] = row]
  PROVE  /\ Alike /\ Len(ops') = Len(ops) /\ Len(ops) \in Nat
         /\ \A k \in 1..Len(ops) : ops'[k] = IF k = i THEN row ELSE ops[k]
<1>1. ops \in Seq(OpRecords) /\ Len(ops) \in Nat /\ Len(ops') = Len(ops)
    BY DEF IInv, Records, Types
<1>2. \A k \in 1..Len(ops) : ops'[k] = IF k = i THEN row ELSE ops[k]
    BY <1>1
<1> QED BY <1>1, <1>2 DEF Alike, Onward, Kept

LEMMA RowRuns ==
  ASSUME IInv, NEW i \in 1..Len(ops), NEW row, Onward(row, ops[i]), ops' = [ops EXCEPT ![i] = row]
  PROVE  /\ \A k \in 1..Len(ops) : ops'[k].runs = ops[k].runs /\ (Begun(ops'[k]) <=> Begun(ops[k]))
         /\ \A k \in 1..Len(ops) : ops'[k].kind = ops[k].kind /\ ops'[k].original = ops[k].original
                                   /\ ops'[k].recovers = ops[k].recovers /\ ops'[k].resolution = ops[k].resolution
         /\ NoneBegun' <=> NoneBegun
<1>1. /\ Alike /\ Len(ops') = Len(ops) /\ Len(ops) \in Nat
      /\ \A k \in 1..Len(ops) : ops'[k] = IF k = i THEN row ELSE ops[k]
    BY RowAlike
<1>2. \A k \in 1..Len(ops) : ops'[k].runs = ops[k].runs /\ (Begun(ops'[k]) <=> Begun(ops[k]))
    BY <1>1 DEF Onward, Kept, Begun
<1>3. NoneBegun' <=> NoneBegun
    BY <1>1, <1>2, AlikeBase DEF NoneBegun, Begun
<1>4. \A k \in 1..Len(ops) : ops'[k].kind = ops[k].kind /\ ops'[k].original = ops[k].original
                             /\ ops'[k].recovers = ops[k].recovers /\ ops'[k].resolution = ops[k].resolution
    BY <1>1 DEF Onward, Kept
<1> QED BY <1>2, <1>3, <1>4

\* What any such move leaves alone, and what stays where the pointer moves with the base.
LEMMA RowStill ==
  ASSUME IInv, Straight, Sound, NEW i \in 1..Len(ops), NEW row, Onward(row, ops[i]), ops' = [ops EXCEPT ![i] = row],
         sent' = sent, serving' = serving \/ ~NoneBegun, \A q \in sent : q.kind = "arm" => q.object # serving'
  PROVE  Linked' /\ Harmless' /\ OneRun'
<1>1. /\ Alike /\ Len(ops') = Len(ops) /\ Len(ops) \in Nat
      /\ \A k \in 1..Len(ops) : ops'[k] = IF k = i THEN row ELSE ops[k]
      /\ \A k \in 1..Len(ops) : ops'[k].runs = ops[k].runs /\ (Begun(ops'[k]) <=> Begun(ops[k]))
      /\ \A k \in 1..Len(ops) : ops'[k].kind = ops[k].kind /\ ops'[k].original = ops[k].original
                                /\ ops'[k].recovers = ops[k].recovers /\ ops'[k].resolution = ops[k].resolution
      /\ NoneBegun' <=> NoneBegun
    BY RowAlike, RowRuns
<1>2. \A b : Base(b)' <=> Base(b)
    BY <1>1, AlikeBase
<1>3. Linked'
    BY <1>1 DEF Sound, Linked
<1>4. Harmless'
    <2>1. ASSUME NEW o, NEW b \in 1..Len(ops), Spares(o, ops[b]) PROVE Spares(o, ops'[b])
        BY <1>1, <2>1 DEF Spares, Onward, Kept
    <2>2. ASSUME NEW q \in sent, q.kind = "arm"
          PROVE  /\ q.object \in 0..Len(ops) /\ q.object # serving'
                 /\ \A b \in 1..Len(ops) : Base(b) => Spares(q.object, ops'[b])
        BY <2>1, <2>2 DEF Sound, Harmless
    <2> QED BY <1>1, <1>2, <2>2 DEF Harmless
<1>5. OneRun'
    BY <1>1, <1>2 DEF Sound, OneRun
<1> QED BY <1>3, <1>4, <1>5

LEMMA RowQuiet ==
  ASSUME IInv, Straight, Sound, NEW i \in 1..Len(ops), NEW row, Onward(row, ops[i]), ops' = [ops EXCEPT ![i] = row],
         Quiet, Base(i) => BaseOK(i, row)
  PROVE  Linked' /\ Grounded' /\ Harmless' /\ OneRun'
<1>1. /\ Alike /\ Len(ops') = Len(ops) /\ Len(ops) \in Nat
      /\ \A k \in 1..Len(ops) : ops'[k] = IF k = i THEN row ELSE ops[k]
      /\ NoneBegun' <=> NoneBegun
    BY RowAlike, RowRuns
<1>2. \A b : Base(b)' <=> Base(b)
    BY <1>1, AlikeBase
<1>3. serving' = serving /\ deployed' = deployed /\ sent' = sent
    BY DEF Quiet
<1>4. Linked' /\ Harmless' /\ OneRun'
    <2>1. \A q \in sent : q.kind = "arm" => q.object # serving'
        BY <1>3 DEF Sound, Harmless
    <2> QED BY <1>3, <2>1, RowStill
<1>5. Grounded'
    <2>1. ASSUME NEW b \in 1..Len(ops), Base(b) PROVE BaseOK(b, ops'[b])
        BY <1>1, <2>1 DEF Sound, Grounded
    <2>2. \A b \in 1..Len(ops) : \A r : BaseOK(b, r)' <=> BaseOK(b, r)
        BY <1>1, QuietSame
    <2>3. Steady' <=> Steady
        BY <1>1, QuietSame
    <2>4. \A b \in 1..Len(ops) : Base(b) => BaseOK(b, ops[b])'
        BY <2>1, <2>2
    <2> QED BY <1>1, <1>2, <1>3, <2>3, <2>4 DEF Sound, Grounded
<1> QED BY <1>4, <1>5

\* The base moves on under its holder.
LEMMA GoesOn ==
  ASSUME IInv, Straight, Sound, drv.stack # <<>>, Op.kind # "recovery", NEW row, NEW pc, NEW todo,
         Write(row), To(pc, todo), Onward(row, Op), row.state = "running", row.generation = generation',
         Linked', Grounded', Harmless', OneRun', PlaceOK(row, pc, todo)'
  PROVE  Sound'
<1>1. /\ Len(ops) \in Nat /\ Len(ops) \in 1..Len(ops) /\ Top \in 1..Len(ops) /\ Op = ops[Top]
      /\ Latest.state = "running" /\ drv.stack[1] = Len(ops) /\ ops # <<>>
      /\ \/ Top = Len(ops) /\ Len(drv.stack) = 1
         \/ /\ Top = Len(ops) - 1 /\ Len(drv.stack) = 2 /\ drv.stack[2] = Top
            /\ Latest.kind = "recovery" /\ Latest.step = "resume" /\ Latest.resolution = "resume"
      /\ Base(Top)
    BY Driven
<1>2. ops' = [ops EXCEPT ![Top] = row]
    BY DEF Write
<1>4. /\ Alike /\ Len(ops') = Len(ops)
      /\ \A k \in 1..Len(ops) : ops'[k] = IF k = Top THEN row ELSE ops[k]
    BY <1>1, <1>2, RowAlike
<1>5. drv'.stack = drv.stack /\ drv'.pc = pc /\ drv'.todo = todo /\ ops # <<>> /\ ops' # <<>>
    <2>1. drv \in Drivers
        BY DEF IInv, Holder
    <2>2. ops' # <<>>
        BY <1>1, <1>4
    <2> QED BY <1>1, <2>1, <2>2 DEF To, Drivers
<1>6. Op' = row /\ Top' = Top
    BY <1>1, <1>4, <1>5 DEF Op, Top
<1>7. row.kind = Op.kind
    BY DEF Onward, Kept
<1>9. Latest'.state = "running"
    BY <1>1, <1>4 DEF Latest
<1>10. Finals'
    <2>1. EndOK(Latest)'
        BY <1>9 DEF EndOK
    <2>2. Latest'.kind = "recovery" => /\ Latest'.step = "resume" /\ ops'[Len(ops) - 1].state = "running"
        BY <1>1, <1>4, <1>7 DEF Latest
    <2>3. Latest'.kind = "recovery" => EndOK(ops[Len(ops) - 1])'
        BY <1>4, <2>2 DEF EndOK
    <2> QED BY <1>4, <1>5, <2>1, <2>2, <2>3 DEF Finals
<1>11. Driving'
    BY <1>1, <1>4, <1>5, <1>6, <1>9 DEF Driving, Latest
<1>12. Placed'
    BY <1>5, <1>6, <1>7 DEF Placed
<1> QED BY <1>10, <1>11, <1>12 DEF Sound

LEMMA Goes ==
  ASSUME IInv, Straight, Sound, drv.stack # <<>>, Op.kind # "recovery", NEW row, NEW pc, NEW todo,
         Write(row), To(pc, todo), Onward(row, Op), row.state = "running", row.generation = generation',
         Quiet, BaseOK(Top, row), PlaceOK(row, pc, todo)
  PROVE  Sound'
<1>1. Top \in 1..Len(ops) /\ Onward(row, ops[Top])
    BY Driven
<1>2. ops' = [ops EXCEPT ![Top] = row]
    BY DEF Write
<1>3. Linked' /\ Grounded' /\ Harmless' /\ OneRun'
    BY <1>1, <1>2, RowQuiet
<1>4. Alike
    BY <1>1, <1>2, RowAlike
<1>5. PlaceOK(row, pc, todo)'
    BY <1>4, QuietSame
<1> QED BY <1>3, <1>5, GoesOn

\* The base ends under its holder.
LEMMA EndsWith ==
  ASSUME IInv, Straight, Sound, drv.stack # <<>>, Op.kind # "recovery",
         NEW row, Write(row), drv' = [Idle EXCEPT !.stack = SubSeq(drv.stack, 1, Len(drv.stack) - 1)],
         Kept(row, Op), row.resolution = Op.resolution, row.runs = Op.runs, row.bookmark = Op.bookmark,
         row.state # "running", row.step = Op.step, row.failure = Op.failure, row.dump = Op.dump,
         Quiet, OpenOf(row) => Stays(serving, "open"), Begun(Op) => Landed(Op) /\ (OpenOf(row) => Remains(Op))
  PROVE  Sound'
<1>1. /\ Len(ops) \in Nat /\ Len(ops) \in 1..Len(ops) /\ Top \in 1..Len(ops) /\ Op = ops[Top] /\ Op \in OpRecords
      /\ Latest.state = "running" /\ drv.stack[1] = Len(ops) /\ BaseOK(Top, Op) /\ ops # <<>>
      /\ \/ Top = Len(ops) /\ Len(drv.stack) = 1
         \/ /\ Top = Len(ops) - 1 /\ Len(drv.stack) = 2 /\ drv.stack[2] = Top
            /\ Latest.kind = "recovery" /\ Latest.step = "resume" /\ Latest.resolution = "resume"
      /\ Base(Top)
    BY Driven, TopIn
<1>2. row.kind = Op.kind /\ row.clone = Op.clone /\ row.original = Op.original
    BY DEF Kept
<1>3. ops' = [ops EXCEPT ![Top] = row]
    BY DEF Write
<1>4. Onward(row, Op) /\ Onward(row, ops[Top])
    BY <1>1 DEF Onward
<1>5. BaseOK(Top, row)
    <2>1. Carries(Top, Op) => Carries(Top, row)
        BY <1>2 DEF Carries
    <2>2. Waits(Top, Op) => Waits(Top, row)
        BY <1>2 DEF Waits
    <2> QED BY <1>1, <1>2, <2>1, <2>2 DEF BaseOK, Begun
<1>6. Linked' /\ Grounded' /\ Harmless' /\ OneRun'
    BY <1>1, <1>3, <1>4, <1>5, RowQuiet
<1>7. /\ Alike /\ Len(ops') = Len(ops)
      /\ \A k \in 1..Len(ops) : ops'[k] = IF k = Top THEN row ELSE ops[k]
    <2>1. Top \in 1..Len(ops) /\ Onward(row, ops[Top])
        BY <1>1, <1>4
    <2> QED BY <1>3, <2>1, RowAlike
<1>9. (Landed(Op) => Landed(row)) /\ (Remains(Op) => Remains(row))
    BY <1>2 DEF Landed, Remains
<1>10. EndOK(row)'
    <2>1. Stays(serving, "open")' <=> Stays(serving, "open")
        BY <1>7, QuietSame DEF Quiet
    <2>2. ASSUME NEW b \in 1..Len(ops'), Base(b)', Begun(ops'[b]) PROVE Landed(ops[b])' /\ (OpenOf(row) => Remains(ops[b])')
        <3>1. b = Top /\ ops'[b] = row
            BY <1>1, <1>7, <2>2, AlikeBase, OneBase
        <3>2. Landed(row) /\ (OpenOf(row) => Remains(row))
            BY <1>2, <1>9, <2>2, <3>1 DEF Begun
        <3>3. Landed(row)' /\ (OpenOf(row) => Remains(row)')
            BY <1>7, <3>2, QuietSame
        <3> QED BY <3>1, <3>3
    <2>3. OpenOf(row)' <=> OpenOf(row)
        BY DEF OpenOf, ReopenedCodes
    <2> QED BY <2>1, <2>2, <2>3 DEF EndOK
<1>11. Finals'
    <2>1. ops' # <<>>
        BY <1>1, <1>7
    <2>2. CASE Top = Len(ops)
        <3>1. Latest' = row
            BY <1>1, <1>7, <2>2 DEF Latest
        <3>2. row.kind # "recovery"
            BY <1>2
        <3>3. EndOK(Latest)'
            BY <1>10, <3>1
        <3> QED BY <2>1, <3>1, <3>2, <3>3 DEF Finals
    <2>3. CASE Top = Len(ops) - 1
        <3>1. Latest' = Latest /\ ops'[Len(ops') - 1] = row
            BY <1>1, <1>7, <2>3 DEF Latest
        <3>2. EndOK(Latest)'
            BY <1>1, <3>1 DEF EndOK
        <3>3. EndOK(ops[Len(ops) - 1])'
            BY <1>10, <3>1
        <3> QED BY <1>1, <2>1, <2>3, <3>1, <3>2, <3>3 DEF Finals
    <2> QED BY <1>1, <2>2, <2>3
<1>12. drv'.stack = SubSeq(drv.stack, 1, Len(drv.stack) - 1) /\ drv'.pc = "step" /\ drv'.todo = <<>>
    BY DEF Idle
<1>13. CASE Len(drv.stack) = 1
    <2>1. drv'.stack = <<>>
        BY <1>12, <1>13
    <2> QED BY <1>6, <1>11, <2>1 DEF Sound, Driving, Placed
<1>14. CASE Len(drv.stack) = 2
    <2>1. Len(drv'.stack) = 1 /\ drv'.stack[1] = Len(ops) /\ drv'.stack # <<>>
        <3>1. drv.stack \in Seq(1..Len(ops))
            BY TopIn
        <3>2. Len(SubSeq(drv.stack, 1, 1)) = 1 /\ SubSeq(drv.stack, 1, 1)[1] = drv.stack[1]
            BY <1>14, <3>1
        <3>3. drv'.stack = SubSeq(drv.stack, 1, 1)
            BY <1>12, <1>14
        <3>4. Len(drv'.stack) = 1 /\ drv'.stack[1] = Len(ops)
            BY <1>1, <3>2, <3>3
        <3>5. drv'.stack # <<>>
            <4>1. Len(<<>>) # 1
                OBVIOUS
            <4> QED BY <3>4, <4>1, Zenon
        <3> QED BY <3>4, <3>5
    <2>2. Op' = Latest /\ Latest' = Latest
        BY <1>1, <1>7, <1>14, <2>1 DEF Op, Top, Latest
    <2>3. Driving'
        BY <1>1, <1>7, <1>14, <2>1, <2>2 DEF Driving
    <2>4. Placed'
        <3>1. RecoveryOK(Latest, "step", <<>>)'
            BY <1>1, <1>14, <2>2 DEF RecoveryOK
        <3> QED BY <1>1, <1>12, <1>14, <2>2, <3>1 DEF Placed
    <2> QED BY <1>6, <1>11, <2>3, <2>4 DEF Sound
<1> QED BY <1>1, <1>13, <1>14

\* The record an end leaves reads as open.
Opens(state, code) == (state = "succeeded" /\ Op.mode = "open") \/ (state = "failed" /\ code \in ReopenedCodes)

LEMMA Finishes ==
  ASSUME IInv, Straight, Sound, drv.stack # <<>>, Op.kind # "recovery",
         NEW state \in {"succeeded", "failed"}, NEW code, End(state, code), Quiet,
         Opens(state, code) => Stays(serving, "open"),
         Begun(Op) => Landed(Op) /\ (Opens(state, code) => Remains(Op))
  PROVE  Sound'
<1> DEFINE row == [Op EXCEPT !.state = state, !.code = code]
<1>1. Op \in OpRecords
    BY TopIn
<1>2. /\ Kept(row, Op) /\ row.resolution = Op.resolution /\ row.runs = Op.runs /\ row.bookmark = Op.bookmark
      /\ row.state = state /\ row.code = code /\ row.mode = Op.mode /\ row.step = Op.step /\ row.failure = Op.failure
      /\ row.dump = Op.dump
    BY <1>1 DEF OpRecords, Kept
<1>3. Write(row) /\ drv' = [Idle EXCEPT !.stack = SubSeq(drv.stack, 1, Len(drv.stack) - 1)]
    BY DEF End
<1> HIDE DEF row
<1>4. row.state # "running" /\ (OpenOf(row) <=> Opens(state, code))
    BY <1>2 DEF OpenOf, Opens
<1> QED BY <1>2, <1>3, <1>4, EndsWith

----------------------------------------------------------------------------
(* The steps of the base *)

\* A place with everything published.
LEMMA AtStep ==
  ASSUME IInv, Straight, Sound, NEW kind, NEW step, NEW pc, At(kind, step, pc), kind # "recovery"
  PROVE  /\ drv.stack # <<>> /\ Op.kind = kind /\ Op.step = step /\ Op.state = "running" /\ drv.pc = pc
         /\ Op \in OpRecords /\ Op.original # Op.clone /\ Base(Top) /\ Drivable(Top)
         /\ BaseOK(Top, Op) /\ Op.generation = generation /\ PlaceOK(Op, pc, <<>>)
<1>1. /\ drv.stack # <<>> /\ Op.kind = kind /\ Op.step = step /\ Op.state = "running"
      /\ drv.pc = pc /\ drv.todo = <<>>
    BY DEF At
<1>2. /\ Base(Top) /\ Drivable(Top) /\ BaseOK(Top, Op) /\ Op.generation = generation
      /\ PlaceOK(Op, drv.pc, drv.todo)
    BY <1>1, Driven
<1>3. Op \in OpRecords /\ Op.original # Op.clone
    BY <1>1, TopIn, Fields, Bounds DEF RowOK, Objects
<1> QED BY <1>1, <1>2, <1>3

LEMMA SureStays ==
  ASSUME NEW o, NEW mode
  PROVE  Sure(o, mode, <<>>) <=> Stays(o, mode)
<1>1. Ahead(<<>>) = {}
    BY DEF Ahead
<1> QED BY <1>1 DEF Sure

LEMMA QuietWorld ==
  ASSUME UNCHANGED <<world, stops>>, serving' = serving
  PROVE  Quiet
BY DEF world, Quiet

LEMMA AdvanceGoes ==
  ASSUME IInv, Straight, Sound, drv.stack # <<>>, Op.kind # "recovery", Op.generation = generation, NEW row,
         Advance(row), Onward(row, Op), row.state = "running", row.generation = Op.generation,
         UNCHANGED <<world, stops>>, BaseOK(Top, row), PlaceOK(row, "step", <<>>)
  PROVE  Sound'
<1>1. Write(row) /\ To("step", <<>>) /\ generation' = generation /\ Quiet
    BY QuietWorld DEF Advance, pointer
<1> QED BY <1>1, Goes

LEMMA FreshGoes ==
  ASSUME IInv, Straight, Sound, drv.stack # <<>>, Op.kind # "recovery", NEW row \in OpRecords,
         AdvanceFresh(row), Onward(row, Op), row.state = "running",
         UNCHANGED <<world, stops>>, BaseOK(Top, row), PlaceOK(row, "step", <<>>)
  PROVE  Sound'
<1> DEFINE new == [row EXCEPT !.generation = generation + 1]
<1>1. /\ new.kind = row.kind /\ new.clone = row.clone /\ new.original = row.original /\ new.recovers = row.recovers
      /\ new.resolution = row.resolution /\ new.runs = row.runs /\ new.bookmark = row.bookmark
      /\ new.state = row.state /\ new.step = row.step /\ new.mode = row.mode /\ new.failure = row.failure
      /\ new.dump = row.dump /\ new.generation = generation + 1
    BY DEF OpRecords
<1>2. Write(new) /\ To("step", <<>>) /\ generation' = generation + 1 /\ Quiet
    BY QuietWorld DEF AdvanceFresh, Allocate, pointer
<1> HIDE DEF new
<1>3. Onward(new, Op)
    BY <1>1 DEF Onward, Kept
<1>4. BaseOK(Top, new)
    BY <1>1 DEF BaseOK, Carries, Waits, Begun
<1>5. PlaceOK(new, "step", <<>>)
    BY <1>1 DEF PlaceOK
<1> QED BY <1>1, <1>2, <1>3, <1>4, <1>5, Goes

\* The original, or the serving object, opens again: no pointer deploy reached a provider.
LEMMA ReopenGoes ==
  ASSUME IInv, Straight, Sound, drv.stack # <<>>, Op.kind # "recovery", ~Begun(Op), NEW row \in OpRecords,
         Reopen(row), Onward(row, Op), row.state = "running", row.bookmark = Op.bookmark,
         UNCHANGED <<world, stops>>
  PROVE  Sound'
<1> DEFINE new == [row EXCEPT !.step = "open", !.mode = "open"]
<1>1. /\ new \in OpRecords /\ new.step = "open" /\ new.mode = "open"
      /\ new.kind = row.kind /\ new.clone = row.clone /\ new.original = row.original /\ new.recovers = row.recovers
      /\ new.resolution = row.resolution /\ new.runs = row.runs /\ new.bookmark = row.bookmark
      /\ new.state = row.state
    BY DEF OpRecords, Steps, Modes
<1>2. AdvanceFresh(new)
    BY DEF Reopen
<1> HIDE DEF new
<1>3. BaseOK(Top, Op) /\ row.kind = Op.kind /\ row.runs = Op.runs /\ row.original = Op.original /\ row.clone = Op.clone
    BY Driven DEF Onward, Kept
<1>4. BaseOK(Top, new)
    BY <1>1, <1>3 DEF BaseOK, Waits, Begun
<1>5. PlaceOK(new, "step", <<>>)
    BY <1>1 DEF PlaceOK, Ahead
<1>6. Onward(new, Op)
    BY <1>1 DEF Onward, Kept
<1> QED BY <1>1, <1>2, <1>4, <1>5, <1>6, FreshGoes

\* The same record, opened again.
LEMMA ReopenSameGoes ==
  ASSUME IInv, Straight, Sound, drv.stack # <<>>, Op.kind # "recovery", ~Begun(Op), Reopen(Op),
         UNCHANGED <<world, stops>>
  PROVE  Sound'
<1>1. Op \in OpRecords /\ Op.state = "running" /\ Onward(Op, Op)
    BY TopIn, Driven DEF Onward, Kept
<1> QED BY <1>1, ReopenGoes

\* A backup that failed is recorded with what opens again.
LEMMA ReopenFailed ==
  ASSUME IInv, Straight, Sound, drv.stack # <<>>, Op.kind # "recovery", ~Begun(Op),
         Reopen([Op EXCEPT !.backup = "failed"]), UNCHANGED <<world, stops>>
  PROVE  Sound'
<1> DEFINE row == [Op EXCEPT !.backup = "failed"]
<1>1. Op \in OpRecords /\ Op.state = "running"
    BY TopIn, Driven
<1>2. row \in OpRecords /\ row.state = "running" /\ row.bookmark = Op.bookmark /\ Onward(row, Op)
    BY <1>1 DEF OpRecords, Onward, Kept
<1>3. Reopen(row)
    OBVIOUS
<1> HIDE DEF row
<1> QED BY <1>2, <1>3, ReopenGoes

\* What every step of a straight history starts from.
Good == IInv /\ Straight /\ Sound

LEMMA StaysShut ==
  ASSUME NEW o, NEW mode \in Modes \ {"open"}, Stays(o, mode)
  PROVE  Shut(o)
BY DEF Stays, Shut, Within

\* An operation that restores nothing moves no traffic.
LEMMA PlainGoes ==
  ASSUME Good, drv.stack # <<>>, Op.kind \in {"maintenance", "backup", "migrate"}, NEW row, Onward(row, Op)
  PROVE  /\ ~Begun(Op) /\ BaseOK(Top, row)
         /\ (row.kind = "backup" => row.step # "verify") => PlaceOK(row, "step", <<>>)
<1>1. BaseOK(Top, Op) /\ row.kind = Op.kind /\ row.original = Op.original
    BY Driven DEF Good, Onward, Kept
<1>2. ~Begun(Op) /\ ~Begun(row)
    BY <1>1 DEF Begun
<1>3. BaseOK(Top, row)
    BY <1>1, <1>2 DEF BaseOK
<1>4. (row.kind = "backup" => row.step # "verify") => PlaceOK(row, "step", <<>>)
    BY <1>1 DEF PlaceOK, Ahead
<1> QED BY <1>2, <1>3, <1>4

\* A restore before its pointer deploy.
LEMMA Waiting ==
  ASSUME Good, drv.stack # <<>>, Op.kind = "restore", ~Begun(Op)
  PROVE  /\ Waits(Top, Op) /\ serving = Op.original /\ NoneBegun /\ Steady /\ Drivable(Top) /\ Op.state = "running"
<1>1. /\ BaseOK(Top, Op) /\ Base(Top) /\ Drivable(Top) /\ Len(ops) \in Nat /\ Op = ops[Top]
      /\ Op.state = "running"
    BY Driven DEF Good
<1>2. NoneBegun
    BY <1>1, OneBase DEF NoneBegun
<1> QED BY <1>1, <1>2 DEF BaseOK, Good, Sound, Grounded

LEMMA NotBegun ==
  ASSUME Good, drv.stack # <<>>, Op.kind = "restore",
         Op.step \in {"list", "restrict", "backup", "verify", "import", "promote"}
  PROVE  ~Begun(Op)
BY Driven DEF Good, BaseOK, Carries

LEMMA Moving ==
  ASSUME Good, drv.stack # <<>>, Op.kind = "restore", Op.step \in {"serve", "rewind", "check", "revert"}
  PROVE  /\ Begun(Op) /\ Carries(Top, Op) /\ Drivable(Top) /\ Base(Top) /\ serving = Op.clone
         /\ Op.runs["point"] # "running"
<1>1. BaseOK(Top, Op) /\ Drivable(Top) /\ Base(Top)
    BY Driven DEF Good
<1>2. Begun(Op)
    BY <1>1 DEF BaseOK, Waits
<1> QED BY <1>1, <1>2 DEF BaseOK, Carries

LEMMA MaintenanceStepSound == Good /\ MaintenanceStep => Sound'
<1> SUFFICES ASSUME Good, MaintenanceStep PROVE Sound'
    OBVIOUS
<1>1. At("maintenance", Op.step, "acked") /\ End("succeeded", "none") /\ UNCHANGED <<world, stops>>
    BY DEF MaintenanceStep
<1>2. drv.stack # <<>> /\ Op.kind = "maintenance" /\ PlaceOK(Op, "acked", <<>>)
    BY <1>1, AtStep DEF Good
<1>3. Stays(serving, Op.mode)
    BY <1>2, SureStays DEF PlaceOK
<1>4. ~Begun(Op) /\ (Opens("succeeded", "none") => Stays(serving, "open"))
    BY <1>2, <1>3 DEF Begun, Opens
<1>5. Quiet
    BY <1>1, QuietWorld DEF End, pointer
<1> QED BY <1>1, <1>2, <1>4, <1>5, Finishes DEF Good

LEMMA RestrictStepSound == \A kind \in {"backup", "migrate", "restore"} : Good /\ RestrictStep(kind) => Sound'
<1> SUFFICES ASSUME NEW kind \in {"backup", "migrate", "restore"}, Good, RestrictStep(kind) PROVE Sound'
    OBVIOUS
<1> DEFINE row == [Op EXCEPT !.step = "backup"]
<1>1. At(kind, "restrict", "acked") /\ Advance(row) /\ UNCHANGED <<world, stops>>
    BY DEF RestrictStep
<1>2. /\ drv.stack # <<>> /\ Op.kind = kind /\ Op.step = "restrict" /\ Op.state = "running" /\ Op \in OpRecords
      /\ Op.generation = generation /\ PlaceOK(Op, "acked", <<>>) /\ Op.kind # "recovery"
    BY <1>1, AtStep DEF Good
<1>3. /\ row.step = "backup" /\ row.state = "running" /\ row.generation = Op.generation /\ row.bookmark = Op.bookmark
      /\ row.kind = Op.kind /\ row.runs = Op.runs /\ row.clone = Op.clone /\ row.original = Op.original
      /\ Onward(row, Op)
    BY <1>2 DEF OpRecords, Onward, Kept
<1>4. Advance(row)
    BY <1>1
<1> HIDE DEF row
<1>5. BaseOK(Top, row) /\ PlaceOK(row, "step", <<>>)
    <2>1. CASE kind # "restore"
        BY <1>2, <1>3, <2>1, PlainGoes
    <2>2. CASE kind = "restore"
        <3>1. ~Begun(Op) /\ ~Begun(row)
            BY <1>2, <1>3, <2>2, NotBegun DEF Begun
        <3>2. Waits(Top, Op) /\ serving = Op.original
            BY <1>2, <2>2, <3>1, Waiting
        <3>3. Stays(Op.original, "read-only")
            BY <1>2, <2>2, SureStays DEF PlaceOK
        <3>4. Shut(Op.original)
            BY <3>3, StaysShut DEF Modes
        <3>5. Waits(Top, row)
            BY <1>3, <3>2, <3>4 DEF Waits
        <3>6. PlaceOK(row, "step", <<>>)
            BY <1>2, <1>3, <2>2 DEF PlaceOK
        <3> QED BY <1>3, <3>1, <3>2, <3>5, <3>6 DEF BaseOK
    <2> QED BY <2>1, <2>2
<1> QED BY <1>1, <1>2, <1>3, <1>4, <1>5, AdvanceGoes DEF Good

LEMMA DumpStepSound == \A kind \in {"backup", "migrate", "restore"} : Good /\ DumpStep(kind) => Sound'
<1> SUFFICES ASSUME NEW kind \in {"backup", "migrate", "restore"}, Good, DumpStep(kind) PROVE Sound'
    OBVIOUS
<1> DEFINE dumped == [Op EXCEPT !.dump = data[Op.original]]
<1> DEFINE row == [dumped EXCEPT !.step = "verify"]
<1>1. At(kind, "backup", "acked") /\ UNCHANGED <<world, stops>>
    BY DEF DumpStep
<1>2. /\ drv.stack # <<>> /\ Op.kind = kind /\ Op.step = "backup" /\ Op.state = "running" /\ Op \in OpRecords
      /\ Op.generation = generation /\ PlaceOK(Op, "acked", <<>>) /\ Op.kind # "recovery"
    BY <1>1, AtStep DEF Good
<1>3. ~Begun(Op)
    BY <1>2, NotBegun DEF Begun
<1>4. data[Op.original] \in 0..MaxWrites
    BY <1>2, Fields DEF Good, IInv, Counted
<1>5. /\ dumped \in OpRecords /\ dumped.state = "running" /\ dumped.bookmark = Op.bookmark /\ Onward(dumped, Op)
    BY <1>2, <1>4 DEF OpRecords, Onward, Kept
<1>6. /\ row.step = "verify" /\ row.state = "running" /\ row.generation = Op.generation /\ row.bookmark = Op.bookmark
      /\ row.kind = Op.kind /\ row.runs = Op.runs /\ row.clone = Op.clone /\ row.original = Op.original
      /\ row.dump = data[Op.original] /\ Onward(row, Op)
    BY <1>2 DEF OpRecords, Onward, Kept
<1>7. CASE Reopen([Op EXCEPT !.backup = "failed"])
    BY <1>1, <1>2, <1>3, <1>7, ReopenFailed DEF Good
<1>8. CASE kind = "backup" /\ Reopen(dumped)
    <2>1. Reopen(dumped)
        BY <1>8
    <2> HIDE DEF dumped
    <2> QED BY <1>1, <1>2, <1>3, <1>5, <2>1, ReopenGoes DEF Good
<1>9. CASE kind # "backup" /\ Advance(row)
    <2>1. Advance(row) /\ kind \in {"migrate", "restore"}
        BY <1>9
    <2> HIDE DEF row
    <2>2. BaseOK(Top, row) /\ PlaceOK(row, "step", <<>>)
        <3>1. CASE kind = "migrate"
            BY <1>2, <1>6, <3>1, PlainGoes
        <3>2. CASE kind = "restore"
            <4>1. Waits(Top, Op) /\ serving = Op.original /\ Steady /\ ~Begun(row) /\ Drivable(Top)
                BY <1>2, <1>3, <1>6, <3>2, Waiting DEF Begun
            <4>2. row.dump = total
                BY <1>6, <4>1 DEF Steady, Full
            <4>3. Waits(Top, row)
                BY <1>2, <1>6, <4>1, <4>2 DEF Waits
            <4>4. PlaceOK(row, "step", <<>>)
                BY <1>2, <1>6, <3>2 DEF PlaceOK
            <4> QED BY <1>6, <4>1, <4>3, <4>4 DEF BaseOK
        <3> QED BY <2>1, <3>1, <3>2
    <2> QED BY <1>1, <1>2, <1>6, <2>1, <2>2, AdvanceGoes DEF Good
<1> QED BY <1>7, <1>8, <1>9 DEF DumpStep

LEMMA VerifyStepSound == \A kind \in {"migrate", "restore"} : Good /\ VerifyStep(kind) => Sound'
<1> SUFFICES ASSUME NEW kind \in {"migrate", "restore"}, Good, VerifyStep(kind) PROVE Sound'
    OBVIOUS
<1> DEFINE step == IF kind = "migrate" THEN "deploy" ELSE "import"
<1> DEFINE row == [Op EXCEPT !.backup = "succeeded", !.step = step]
<1>1. At(kind, "verify", "acked") /\ UNCHANGED <<world, stops>>
    BY DEF VerifyStep
<1>2. /\ drv.stack # <<>> /\ Op.kind = kind /\ Op.step = "verify" /\ Op.state = "running" /\ Op \in OpRecords
      /\ Op.generation = generation /\ PlaceOK(Op, "acked", <<>>) /\ Op.kind # "recovery"
    BY <1>1, AtStep DEF Good
<1>3. ~Begun(Op)
    BY <1>2, NotBegun DEF Begun
<1>4. CASE Reopen([Op EXCEPT !.backup = "failed"])
    BY <1>1, <1>2, <1>3, <1>4, ReopenFailed DEF Good
<1>5. CASE Advance(row)
    <2>1. /\ row.step = step /\ row.state = "running" /\ row.generation = Op.generation /\ row.bookmark = Op.bookmark
          /\ row.kind = Op.kind /\ row.runs = Op.runs /\ row.clone = Op.clone /\ row.original = Op.original
          /\ row.dump = Op.dump /\ Onward(row, Op)
        BY <1>2 DEF OpRecords, Onward, Kept
    <2>2. Advance(row)
        BY <1>5
    <2> HIDE DEF row
    <2>3. BaseOK(Top, row) /\ PlaceOK(row, "step", <<>>)
        <3>1. CASE kind = "migrate"
            BY <1>2, <2>1, <3>1, PlainGoes
        <3>2. CASE kind = "restore"
            <4>1. Waits(Top, Op) /\ serving = Op.original /\ ~Begun(row) /\ Drivable(Top)
                BY <1>2, <1>3, <2>1, <3>2, Waiting DEF Begun
            <4>2. Waits(Top, row)
                BY <1>2, <2>1, <3>2, <4>1 DEF Waits
            <4>3. PlaceOK(row, "step", <<>>)
                BY <1>2, <2>1, <3>2 DEF PlaceOK
            <4> QED BY <2>1, <4>1, <4>2, <4>3 DEF BaseOK
        <3> QED BY <3>1, <3>2
    <2> QED BY <1>1, <1>2, <2>1, <2>2, <2>3, AdvanceGoes DEF Good
<1> QED BY <1>4, <1>5 DEF VerifyStep

LEMMA PlainFinishes ==
  ASSUME Good, drv.stack # <<>>, Op.kind \in {"maintenance", "backup", "migrate"},
         NEW state \in {"succeeded", "failed"}, NEW code, End(state, code), UNCHANGED <<world, stops>>,
         Opens(state, code) => Stays(serving, "open")
  PROVE  Sound'
<1>1. ~Begun(Op) /\ Op.kind # "recovery"
    BY DEF Begun
<1>2. Quiet
    BY QuietWorld DEF End, pointer
<1> QED BY <1>1, <1>2, Finishes DEF Good

\* The codes that do not open anything.
LEMMA StaysClosed ==
  \A code \in {"deploy_failed", "migration_failed", "revert_failed", "resume_failed"} : ~Opens("failed", code)
BY DEF Opens, ReopenedCodes

LEMMA BackupOpenedSound == Good /\ BackupOpened => Sound'
<1> SUFFICES ASSUME Good, BackupOpened PROVE Sound'
    OBVIOUS
<1> DEFINE row == [Op EXCEPT !.step = "verify"]
<1>1. At("backup", "open", "acked") /\ UNCHANGED <<world, stops>>
    BY DEF BackupOpened
<1>2. /\ drv.stack # <<>> /\ Op.kind = "backup" /\ Op.step = "open" /\ Op.state = "running" /\ Op \in OpRecords
      /\ PlaceOK(Op, "acked", <<>>)
    BY <1>1, AtStep DEF Good
<1>3. Stays(serving, "open")
    BY <1>2, SureStays DEF PlaceOK
<1>4. CASE End("failed", "backup_failed")
    BY <1>1, <1>2, <1>3, <1>4, PlainFinishes
<1>5. CASE AdvanceFresh(row)
    <2>1. /\ row \in OpRecords /\ row.state = "running" /\ Onward(row, Op) /\ row.kind = "backup"
          /\ row.step = "verify"
        BY <1>2 DEF OpRecords, Onward, Kept, Steps
    <2>2. AdvanceFresh(row)
        BY <1>5
    <2> HIDE DEF row
    <2>3. PlaceOK(row, "step", <<>>)
        BY <1>3, <2>1, SureStays DEF PlaceOK, Ahead
    <2>4. BaseOK(Top, row)
        BY <1>2, <2>1, PlainGoes
    <2> QED BY <1>1, <1>2, <2>1, <2>2, <2>3, <2>4, FreshGoes DEF Good
<1> QED BY <1>4, <1>5 DEF BackupOpened

LEMMA BackupVerifiedSound == Good /\ BackupVerified => Sound'
<1> SUFFICES ASSUME Good, BackupVerified PROVE Sound'
    OBVIOUS
<1>1. /\ At("backup", "verify", "acked") /\ UNCHANGED <<world, stops>>
      /\ End("succeeded", "none") \/ End("failed", "backup_failed")
    BY DEF BackupVerified
<1>2. drv.stack # <<>> /\ Op.kind = "backup" /\ Op.step = "verify" /\ PlaceOK(Op, "acked", <<>>)
    BY <1>1, AtStep DEF Good
<1>3. Stays(serving, "open")
    BY <1>2, SureStays DEF PlaceOK
<1> QED BY <1>1, <1>2, <1>3, PlainFinishes

LEMMA MigrateDeployedSound == Good /\ MigrateDeployed => Sound'
<1> SUFFICES ASSUME Good, MigrateDeployed PROVE Sound'
    OBVIOUS
<1> DEFINE row == [Op EXCEPT !.step = "migrate"]
<1>1. At("migrate", "deploy", "acked") /\ Ended(Top, "migrate") /\ UNCHANGED <<world, stops>>
    BY DEF MigrateDeployed
<1>2. /\ drv.stack # <<>> /\ Op.kind = "migrate" /\ Op.state = "running" /\ Op \in OpRecords
      /\ Op.generation = generation /\ ~Begun(Op) /\ Op.kind # "recovery"
    BY <1>1, AtStep DEF Good, Begun
<1>3. CASE Op.runs["migrate"] = "succeeded"
    <2>1. Advance(row)
        BY <1>3 DEF MigrateDeployed
    <2>2. /\ row.state = "running" /\ row.generation = Op.generation /\ Onward(row, Op) /\ row.kind = "migrate"
        BY <1>2 DEF OpRecords, Onward, Kept
    <2> HIDE DEF row
    <2>3. BaseOK(Top, row) /\ PlaceOK(row, "step", <<>>)
        BY <1>2, <2>2, PlainGoes
    <2> QED BY <1>1, <1>2, <2>1, <2>2, <2>3, AdvanceGoes DEF Good
<1>4. CASE Op.runs["migrate"] = "rejected"
    <2>1. Reopen(Op)
        BY <1>4 DEF MigrateDeployed
    <2> QED BY <1>1, <1>2, <2>1, ReopenSameGoes DEF Good
<1>5. CASE Op.runs["migrate"] = "failed"
    <2>1. End("failed", "deploy_failed")
        BY <1>5 DEF MigrateDeployed
    <2> QED BY <1>1, <1>2, <2>1, PlainFinishes, StaysClosed
<1> QED BY <1>1, <1>3, <1>4, <1>5 DEF Ended, Op

LEMMA MigrateRequestSound == Good /\ MigrateRequest => Sound'
<1> SUFFICES ASSUME Good, MigrateRequest PROVE Sound'
    OBVIOUS
<1>1. /\ At("migrate", "migrate", "acked") /\ UNCHANGED <<world, stops>>
      /\ Reopen(Op) \/ End("failed", "migration_failed")
    BY DEF MigrateRequest
<1>2. drv.stack # <<>> /\ Op.kind = "migrate" /\ ~Begun(Op) /\ Op.kind # "recovery"
    BY <1>1, AtStep DEF Good, Begun
<1>3. CASE Reopen(Op)
    BY <1>1, <1>2, <1>3, ReopenSameGoes DEF Good
<1>4. CASE End("failed", "migration_failed")
    BY <1>1, <1>2, <1>4, PlainFinishes, StaysClosed
<1> QED BY <1>1, <1>3, <1>4

LEMMA MigrateOpenedSound == Good /\ MigrateOpened => Sound'
<1> SUFFICES ASSUME Good, MigrateOpened PROVE Sound'
    OBVIOUS
<1>1. /\ At("migrate", "open", "acked") /\ UNCHANGED <<world, stops>>
      /\ End("failed", "backup_failed") \/ End("failed", "deploy_not_started") \/ End("succeeded", "none")
    BY DEF MigrateOpened
<1>2. drv.stack # <<>> /\ Op.kind = "migrate" /\ Op.step = "open" /\ PlaceOK(Op, "acked", <<>>)
    BY <1>1, AtStep DEF Good
<1>3. Stays(serving, "open")
    BY <1>2, SureStays DEF PlaceOK
<1> QED BY <1>1, <1>2, <1>3, PlainFinishes

LEMMA ListStepSound == Good /\ ListStep => Sound'
<1> SUFFICES ASSUME Good, ListStep PROVE Sound'
    OBVIOUS
<1> DEFINE row == [Op EXCEPT !.step = "restrict", !.mode = "read-only", !.generation = generation + 1]
<1>1. At("restore", "list", "acked") /\ UNCHANGED <<world, stops>>
    BY DEF ListStep
<1>2. /\ drv.stack # <<>> /\ Op.kind = "restore" /\ Op.step = "list" /\ Op.state = "running" /\ Op \in OpRecords
      /\ PlaceOK(Op, "acked", <<>>) /\ Op.kind # "recovery"
    BY <1>1, AtStep DEF Good
<1>3. ~Begun(Op)
    BY <1>2, NotBegun
<1>4. Waits(Top, Op) /\ serving = Op.original
    BY <1>2, <1>3, Waiting
<1>5. CASE /\ Allocate /\ Write(row) /\ serving' = serving /\ To("step", <<>>)
    <2>1. /\ row.step = "restrict" /\ row.state = "running" /\ row.generation = generation + 1
          /\ row.bookmark = Op.bookmark /\ row.kind = Op.kind /\ row.runs = Op.runs /\ row.clone = Op.clone
          /\ row.original = Op.original /\ Onward(row, Op)
        BY <1>2 DEF OpRecords, Onward, Kept
    <2>2. Write(row) /\ To("step", <<>>) /\ generation' = generation + 1 /\ Quiet
        BY <1>1, <1>5, QuietWorld DEF Allocate
    <2> HIDE DEF row
    <2>3. Waits(Top, row) /\ ~Begun(row)
        BY <1>3, <1>4, <2>1 DEF Waits, Begun
    <2>4. BaseOK(Top, row) /\ PlaceOK(row, "step", <<>>)
        BY <1>2, <1>4, <2>1, <2>3 DEF BaseOK, PlaceOK
    <2> QED BY <1>2, <2>1, <2>2, <2>4, Goes DEF Good
<1>6. CASE End("failed", "list_failed")
    <2>1. Stays(serving, "open")
        BY <1>2, <1>4, SureStays DEF PlaceOK
    <2>2. Quiet
        BY <1>1, <1>6, QuietWorld DEF End, pointer
    <2> QED BY <1>2, <1>3, <1>6, <2>1, <2>2, Finishes DEF Good
<1> QED BY <1>5, <1>6 DEF ListStep

LEMMA PromoteStepSound == Good /\ PromoteStep => Sound'
<1> SUFFICES ASSUME Good, PromoteStep PROVE Sound'
    OBVIOUS
<1> DEFINE row == [Op EXCEPT !.step = "point"]
<1>1. At("restore", "promote", "acked") /\ Advance(row) /\ UNCHANGED <<world, stops>>
    BY DEF PromoteStep
<1>2. /\ drv.stack # <<>> /\ Op.kind = "restore" /\ Op.step = "promote" /\ Op.state = "running" /\ Op \in OpRecords
      /\ PlaceOK(Op, "acked", <<>>) /\ Op.kind # "recovery" /\ Op.generation = generation
    BY <1>1, AtStep DEF Good
<1>3. ~Begun(Op)
    BY <1>2, NotBegun
<1>4. Waits(Top, Op) /\ serving = Op.original
    BY <1>2, <1>3, Waiting
<1>5. /\ row.step = "point" /\ row.state = "running" /\ row.generation = Op.generation /\ row.bookmark = Op.bookmark
      /\ row.kind = Op.kind /\ row.runs = Op.runs /\ row.clone = Op.clone /\ row.original = Op.original
      /\ row.dump = Op.dump /\ Onward(row, Op)
    BY <1>2 DEF OpRecords, Onward, Kept
<1>6. Advance(row)
    BY <1>1
<1> HIDE DEF row
<1>7. Waits(Top, row) /\ ~Begun(row)
    BY <1>2, <1>3, <1>4, <1>5 DEF Waits, Begun
<1>8. PlaceOK(row, "step", <<>>)
    BY <1>2, <1>5 DEF PlaceOK
<1>9. BaseOK(Top, row)
    BY <1>4, <1>5, <1>7 DEF BaseOK
<1> QED BY <1>1, <1>2, <1>5, <1>6, <1>8, <1>9, AdvanceGoes DEF Good

\* The first failure is recorded, where the traffic is on the original.
LEMMA AbandonGoes ==
  ASSUME Good, drv.stack # <<>>, Op.kind = "restore", Op.step \in {"import", "point", "serve"},
         NEW code, Abandon(code), Quiet, PlaceOK(Op, "acked", <<>>),
         Begun(Op) => deployed = Op.original /\ Op.step = "serve"
  PROVE  Sound'
<1> DEFINE row == [Op EXCEPT !.failure = code]
<1>1. /\ Op \in OpRecords /\ Op.generation = generation /\ BaseOK(Top, Op) /\ Op.kind # "recovery"
      /\ Op.state = "running"
    BY TopIn, Driven DEF Good
<1>2. /\ row.step = Op.step /\ row.state = "running" /\ row.generation = Op.generation /\ row.bookmark = Op.bookmark
      /\ row.kind = Op.kind /\ row.runs = Op.runs /\ row.clone = Op.clone /\ row.original = Op.original
      /\ row.dump = Op.dump /\ Onward(row, Op)
    BY <1>1 DEF OpRecords, Onward, Kept
<1>3. Write(row) /\ To("step", <<>>) /\ generation' = generation
    BY DEF Abandon
<1> HIDE DEF row
<1>4. Waits(Top, Op) => Waits(Top, row)
    BY <1>1, <1>2 DEF Waits
<1>5. Begun(Op) /\ Carries(Top, Op) => Carries(Top, row)
    BY <1>1, <1>2 DEF Carries
<1>6. BaseOK(Top, row)
    BY <1>1, <1>2, <1>4, <1>5 DEF BaseOK, Begun
<1>7. PlaceOK(row, "step", <<>>)
    BY <1>2 DEF PlaceOK
<1> QED BY <1>1, <1>2, <1>3, <1>6, <1>7, Goes DEF Good

LEMMA FailedStepSound == Good /\ FailedStep => Sound'
<1> SUFFICES ASSUME Good, FailedStep PROVE Sound'
    OBVIOUS
<1> DEFINE row == [Op EXCEPT !.step = "revert"]
<1>1. At("restore", Op.step, "step") /\ RecordedFailure /\ UNCHANGED <<world, stops>>
    BY DEF FailedStep
<1>2. /\ drv.stack # <<>> /\ Op.kind = "restore" /\ Op.state = "running" /\ Op \in OpRecords /\ Op.kind # "recovery"
      /\ Op.generation = generation /\ BaseOK(Top, Op) /\ Drivable(Top)
      /\ Op.step \in {"import", "promote", "point", "serve"} /\ Op.failure # "none"
    BY <1>1, AtStep DEF Good, RecordedFailure
<1>3. CASE Op.step # "serve"
    <2>1. ~Begun(Op)
        BY <1>2, <1>3 DEF BaseOK, Carries
    <2>2. Reopen(Op)
        BY <1>3 DEF FailedStep
    <2> QED BY <1>1, <1>2, <2>1, <2>2, ReopenSameGoes DEF Good
<1>4. CASE Op.step = "serve"
    <2>1. Begun(Op) /\ Carries(Top, Op) /\ serving = Op.clone
        BY <1>2, <1>4, Moving
    <2>2. /\ row.step = "revert" /\ row.state = "running" /\ row.generation = Op.generation
          /\ row.bookmark = Op.bookmark /\ row.kind = Op.kind /\ row.runs = Op.runs /\ row.clone = Op.clone
          /\ row.original = Op.original /\ row.failure = Op.failure /\ Onward(row, Op)
        BY <1>2 DEF OpRecords, Onward, Kept
    <2>3. Advance(row)
        BY <1>4 DEF FailedStep
    <2> HIDE DEF row
    <2>4. Carries(Top, row) /\ Begun(row)
        BY <1>2, <1>4, <2>1, <2>2 DEF Carries, Begun
    <2>5. BaseOK(Top, row) /\ PlaceOK(row, "step", <<>>)
        BY <1>2, <2>2, <2>4 DEF BaseOK, PlaceOK
    <2> QED BY <1>1, <1>2, <2>2, <2>3, <2>5, AdvanceGoes DEF Good
<1> QED BY <1>3, <1>4

\* The clone serves: the restore may end at any of these steps, and leaves it open with every write.
LEMMA MovingFinishes ==
  ASSUME Good, drv.stack # <<>>, Op.kind = "restore", Op.step \in {"serve", "rewind", "check"},
         NEW pc, PlaceOK(Op, pc, <<>>), Op.failure = "none",
         NEW state \in {"succeeded", "failed"}, NEW code, End(state, code), Quiet
  PROVE  Sound'
<1>1. /\ Begun(Op) /\ Carries(Top, Op) /\ Drivable(Top) /\ serving = Op.clone /\ Op.runs["point"] # "running"
      /\ Op.kind # "recovery"
    BY Moving
<1>2. Op.original # Op.clone
    BY TopIn, Fields, Bounds DEF Good, RowOK, Objects
<1>3. Stays(serving, "open")
    BY <1>1, SureStays DEF PlaceOK
<1>4. Landed(Op) /\ Remains(Op)
    BY <1>1, <1>2 DEF Carries, Landed, Remains
<1> QED BY <1>1, <1>3, <1>4, Finishes DEF Good

\* The clone serves, and the restore goes on.
LEMMA MovingOpen ==
  ASSUME Op.kind = "restore", Op.step \in {"serve", "rewind", "check"}, NEW pc, PlaceOK(Op, pc, <<>>)
  PROVE  Stays(Op.clone, "open")
BY SureStays DEF PlaceOK

LEMMA MovingGoes ==
  ASSUME Good, drv.stack # <<>>, Op.kind = "restore", Op.step \in {"serve", "rewind", "check"},
         Stays(Op.clone, "open"), Op.failure = "none",
         NEW row, row.step \in {"serve", "rewind", "check"}, row.kind = Op.kind, row.runs = Op.runs,
         row.clone = Op.clone, row.original = Op.original, row.failure = Op.failure,
         Op.bookmark => row.bookmark, row.bookmark => Op.bookmark \/ deployed # Op.original,
         row.step # "serve" => row.bookmark
  PROVE  BaseOK(Top, row) /\ PlaceOK(row, "step", <<>>) /\ PlaceOK(row, "acked", <<>>) /\ PlaceOK(row, "arm", <<>>)
<1>1. /\ Begun(Op) /\ Carries(Top, Op) /\ Drivable(Top) /\ serving = Op.clone /\ Op.runs["point"] # "running"
    BY Moving
<1>2. Begun(row)
    BY <1>1 DEF Begun
<1>3. Carries(Top, row)
    BY <1>1 DEF Carries
<1>4. ASSUME NEW pc \in {"step", "acked", "arm"} PROVE PlaceOK(row, pc, <<>>)
    BY SureStays DEF PlaceOK
<1> QED BY <1>2, <1>3, <1>4 DEF BaseOK

LEMMA ServeStepSound == Good /\ ServeStep => Sound'
<1> SUFFICES ASSUME Good, ServeStep PROVE Sound'
    OBVIOUS
<1> DEFINE row == [Op EXCEPT !.bookmark = TRUE]
<1>1. At("restore", "serve", "acked") /\ UNCHANGED <<deployed, obj, data, total, sent, stops>>
    BY DEF ServeStep
<1>2. /\ drv.stack # <<>> /\ Op.kind = "restore" /\ Op.step = "serve" /\ Op.state = "running" /\ Op \in OpRecords
      /\ PlaceOK(Op, "acked", <<>>) /\ Op.kind # "recovery" /\ Op.generation = generation
    BY <1>1, AtStep DEF Good
<1>3. Op.failure = "none"
    BY <1>2 DEF PlaceOK
<1>4. CASE deployed = Op.original /\ Abandon("pointer_not_deployed")
    <2>1. Quiet
        BY <1>1, <1>4 DEF Quiet, Abandon, pointer
    <2> QED BY <1>2, <1>4, <2>1, AbandonGoes
<1>5. CASE /\ deployed # Op.original /\ Write(row) /\ To("acked", <<>>) /\ UNCHANGED <<generation, pointer>>
    <2>1. /\ row.step = Op.step /\ row.state = "running" /\ row.generation = Op.generation /\ row.bookmark
          /\ row.kind = Op.kind /\ row.runs = Op.runs /\ row.clone = Op.clone /\ row.original = Op.original
          /\ row.failure = Op.failure /\ Onward(row, Op)
        BY <1>2 DEF OpRecords, Onward, Kept
    <2>2. Write(row) /\ To("acked", <<>>) /\ generation' = generation /\ Quiet /\ deployed # Op.original
        BY <1>1, <1>5 DEF Quiet, pointer
    <2> HIDE DEF row
    <2>3. BaseOK(Top, row) /\ PlaceOK(row, "acked", <<>>)
        BY <1>2, <1>3, <2>1, <2>2, MovingGoes, MovingOpen
    <2> QED BY <1>2, <2>1, <2>2, <2>3, Goes DEF Good
<1>6. CASE End("failed", "bookmark_unavailable") \/ End("failed", "rewind_failed")
    <2>1. Quiet
        BY <1>1, <1>6 DEF Quiet, End, pointer
    <2> QED BY <1>2, <1>3, <1>6, <2>1, MovingFinishes
<1> QED BY <1>4, <1>5, <1>6 DEF ServeStep

LEMMA BootedSound == Good /\ Booted => Sound'
<1> SUFFICES ASSUME Good, Booted PROVE Sound'
    OBVIOUS
<1> DEFINE row == [Op EXCEPT !.step = "rewind"]
<1>1. At("restore", "serve", "acked") /\ Op.bookmark /\ AdvanceFresh(row) /\ UNCHANGED <<world, stops>>
    BY DEF Booted, Boots
<1>2. /\ drv.stack # <<>> /\ Op.kind = "restore" /\ Op.step = "serve" /\ Op.state = "running" /\ Op \in OpRecords
      /\ PlaceOK(Op, "acked", <<>>) /\ Op.kind # "recovery" /\ Op.generation = generation
    BY <1>1, AtStep DEF Good
<1>3. Op.failure = "none"
    BY <1>2 DEF PlaceOK
<1>4. /\ row \in OpRecords /\ row.step = "rewind" /\ row.state = "running" /\ row.bookmark = Op.bookmark
      /\ row.kind = Op.kind /\ row.runs = Op.runs /\ row.clone = Op.clone /\ row.original = Op.original
      /\ row.failure = Op.failure /\ Onward(row, Op)
    BY <1>2 DEF OpRecords, Onward, Kept, Steps
<1>5. AdvanceFresh(row)
    BY <1>1
<1> HIDE DEF row
<1>6. BaseOK(Top, row) /\ PlaceOK(row, "step", <<>>)
    <2>1. (Op.bookmark => row.bookmark) /\ (row.bookmark => Op.bookmark \/ deployed # Op.original)
        BY <1>1, <1>4
    <2>2. row.step \in {"serve", "rewind", "check"} /\ (row.step # "serve" => row.bookmark)
        BY <1>1, <1>4, <2>1
    <2>3. Stays(Op.clone, "open")
        BY <1>2, MovingOpen
    <2>4. /\ row.kind = Op.kind /\ row.runs = Op.runs /\ row.clone = Op.clone /\ row.original = Op.original
          /\ row.failure = Op.failure
        BY <1>4
    <2>5. drv.stack # <<>> /\ Op.kind = "restore" /\ Op.step \in {"serve", "rewind", "check"}
        BY <1>2
    <2> QED BY <1>3, <2>1, <2>2, <2>3, <2>4, <2>5, MovingGoes
<1> QED BY <1>1, <1>2, <1>4, <1>5, <1>6, FreshGoes DEF Good

\* Where the original is rewound, it is bookmarked and nothing failed.
LEMMA Rewinding ==
  ASSUME Good, drv.stack # <<>>, Op.kind = "restore", Op.step \in {"rewind", "check"}
  PROVE  Op.bookmark /\ Op.failure = "none"
BY Moving DEF Carries

LEMMA RewindStepSound == Good /\ RewindStep => Sound'
<1> SUFFICES ASSUME Good, RewindStep PROVE Sound'
    OBVIOUS
<1> DEFINE checked == [Op EXCEPT !.step = "check"]
<1> DEFINE row == [Op EXCEPT !.arms = @ + 1]
<1>1. At("restore", "rewind", "acked") /\ UNCHANGED <<world, stops>>
    BY DEF RewindStep
<1>2. /\ drv.stack # <<>> /\ Op.kind = "restore" /\ Op.step = "rewind" /\ Op.state = "running" /\ Op \in OpRecords
      /\ PlaceOK(Op, "acked", <<>>) /\ Op.kind # "recovery" /\ Op.generation = generation
    BY <1>1, AtStep DEF Good
<1>3. Op.bookmark /\ Op.failure = "none"
    BY <1>2, Rewinding
<1>4. CASE Advance(checked)
    <2>1. /\ checked.step = "check" /\ checked.state = "running" /\ checked.bookmark = Op.bookmark
          /\ checked.kind = Op.kind /\ checked.runs = Op.runs /\ checked.clone = Op.clone
          /\ checked.original = Op.original /\ checked.failure = Op.failure /\ Onward(checked, Op)
          /\ checked.generation = Op.generation
        BY <1>2 DEF OpRecords, Onward, Kept
    <2>2. Advance(checked)
        BY <1>4
    <2> HIDE DEF checked
    <2>3. BaseOK(Top, checked) /\ PlaceOK(checked, "step", <<>>)
        <3>1. (Op.bookmark => checked.bookmark) /\ (checked.bookmark => Op.bookmark \/ deployed # Op.original)
            BY <1>3, <2>1
        <3>2. checked.step \in {"serve", "rewind", "check"} /\ (checked.step # "serve" => checked.bookmark)
            BY <1>2, <1>3, <2>1, <3>1
        <3>3. Stays(Op.clone, "open")
            BY <1>2, MovingOpen
        <3>4. /\ checked.kind = Op.kind /\ checked.runs = Op.runs /\ checked.clone = Op.clone /\ checked.original = Op.original
              /\ checked.failure = Op.failure
            BY <2>1
        <3>5. drv.stack # <<>> /\ Op.kind = "restore" /\ Op.step \in {"serve", "rewind", "check"} /\ Op.failure = "none"
            BY <1>2, <1>3
        <3> QED BY <3>1, <3>2, <3>3, <3>4, <3>5, MovingGoes
    <2> QED BY <1>1, <1>2, <2>1, <2>2, <2>3, AdvanceGoes DEF Good
<1>5. CASE End("failed", "rewind_failed")
    <2>1. Quiet
        BY <1>1, <1>5, QuietWorld DEF End, pointer
    <2> QED BY <1>2, <1>3, <1>5, <2>1, MovingFinishes
<1>6. CASE Write(row) /\ To("arm", <<>>) /\ UNCHANGED <<generation, pointer>>
    <2>1. /\ row.step = Op.step /\ row.state = "running" /\ row.bookmark = Op.bookmark
          /\ row.kind = Op.kind /\ row.runs = Op.runs /\ row.clone = Op.clone /\ row.original = Op.original
          /\ row.failure = Op.failure /\ Onward(row, Op) /\ row.generation = Op.generation
        BY <1>2 DEF OpRecords, Onward, Kept
    <2>2. Write(row) /\ To("arm", <<>>) /\ generation' = generation /\ Quiet
        BY <1>1, <1>6, QuietWorld DEF pointer
    <2> HIDE DEF row
    <2>3. BaseOK(Top, row) /\ PlaceOK(row, "arm", <<>>)
        <3>1. (Op.bookmark => row.bookmark) /\ (row.bookmark => Op.bookmark \/ deployed # Op.original)
            BY <1>3, <2>1
        <3>2. row.step \in {"serve", "rewind", "check"} /\ (row.step # "serve" => row.bookmark)
            BY <1>2, <1>3, <2>1, <3>1
        <3>3. Stays(Op.clone, "open")
            BY <1>2, MovingOpen
        <3>4. /\ row.kind = Op.kind /\ row.runs = Op.runs /\ row.clone = Op.clone /\ row.original = Op.original
              /\ row.failure = Op.failure
            BY <2>1
        <3>5. drv.stack # <<>> /\ Op.kind = "restore" /\ Op.step \in {"serve", "rewind", "check"} /\ Op.failure = "none"
            BY <1>2, <1>3
        <3> QED BY <3>1, <3>2, <3>3, <3>4, <3>5, MovingGoes
    <2> QED BY <1>2, <2>1, <2>2, <2>3, Goes DEF Good
<1> QED BY <1>4, <1>5, <1>6 DEF RewindStep

LEMMA CheckStepSound == Good /\ CheckStep => Sound'
<1> SUFFICES ASSUME Good, CheckStep PROVE Sound'
    OBVIOUS
<1>1. /\ At("restore", "check", "acked") /\ UNCHANGED <<world, stops>>
      /\ End("succeeded", "none") \/ End("failed", "unexpected_schema")
    BY DEF CheckStep
<1>2. drv.stack # <<>> /\ Op.kind = "restore" /\ Op.step = "check" /\ PlaceOK(Op, "acked", <<>>)
    BY <1>1, AtStep DEF Good
<1>3. Op.failure = "none"
    BY <1>2, Rewinding
<1>4. Quiet
    BY <1>1, QuietWorld DEF End, pointer
<1> QED BY <1>1, <1>2, <1>3, <1>4, MovingFinishes

LEMMA RestoreOpenedSound == Good /\ RestoreOpened => Sound'
<1> SUFFICES ASSUME Good, RestoreOpened PROVE Sound'
    OBVIOUS
<1> DEFINE code == IF Op.backup = "failed" THEN "backup_failed" ELSE Op.failure
<1>1. At("restore", "open", "acked") /\ End("failed", code) /\ UNCHANGED <<world, stops>>
    BY DEF RestoreOpened
<1>2. /\ drv.stack # <<>> /\ Op.kind = "restore" /\ Op.step = "open" /\ PlaceOK(Op, "acked", <<>>)
      /\ BaseOK(Top, Op) /\ Drivable(Top) /\ Op.original # Op.clone /\ Op.kind # "recovery"
    BY <1>1, AtStep DEF Good
<1>3. serving = Op.original
    BY <1>2 DEF BaseOK, Carries
<1>4. Stays(serving, "open")
    BY <1>2, <1>3, SureStays DEF PlaceOK
<1>5. Begun(Op) => Landed(Op) /\ Remains(Op)
    BY <1>2, <1>3 DEF BaseOK, Carries, Landed, Remains
<1>6. Quiet /\ End("failed", code)
    BY <1>1, QuietWorld DEF End, pointer
<1> HIDE DEF code
<1> QED BY <1>2, <1>4, <1>5, <1>6, Finishes DEF Good

----------------------------------------------------------------------------
(* Steps that move no record and no pointer *)

LEMMA Standing ==
  ASSUME Good, ops' = ops, generation' = generation, serving' = serving, drv'.stack = drv.stack,
         Stays(serving, "open") => Stays(serving, "open")',
         \A b \in 1..Len(ops) : Base(b) /\ Begun(ops[b]) /\ Landed(ops[b]) => Landed(ops[b])',
         Grounded', Harmless', Placed'
  PROVE  Sound'
<1>1. Linked' /\ OneRun'
    BY DEF Good, Sound, Linked, OneRun, NoneBegun, Begun, Base
<1>2. ASSUME NEW row, EndOK(row) PROVE EndOK(row)'
    BY <1>2 DEF EndOK, OpenOf, ReopenedCodes, Remains, Base, Begun
<1>3. Finals'
    BY <1>2 DEF Good, Sound, Finals, Latest
<1>4. Driving'
    BY DEF Good, Sound, Driving, Latest, Op, Top
<1> QED BY <1>1, <1>3, <1>4 DEF Sound

LEMMA StandsGrounded ==
  ASSUME Good, ops' = ops, serving' = serving, deployed' = deployed, data' = data, total' = total,
         \A o \in Objects : Shut(o) => Shut(o)'
  PROVE  /\ Grounded' /\ (\A row : Landed(row)' <=> Landed(row)) /\ (\A row : Remains(row)' <=> Remains(row))
<1>1. \A o : Full(o)' <=> Full(o)
    BY DEF Full
<1>2. serving \in Objects /\ deployed \in Objects /\ \A b \in 1..Len(ops) : ops[b] \in OpRecords
    BY Typed DEF Good, TypeOK
<1>3. ASSUME NEW b, NEW row \in OpRecords, BaseOK(b, row) PROVE BaseOK(b, row)'
    <2>1. row.original \in Objects /\ row.clone \in Objects
        BY Fields
    <2>2. Carries(b, row) => Carries(b, row)'
        BY <1>1, <1>2, <2>1 DEF Carries, Drivable
    <2>3. Waits(b, row) => Waits(b, row)'
        BY <1>1, <2>1 DEF Waits, Drivable
    <2> QED BY <1>3, <2>2, <2>3 DEF BaseOK, Begun
<1>4. NoneBegun' <=> NoneBegun
    BY DEF NoneBegun, Base, Begun
<1>5. Steady => Steady'
    BY <1>1, <1>2 DEF Steady
<1>6. Grounded'
    BY <1>2, <1>3, <1>4, <1>5 DEF Good, Sound, Grounded, Base
<1> QED BY <1>6 DEF Landed, Remains

LEMMA StandsPlaced ==
  ASSUME Good, ops' = ops, serving' = serving, deployed' = deployed, drv' = drv,
         \A o \in Objects : \A mode : Stays(o, mode) => Stays(o, mode)'
  PROVE  Placed'
<1>0. serving \in Objects /\ \A b \in 1..Len(ops) : ops[b] \in OpRecords
    BY Typed DEF Good, TypeOK
<1>1. ASSUME NEW o \in Objects, NEW mode, NEW todo, Sure(o, mode, todo) PROVE Sure(o, mode, todo)'
    BY <1>1 DEF Sure, Ahead
<1>2. ASSUME NEW row \in OpRecords, NEW pc, NEW todo, PlaceOK(row, pc, todo) PROVE PlaceOK(row, pc, todo)'
    <2>1. row.original \in Objects /\ row.clone \in Objects
        BY Fields
    <2> QED BY <1>0, <1>1, <1>2, <2>1 DEF PlaceOK, Ahead
<1>3. ASSUME NEW row \in OpRecords, NEW pc, NEW todo, Passes(row, pc, todo) PROVE Passes(row, pc, todo)'
    <2>1. row.original \in Objects /\ row.clone \in Objects
        BY Fields
    <2> QED BY <1>1, <1>3, <2>1 DEF Passes, Ahead, Begun
<1>4. \A row : (Landed(row)' <=> Landed(row)) /\ (Remains(row)' <=> Remains(row))
    BY DEF Landed, Remains
<1>5. ASSUME NEW row, NEW pc, NEW todo, RecoveryOK(row, pc, todo) PROVE RecoveryOK(row, pc, todo)'
    <2>1. \A b : Base(b)' <=> Base(b)
        BY DEF Base
    <2>2. \A r : Begun(r)' <=> Begun(r)
        BY DEF Begun
    <2>3. Ahead(todo)' = Ahead(todo)
        BY DEF Ahead
    <2>4. /\ row.step = "open" =>
             /\ row.resolution = "open" /\ \A p \in Ahead(todo) : p = <<serving, "open">>
             /\ pc = "acked" => Sure(serving, "open", todo)'
             /\ \A b \in 1..Len(ops) : Base(b) /\ ops[b].kind = "restore" =>
                  pc = "acked" /\ todo = <<>> /\ (Begun(ops[b]) => Landed(ops[b])' /\ Remains(ops[b])')
        BY <1>0, <1>1, <1>4, <1>5 DEF RecoveryOK
    <2>5. pc \in {"kept", "revert", "settle"} =>
             /\ row.step = "restrict" /\ row.resolution = "open"
             /\ \A b \in 1..Len(ops) : Base(b) => Passes(ops[b], pc, todo)'
        BY <1>0, <1>3, <1>5 DEF RecoveryOK
    <2>6. /\ row.step \in {"reconcile", "resume"} \/ pc = "step" => todo = <<>>
          /\ row.step = "restrict" /\ pc = "acked" =>
               /\ \A p \in Ahead(todo) : p = <<serving, "closed">>
               /\ row.resolution = "open" => \A b \in 1..Len(ops) : Base(b) => ops[b].kind # "restore"
          /\ row.step = "resume" => row.resolution = "resume"
          /\ row.step = "resume" /\ pc = "acked" =>
               ops[Len(ops) - 1].state = "succeeded" /\ row.mode = ops[Len(ops) - 1].mode
          /\ pc # "arm"
        BY <1>5 DEF RecoveryOK
    <2> QED BY <2>1, <2>2, <2>3, <2>4, <2>5, <2>6 DEF RecoveryOK
<1>6. drv.stack # <<>> => Op \in OpRecords
    BY TopIn DEF Good
<1> QED BY <1>2, <1>5, <1>6 DEF Good, Sound, Placed, Op, Top

\* An arm goes out to the original, which is bookmarked and off the traffic.
LEMMA ArmSound == Good /\ Arm => Sound'
<1> SUFFICES ASSUME Good, Arm PROVE Sound'
    OBVIOUS
<1> DEFINE arm == [kind |-> "arm", object |-> Op.original, mode |-> "inspect", generation |-> Op.generation, op |-> Top]
<1>1. At("restore", "rewind", "arm") /\ UNCHANGED <<deployed, obj, data, total, sentinel, stops>>
    BY DEF Arm
<1>2. /\ drv.stack # <<>> /\ Op.kind = "restore" /\ Op.step = "rewind" /\ Op.state = "running" /\ Op \in OpRecords
      /\ PlaceOK(Op, "arm", <<>>) /\ Op.kind # "recovery" /\ Op.original # Op.clone /\ Base(Top)
    BY <1>1, AtStep DEF Good
<1>3. Op.bookmark /\ Op.failure = "none"
    BY <1>2, Rewinding
<1>4. CASE End("failed", "bookmark_unavailable") /\ sent' = sent
    <2>1. Quiet
        BY <1>1, <1>4 DEF Quiet, End, pointer
    <2> QED BY <1>2, <1>3, <1>4, <2>1, MovingFinishes
<1>5. CASE sent' = sent \cup {arm} /\ To("acked", <<>>) /\ UNCHANGED <<ops, generation, pointer>>
    <2>1. arm.kind = "arm" /\ arm.object = Op.original
        OBVIOUS
    <2>2. /\ sent' = sent \cup {arm} /\ To("acked", <<>>) /\ ops' = ops /\ generation' = generation
          /\ serving' = serving /\ deployed' = deployed /\ obj' = obj /\ data' = data /\ total' = total
        BY <1>1, <1>5 DEF pointer
    <2> HIDE DEF arm
    <2>3. \A o, modes : Within(o, modes)' <=> Within(o, modes)
        BY <2>1, <2>2 DEF Within
    <2>4. \A o, mode : Stays(o, mode)' <=> Stays(o, mode)
        BY <2>3 DEF Stays
    <2>5. \A o : Shut(o)' <=> Shut(o)
        BY <2>3 DEF Shut
    <2>6. Grounded' /\ (\A row : Landed(row)' <=> Landed(row))
        BY <2>2, <2>5, StandsGrounded
    <2>7. drv'.stack = drv.stack /\ drv'.pc = "acked" /\ drv'.todo = <<>> /\ Op' = Op
        BY <2>2 DEF To, Good, IInv, Holder, Drivers, Op, Top
    <2>8. Harmless'
        <3>1. serving = Op.clone /\ Op.original \in 0..Len(ops) /\ Op = ops[Top] /\ Len(ops) \in Nat
            <4>1. Top \in 1..Len(ops) /\ Op.original < Top /\ Op.original \in Nat
                BY <1>2, TopIn, Fields, Bounds DEF Good, RowOK, Objects
            <4>2. serving = Op.clone /\ Len(ops) \in Nat /\ Op = ops[Top]
                BY <1>2, Moving, Driven DEF Good
            <4> QED BY <4>1, <4>2
        <3>2. \A b \in 1..Len(ops) : Base(b) => Spares(Op.original, ops[b])
            <4> SUFFICES ASSUME NEW b \in 1..Len(ops), Base(b) PROVE Spares(Op.original, ops[b])
                OBVIOUS
            <4>1. b = Top
                BY <1>2, <3>1, OneBase
            <4> QED BY <1>2, <1>3, <3>1, <4>1 DEF Spares
        <3>3. ASSUME NEW q \in sent', q.kind = "arm"
              PROVE  /\ q.object \in 0..Len(ops) /\ q.object # serving
                     /\ \A b \in 1..Len(ops) : Base(b) => Spares(q.object, ops[b])
            <4>1. CASE q = arm
                BY <1>2, <2>1, <3>1, <3>2, <4>1
            <4>2. CASE q \in sent
                BY <3>3, <4>2 DEF Good, Sound, Harmless
            <4> QED BY <2>2, <4>1, <4>2
        <3> QED BY <2>2, <3>3 DEF Harmless, Base, Spares
    <2>9. PlaceOK(Op, "acked", <<>>)'
        <3>1. PlaceOK(Op, "acked", <<>>)
            BY <1>2 DEF PlaceOK
        <3>2. \A o, mode, todo : Sure(o, mode, todo)' <=> Sure(o, mode, todo)
            BY <2>4 DEF Sure, Ahead
        <3> QED BY <2>2, <2>7, <3>1, <3>2 DEF PlaceOK, Ahead
    <2>10. Placed'
        BY <1>2, <2>7, <2>9 DEF Placed
    <2> QED BY <2>2, <2>4, <2>6, <2>7, <2>8, <2>10, Standing
<1> QED BY <1>4, <1>5 DEF Arm

LEMMA ImportStepSound == Good /\ ImportStep => Sound'
<1> SUFFICES ASSUME Good, ImportStep PROVE Sound'
    OBVIOUS
<1> DEFINE old == [Op EXCEPT !.step = "promote", !.mode = "inspect"]
<1>1. At("restore", "import", "acked") /\ UNCHANGED <<deployed, obj, total, sentinel, sent, stops>>
    BY DEF ImportStep
<1>2. /\ drv.stack # <<>> /\ Op.kind = "restore" /\ Op.step = "import" /\ Op.state = "running" /\ Op \in OpRecords
      /\ PlaceOK(Op, "acked", <<>>) /\ Op.kind # "recovery" /\ Op.original # Op.clone /\ Base(Top)
    BY <1>1, AtStep DEF Good
<1>3. ~Begun(Op)
    BY <1>2, NotBegun
<1>4. Waits(Top, Op) /\ serving = Op.original /\ Steady /\ Drivable(Top) /\ NoneBegun
    BY <1>2, <1>3, Waiting
<1>5. CASE Abandon("import_failed") /\ data' = data
    <2>1. Quiet
        BY <1>1, <1>5 DEF Quiet, Abandon, pointer
    <2> QED BY <1>2, <1>3, <1>5, <2>1, AbandonGoes
<1>6. CASE AdvanceFresh(old) /\ data' = [data EXCEPT ![Op.clone] = Op.dump]
    <2>0. PICK row, t : row = [old EXCEPT !.generation = generation + 1] /\ t = Top
        OBVIOUS
    <2>1. /\ row.step = "promote" /\ row.state = "running" /\ row.generation = generation + 1
          /\ row.kind = Op.kind /\ row.runs = Op.runs /\ row.clone = Op.clone
          /\ row.original = Op.original /\ row.dump = Op.dump /\ Onward(row, Op)
          /\ row.bookmark = Op.bookmark
        BY <1>2, <2>0 DEF OpRecords, Onward, Kept
    <2>2. /\ Write(row) /\ To("step", <<>>) /\ generation' = generation + 1 /\ serving' = serving
          /\ deployed' = deployed /\ obj' = obj /\ sent' = sent /\ total' = total
        BY <1>1, <1>6, <2>0 DEF AdvanceFresh, Allocate, pointer
    <2> HIDE DEF old
    <2>3. Op.clone \in Objects /\ data \in [Objects -> 0..MaxWrites]
        BY <1>2, Fields DEF Good, IInv, Counted
    <2>4. Full(row.clone)' /\ (\A o \in Objects : o # row.clone => (Full(o)' <=> Full(o)))
        <3>1. Op.dump = total
            BY <1>2, <1>4 DEF Waits
        <3>2. data'[Op.clone] = Op.dump /\ (\A o \in Objects : o # Op.clone => data'[o] = data[o])
            BY <1>6, <2>3
        <3> QED BY <2>1, <2>2, <3>1, <3>2 DEF Full
    <2>5. \A o : Shut(o)' <=> Shut(o)
        BY <2>2, Unmoved DEF Shut
    <2>6. t = Top /\ t \in 1..Len(ops) /\ Onward(row, ops[t]) /\ Len(ops) \in Nat
        BY <1>2, <2>0, <2>1, Driven DEF Good
    <2>7. ops' = [ops EXCEPT ![t] = row]
        BY <2>2, <2>6 DEF Write
    <2>8. /\ Alike /\ Len(ops') = Len(ops) /\ (NoneBegun' <=> NoneBegun)
          /\ \A k \in 1..Len(ops) : ops'[k] = IF k = t THEN row ELSE ops[k]
        <3>1. IInv /\ t \in 1..Len(ops) /\ Onward(row, ops[t])
            BY <2>6 DEF Good
        <3>2. NoneBegun' <=> NoneBegun
            BY <2>7, <3>1, RowRuns
        <3> QED BY <2>7, <3>1, <3>2, RowAlike
    <2>9. (\A b : Base(b)' <=> Base(b)) /\ (Drivable(t)' <=> Drivable(t))
        BY <2>6, <2>8, AlikeBase DEF Good
    <2>10. Linked' /\ Harmless' /\ OneRun'
        <3>1. \A q \in sent : q.kind = "arm" => q.object # serving'
            BY <2>2 DEF Good, Sound, Harmless
        <3> QED BY <2>2, <2>6, <2>7, <3>1, RowStill DEF Good
    <2>11. Grounded'
        <3>1. ~Begun(row)
            BY <1>3, <2>1 DEF Begun
        <3>2. Waits(t, row)'
            <4>1. Shut(row.original)' /\ row.dump = total'
                BY <1>2, <1>4, <2>1, <2>2, <2>5 DEF Waits
            <4>2. deployed' # row.clone /\ row.runs["revert"] = "none" /\ ~row.bookmark
                BY <1>4, <2>1, <2>2 DEF Waits
            <4> QED BY <2>1, <2>4, <4>1, <4>2 DEF Waits
        <3>3. BaseOK(t, row)'
            BY <1>4, <2>1, <2>2, <3>1, <3>2 DEF BaseOK, Begun
        <3>4. \A b \in 1..Len(ops') : Base(b)' => BaseOK(b, ops[b])'
            <4> SUFFICES ASSUME NEW b \in 1..Len(ops'), Base(b)' PROVE BaseOK(b, ops[b])'
                OBVIOUS
            <4>1. b = t /\ ops'[b] = row
                BY <1>2, <2>6, <2>8, <2>9, OneBase
            <4> QED BY <3>3, <4>1
        <3>5. Steady'
            <4>1. serving \in Objects
                BY Typed DEF Good, TypeOK
            <4> QED BY <1>2, <1>4, <2>1, <2>2, <2>4, <2>5, <4>1 DEF Steady
        <3> QED BY <2>2, <2>8, <3>4, <3>5 DEF Grounded, Good, Sound
    <2>12. PlaceOK(row, "step", <<>>)'
        BY <1>2, <2>1 DEF PlaceOK
    <2> QED BY <1>2, <2>1, <2>2, <2>10, <2>11, <2>12, GoesOn DEF Good
<1> QED BY <1>5, <1>6 DEF ImportStep

\* The pointer moves with the base.
LEMMA Repoints ==
  ASSUME Good, drv.stack # <<>>, Op.kind = "restore", Begun(Op), NEW row, NEW t, t = Top,
         Write(row), To("step", <<>>), Onward(row, Op), row.state = "running", row.generation = generation',
         deployed' = deployed, obj' = obj, sent' = sent, data' = data, total' = total,
         \A q \in sent : q.kind = "arm" => q.object # serving',
         Carries(t, row)', PlaceOK(row, "step", <<>>)'
  PROVE  Sound'
<1>1. /\ t \in 1..Len(ops) /\ Onward(row, ops[t]) /\ Len(ops) \in Nat /\ Base(t) /\ Op = ops[t]
      /\ Op.kind # "recovery"
    BY Driven DEF Good
<1>2. ops' = [ops EXCEPT ![t] = row]
    BY DEF Write
<1>3. /\ Alike /\ Len(ops') = Len(ops) /\ (NoneBegun' <=> NoneBegun)
      /\ \A k \in 1..Len(ops) : ops'[k] = IF k = t THEN row ELSE ops[k]
    <2>1. IInv /\ t \in 1..Len(ops) /\ Onward(row, ops[t])
        BY <1>1 DEF Good
    <2>2. NoneBegun' <=> NoneBegun
        BY <1>2, <2>1, RowRuns
    <2> QED BY <1>2, <2>1, <2>2, RowAlike
<1>4. \A b : Base(b)' <=> Base(b)
    BY <1>3, AlikeBase DEF Good
<1>5. ~NoneBegun
    BY <1>1 DEF NoneBegun
<1>6. Linked' /\ Harmless' /\ OneRun'
    BY <1>1, <1>2, <1>5, RowStill DEF Good
<1>7. Begun(row) /\ row.kind = "restore"
    BY DEF Onward, Kept, Begun
<1>8. BaseOK(t, row)'
    BY <1>7 DEF BaseOK, Begun
<1>9. \A b \in 1..Len(ops') : Base(b)' => BaseOK(b, ops[b])'
    <2> SUFFICES ASSUME NEW b \in 1..Len(ops'), Base(b)' PROVE BaseOK(b, ops[b])'
        OBVIOUS
    <2>1. b = t /\ ops'[b] = row
        BY <1>1, <1>3, <1>4, OneBase
    <2> QED BY <1>8, <2>1
<1>10. Grounded'
    BY <1>3, <1>5, <1>9 DEF Grounded, Good, Sound
<1> QED BY <1>1, <1>6, <1>10, GoesOn DEF Good

LEMMA PointStepSound == Good /\ PointStep => Sound'
<1> SUFFICES ASSUME Good, PointStep PROVE Sound'
    OBVIOUS
<1>1. At("restore", "point", "acked") /\ Ended(Top, "point") /\ UNCHANGED <<world, stops>>
    BY DEF PointStep
<1>2. /\ drv.stack # <<>> /\ Op.kind = "restore" /\ Op.step = "point" /\ Op.state = "running" /\ Op \in OpRecords
      /\ PlaceOK(Op, "acked", <<>>) /\ Op.kind # "recovery" /\ Op.original # Op.clone /\ Base(Top)
      /\ Op.generation = generation /\ BaseOK(Top, Op) /\ Drivable(Top)
    BY <1>1, AtStep DEF Good
<1>3. Op.failure = "none" /\ Stays(Op.clone, "open")
    BY <1>2, SureStays DEF PlaceOK
<1>4. CASE Op.runs["point"] = "rejected"
    <2>1. Abandon("point_failed") /\ ~Begun(Op)
        BY <1>4 DEF PointStep, Begun
    <2>2. Quiet
        BY <1>1, <2>1, QuietWorld DEF Abandon, pointer
    <2> QED BY <1>2, <2>1, <2>2, AbandonGoes
<1>5. CASE Op.runs["point"] # "rejected"
    <2>0. PICK row, t : row = [Op EXCEPT !.step = "serve", !.mode = "open"] /\ t = Top
        OBVIOUS
    <2>1. Begun(Op) /\ Op.runs["point"] # "running"
        BY <1>1, <1>2, <1>5 DEF Ended, Op, Begun
    <2>2. /\ Write(row) /\ To("step", <<>>) /\ generation' = generation /\ serving' = Op.clone
          /\ deployed' = deployed /\ obj' = obj /\ sent' = sent /\ data' = data /\ total' = total
        BY <1>1, <1>5, <2>0 DEF PointStep, world
    <2>3. /\ row.step = "serve" /\ row.state = "running" /\ row.generation = Op.generation
          /\ row.kind = Op.kind /\ row.runs = Op.runs /\ row.clone = Op.clone
          /\ row.original = Op.original /\ Onward(row, Op) /\ row.failure = Op.failure
          /\ row.bookmark = Op.bookmark
        BY <1>2, <2>0 DEF OpRecords, Onward, Kept
    <2>4. Carries(Top, Op)
        BY <1>2, <2>1 DEF BaseOK
    <2>5. (\A o : Shut(o)' <=> Shut(o)) /\ (\A o, mode : Stays(o, mode)' <=> Stays(o, mode))
          /\ (\A o : Full(o)' <=> Full(o))
        BY <2>2, Unmoved DEF Shut, Stays, Full
    <2>10. (Drivable(t)' <=> Drivable(t)) /\ t = Top
        <3>1. t \in 1..Len(ops) /\ Onward(row, ops[t]) /\ ops' = [ops EXCEPT ![t] = row]
            BY <1>2, <2>0, <2>2, <2>3, Driven DEF Good, Write
        <3> QED BY <2>0, <3>1, RowAlike, AlikeBase DEF Good
    <2>6. Carries(t, row)'
        BY <1>2, <1>3, <2>1, <2>2, <2>3, <2>4, <2>5, <2>10 DEF Carries
    <2>7. PlaceOK(row, "step", <<>>)'
        BY <1>2, <1>3, <2>3, <2>5 DEF PlaceOK, Sure
    <2>8. \A q \in sent : q.kind = "arm" => q.object # serving'
        <3>1. Top \in 1..Len(ops) /\ Op = ops[Top]
            BY <1>2, Driven DEF Good
        <3> QED BY <1>2, <2>2, <3>1 DEF Good, Sound, Harmless, Spares
    <2>9. row.generation = generation'
        BY <1>2, <2>2, <2>3
    <2> QED BY <1>2, <2>1, <2>2, <2>3, <2>6, <2>7, <2>8, <2>9, <2>10, Repoints
<1> QED BY <1>4, <1>5

LEMMA RevertStepSound == Good /\ RevertStep => Sound'
<1> SUFFICES ASSUME Good, RevertStep PROVE Sound'
    OBVIOUS
<1>1. At("restore", "revert", "acked") /\ Ended(Top, "revert") /\ UNCHANGED <<world, stops>>
    BY DEF RevertStep
<1>2. /\ drv.stack # <<>> /\ Op.kind = "restore" /\ Op.step = "revert" /\ Op.state = "running" /\ Op \in OpRecords
      /\ Op.kind # "recovery" /\ Op.original # Op.clone
    BY <1>1, AtStep DEF Good
<1>3. /\ Begun(Op) /\ Carries(Top, Op) /\ Drivable(Top) /\ Base(Top) /\ serving = Op.clone
      /\ Op.runs["point"] # "running" /\ Top \in 1..Len(ops) /\ Op = ops[Top]
    BY <1>2, Moving, Driven DEF Good
<1>4. Op.runs["revert"] \in {"succeeded", "failed", "rejected"}
    BY <1>1, <1>3 DEF Ended
<1>5. CASE Op.runs["revert"] # "succeeded"
    <2>1. End("failed", "revert_failed") /\ ~Opens("failed", "revert_failed")
        BY <1>5, StaysClosed DEF RevertStep
    <2>2. Quiet
        BY <1>1, <2>1, QuietWorld DEF End, pointer
    <2>3. Landed(Op)
        BY <1>2, <1>3, <1>4, <1>5 DEF Landed
    <2> QED BY <1>2, <2>1, <2>2, <2>3, Finishes DEF Good
<1>6. CASE Op.runs["revert"] = "succeeded"
    <2>0. PICK row, t : row = [Op EXCEPT !.step = "open", !.mode = "open", !.generation = generation + 1] /\ t = Top
        OBVIOUS
    <2>2. /\ Write(row) /\ To("step", <<>>) /\ generation' = generation + 1 /\ serving' = Op.original
          /\ deployed' = deployed /\ obj' = obj /\ sent' = sent /\ data' = data /\ total' = total
        BY <1>1, <1>6, <2>0 DEF RevertStep, world, Allocate
    <2>3. /\ row.step = "open" /\ row.state = "running" /\ row.generation = generation + 1
          /\ row.kind = Op.kind /\ row.runs = Op.runs /\ row.clone = Op.clone
          /\ row.original = Op.original /\ Onward(row, Op) /\ row.failure = Op.failure
          /\ row.bookmark = Op.bookmark
        BY <1>2, <2>0 DEF OpRecords, Onward, Kept
    <2>4. deployed = Op.original /\ ~Op.bookmark
        BY <1>3, <1>6 DEF Carries
    <2>5. (\A o : Shut(o)' <=> Shut(o)) /\ (\A o : Full(o)' <=> Full(o))
        BY <2>2, Unmoved DEF Shut, Full
    <2>10. (Drivable(t)' <=> Drivable(t)) /\ t = Top
        <3>1. t \in 1..Len(ops) /\ Onward(row, ops[t]) /\ ops' = [ops EXCEPT ![t] = row]
            BY <1>2, <2>0, <2>2, <2>3, Driven DEF Good, Write
        <3> QED BY <2>0, <3>1, RowAlike, AlikeBase DEF Good
    <2>6. Carries(t, row)'
        BY <1>2, <1>3, <1>6, <2>2, <2>3, <2>4, <2>5, <2>10 DEF Carries
    <2>7. PlaceOK(row, "step", <<>>)'
        BY <1>2, <2>3 DEF PlaceOK
    <2>8. \A q \in sent : q.kind = "arm" => q.object # serving'
        BY <1>2, <1>3, <2>2, <2>4 DEF Good, Sound, Harmless, Spares
    <2>9. row.generation = generation'
        BY <2>2, <2>3
    <2> QED BY <1>2, <1>3, <2>2, <2>3, <2>6, <2>7, <2>8, <2>9, <2>10, Repoints
<1> QED BY <1>5, <1>6

----------------------------------------------------------------------------
(* What the steps of the base begin with, and what its fence publishes *)

LEMMA AheadSets ==
  ASSUME NEW p, NEW q
  PROVE  Ahead(<<>>) = {} /\ Ahead(<<p>>) = {p} /\ Ahead(<<p, q>>) = {p, q}
<1>1. Len(<<>>) = 0 /\ Len(<<p>>) = 1 /\ Len(<<p, q>>) = 2
    OBVIOUS
<1>2. <<p>>[1] = p /\ <<p, q>>[1] = p /\ <<p, q>>[2] = q
    OBVIOUS
<1>3. 1..1 = {1} /\ 1..2 = {1, 2} /\ 1..0 = {}
    OBVIOUS
<1> QED BY <1>1, <1>2, <1>3 DEF Ahead

LEMMA PlainBegins ==
  ASSUME NEW row \in OpRecords, row.kind \in {"maintenance", "backup", "migrate"}, Stepped(row)
  PROVE  /\ Ahead(StepModes(row)) \subseteq {<<serving, row.mode>>}
         /\ row.kind = "maintenance" \/ row.step = "open" => Ahead(StepModes(row)) = {<<serving, row.mode>>}
         /\ Ahead(FenceModes(row)) = {<<serving, row.mode>>}
<1> DEFINE p == <<serving, row.mode>>
<1>1. StepModes(row) = <<p>> \/ StepModes(row) = <<>>
    BY Fields DEF StepModes, Stepped
<1>2. row.kind = "maintenance" \/ row.step = "open" => StepModes(row) = <<p>>
    BY Fields DEF StepModes, Stepped
<1>3. FenceModes(row) = <<p>>
    BY DEF FenceModes
<1>4. Ahead(<<p>>) = {p} /\ Ahead(<<>>) = {}
    BY AheadSets
<1> HIDE DEF p
<1>5. Ahead(FenceModes(row)) = {p}
    BY <1>3, <1>4, Zenon
<1>6. StepModes(row) = <<p>> => Ahead(StepModes(row)) = {p}
    BY <1>4, Zenon
<1>7. StepModes(row) = <<>> => Ahead(StepModes(row)) = {}
    BY <1>4, Zenon
<1>8. Ahead(StepModes(row)) \subseteq {p}
    BY <1>1, <1>6, <1>7
<1>9. row.kind = "maintenance" \/ row.step = "open" => Ahead(StepModes(row)) = {p}
    BY <1>2, <1>6
<1> QED BY <1>5, <1>8, <1>9 DEF p

LEMMA RestoreBegins ==
  ASSUME NEW row, row.kind = "restore"
  PROVE  /\ row.step = "restrict" => <<row.original, "read-only">> \in Ahead(StepModes(row))
         /\ row.step = "promote" => <<row.clone, "open">> \in Ahead(StepModes(row))
         /\ row.step = "open" => <<row.original, "open">> \in Ahead(StepModes(row))
         /\ row.step = "list" => <<row.original, "open">> \in Ahead(FenceModes(row))
         /\ row.step \in {"point", "serve", "rewind", "check"} => <<row.clone, "open">> \in Ahead(FenceModes(row))
<1> DEFINE at(m) == <<row.original, m>>
<1> DEFINE to(m) == <<row.clone, m>>
<1>1. row.step = "restrict" => StepModes(row) = << at("read-only") >>
    BY DEF StepModes
<1>2. row.step = "promote" => StepModes(row) = << to("open"), at("inspect") >>
    BY DEF StepModes
<1>3. row.step = "open" => StepModes(row) = (IF row.failure \in CloneOpenedCodes THEN << to("inspect") >> ELSE <<>>)
                                              \o << at("open") >>
    BY DEF StepModes
<1>4. row.step = "list" => FenceModes(row) = << at("open") >>
    BY DEF FenceModes
<1>5. row.step \in {"point", "serve", "rewind", "check"} => FenceModes(row) = << to("open"), at("inspect") >>
    BY DEF FenceModes
<1> HIDE DEF at, to
<1>6. row.step = "open" => StepModes(row) = << to("inspect"), at("open") >> \/ StepModes(row) = << at("open") >>
    BY <1>3, JoinAhead
<1>7. row.step = "restrict" => at("read-only") \in Ahead(StepModes(row))
    <2>1. Ahead(<< at("read-only") >>) = {at("read-only")}
        BY AheadSets
    <2> QED BY <1>1, <2>1, Zenon
<1>8. /\ Ahead(<< to("open"), at("inspect") >>) = {to("open"), at("inspect")}
      /\ Ahead(<< to("inspect"), at("open") >>) = {to("inspect"), at("open")}
      /\ Ahead(<< at("open") >>) = {at("open")}
    BY AheadSets
<1>9. row.step = "promote" => to("open") \in Ahead(StepModes(row))
    BY <1>2, <1>8, Zenon
<1>10. row.step = "open" => at("open") \in Ahead(StepModes(row))
    BY <1>6, <1>8, Zenon
<1>11. row.step = "list" => at("open") \in Ahead(FenceModes(row))
    BY <1>4, <1>8, Zenon
<1>12. row.step \in {"point", "serve", "rewind", "check"} => to("open") \in Ahead(FenceModes(row))
    <2> SUFFICES ASSUME row.step \in {"point", "serve", "rewind", "check"} PROVE to("open") \in Ahead(FenceModes(row))
        OBVIOUS
    <2>1. FenceModes(row) = << to("open"), at("inspect") >>
        BY <1>5
    <2> QED BY <1>8, <2>1, Zenon
<1> QED BY <1>7, <1>9, <1>10, <1>11, <1>12 DEF at, to

\* A step of the base begins.
LEMMA BeginsPlace ==
  ASSUME NEW row \in OpRecords, row.kind # "recovery", Stepped(row), PlaceOK(row, "step", <<>>),
         row.kind = "restore" /\ row.step \in {"import", "promote", "point", "serve"} => row.failure = "none"
  PROVE  PlaceOK(row, "acked", StepModes(row))
<1>1. ASSUME NEW o, NEW mode, Sure(o, mode, <<>>) PROVE Sure(o, mode, StepModes(row))
    BY <1>1, SureStays DEF Sure
<1>2. CASE row.kind = "restore"
    <2>1. \A o, mode : <<o, mode>> \in Ahead(StepModes(row)) => Sure(o, mode, StepModes(row))
        BY DEF Sure
    <2> QED BY <1>1, <1>2, <2>1, RestoreBegins DEF PlaceOK
<1>3. CASE row.kind \in {"maintenance", "backup", "migrate"}
    <2>1. Ahead(StepModes(row)) \subseteq {<<serving, row.mode>>}
        BY <1>3, PlainBegins
    <2>2. row.kind = "maintenance" \/ row.step = "open" => Sure(serving, row.mode, StepModes(row))
        BY <1>3, PlainBegins DEF Sure
    <2>3. row.kind \in {"backup", "migrate"} /\ row.step = "open" => row.mode = "open"
        BY DEF Stepped
    <2> QED BY <1>1, <1>3, <2>1, <2>2, <2>3 DEF PlaceOK
<1> QED BY <1>2, <1>3, Fields DEF AllKinds

\* A successor of the base publishes its fence.
LEMMA FencesPlace ==
  ASSUME NEW row \in OpRecords, row.kind # "recovery", Stepped(row)
  PROVE  PlaceOK(row, "step", FenceModes(row))
<1>1. CASE row.kind = "restore"
    <2>1. \A o, mode : <<o, mode>> \in Ahead(FenceModes(row)) => Sure(o, mode, FenceModes(row))
        BY DEF Sure
    <2> QED BY <1>1, <2>1, RestoreBegins DEF PlaceOK
<1>2. CASE row.kind \in {"maintenance", "backup", "migrate"}
    <2>1. Ahead(FenceModes(row)) = {<<serving, row.mode>>}
        BY <1>2, PlainBegins
    <2>2. Sure(serving, row.mode, FenceModes(row))
        BY <2>1 DEF Sure
    <2>3. row.kind = "backup" /\ row.step = "verify" => row.mode = "open"
        BY DEF Stepped
    <2> QED BY <1>2, <2>1, <2>2, <2>3 DEF PlaceOK
<1> QED BY <1>1, <1>2, Fields DEF AllKinds

\* The holder moves, and no record does.
LEMMA WritesSame ==
  ASSUME IInv, drv.stack # <<>>, UNCHANGED ops
  PROVE  Write(Op) /\ Onward(Op, Op)
<1>1. Top \in 1..Len(ops) /\ ops \in Seq(OpRecords) /\ Op = ops[Top]
    BY TopIn DEF IInv, Records, Types, Op
<1>2. ops = [ops EXCEPT ![Top] = ops[Top]]
    BY <1>1
<1> QED BY <1>1, <1>2 DEF Write, Onward, Kept

LEMMA BeginBaseSound == Good /\ BeginStep /\ Op.kind # "recovery" => Sound'
<1> SUFFICES ASSUME Good, BeginStep, Op.kind # "recovery" PROVE Sound'
    OBVIOUS
<1>1. /\ At(Op.kind, Op.step, "step") /\ ~RecordedFailure /\ To("acked", StepModes(Op)) /\ drv.stack # <<>>
      /\ UNCHANGED <<ops, generation, pointer, world, stops>>
    BY DEF BeginStep
<1>2. /\ Op \in OpRecords /\ BaseOK(Top, Op) /\ Op.generation = generation /\ PlaceOK(Op, "step", <<>>)
      /\ Op.state = "running"
    BY <1>1, AtStep DEF Good
<1>3. Stepped(Op)
    BY <1>1, TopIn DEF Good, RowOK
<1>4. PlaceOK(Op, "acked", StepModes(Op))
    BY <1>1, <1>2, <1>3, BeginsPlace DEF RecordedFailure
<1>5. Write(Op) /\ Onward(Op, Op)
    BY <1>1, WritesSame DEF Good
<1>6. Quiet /\ generation' = generation
    BY <1>1, QuietWorld DEF pointer
<1> QED BY <1>1, <1>2, <1>4, <1>5, <1>6, Goes DEF Good

\* The record at a fresh generation.
Refreshed(row, old) ==
  /\ row.generation = generation + 1 /\ row.state = old.state /\ row.kind = old.kind
  /\ row.step = old.step /\ row.mode = old.mode /\ row.original = old.original /\ row.clone = old.clone
  /\ row.failure = old.failure /\ row.runs = old.runs /\ row.bookmark = old.bookmark /\ row.dump = old.dump
  /\ Onward(row, old)

LEMMA Refreshes ==
  ASSUME NEW old \in OpRecords, NEW row, row = [old EXCEPT !.generation = generation + 1]
  PROVE  Refreshed(row, old)
BY DEF Refreshed, OpRecords, Onward, Kept

LEMMA Fenced ==
  ASSUME Good, NEW i \in 1..Len(ops), Base(i), NEW row, Refreshed(row, ops[i]),
         ops' = [ops EXCEPT ![i] = row], Quiet, NEW todo, todo = FenceModes(ops[i])
  PROVE  /\ Linked' /\ Grounded' /\ Harmless' /\ OneRun'
         /\ PlaceOK(row, "step", todo)' /\ Len(ops') = Len(ops)
         /\ \A k \in 1..Len(ops) : ops'[k] = IF k = i THEN row ELSE ops[k]
         /\ row.generation = generation + 1 /\ row.state = ops[i].state /\ row.kind = ops[i].kind
<1>1. ops \in Seq(OpRecords) /\ ops[i] \in OpRecords /\ Stepped(ops[i]) /\ BaseOK(i, ops[i])
    BY DEF Good, IInv, Records, Types, Rows, RowOK, Sound, Grounded
<1>2. ops' = [ops EXCEPT ![i] = row] /\ IInv
    BY DEF Good
<1>3. /\ row.generation = generation + 1 /\ row.state = ops[i].state /\ row.kind = ops[i].kind
      /\ row.step = ops[i].step /\ row.mode = ops[i].mode
      /\ row.original = ops[i].original /\ row.clone = ops[i].clone /\ row.failure = ops[i].failure
      /\ row.runs = ops[i].runs /\ row.bookmark = ops[i].bookmark /\ row.dump = ops[i].dump
      /\ Onward(row, ops[i])
    BY DEF Refreshed
<1>4. BaseOK(i, row)
    BY <1>1, <1>3 DEF BaseOK, Carries, Waits, Begun
<1>5. /\ Linked' /\ Grounded' /\ Harmless' /\ OneRun'
    BY <1>2, <1>3, <1>4, RowQuiet DEF Good
<1>6. /\ Alike /\ Len(ops') = Len(ops)
      /\ \A k \in 1..Len(ops) : ops'[k] = IF k = i THEN row ELSE ops[k]
    <2>1. Onward(row, ops[i])
        BY <1>3
    <2> QED BY <1>2, <2>1, RowAlike
<1>7. PlaceOK(ops[i], "step", todo)
    BY <1>1, FencesPlace DEF Base
<1>8. PlaceOK(row, "step", todo)
    BY <1>3, <1>7 DEF PlaceOK
<1>9. PlaceOK(row, "step", todo)'
    BY <1>6, <1>8, QuietSame DEF Good
<1> QED BY <1>3, <1>5, <1>6, <1>9

LEMMA ResumeSound == Good /\ Resume => Sound'
<1> SUFFICES ASSUME Good, Resume PROVE Sound'
    OBVIOUS
<1>1. /\ ops # <<>> /\ Latest.state = "running" /\ Latest.kind \in {"restore", "migrate", "backup"}
      /\ generation' = generation + 1 /\ ops' = [ops EXCEPT ![Len(ops)].generation = generation + 1]
      /\ drv' = [Idle EXCEPT !.stack = <<Len(ops)>>, !.todo = FenceModes(Latest)]
      /\ UNCHANGED <<pointer, world, stops>>
    BY DEF Resume, Allocate
<1>2. PICK i, row, todo : /\ i = Len(ops) /\ row = [ops[i] EXCEPT !.generation = generation + 1]
                          /\ todo = FenceModes(ops[i])
    OBVIOUS
<1>3. i \in 1..Len(ops) /\ Len(ops) \in Nat
    BY <1>1, <1>2 DEF Good, IInv, Records, Types
<1>4. Base(i) /\ ops[i] = Latest
    BY <1>1, <1>2, <1>3 DEF Base, Latest
<1>5. Quiet
    BY <1>1, QuietWorld DEF pointer
<1>6. ops' = [ops EXCEPT ![i] = row] /\ Refreshed(row, ops[i])
    <2>1. ops \in Seq(OpRecords) /\ ops[i] \in OpRecords
        BY <1>3 DEF Good, IInv, Records, Types
    <2> QED BY <1>1, <1>2, <1>3, <2>1, Refreshes
<1>7. /\ Linked' /\ Grounded' /\ Harmless' /\ OneRun'
      /\ PlaceOK(row, "step", todo)' /\ Len(ops') = Len(ops)
      /\ \A k \in 1..Len(ops) : ops'[k] = IF k = i THEN row ELSE ops[k]
      /\ row.generation = generation + 1 /\ row.state = ops[i].state /\ row.kind = ops[i].kind
    <2>1. i \in 1..Len(ops) /\ Base(i) /\ todo = FenceModes(ops[i])
        BY <1>2, <1>3, <1>4
    <2> QED BY <1>5, <1>6, <2>1, Fenced
<1>8. drv'.stack = <<i>> /\ drv'.pc = "step" /\ drv'.todo = todo
    BY <1>1, <1>2 DEF Idle, Latest
<1>9. Latest' = row /\ Op' = row /\ Top' = i /\ ops' # <<>>
    BY <1>2, <1>3, <1>7, <1>8 DEF Latest, Op, Top
<1>10. Finals'
    <2>1. EndOK(Latest)'
        BY <1>1, <1>4, <1>7, <1>9 DEF EndOK
    <2> QED BY <1>1, <1>4, <1>7, <1>9, <2>1 DEF Finals
<1>11. Driving'
    BY <1>1, <1>2, <1>4, <1>7, <1>8, <1>9 DEF Driving
<1>12. Placed'
    BY <1>1, <1>4, <1>7, <1>8, <1>9 DEF Placed
<1> QED BY <1>7, <1>10, <1>11, <1>12 DEF Sound

LEMMA AtRecovery ==
  ASSUME Good, NEW step, NEW pc, At("recovery", step, pc)
  PROVE  /\ drv.stack # <<>> /\ Op.kind = "recovery" /\ Op.step = step /\ Op.state = "running" /\ drv.pc = pc
         /\ drv.todo = <<>> /\ Op \in OpRecords /\ Top = Len(ops) /\ Op = Latest /\ Op = ops[Top]
         /\ Top \in 1..Len(ops) /\ Len(ops) \in Nat /\ Len(drv.stack) = 1 /\ drv.stack[1] = Len(ops)
         /\ RecoveryOK(Op, pc, <<>>) /\ Op.recovers = Len(ops) - 1 /\ Op.recovers \in 1..Len(ops) /\ ops # <<>>
         /\ Op.resolution \in {"open", "resume"} /\ (Op.resolution = "resume" => ops[Op.recovers].kind # "recovery")
<1>1. /\ drv.stack # <<>> /\ Op.kind = "recovery" /\ Op.step = step /\ Op.state = "running"
      /\ drv.pc = pc /\ drv.todo = <<>>
    BY DEF At
<1>2. /\ Top = Len(ops) /\ Op = Latest /\ RecoveryOK(Op, drv.pc, drv.todo) /\ Op = ops[Top] /\ Top \in 1..Len(ops)
      /\ Len(ops) \in Nat /\ Len(drv.stack) = 1 /\ drv.stack[1] = Len(ops) /\ ops # <<>>
    BY <1>1, Driven DEF Good
<1>3. Op \in OpRecords /\ RowOK(Top, Op, generation)
    BY <1>1, TopIn DEF Good
<1>4. Op.recovers = Len(ops) - 1 /\ Op.recovers # 0
    BY <1>1, <1>2, <1>3 DEF RowOK, Good, Straight
<1>5. Op.recovers \in 1..Len(ops)
    BY <1>2, <1>4
<1>6. Op.resolution \in {"open", "resume"}
    BY <1>1, <1>2 DEF Good, Sound, Linked
<1>7. Op.resolution = "resume" => ops[Op.recovers].kind # "recovery"
    BY <1>1, <1>2, <1>4 DEF Good, Straight
<1> QED BY <1>1, <1>2, <1>3, <1>4, <1>5, <1>6, <1>7

LEMMA RecoveryResumesSound == Good /\ RecoveryResumes => Sound'
<1> SUFFICES ASSUME Good, RecoveryResumes PROVE Sound'
    OBVIOUS
<1>1. At("recovery", "resume", "step") /\ ops[Op.recovers].state = "running"
    BY DEF RecoveryResumes
<1>2. PICK i, row, todo, n : /\ i = Op.recovers /\ row = [ops[i] EXCEPT !.generation = generation + 1]
                             /\ todo = FenceModes(ops[i]) /\ n = Len(ops)
    OBVIOUS
<1>3. /\ drv.stack # <<>> /\ Op.kind = "recovery" /\ Op.step = "resume" /\ Op.state = "running" /\ drv.pc = "step"
      /\ Top = n /\ Op = Latest /\ Op = ops[n] /\ n \in 1..Len(ops) /\ Len(ops) = n /\ n \in Nat
      /\ Len(drv.stack) = 1 /\ drv.stack[1] = n /\ RecoveryOK(Op, "step", <<>>) /\ i = n - 1 /\ i \in 1..n /\ ops # <<>>
    BY <1>1, <1>2, AtRecovery
<1>4. Op.resolution = "resume"
    BY <1>3 DEF RecoveryOK
<1>5. ops[i].kind # "recovery"
    BY <1>1, <1>2, <1>4, AtRecovery
<1>6. Base(i)
    BY <1>3, <1>5 DEF Base
<1>7. ops[i].step # "reconcile"
    <2>1. ops[i] \in OpRecords /\ Stepped(ops[i])
        BY <1>3 DEF Good, IInv, Records, Types, Rows, RowOK
    <2> QED BY <1>5, <2>1, Fields DEF Stepped, AllKinds, RestoreSteps
<1>8. /\ generation' = generation + 1 /\ ops' = [ops EXCEPT ![i].generation = generation + 1]
      /\ drv' = [drv EXCEPT !.stack = Append(@, i), !.todo = todo] /\ UNCHANGED <<pointer, world, stops>>
    BY <1>2, <1>7 DEF RecoveryResumes, Allocate
<1>9. Quiet
    BY <1>8, QuietWorld DEF pointer
<1>10. /\ Linked' /\ Grounded' /\ Harmless' /\ OneRun'
       /\ PlaceOK(row, "step", todo)' /\ Len(ops') = Len(ops)
       /\ \A k \in 1..Len(ops) : ops'[k] = IF k = i THEN row ELSE ops[k]
       /\ row.generation = generation + 1 /\ row.state = ops[i].state /\ row.kind = ops[i].kind
    <2>1. i \in 1..Len(ops) /\ todo = FenceModes(ops[i]) /\ ops \in Seq(OpRecords)
        BY <1>2, <1>3 DEF Good, IInv, Records, Types
    <2>2. ops' = [ops EXCEPT ![i] = row] /\ Refreshed(row, ops[i])
        BY <1>2, <1>8, <2>1, Refreshes
    <2> QED BY <1>6, <1>9, <2>1, <2>2, Fenced
<1>11. /\ Len(drv'.stack) = 2 /\ drv'.stack[1] = n /\ drv'.stack[2] = i /\ drv'.pc = "step" /\ drv'.todo = todo
    <2>1. drv \in Drivers /\ drv.stack \in Seq(1..Len(ops))
        BY <1>3, TopIn DEF Good, IInv, Holder
    <2>2. drv'.stack = Append(drv.stack, i) /\ drv'.pc = drv.pc /\ drv'.todo = todo
        BY <1>8, <2>1 DEF Drivers
    <2> QED BY <1>3, <2>1, <2>2
<1>12. Latest' = Latest /\ Op' = row /\ Top' = i /\ ops' # <<>>
    <2>1. Top' = i
        BY <1>11 DEF Top
    <2> QED BY <1>3, <1>10, <2>1 DEF Latest, Op
<1>13. Latest.state = "running" /\ Latest.kind = "recovery" /\ Latest.step = "resume" /\ Latest.resolution = "resume"
       /\ row.state = "running" /\ row.kind # "recovery"
    BY <1>1, <1>2, <1>3, <1>4, <1>5, <1>10
<1>14. Finals'
    <2>1. EndOK(Latest)'
        BY <1>12, <1>13 DEF EndOK
    <2>2. ops'[Len(ops') - 1].state = "running"
        BY <1>3, <1>10, <1>13
    <2>3. EndOK(ops[Len(ops) - 1])'
        BY <2>2 DEF EndOK
    <2> QED BY <1>12, <1>13, <2>1, <2>2, <2>3 DEF Finals
<1>15. Driving'
    BY <1>3, <1>8, <1>10, <1>11, <1>12, <1>13 DEF Driving
<1>16. Placed'
    BY <1>10, <1>11, <1>12, <1>13 DEF Placed
<1> QED BY <1>10, <1>14, <1>15, <1>16 DEF Sound

----------------------------------------------------------------------------
(* The steps of a recovery *)

\* The operation a recovery opens past is the base.
LEMMA PastBase ==
  ASSUME Good, drv.stack # <<>>, Op.kind = "recovery"
  PROVE  /\ Base(Past) /\ Past \in 1..Len(ops) /\ Past # Len(ops)
         /\ BaseOK(Past, ops[Past]) /\ ops[Past] \in OpRecords /\ ops[Past].original # ops[Past].clone
         /\ \A b : Base(b) => b = Past
<1>1. /\ Top = Len(ops) /\ Op = Latest /\ Top \in 1..Len(ops) /\ Len(ops) \in Nat /\ Op = ops[Top]
    BY Driven DEF Good
<1>2. /\ Op.recovers = Len(ops) - 1 /\ Op.recovers \in 1..Len(ops) /\ Records
    BY <1>1, RecoversIn DEF Good, Straight, IInv
<1>3. Past \in 1..Len(ops) /\ Past \in Chain(Op.recovers) /\ ops[Past].recovers = 0
    BY <1>2, RecoveredIn DEF Past
<1>4. ops[Past].kind # "recovery" /\ Past # Len(ops)
    BY <1>1, <1>2, <1>3 DEF Records, Rows, RowOK
<1>5. ASSUME NEW j \in 1..Len(ops), j > Past, ops[j].kind # "recovery" PROVE FALSE
    <2> DEFINE S == j..(Len(ops) - 1)
    <2>1. j # Len(ops)
        BY <1>1, <1>5
    <2>2. S \in SUBSET (1..Len(ops)) /\ Op.recovers \in S
        BY <1>1, <1>2, <2>1
    <2>3. ASSUME NEW k \in S PROVE ops[k].recovers \in S \cup {0}
        <3>1. k \in 1..Len(ops) /\ k \in Nat /\ (k # j => k - 1 \in S)
            BY <1>1, <2>1
        <3>2. CASE ops[k].kind # "recovery"
            BY <3>1, <3>2 DEF Good, Sound, Linked
        <3>3. CASE ops[k].kind = "recovery"
            BY <1>5, <3>1, <3>3 DEF Good, Straight
        <3> QED BY <3>2, <3>3
    <2>4. Past \in S
        BY <1>3, <2>2, <2>3 DEF Chain
    <2> QED BY <1>1, <1>3, <1>5, <2>4
<1>6. Base(Past)
    BY <1>3, <1>4, <1>5 DEF Base
<1>7. BaseOK(Past, ops[Past]) /\ ops[Past] \in OpRecords /\ ops[Past].original # ops[Past].clone
    BY <1>3, <1>6, PastIn DEF Good, Sound, Grounded
<1>8. \A b : Base(b) => b = Past
    BY <1>1, <1>6, OneBase
<1> QED BY <1>3, <1>4, <1>6, <1>7, <1>8

\* A record moves, and what a recovery relies on stays.
LEMMA BesideRows ==
  ASSUME IInv, NEW i \in 1..Len(ops), NEW row, Onward(row, ops[i]), ops' = [ops EXCEPT ![i] = row],
         Base(i) => row.failure = ops[i].failure
  PROVE  \A b \in 1..Len(ops) : Base(b) =>
           /\ ops'[b].kind = ops[b].kind /\ ops'[b].runs = ops[b].runs /\ ops'[b].failure = ops[b].failure
           /\ ops'[b].original = ops[b].original /\ ops'[b].clone = ops[b].clone
<1>1. \A k \in 1..Len(ops) : ops'[k] = IF k = i THEN row ELSE ops[k]
    BY RowAlike
<1> QED BY <1>1 DEF Onward, Kept

LEMMA BesideEnd ==
  ASSUME IInv, NEW i \in 1..Len(ops), NEW row, Onward(row, ops[i]), ops' = [ops EXCEPT ![i] = row],
         Base(i) => row.failure = ops[i].failure, Quiet, NEW r, EndOK(r)
  PROVE  EndOK(r)'
<1>1. Alike /\ Len(ops') = Len(ops)
    BY RowAlike
<1>2. /\ \A b : Base(b)' <=> Base(b)
      /\ Stays(serving, "open")' <=> Stays(serving, "open")
      /\ \A x : (Landed(x)' <=> Landed(x)) /\ (Remains(x)' <=> Remains(x))
    BY <1>1, AlikeBase, QuietSame DEF Quiet
<1>3. \A b \in 1..Len(ops) : Base(b) =>
        /\ ops'[b].kind = ops[b].kind /\ ops'[b].runs = ops[b].runs /\ ops'[b].failure = ops[b].failure
        /\ ops'[b].original = ops[b].original /\ ops'[b].clone = ops[b].clone
    BY BesideRows
<1>4. ASSUME NEW b \in 1..Len(ops'), Base(b)', Begun(ops'[b]), r.state # "running"
      PROVE  Landed(ops[b])' /\ (OpenOf(r) => Remains(ops[b])')
    <2>1. Base(b) /\ Begun(ops[b])
        BY <1>1, <1>2, <1>3, <1>4 DEF Begun
    <2>2. Landed(ops[b]) /\ (OpenOf(r) => Remains(ops[b]))
        BY <1>1, <1>4, <2>1 DEF EndOK
    <2>3. serving' = serving /\ deployed' = deployed
        BY DEF Quiet
    <2> QED BY <1>1, <1>3, <2>1, <2>2, <2>3 DEF Landed, Remains
<1> QED BY <1>2, <1>4 DEF EndOK, OpenOf, ReopenedCodes, Begun

LEMMA BesideRecovery ==
  ASSUME IInv, NEW i \in 1..Len(ops), NEW row, Onward(row, ops[i]), ops' = [ops EXCEPT ![i] = row],
         Base(i) => row.failure = ops[i].failure, Quiet, NEW r, NEW pc, NEW todo, RecoveryOK(r, pc, todo),
         r.step = "resume" /\ pc = "acked" => i # Len(ops) - 1 /\ Len(ops) - 1 \in 1..Len(ops)
  PROVE  RecoveryOK(r, pc, todo)'
<1>1. Alike /\ Len(ops') = Len(ops) /\ Len(ops) \in Nat /\ \A k \in 1..Len(ops) : ops'[k] = IF k = i THEN row ELSE ops[k]
    BY RowAlike
<1>2. /\ \A b : Base(b)' <=> Base(b)
      /\ \A o, mode : Stays(o, mode)' <=> Stays(o, mode)
      /\ serving' = serving /\ deployed' = deployed
    BY <1>1, AlikeBase, QuietSame DEF Quiet
<1>3. \A b \in 1..Len(ops) : Base(b) =>
        /\ ops'[b].kind = ops[b].kind /\ ops'[b].runs = ops[b].runs /\ ops'[b].failure = ops[b].failure
        /\ ops'[b].original = ops[b].original /\ ops'[b].clone = ops[b].clone
    BY BesideRows
<1>4. \A o, mode, t : Sure(o, mode, t)' <=> Sure(o, mode, t)
    BY <1>2 DEF Sure, Ahead
<1>5. Ahead(todo)' = Ahead(todo)
    BY DEF Ahead
<1>6. r.step = "open" =>
        /\ r.resolution = "open" /\ \A p \in Ahead(todo) : p = <<serving, "open">>
        /\ pc = "acked" => Sure(serving, "open", todo)'
        /\ \A b \in 1..Len(ops) : Base(b) /\ ops'[b].kind = "restore" =>
             pc = "acked" /\ todo = <<>> /\ (Begun(ops[b])' => Landed(ops[b])' /\ Remains(ops[b])')
    <2> SUFFICES ASSUME r.step = "open"
                 PROVE  /\ r.resolution = "open" /\ \A p \in Ahead(todo) : p = <<serving, "open">>
                        /\ pc = "acked" => Sure(serving, "open", todo)'
                        /\ \A b \in 1..Len(ops) : Base(b) /\ ops'[b].kind = "restore" =>
                             pc = "acked" /\ todo = <<>> /\ (Begun(ops[b])' => Landed(ops[b])' /\ Remains(ops[b])')
        OBVIOUS
    <2>1. /\ r.resolution = "open" /\ \A p \in Ahead(todo) : p = <<serving, "open">>
          /\ pc = "acked" => Sure(serving, "open", todo)'
        BY <1>2, <1>4 DEF RecoveryOK
    <2>2. ASSUME NEW b \in 1..Len(ops), Base(b), ops'[b].kind = "restore"
          PROVE  pc = "acked" /\ todo = <<>> /\ (Begun(ops[b])' => Landed(ops[b])' /\ Remains(ops[b])')
        <3>1. pc = "acked" /\ todo = <<>> /\ (Begun(ops[b]) => Landed(ops[b]) /\ Remains(ops[b]))
            BY <1>3, <2>2 DEF RecoveryOK
        <3>2. Begun(ops[b])' <=> Begun(ops[b])
            BY <1>3, <2>2 DEF Begun
        <3> QED BY <1>2, <1>3, <2>2, <3>1, <3>2 DEF Landed, Remains
    <2> QED BY <2>1, <2>2
<1>7. pc \in {"kept", "revert", "settle"} =>
        /\ r.step = "restrict" /\ r.resolution = "open"
        /\ \A b \in 1..Len(ops) : Base(b) => Passes(ops[b], pc, todo)'
    <2> SUFFICES ASSUME pc \in {"kept", "revert", "settle"}
                 PROVE  /\ r.step = "restrict" /\ r.resolution = "open"
                        /\ \A b \in 1..Len(ops) : Base(b) => Passes(ops[b], pc, todo)'
        OBVIOUS
    <2>1. ASSUME NEW b \in 1..Len(ops), Base(b) PROVE Passes(ops[b], pc, todo)'
        <3>1. Passes(ops[b], pc, todo)
            BY <2>1 DEF RecoveryOK
        <3>2. Begun(ops[b])' <=> Begun(ops[b])
            BY <1>3, <2>1 DEF Begun
        <3> QED BY <1>2, <1>3, <1>4, <1>5, <2>1, <3>1, <3>2 DEF Passes
    <2> QED BY <2>1 DEF RecoveryOK
<1>8. r.step = "resume" /\ pc = "acked" =>
        ops'[Len(ops) - 1].state = "succeeded" /\ r.mode = ops'[Len(ops) - 1].mode
    BY <1>1 DEF RecoveryOK
<1>9. /\ r.step \in {"reconcile", "resume"} \/ pc = "step" => todo = <<>>
      /\ r.step = "restrict" /\ pc = "acked" =>
           /\ \A p \in Ahead(todo) : p = <<serving, "closed">>
           /\ r.resolution = "open" => \A b \in 1..Len(ops) : Base(b) => ops'[b].kind # "restore"
      /\ r.step = "resume" => r.resolution = "resume"
      /\ pc # "arm"
    BY <1>3 DEF RecoveryOK
<1> QED BY <1>1, <1>2, <1>5, <1>6, <1>7, <1>8, <1>9 DEF RecoveryOK

LEMMA RecoveryDriven ==
  ASSUME Good, drv.stack # <<>>, Op.kind = "recovery"
  PROVE  /\ Len(ops) \in Nat /\ Top = Len(ops) /\ Op = ops[Len(ops)] /\ Len(ops) \in 1..Len(ops) /\ ops # <<>>
         /\ Op = Latest /\ Op.state = "running" /\ Len(drv.stack) = 1 /\ drv.stack[1] = Len(ops) /\ ~Base(Len(ops))
         /\ RecoveryOK(Op, drv.pc, drv.todo) /\ Op \in OpRecords /\ Stepped(Op)
         /\ Len(ops) - 1 \in 1..Len(ops) /\ Op.recovers = Len(ops) - 1
         /\ Op.generation = generation \/ Op.step = "resume"
         /\ Op.resolution = "resume" => /\ Op.step # "resume" => ops[Len(ops) - 1].state = "running"
                                        /\ EndOK(ops[Len(ops) - 1])
<1>1. /\ Len(ops) \in Nat /\ Top = Len(ops) /\ Op = ops[Len(ops)] /\ Len(ops) \in 1..Len(ops) /\ ops # <<>>
      /\ Op = Latest /\ Op.state = "running" /\ drv.stack[1] = Len(ops) /\ RecoveryOK(Op, drv.pc, drv.todo)
      /\ Len(drv.stack) = 1
    BY Driven DEF Good
<1>2. Op \in OpRecords /\ Stepped(Op) /\ Op.recovers = Len(ops) - 1 /\ Len(ops) - 1 \in 1..Len(ops)
    <2>1. Op \in OpRecords /\ Stepped(Op) /\ Op.recovers \in 1..Len(ops)
        BY TopIn, RecoversIn DEF Good, RowOK
    <2>2. Op.recovers = Len(ops) - 1
        BY <1>1 DEF Good, Straight
    <2> QED BY <2>1, <2>2
<1>3. ~Base(Len(ops))
    BY <1>1 DEF Base
<1>4. Op.generation = generation \/ Op.step = "resume"
    BY DEF Good, Sound, Driving
<1>5. Op.resolution = "resume" => /\ Op.step # "resume" => ops[Len(ops) - 1].state = "running"
                                  /\ EndOK(ops[Len(ops) - 1])
    BY <1>1 DEF Good, Sound, Finals
<1> QED BY <1>1, <1>2, <1>3, <1>4, <1>5

\* A recovery moves on under its holder.
LEMMA RecoveryGoesOn ==
  ASSUME Good, drv.stack # <<>>, Op.kind = "recovery", NEW row, NEW pc, NEW todo,
         Write(row), To(pc, todo), Onward(row, Op), row.state = "running",
         row.generation = generation' \/ row.step = "resume",
         Linked', Grounded', Harmless', OneRun', RecoveryOK(row, pc, todo)',
         row.resolution = "resume" => /\ row.step # "resume" => ops[Len(ops) - 1].state = "running"
                                      /\ EndOK(ops[Len(ops) - 1])'
  PROVE  Sound'
<1>1. /\ Len(ops) \in Nat /\ Top = Len(ops) /\ Op = ops[Len(ops)] /\ Len(ops) \in 1..Len(ops) /\ ops # <<>>
      /\ Len(drv.stack) = 1 /\ drv.stack[1] = Len(ops) /\ Len(ops) - 1 \in 1..Len(ops)
    BY RecoveryDriven
<1>2. PICK n : n = Len(ops)
    OBVIOUS
<1>3. ops' = [ops EXCEPT ![n] = row] /\ n \in 1..Len(ops) /\ Onward(row, ops[n])
    BY <1>1, <1>2 DEF Write
<1>4. /\ Len(ops') = n /\ \A k \in 1..n : ops'[k] = IF k = n THEN row ELSE ops[k]
    BY <1>2, <1>3, RowAlike DEF Good
<1>5. drv'.stack = drv.stack /\ drv'.pc = pc /\ drv'.todo = todo /\ ops' # <<>>
    <2>1. drv \in Drivers
        BY DEF Good, IInv, Holder
    <2>2. ops' # <<>>
        BY <1>1, <1>2, <1>4
    <2> QED BY <2>1, <2>2 DEF To, Drivers
<1>6. Op' = row /\ Latest' = row /\ row.kind = "recovery"
    BY <1>1, <1>2, <1>4, <1>5 DEF Op, Top, Latest, Onward, Kept
<1>7. Finals'
    <2>1. EndOK(Latest)'
        BY <1>6 DEF EndOK
    <2>2. ops'[n - 1] = ops[n - 1]
        BY <1>1, <1>2, <1>4
    <2> QED BY <1>2, <1>4, <1>5, <1>6, <2>1, <2>2 DEF Finals
<1>8. Driving'
    BY <1>1, <1>2, <1>4, <1>5, <1>6 DEF Driving
<1>9. Placed'
    BY <1>5, <1>6 DEF Placed
<1> QED BY <1>7, <1>8, <1>9 DEF Sound

LEMMA RecoveryGoes ==
  ASSUME Good, drv.stack # <<>>, Op.kind = "recovery", NEW row, NEW pc, NEW todo,
         Write(row), To(pc, todo), Onward(row, Op), row.state = "running",
         row.generation = generation' \/ row.step = "resume", Quiet, RecoveryOK(row, pc, todo),
         row.step # "resume" => Op.step # "resume"
  PROVE  Sound'
<1>1. /\ Len(ops) \in Nat /\ Top = Len(ops) /\ Op = ops[Len(ops)] /\ Len(ops) \in 1..Len(ops)
      /\ Len(ops) - 1 \in 1..Len(ops) /\ ~Base(Len(ops))
      /\ Op.resolution = "resume" => /\ Op.step # "resume" => ops[Len(ops) - 1].state = "running"
                                     /\ EndOK(ops[Len(ops) - 1])
    BY RecoveryDriven
<1>2. PICK n, r : n = Len(ops) /\ r = ops[n - 1]
    OBVIOUS
<1>3. ops' = [ops EXCEPT ![n] = row] /\ n \in 1..Len(ops) /\ Onward(row, ops[n]) /\ ~Base(n) /\ IInv
    BY <1>1, <1>2 DEF Write, Good
<1>4. Linked' /\ Grounded' /\ Harmless' /\ OneRun'
    BY <1>3, RowQuiet DEF Good
<1>5. RecoveryOK(row, pc, todo)'
    <2>1. n # Len(ops) - 1 /\ Len(ops) - 1 \in 1..Len(ops)
        BY <1>1, <1>2
    <2> QED BY <1>3, <2>1, BesideRecovery
<1>6. row.resolution = "resume" => EndOK(ops[Len(ops) - 1])'
    <2> SUFFICES ASSUME row.resolution = "resume" PROVE EndOK(ops[Len(ops) - 1])'
        OBVIOUS
    <2>1. EndOK(r)
        BY <1>1, <1>2 DEF Onward
    <2>2. EndOK(r)'
        BY <1>3, <2>1, BesideEnd
    <2>3. ops'[Len(ops') - 1] = r
        BY <1>1, <1>2, <1>3, RowAlike
    <2> QED BY <2>2, <2>3
<1>7. row.resolution = "resume" => (row.step # "resume" => ops[Len(ops) - 1].state = "running")
    BY <1>1 DEF Onward
<1> QED BY <1>4, <1>5, <1>6, <1>7, RecoveryGoesOn

\* A recovery ends under its holder.
LEMMA RecoveryFinishes ==
  ASSUME Good, drv.stack # <<>>, Op.kind = "recovery",
         NEW state \in {"succeeded", "failed"}, NEW code, End(state, code), Quiet,
         Opens(state, code) => Stays(serving, "open"),
         Begun(ops[Past]) => Landed(ops[Past]) /\ (Opens(state, code) => Remains(ops[Past]))
  PROVE  Sound'
<1>1. /\ Len(ops) \in Nat /\ Top = Len(ops) /\ Op = ops[Len(ops)] /\ Len(ops) \in 1..Len(ops)
      /\ ~Base(Len(ops)) /\ Op \in OpRecords /\ Len(drv.stack) = 1
    BY RecoveryDriven
<1>2. PICK n, row : n = Len(ops) /\ row = [Op EXCEPT !.state = state, !.code = code]
    OBVIOUS
<1>3. /\ Onward(row, Op) /\ row.state = state /\ row.code = code /\ row.mode = Op.mode
    BY <1>1, <1>2 DEF OpRecords, Onward, Kept
<1>4. ops' = [ops EXCEPT ![n] = row] /\ n \in 1..Len(ops) /\ Onward(row, ops[n]) /\ ~Base(n) /\ IInv
    BY <1>1, <1>2, <1>3 DEF Write, Good, End
<1>5. Linked' /\ Grounded' /\ Harmless' /\ OneRun'
    BY <1>4, RowQuiet DEF Good
<1>6. OpenOf(row) <=> Opens(state, code)
    BY <1>3 DEF OpenOf, Opens
<1>7. EndOK(row)
    <2>1. ASSUME NEW b \in 1..Len(ops), Base(b), Begun(ops[b])
          PROVE  Landed(ops[b]) /\ (OpenOf(row) => Remains(ops[b]))
        BY <1>6, <2>1, PastBase
    <2> QED BY <1>6, <2>1 DEF EndOK
<1>8. EndOK(row)'
    BY <1>4, <1>7, BesideEnd
<1>9. Latest' = row /\ ops' # <<>>
    <2>1. Len(ops') = n /\ ops'[n] = row
        BY <1>2, <1>4, RowAlike
    <2> QED BY <1>1, <1>2, <2>1 DEF Latest
<1>10. Finals'
    BY <1>3, <1>8, <1>9 DEF Finals
<1>11. drv'.stack = <<>>
    <2>1. drv'.stack = SubSeq(drv.stack, 1, Len(drv.stack) - 1)
        BY DEF End, Idle
    <2> QED BY <1>1, <2>1
<1> QED BY <1>5, <1>10, <1>11 DEF Sound, Driving, Placed

LEMMA ReconcileSound == Good /\ Reconcile => Sound'
<1> SUFFICES ASSUME Good, Reconcile PROVE Sound'
    OBVIOUS
<1>1. /\ At("recovery", "reconcile", "acked") /\ Advance([Op EXCEPT !.step = "restrict"])
      /\ UNCHANGED <<world, stops>>
    BY DEF Reconcile
<1>2. PICK row : row = [Op EXCEPT !.step = "restrict"]
    OBVIOUS
<1>3. /\ drv.stack # <<>> /\ Op.kind = "recovery" /\ Op.step = "reconcile" /\ Op.state = "running" /\ Op \in OpRecords
    BY <1>1, AtRecovery
<1>4. Op.generation = generation
    BY <1>3, RecoveryDriven
<1>5. /\ Onward(row, Op) /\ row.state = "running" /\ row.step = "restrict" /\ row.generation = Op.generation
    BY <1>2, <1>3 DEF OpRecords, Onward, Kept
<1>6. Write(row) /\ To("step", <<>>) /\ generation' = generation /\ Quiet
    BY <1>1, <1>2, QuietWorld DEF Advance, pointer
<1>7. RecoveryOK(row, "step", <<>>)
    BY <1>5 DEF RecoveryOK
<1> QED BY <1>3, <1>4, <1>5, <1>6, <1>7, RecoveryGoes

LEMMA RecoveryRestrictedSound == Good /\ RecoveryRestricted => Sound'
<1> SUFFICES ASSUME Good, RecoveryRestricted PROVE Sound'
    OBVIOUS
<1>1. At("recovery", "restrict", "acked") /\ UNCHANGED <<world, stops>>
    BY DEF RecoveryRestricted
<1>2. /\ drv.stack # <<>> /\ Op.kind = "recovery" /\ Op.step = "restrict" /\ Op.state = "running" /\ Op \in OpRecords
      /\ RecoveryOK(Op, "acked", <<>>) /\ Op.resolution \in {"open", "resume"}
    BY <1>1, AtRecovery
<1>3. CASE Op.resolution = "open"
    <2>1. PICK row : row = [[Op EXCEPT !.step = "open", !.mode = "open"] EXCEPT !.generation = generation + 1]
        OBVIOUS
    <2>2. /\ Onward(row, Op) /\ row.state = "running" /\ row.step = "open" /\ row.generation = generation + 1
          /\ row.resolution = "open"
        BY <1>2, <1>3, <2>1 DEF OpRecords, Onward, Kept
    <2>3. Write(row) /\ To("step", <<>>) /\ generation' = generation + 1 /\ Quiet
        BY <1>1, <1>3, <2>1, QuietWorld DEF RecoveryRestricted, Reopen, AdvanceFresh, Allocate, pointer
    <2>4. \A b \in 1..Len(ops) : Base(b) => ops[b].kind # "restore"
        BY <1>2, <1>3 DEF RecoveryOK
    <2>5. RecoveryOK(row, "step", <<>>)
        BY <2>2, <2>4 DEF RecoveryOK, Ahead
    <2> QED BY <1>2, <2>2, <2>3, <2>5, RecoveryGoes
<1>4. CASE Op.resolution = "resume"
    <2>1. PICK row : row = [Op EXCEPT !.step = "resume", !.mode = ops[Op.recovers].mode]
        OBVIOUS
    <2>2. /\ Onward(row, Op) /\ row.state = "running" /\ row.step = "resume" /\ row.resolution = "resume"
        BY <1>2, <1>4, <2>1 DEF OpRecords, Onward, Kept
    <2>3. Write(row) /\ To("step", <<>>) /\ Quiet
        BY <1>1, <1>4, <2>1, QuietWorld DEF RecoveryRestricted, Advance, pointer
    <2>4. RecoveryOK(row, "step", <<>>)
        BY <2>2 DEF RecoveryOK
    <2> QED BY <1>2, <2>2, <2>3, <2>4, RecoveryGoes
<1> QED BY <1>2, <1>3, <1>4

LEMMA RecoveryResumedSound == Good /\ RecoveryResumed => Sound'
<1> SUFFICES ASSUME Good, RecoveryResumed PROVE Sound'
    OBVIOUS
<1>1. At("recovery", "resume", "step") /\ UNCHANGED <<world, stops>>
    BY DEF RecoveryResumed
<1>2. /\ drv.stack # <<>> /\ Op.kind = "recovery" /\ Op.step = "resume" /\ Op.state = "running" /\ Op \in OpRecords
      /\ RecoveryOK(Op, "step", <<>>) /\ Op.recovers = Len(ops) - 1
    BY <1>1, AtRecovery
<1>3. Op.resolution = "resume" /\ EndOK(ops[Len(ops) - 1])
    <2>1. Op.resolution = "resume"
        BY <1>2 DEF RecoveryOK
    <2> QED BY <1>2, <2>1, RecoveryDriven
<1>4. CASE ops[Op.recovers].state = "failed" /\ End("failed", "resume_failed")
    <2>1. Begun(ops[Past]) => Landed(ops[Past])
        BY <1>2, <1>3, <1>4, PastBase DEF EndOK
    <2>2. ~Opens("failed", "resume_failed") /\ Quiet /\ End("failed", "resume_failed")
        BY <1>1, <1>4, StaysClosed, QuietWorld DEF End, pointer
    <2> QED BY <1>2, <2>1, <2>2, RecoveryFinishes
<1>5. CASE /\ ops[Op.recovers].state = "succeeded"
           /\ Write([Op EXCEPT !.mode = ops[Op.recovers].mode]) /\ To("acked", <<>>)
           /\ UNCHANGED <<generation, pointer>>
    <2>1. PICK row : row = [Op EXCEPT !.mode = ops[Op.recovers].mode]
        OBVIOUS
    <2>2. /\ Onward(row, Op) /\ row.state = "running" /\ row.step = "resume" /\ row.resolution = "resume"
          /\ row.mode = ops[Len(ops) - 1].mode
        BY <1>2, <1>3, <2>1 DEF OpRecords, Onward, Kept
    <2>3. Write(row) /\ To("acked", <<>>) /\ Quiet
        BY <1>1, <1>5, <2>1, QuietWorld DEF pointer
    <2>4. RecoveryOK(row, "acked", <<>>)
        BY <1>2, <1>5, <2>2 DEF RecoveryOK
    <2> QED BY <1>2, <2>2, <2>3, <2>4, RecoveryGoes
<1> QED BY <1>4, <1>5 DEF RecoveryResumed

LEMMA ChainBelow ==
  ASSUME Records, NEW i \in 1..Len(ops), NEW n \in Chain(i)
  PROVE  n \in 1..Len(ops) /\ n <= i
<1> DEFINE S == 1..i
<1>1. Len(ops) \in Nat /\ n \in 1..Len(ops)
    BY DEF Records, Types, Chain
<1>2. \A k \in 1..Len(ops) : ops[k].recovers \in Nat /\ ops[k].recovers < k
    BY Fields, Bounds DEF Records, Types, Rows, RowOK
<1>3. S \in SUBSET (1..Len(ops)) /\ i \in S
    BY <1>1
<1>4. \A k \in S : ops[k].recovers \in S \cup {0}
    BY <1>1, <1>2
<1>5. n \in S
    BY <1>3, <1>4 DEF Chain
<1> QED BY <1>1, <1>5

\* An operation below a recovery is retired.
LEMMA RetiresSound ==
  ASSUME Good, drv.stack # <<>>, Op.kind = "recovery", Op.step \in {"open", "resume"}, RecoveryOK(Op, "acked", <<>>),
         drv.pc = "acked", drv.todo = <<>>,
         NEW n \in Chain(Op.recovers), ops[n].state = "running",
         ops' = [ops EXCEPT ![n].state = "failed", ![n].code = "recovered"],
         drv' = drv, generation' = generation, Quiet
  PROVE  Sound'
<1>1. /\ Len(ops) \in Nat /\ Top = Len(ops) /\ Op = ops[Len(ops)] /\ Len(ops) \in 1..Len(ops) /\ ops # <<>>
      /\ Op = Latest /\ Op.state = "running" /\ Len(drv.stack) = 1 /\ drv.stack[1] = Len(ops)
      /\ Len(ops) - 1 \in 1..Len(ops) /\ Op.recovers = Len(ops) - 1
      /\ Op.generation = generation \/ Op.step = "resume"
      /\ Op.resolution = "resume" => /\ Op.step # "resume" => ops[Len(ops) - 1].state = "running"
                                     /\ EndOK(ops[Len(ops) - 1])
    BY RecoveryDriven
<1>2. n \in 1..Len(ops) /\ n # Len(ops) /\ Op.recovers \in 1..Len(ops)
    <2>1. n \in 1..Len(ops) /\ n <= Op.recovers
        BY <1>1, ChainBelow DEF Good, IInv
    <2> QED BY <1>1, <2>1
<1>3. PICK row, op, m, below : /\ row = [ops[n] EXCEPT !.state = "failed", !.code = "recovered"] /\ op = Op
                               /\ m = Len(ops) /\ below = ops[m - 1]
    OBVIOUS
<1>4. ops \in Seq(OpRecords) /\ ops[n] \in OpRecords /\ IInv
    BY <1>2 DEF Good, IInv, Records, Types
<1>5. ops' = [ops EXCEPT ![n] = row] /\ Onward(row, ops[n]) /\ row.failure = ops[n].failure
    BY <1>2, <1>3, <1>4 DEF OpRecords, Onward, Kept
<1>6. Base(n) => BaseOK(n, row)
    <2> SUFFICES ASSUME Base(n) PROVE BaseOK(n, row)
        OBVIOUS
    <2>1. BaseOK(n, ops[n])
        BY <1>2 DEF Good, Sound, Grounded
    <2>2. /\ row.kind = ops[n].kind /\ row.runs = ops[n].runs /\ row.clone = ops[n].clone /\ row.step = ops[n].step
          /\ row.original = ops[n].original /\ row.failure = ops[n].failure /\ row.bookmark = ops[n].bookmark
          /\ row.state = "failed"
        BY <1>3, <1>4 DEF OpRecords
    <2>3. Carries(n, ops[n]) => Carries(n, row)
        BY <2>2 DEF Carries
    <2>4. Waits(n, ops[n]) => Waits(n, row)
        BY <2>2 DEF Waits
    <2> QED BY <2>1, <2>2, <2>3, <2>4 DEF BaseOK, Begun
<1>7. Linked' /\ Grounded' /\ Harmless' /\ OneRun'
    BY <1>2, <1>5, <1>6, RowQuiet DEF Good
<1>8. Len(ops') = m /\ ops'[m] = op /\ op = ops[m] /\ (n # m - 1 => ops'[m - 1] = below) /\ m \in Nat
    BY <1>1, <1>2, <1>3, <1>4, <1>5, RowAlike
<1>9. ops' # <<>> /\ Latest' = op /\ Op' = op
    <2>1. ops' # <<>>
        BY <1>1, <1>3, <1>8
    <2>2. Top' = Top
        BY DEF Top
    <2> QED BY <1>1, <1>3, <1>8, <2>1, <2>2 DEF Latest, Op
<1>10. op.step = "resume" => n # m - 1 /\ m - 1 \in 1..Len(ops)
    <2>1. op.step = "resume" => ops[Len(ops) - 1].state = "succeeded"
        BY <1>3 DEF RecoveryOK
    <2> QED BY <1>1, <1>3, <2>1
<1>11. RecoveryOK(op, "acked", <<>>)'
    BY <1>2, <1>3, <1>4, <1>5, <1>10, BesideRecovery
<1>12. Finals'
    <2>1. EndOK(Latest)'
        BY <1>1, <1>3, <1>9 DEF EndOK
    <2>2. ASSUME op.resolution = "resume" PROVE op.step = "resume" /\ EndOK(ops[Len(ops) - 1])'
        <3>1. op.step = "resume"
            BY <1>3, <2>2 DEF RecoveryOK
        <3>2. EndOK(below)
            BY <1>1, <1>3, <2>2
        <3>3. EndOK(below)'
            BY <1>2, <1>4, <1>5, <3>2, BesideEnd
        <3> QED BY <1>8, <1>10, <3>1, <3>3
    <2> QED BY <1>9, <2>1, <2>2 DEF Finals
<1>13. Driving'
    BY <1>1, <1>3, <1>8, <1>9 DEF Driving
<1>14. Placed'
    BY <1>3, <1>9, <1>11 DEF Placed
<1> QED BY <1>7, <1>12, <1>13, <1>14 DEF Sound

LEMMA RecoveryEndsSound == Good /\ RecoveryEnds => Sound'
<1> SUFFICES ASSUME Good, RecoveryEnds PROVE Sound'
    OBVIOUS
<1>1. At("recovery", Op.step, "acked") /\ Op.step \in {"open", "resume"} /\ UNCHANGED <<world, stops>>
    BY DEF RecoveryEnds
<1>2. /\ drv.stack # <<>> /\ Op.kind = "recovery" /\ drv.pc = "acked" /\ drv.todo = <<>>
      /\ RecoveryOK(Op, "acked", <<>>) /\ Op.recovers = Len(ops) - 1 /\ Stepped(Op)
    BY <1>1, AtRecovery, RecoveryDriven
<1>3. CASE End("succeeded", "none")
    <2>1. Quiet
        BY <1>1, <1>3, QuietWorld DEF End, pointer
    <2>2. CASE Op.step = "open"
        <3>1. Stays(serving, "open")
            BY <1>2, <2>2, SureStays DEF RecoveryOK
        <3>2. Begun(ops[Past]) => Landed(ops[Past]) /\ Remains(ops[Past])
            BY <1>2, <2>2, PastBase DEF RecoveryOK, Begun
        <3> QED BY <1>2, <1>3, <2>1, <3>1, <3>2, RecoveryFinishes
    <2>3. CASE Op.step = "resume"
        <3> DEFINE below == ops[Len(ops) - 1]
        <3>1. below.state = "succeeded" /\ Op.mode = below.mode /\ Op.resolution = "resume"
            BY <1>2, <2>3 DEF RecoveryOK
        <3>2. EndOK(below)
            BY <1>2, <3>1, RecoveryDriven
        <3>3. Opens("succeeded", "none") => OpenOf(below)
            BY <3>1 DEF Opens, OpenOf
        <3>4. Opens("succeeded", "none") => Stays(serving, "open")
            BY <3>1, <3>2, <3>3 DEF EndOK
        <3>5. Begun(ops[Past]) => Landed(ops[Past]) /\ (Opens("succeeded", "none") => Remains(ops[Past]))
            BY <1>2, <3>1, <3>2, <3>3, PastBase DEF EndOK
        <3> QED BY <1>2, <1>3, <2>1, <3>4, <3>5, RecoveryFinishes
    <2> QED BY <1>1, <2>2, <2>3
<1>4. CASE \E n \in Chain(Op.recovers) : /\ ops[n].state = "running"
                                         /\ ops' = [ops EXCEPT ![n].state = "failed", ![n].code = "recovered"]
                                         /\ UNCHANGED <<drv, generation, pointer>>
    <2>1. PICK n \in Chain(Op.recovers) : /\ ops[n].state = "running"
                                          /\ ops' = [ops EXCEPT ![n].state = "failed", ![n].code = "recovered"]
                                          /\ UNCHANGED <<drv, generation, pointer>>
        BY <1>4
    <2>2. Quiet
        BY <1>1, <2>1, QuietWorld DEF pointer
    <2> QED BY <1>1, <1>2, <2>1, <2>2, RetiresSound
<1> QED BY <1>3, <1>4 DEF RecoveryEnds

LEMMA BeginRecoverySound == Good /\ BeginStep /\ Op.kind = "recovery" => Sound'
<1> SUFFICES ASSUME Good, BeginStep, Op.kind = "recovery" PROVE Sound'
    OBVIOUS
<1>1. /\ At("recovery", Op.step, "step") /\ ~OpensRestore(Op) /\ Op.step # "resume" /\ To("acked", StepModes(Op))
      /\ UNCHANGED <<ops, generation, pointer, world, stops>>
    BY DEF BeginStep
<1>2. /\ drv.stack # <<>> /\ Op.kind = "recovery" /\ Op.state = "running" /\ RecoveryOK(Op, "step", <<>>)
      /\ Stepped(Op) /\ Op.generation = generation
    BY <1>1, AtRecovery, RecoveryDriven
<1>3. Write(Op) /\ Onward(Op, Op)
    BY <1>1, <1>2, WritesSame DEF Good
<1>4. Quiet /\ generation' = generation
    BY <1>1, QuietWorld DEF pointer
<1>5. RecoveryOK(Op, "acked", StepModes(Op))
    <2>1. CASE Op.step = "reconcile"
        <3>1. StepModes(Op) = <<>>
            BY <1>2, <2>1 DEF StepModes
        <3> QED BY <2>1, <3>1 DEF RecoveryOK
    <2>2. CASE Op.step = "restrict"
        <3>1. StepModes(Op) = << <<serving, "closed">> >>
            BY <1>2, <2>2 DEF StepModes
        <3>2. Ahead(StepModes(Op)) = {<<serving, "closed">>}
            BY <3>1, AheadSets
        <3>3. Op.resolution = "open" => \A b \in 1..Len(ops) : Base(b) => ops[b].kind # "restore"
            BY <1>1, <1>2, <2>2, PastBase DEF OpensRestore, Past
        <3> QED BY <2>2, <3>2, <3>3 DEF RecoveryOK
    <2>3. CASE Op.step = "open"
        <3>1. StepModes(Op) = << <<serving, "open">> >>
            BY <1>2, <2>3 DEF StepModes
        <3>2. Ahead(StepModes(Op)) = {<<serving, "open">>}
            BY <3>1, AheadSets
        <3>3. Sure(serving, "open", StepModes(Op))
            BY <3>2 DEF Sure
        <3>4. Op.resolution = "open" /\ \A b \in 1..Len(ops) : ~(Base(b) /\ ops[b].kind = "restore")
            BY <1>2, <2>3 DEF RecoveryOK
        <3> QED BY <2>3, <3>2, <3>3, <3>4 DEF RecoveryOK
    <2> QED BY <1>1, <1>2, <2>1, <2>2, <2>3 DEF Stepped
<1> QED BY <1>1, <1>2, <1>3, <1>4, <1>5, RecoveryGoes

LEMMA RecoverRestoreSound == Good /\ RecoverRestore => Sound'
<1> SUFFICES ASSUME Good, RecoverRestore PROVE Sound'
    OBVIOUS
<1> DEFINE row == ops[Past]
<1>1. /\ At("recovery", "restrict", "step") /\ OpensRestore(Op)
      /\ row.runs["point"] \notin {"pending", "running"} /\ row.runs["revert"] \notin {"pending", "running"}
      /\ UNCHANGED <<ops, generation, pointer, world, stops>>
    BY DEF RecoverRestore
<1>2. /\ drv.stack # <<>> /\ Op.kind = "recovery" /\ Op.step = "restrict" /\ Op.state = "running"
      /\ Op.generation = generation /\ Op.resolution = "open"
    BY <1>1, AtRecovery, RecoveryDriven DEF OpensRestore
<1>3. Write(Op) /\ Onward(Op, Op) /\ Quiet /\ generation' = generation
    BY <1>1, <1>2, WritesSame, QuietWorld DEF Good, pointer
<1>4. /\ row.kind = "restore" /\ row.original # row.clone /\ BaseOK(Past, row)
      /\ \A b : Base(b) => b = Past
    BY <1>1, <1>2, PastBase DEF OpensRestore, Past
<1>5. Begun(row) <=> PointAccepted(Past)
    BY <1>1, <1>4 DEF Begun, PointAccepted
<1>6. CASE PointAccepted(Past) /\ row.failure = "none"
    <2> DEFINE todo == << <<row.original, "inspect">>, <<row.clone, "open">> >>
    <2>1. To("kept", todo)
        BY <1>6 DEF RecoverRestore
    <2>2. Ahead(todo) = {<<row.original, "inspect">>, <<row.clone, "open">>}
        BY AheadSets
    <2> HIDE DEF todo
    <2>3. Sure(row.clone, "open", todo)
        BY <2>2 DEF Sure
    <2>4. Passes(row, "kept", todo)
        BY <1>1, <1>4, <1>5, <1>6, <2>2, <2>3 DEF Passes
    <2>5. RecoveryOK(Op, "kept", todo)
        BY <1>2, <1>4, <2>4 DEF RecoveryOK
    <2> QED BY <1>2, <1>3, <2>1, <2>5, RecoveryGoes
<1>7. CASE ~(PointAccepted(Past) /\ row.failure = "none")
    <2>1. To("revert", <<>>)
        BY <1>7 DEF RecoverRestore
    <2>2. Begun(row) => deployed = row.original
        BY <1>4, <1>5, <1>7 DEF BaseOK, Carries
    <2>3. Passes(row, "revert", <<>>)
        BY <1>1, <1>4, <2>2 DEF Passes
    <2>4. RecoveryOK(Op, "revert", <<>>)
        BY <1>2, <1>4, <2>3 DEF RecoveryOK
    <2> QED BY <1>2, <1>3, <2>1, <2>4, RecoveryGoes
<1> QED BY <1>6, <1>7

\* A recovery that opens past a base leaves nothing to drive on there.
LEMMA OpensPast ==
  ASSUME Good, drv.stack # <<>>, Op.kind = "recovery", Op.resolution = "open"
  PROVE  ~Drivable(Past)
<1>1. Len(ops) \in Nat /\ Op = ops[Len(ops)]
    BY RecoveryDriven
<1>2. Past # Len(ops)
    BY PastBase
<1> QED BY <1>1, <1>2 DEF Drivable

\* The pointer is recorded with the step that opens: the object it names is open.
LEMMA SettleSound ==
  ASSUME Good, drv.stack # <<>>, Op.kind = "recovery", Op.step = "restrict", Op.resolution = "open", NEW o, NEW l,
         SettleRecovery(o, l), UNCHANGED <<world, stops>>, NEW base, base = ops[Past],
         base.kind = "restore", base.runs["point"] # "running", base.runs["revert"] # "running",
         o \in {base.original, base.clone}, ~Begun(base) => o = base.original, Stays(o, "open"),
         Begun(base) /\ o = base.clone => base.failure = "none" /\ base.runs["revert"] = "none",
         Begun(base) /\ o = base.original => deployed = base.original /\ ~base.bookmark
  PROVE  Sound'
<1>1. /\ Len(ops) \in Nat /\ Top = Len(ops) /\ Op = ops[Len(ops)] /\ Len(ops) \in 1..Len(ops)
      /\ Op \in OpRecords /\ Op.generation = generation /\ ~Base(Len(ops)) /\ Op.state = "running"
    BY RecoveryDriven
<1>2. PICK n, b, row : n = Len(ops) /\ b = Past /\ row = [Op EXCEPT !.step = "open", !.mode = "open"]
    OBVIOUS
<1>3. /\ Base(b) /\ b \in 1..Len(ops) /\ b # n /\ BaseOK(b, base) /\ base = ops[b]
      /\ base.original # base.clone /\ (\A c : Base(c) => c = b) /\ ~Drivable(b)
    BY <1>2, PastBase, OpensPast
<1>4. /\ Onward(row, Op) /\ row.state = "running" /\ row.step = "open" /\ row.resolution = "open"
      /\ row.generation = generation
    BY <1>1, <1>2 DEF OpRecords, Onward, Kept
<1>5. /\ Write(row) /\ To("acked", <<>>) /\ serving' = o /\ generation' = generation /\ ops' = [ops EXCEPT ![n] = row]
      /\ deployed' = deployed /\ obj' = obj /\ sent' = sent /\ data' = data /\ total' = total
    BY <1>1, <1>2 DEF SettleRecovery, Write, world
<1>6. n \in 1..Len(ops) /\ Onward(row, ops[n]) /\ IInv /\ ~Base(n)
    BY <1>1, <1>2, <1>4 DEF Good
<1>7. Alike /\ Len(ops') = n /\ \A k \in 1..n : ops'[k] = IF k = n THEN row ELSE ops[k]
    <2>1. IInv /\ n \in 1..Len(ops) /\ Onward(row, ops[n]) /\ ops' = [ops EXCEPT ![n] = row]
        BY <1>5, <1>6
    <2>2. Alike /\ Len(ops') = Len(ops) /\ \A k \in 1..Len(ops) : ops'[k] = IF k = n THEN row ELSE ops[k]
        BY ONLY <2>1, RowAlike
    <2>3. n = Len(ops)
        BY ONLY <1>2
    <2> QED BY ONLY <2>2, <2>3
<1>8. (\A c : Base(c)' <=> Base(c)) /\ (NoneBegun' <=> NoneBegun) /\ ~Drivable(b)' /\ ops'[b] = base
    <2>1. \A c : Base(c)' <=> Base(c)
        BY <1>6, <1>7, AlikeBase
    <2>2. NoneBegun' <=> NoneBegun
        BY <1>5, <1>6, RowRuns
    <2>3. ~Drivable(b)'
        BY <1>3, <1>6, <1>7, AlikeBase
    <2> QED BY <1>2, <1>3, <1>7, <2>1, <2>2, <2>3
<1>9. Begun(base) => ~NoneBegun
    BY <1>3 DEF NoneBegun
<1>10. ~Begun(base) => serving' = serving
    BY <1>3, <1>5 DEF BaseOK
<1>11. \A q \in sent : q.kind = "arm" => q.object # serving'
    <2> SUFFICES ASSUME NEW q \in sent, q.kind = "arm" PROVE q.object # serving'
        OBVIOUS
    <2>1. q.object # serving /\ Spares(q.object, base)
        BY <1>3 DEF Good, Sound, Harmless
    <2> QED BY <1>5, <1>10, <2>1 DEF Spares
<1>12. Linked' /\ Harmless' /\ OneRun'
    <2>1. serving' = serving \/ ~NoneBegun
        BY <1>9, <1>10
    <2> QED BY <1>5, <1>6, <1>11, <2>1, RowStill DEF Good
<1>13. (\A x : Shut(x)' <=> Shut(x)) /\ (\A x, m : Stays(x, m)' <=> Stays(x, m)) /\ (\A x : Full(x)' <=> Full(x))
    BY <1>5, Unmoved DEF Shut, Stays, Full
<1>14. BaseOK(b, base)'
    <2>1. CASE Begun(base)
        <3>1. Carries(b, base)
            BY <1>3, <2>1 DEF BaseOK
        <3>2. Carries(b, base)'
            BY <1>3, <1>5, <1>8, <1>13, <3>1 DEF Carries
        <3> QED BY <2>1, <3>2 DEF BaseOK, Begun
    <2>2. CASE ~Begun(base)
        <3>1. Waits(b, base) /\ serving = base.original
            BY <1>3, <2>2 DEF BaseOK
        <3>2. Waits(b, base)'
            BY <1>5, <1>8, <1>13, <3>1 DEF Waits
        <3> QED BY <1>10, <2>2, <3>1, <3>2 DEF BaseOK, Begun
    <2> QED BY <2>1, <2>2
<1>15. Grounded'
    <2>1. ASSUME NEW c \in 1..Len(ops'), Base(c)' PROVE BaseOK(c, ops[c])'
        <3>1. c = b
            BY <1>3, <1>8, <2>1
        <3> QED BY <1>8, <1>14, <3>1
    <2>2. NoneBegun => Steady'
        BY <1>5, <1>9, <1>10, <1>13 DEF Good, Sound, Grounded, Steady
    <2> QED BY <1>2, <1>5, <1>7, <1>8, <2>1, <2>2 DEF Grounded, Good, Sound
<1>16. RecoveryOK(row, "acked", <<>>)'
    <2>1. Sure(serving, "open", <<>>)'
        BY <1>5, <1>13 DEF Sure
    <2>2. Begun(base) => Landed(base)' /\ Remains(base)'
        BY <1>3, <1>5 DEF Landed, Remains
    <2>3. \A c \in 1..Len(ops') : Base(c)' /\ ops'[c].kind = "restore" =>
            (Begun(ops[c])' => Landed(ops[c])' /\ Remains(ops[c])')
        <3> SUFFICES ASSUME NEW c \in 1..Len(ops'), Base(c)', Begun(ops[c])' PROVE Landed(ops[c])' /\ Remains(ops[c])'
            OBVIOUS
        <3>1. c = b /\ ops'[c] = base
            BY <1>3, <1>8
        <3>2. Begun(base)
            BY <3>1 DEF Begun
        <3> QED BY <2>2, <3>1, <3>2
    <2>4. Ahead(<<>>)' = {}
        BY DEF Ahead
    <2> QED BY <1>4, <2>1, <2>3, <2>4 DEF RecoveryOK
<1>17. row.generation = generation' /\ row.resolution # "resume"
    BY <1>4, <1>5
<1> QED BY <1>4, <1>5, <1>12, <1>15, <1>16, <1>17, RecoveryGoesOn

LEMMA KeepCloneSound == Good /\ KeepClone => Sound'
<1> SUFFICES ASSUME Good, KeepClone PROVE Sound'
    OBVIOUS
<1>1. At("recovery", "restrict", "kept") /\ UNCHANGED <<world, stops>>
    BY DEF KeepClone
<1>2. PICK base : base = ops[Past]
    OBVIOUS
<1>3. /\ drv.stack # <<>> /\ Op.kind = "recovery" /\ Op.step = "restrict" /\ Op.state = "running" /\ Op \in OpRecords
      /\ RecoveryOK(Op, "kept", <<>>)
    BY <1>1, AtRecovery
<1>4. /\ BaseOK(Past, base) /\ base.original # base.clone /\ Base(Past) /\ Past \in 1..Len(ops)
      /\ \A b : Base(b) => b = Past
    BY <1>2, <1>3, PastBase
<1>5. Op.resolution = "open" /\ Passes(base, "kept", <<>>)
    BY <1>2, <1>3, <1>4 DEF RecoveryOK
<1>6. /\ base.kind = "restore" /\ base.runs["point"] # "running" /\ Begun(base) /\ base.failure = "none"
      /\ base.runs["revert"] \notin {"pending", "running"} /\ Stays(base.clone, "open") /\ Carries(Past, base)
    BY <1>4, <1>5, SureStays DEF Passes, BaseOK
<1>7. CASE base.bookmark \/ deployed # base.original
    <2>1. SettleRecovery(base.clone, listed \cup {base.clone})
        BY <1>2, <1>7 DEF KeepClone
    <2>2. base.runs["revert"] = "none"
        BY <1>6, <1>7 DEF Carries
    <2> QED BY <1>1, <1>2, <1>3, <1>4, <1>5, <1>6, <2>1, <2>2, SettleSound
<1>8. CASE ~(base.bookmark \/ deployed # base.original)
    <2>1. PICK row : row = [Op EXCEPT !.generation = generation + 1]
        OBVIOUS
    <2>2. /\ Onward(row, Op) /\ row.state = "running" /\ row.step = "restrict" /\ row.generation = generation + 1
          /\ row.resolution = "open"
        BY <1>3, <1>5, <2>1 DEF OpRecords, Onward, Kept
    <2>3. Write(row) /\ To("revert", <<>>) /\ generation' = generation + 1 /\ Quiet
        BY <1>1, <1>2, <1>8, <2>1, QuietWorld DEF KeepClone, Allocate, pointer
    <2>4. Passes(base, "revert", <<>>)
        BY <1>5, <1>8 DEF Passes
    <2>5. RecoveryOK(row, "revert", <<>>)
        BY <1>2, <1>4, <2>2, <2>4 DEF RecoveryOK
    <2> QED BY <1>3, <2>2, <2>3, <2>5, RecoveryGoes
<1> QED BY <1>7, <1>8

LEMMA RecoveryRevertedSound == Good /\ RecoveryReverted => Sound'
<1> SUFFICES ASSUME Good, RecoveryReverted PROVE Sound'
    OBVIOUS
<1> DEFINE base == ops[Past]
<1>1. At("recovery", "restrict", "revert") /\ UNCHANGED <<world, stops>>
    BY DEF RecoveryReverted
<1>2. /\ drv.stack # <<>> /\ Op.kind = "recovery" /\ Op.step = "restrict" /\ Op.state = "running"
      /\ RecoveryOK(Op, "revert", <<>>) /\ Op.generation = generation
    BY <1>1, AtRecovery, RecoveryDriven
<1>3. /\ BaseOK(Past, base) /\ base.original # base.clone /\ Base(Past) /\ Past \in 1..Len(ops)
      /\ \A b : Base(b) => b = Past
    BY <1>2, PastBase
<1>4. Op.resolution = "open" /\ Passes(base, "revert", <<>>)
    BY <1>2, <1>3 DEF RecoveryOK
<1>5. base.kind = "restore" /\ base.runs["point"] \notin {"pending", "running"} /\ (Begun(base) => deployed = base.original)
    BY <1>4 DEF Passes
<1>6. CASE RevertNeeded /\ base.runs["revert"] \in {"failed", "rejected"} /\ End("failed", "revert_failed")
    <2>1. Begun(base) => Landed(base)
        BY <1>5, <1>6 DEF Landed
    <2>2. ~Opens("failed", "revert_failed") /\ Quiet
        BY <1>1, <1>6, StaysClosed, QuietWorld DEF End, pointer
    <2> QED BY <1>2, <1>6, <2>1, <2>2, RecoveryFinishes
<1>7. CASE /\ ~RevertNeeded
           /\ To("settle", (IF base.clone \in listed THEN << <<base.clone, "inspect">> >> ELSE <<>>)
                            \o << <<base.original, "open">> >>)
           /\ UNCHANGED <<ops, generation, pointer>>
    <2> DEFINE p == <<base.clone, "inspect">>
    <2> DEFINE q == <<base.original, "open">>
    <2> DEFINE todo == (IF base.clone \in listed THEN <<p>> ELSE <<>>) \o <<q>>
    <2>1. To("settle", todo)
        BY <1>7
    <2>2. todo = <<p, q>> \/ todo = <<q>>
        <3> HIDE DEF p, q
        <3> QED BY JoinAhead
    <2>3. Ahead(todo) \subseteq {p, q} /\ q \in Ahead(todo)
        <3> HIDE DEF p, q, todo
        <3>1. Ahead(<<p, q>>) = {p, q} /\ Ahead(<<q>>) = {q}
            BY AheadSets
        <3>2. todo = <<p, q>> => Ahead(todo) = {p, q}
            BY <3>1, Zenon
        <3>3. todo = <<q>> => Ahead(todo) = {q}
            BY <3>1, Zenon
        <3> QED BY <2>2, <3>2, <3>3
    <2> HIDE DEF todo
    <2>4. Sure(base.original, "open", todo)
        BY <2>3 DEF Sure
    <2>5. Begun(base) => base.runs["revert"] = "succeeded"
        BY <1>5, <1>7 DEF RevertNeeded, PointAccepted, Begun
    <2>6. Passes(base, "settle", todo)
        BY <1>5, <2>3, <2>4, <2>5 DEF Passes
    <2>7. RecoveryOK(Op, "settle", todo)
        BY <1>2, <1>3, <1>4, <2>6 DEF RecoveryOK
    <2>8. Write(Op) /\ Onward(Op, Op) /\ Quiet /\ generation' = generation
        BY <1>1, <1>2, <1>7, WritesSame, QuietWorld DEF Good, pointer
    <2> QED BY <1>2, <2>1, <2>7, <2>8, RecoveryGoes
<1> QED BY <1>6, <1>7 DEF RecoveryReverted

LEMMA KeepOriginalSound == Good /\ KeepOriginal => Sound'
<1> SUFFICES ASSUME Good, KeepOriginal PROVE Sound'
    OBVIOUS
<1>1. At("recovery", "restrict", "settle") /\ UNCHANGED <<world, stops>> /\ SettleRecovery(ops[Past].original, listed)
    BY DEF KeepOriginal
<1>2. PICK base : base = ops[Past]
    OBVIOUS
<1>3. /\ drv.stack # <<>> /\ Op.kind = "recovery" /\ Op.step = "restrict" /\ RecoveryOK(Op, "settle", <<>>)
    BY <1>1, AtRecovery
<1>4. /\ BaseOK(Past, base) /\ base.original # base.clone /\ Base(Past) /\ Past \in 1..Len(ops)
      /\ \A b : Base(b) => b = Past
    BY <1>2, <1>3, PastBase
<1>5. Op.resolution = "open" /\ Passes(base, "settle", <<>>)
    BY <1>2, <1>3, <1>4 DEF RecoveryOK
<1>6. /\ base.kind = "restore" /\ base.runs["point"] # "running" /\ Stays(base.original, "open")
      /\ Begun(base) => base.runs["revert"] = "succeeded"
    BY <1>5, SureStays DEF Passes
<1>7. Begun(base) => deployed = base.original /\ ~base.bookmark
    BY <1>4, <1>6 DEF BaseOK, Carries
<1>8. base.runs["revert"] # "running"
    <2>1. ~Begun(base) => base.runs["revert"] = "none"
        BY <1>4, <1>6 DEF BaseOK, Waits
    <2> QED BY <1>6, <2>1
<1> QED BY <1>1, <1>2, <1>3, <1>4, <1>5, <1>6, <1>7, <1>8, SettleSound

----------------------------------------------------------------------------
(* What reaches the objects *)

\* No request takes an object out of what it stays in.
LEMMA LandWithin ==
  ASSUME IInv, NEW r \in sent, Land(r), NEW o \in Objects, NEW modes, Within(o, modes)
  PROVE  Within(o, modes)'
<1>1. /\ r.kind = "state" /\ ~Refused(r) /\ r.object \in Objects /\ r.generation \in Nat
      /\ obj' = [obj EXCEPT ![r.object] = [generation |-> r.generation, mode |-> r.mode]]
      /\ sent' \subseteq sent /\ obj[r.object].generation \in Nat
    BY Bounds DEF IInv, Records, Types, Requests, Land
<1>2. obj'[o] = IF o = r.object THEN [generation |-> r.generation, mode |-> r.mode] ELSE obj[o]
    BY <1>1 DEF IInv, Records, Types
<1>3. CASE o # r.object
    BY <1>1, <1>2, <1>3 DEF Within
<1>4. CASE o = r.object
    <2>1. obj'[o].generation = r.generation /\ obj'[o].mode = r.mode
        BY <1>2, <1>4
    <2>2. r.generation >= obj[o].generation /\ (r.generation = obj[o].generation => r.mode = obj[o].mode)
        BY <1>1, <1>4 DEF Refused
    <2>3. r.mode \in modes
        BY <1>1, <1>4, <2>2 DEF Within
    <2>4. \A q \in sent : q.generation \in Nat
        BY Bounds DEF IInv, Records, Types, Requests
    <2>5. \A q \in sent : q.kind = "state" /\ q.object = o /\ q.generation > r.generation => q.mode \in modes
        BY <1>1, <1>4, <2>2, <2>4 DEF Within
    <2> QED BY <1>1, <2>1, <2>3, <2>5 DEF Within
<1> QED BY <1>3, <1>4

LEMMA LandSound == \A r \in sent : Good /\ Land(r) => Sound'
<1> SUFFICES ASSUME NEW r \in sent, Good, Land(r) PROVE Sound'
    OBVIOUS
<1>1. /\ ops' = ops /\ generation' = generation /\ serving' = serving /\ deployed' = deployed /\ drv' = drv
      /\ data' = data /\ total' = total /\ sent' \subseteq sent
    BY DEF Land, pointer
<1>2. /\ \A o \in Objects : \A mode : Stays(o, mode) => Stays(o, mode)'
      /\ \A o \in Objects : Shut(o) => Shut(o)'
    BY LandWithin DEF Good, Stays, Shut
<1>3. Grounded' /\ (\A row : Landed(row)' <=> Landed(row))
    BY <1>1, <1>2, StandsGrounded
<1>4. Placed'
    BY <1>1, <1>2, StandsPlaced
<1>5. Harmless'
    BY <1>1 DEF Good, Sound, Harmless, Base, Spares
<1>6. serving \in Objects
    BY ServingIn DEF Good
<1> QED BY <1>1, <1>2, <1>3, <1>4, <1>5, <1>6, Standing

\* A write, or the loss of one object's, that leaves what matters full.
LEMMA DataSound ==
  ASSUME Good, ops' = ops, generation' = generation, serving' = serving, deployed' = deployed, drv' = drv,
         obj' = obj, sent' \subseteq sent, NoneBegun => Full(serving)',
         \A b \in 1..Len(ops) : Base(b) =>
           IF Begun(ops[b])
             THEN /\ ops[b].runs["revert"] # "succeeded" => Full(ops[b].clone)'
                  /\ deployed # ops[b].clone /\ ~ops[b].bookmark => Full(ops[b].original)'
             ELSE ops[b].kind = "restore" /\ Drivable(b) /\ ops[b].state = "running" =>
                    /\ ops[b].step \in {"verify", "import", "promote", "point"} => ops[b].dump = total'
                    /\ ops[b].step \in {"promote", "point"} => Full(ops[b].clone)'
  PROVE  Sound'
<1>1. \A o, modes : Within(o, modes) => Within(o, modes)'
    BY DEF Within
<1>2. /\ \A o, mode : Stays(o, mode) => Stays(o, mode)'
      /\ \A o : Shut(o) => Shut(o)'
    BY <1>1 DEF Stays, Shut
<1>3. Placed'
    BY <1>2, StandsPlaced
<1>4. Harmless'
    BY DEF Good, Sound, Harmless, Base, Spares
<1>5. (\A b : Base(b)' <=> Base(b)) /\ (NoneBegun' <=> NoneBegun) /\ (\A b : Drivable(b)' <=> Drivable(b))
    BY DEF Base, NoneBegun, Begun, Drivable
<1>6. ASSUME NEW b \in 1..Len(ops), Base(b) PROVE BaseOK(b, ops[b])'
    <2>0. PICK row : row = ops[b]
        OBVIOUS
    <2>1. BaseOK(b, row)
        BY <1>6, <2>0 DEF Good, Sound, Grounded
    <2>2. CASE Begun(row)
        <3>1. /\ row.runs["revert"] # "succeeded" => Full(row.clone)'
              /\ deployed # row.clone /\ ~row.bookmark => Full(row.original)'
            BY <1>6, <2>0, <2>2
        <3>2. Carries(b, row)
            BY <2>1, <2>2 DEF BaseOK
        <3>3. Carries(b, row)'
            BY <1>2, <1>5, <3>1, <3>2 DEF Carries
        <3>4. BaseOK(b, row)'
            BY <2>2, <3>3 DEF BaseOK, Begun
        <3> QED BY <2>0, <3>4
    <2>3. CASE ~Begun(row)
        <3>1. serving = row.original
            BY <2>1, <2>3 DEF BaseOK
        <3>2. CASE row.kind = "restore"
            <4>1. Waits(b, row)
                BY <2>1, <2>3, <3>2 DEF BaseOK
            <4>2. Drivable(b) /\ row.state = "running" =>
                    /\ row.step \in {"verify", "import", "promote", "point"} => row.dump = total'
                    /\ row.step \in {"promote", "point"} => Full(row.clone)'
                BY <1>6, <2>0, <2>3, <3>2
            <4>3. Waits(b, row)'
                BY <1>2, <1>5, <4>1, <4>2 DEF Waits
            <4>4. BaseOK(b, row)'
                BY <2>3, <3>1, <4>3 DEF BaseOK, Begun
            <4> QED BY <2>0, <4>4
        <3>3. CASE row.kind # "restore"
            <4>1. BaseOK(b, row)'
                BY <2>3, <3>1, <3>3 DEF BaseOK, Begun
            <4> QED BY <2>0, <4>1
        <3> QED BY <3>2, <3>3
    <2> QED BY <2>2, <2>3
<1>7. Grounded'
    <2>1. NoneBegun => Steady'
        BY <1>2 DEF Good, Sound, Grounded, Steady
    <2> QED BY <1>5, <1>6, <2>1 DEF Good, Sound, Grounded
<1>8. drv'.stack = drv.stack
    OBVIOUS
<1>9. \A b \in 1..Len(ops) : Base(b) /\ Begun(ops[b]) /\ Landed(ops[b]) => Landed(ops[b])'
    BY DEF Landed
<1> QED BY <1>2, <1>3, <1>4, <1>7, <1>8, <1>9, Standing

\* An arm rewinds an object that no write is on.
LEMMA LandArmSound == \A r \in sent : Good /\ LandArm(r) => Sound'
<1> SUFFICES ASSUME NEW r \in sent, Good, LandArm(r) PROVE Sound'
    OBVIOUS
<1>1. /\ ops' = ops /\ generation' = generation /\ serving' = serving /\ deployed' = deployed /\ drv' = drv
      /\ obj' = obj /\ sent' \subseteq sent /\ total' = total /\ data' = [data EXCEPT ![r.object] = 0] /\ r.kind = "arm"
    BY DEF LandArm, pointer
<1>2. ASSUME NEW o \in Objects, o # r.object, Full(o) PROVE Full(o)'
    BY <1>1, <1>2 DEF Full, Good, IInv, Counted
<1>3. r.object # serving /\ \A b \in 1..Len(ops) : Base(b) => Spares(r.object, ops[b])
    BY <1>1 DEF Good, Sound, Harmless
<1>4. NoneBegun => Full(serving)'
    <2>1. PICK o : o = serving
        OBVIOUS
    <2>2. NoneBegun => Full(o)'
        BY <1>2, <1>3, <2>1, ServingIn DEF Good, Sound, Grounded, Steady
    <2> QED BY <1>1, <2>1, <2>2 DEF Full
<1>5. ASSUME NEW b \in 1..Len(ops), Base(b)
      PROVE IF Begun(ops[b])
             THEN /\ ops[b].runs["revert"] # "succeeded" => Full(ops[b].clone)'
                  /\ deployed # ops[b].clone /\ ~ops[b].bookmark => Full(ops[b].original)'
             ELSE ops[b].kind = "restore" /\ Drivable(b) /\ ops[b].state = "running" =>
                    /\ ops[b].step \in {"verify", "import", "promote", "point"} => ops[b].dump = total'
                    /\ ops[b].step \in {"promote", "point"} => Full(ops[b].clone)'
    <2>0. PICK row, x, y : row = ops[b] /\ x = ops[b].clone /\ y = ops[b].original
        OBVIOUS
    <2>1. x \in Objects /\ y \in Objects
        BY <2>0, Fields DEF Good, IInv, Records, Types
    <2>2. row.kind = "restore" => r.object # x /\ (r.object = y => row.bookmark)
        BY <1>3, <1>5, <2>0 DEF Spares
    <2>3. BaseOK(b, row)
        BY <1>5, <2>0 DEF Good, Sound, Grounded
    <2>4. CASE Begun(row)
        <3>1. /\ row.runs["revert"] # "succeeded" => Full(x)
              /\ deployed # x /\ ~row.bookmark => Full(y)
            BY <2>0, <2>3, <2>4 DEF BaseOK, Carries
        <3>2. row.kind = "restore"
            BY <2>4 DEF Begun
        <3>3. /\ row.runs["revert"] # "succeeded" => Full(x)'
              /\ deployed # x /\ ~row.bookmark => Full(y)'
            BY <1>2, <2>1, <2>2, <3>1, <3>2
        <3> QED BY <1>1, <2>0, <2>4, <3>3 DEF Full
    <2>5. CASE ~Begun(row)
        <3>1. row.kind = "restore" => Waits(b, row)
            BY <2>3, <2>5 DEF BaseOK
        <3>2. row.kind = "restore" /\ Drivable(b) /\ row.state = "running" =>
                    /\ row.step \in {"verify", "import", "promote", "point"} => row.dump = total
                    /\ row.step \in {"promote", "point"} => Full(x)
            BY <2>0, <3>1 DEF Waits
        <3>3. row.kind = "restore" /\ Drivable(b) /\ row.state = "running" =>
                    /\ row.step \in {"verify", "import", "promote", "point"} => row.dump = total'
                    /\ row.step \in {"promote", "point"} => Full(x)'
            BY <1>1, <1>2, <2>1, <2>2, <3>2
        <3> QED BY <1>1, <2>0, <2>5, <3>3 DEF Full
    <2> QED BY <2>4, <2>5
<1> QED BY <1>1, <1>4, <1>5, DataSound

\* An open object that the traffic reaches holds every write.
LEMMA OpenFull ==
  ASSUME Good, obj[deployed].mode = "open"
  PROVE  /\ Full(deployed)
         /\ NoneBegun => deployed = serving
         /\ \A b \in 1..Len(ops) : Base(b) =>
              IF Begun(ops[b])
                THEN \/ deployed = ops[b].clone
                     \/ deployed = ops[b].original /\ ops[b].runs["revert"] = "succeeded"
                ELSE ops[b].kind = "restore" /\ Drivable(b) /\ ops[b].state = "running" =>
                       ops[b].step \notin {"backup", "verify", "import", "promote", "point"}
<1>1. ~Shut(deployed)
    BY DEF Shut, Within
<1>2. NoneBegun => deployed = serving /\ Full(serving)
    BY <1>1 DEF Good, Sound, Grounded, Steady
<1>3. ASSUME NEW b \in 1..Len(ops), Base(b), Begun(ops[b])
      PROVE  /\ Full(deployed)
             /\ deployed = ops[b].clone \/ (deployed = ops[b].original /\ ops[b].runs["revert"] = "succeeded")
    <2>1. Carries(b, ops[b])
        BY <1>3 DEF Good, Sound, Grounded, BaseOK
    <2>2. deployed \in {ops[b].original, ops[b].clone}
        BY <1>1, <2>1 DEF Carries
    <2>3. deployed = ops[b].original => ops[b].runs["revert"] = "succeeded" /\ ~ops[b].bookmark
        BY <1>1, <2>1 DEF Carries
    <2>4. ops[b].original # ops[b].clone
        BY Fields, Bounds DEF Good, IInv, Records, Types, Rows, RowOK, Objects
    <2>5. CASE deployed = ops[b].original
        BY <2>1, <2>3, <2>4, <2>5 DEF Carries
    <2>6. CASE deployed = ops[b].clone
        <3>1. ops[b].runs["revert"] = "none"
            BY <2>1, <2>4, <2>6 DEF Carries
        <3> QED BY <2>1, <2>6, <3>1 DEF Carries
    <2> QED BY <2>2, <2>3, <2>5, <2>6
<1>4. ASSUME NEW b \in 1..Len(ops), Base(b), ~Begun(ops[b]), ops[b].kind = "restore", Drivable(b), ops[b].state = "running"
      PROVE  ops[b].step \notin {"backup", "verify", "import", "promote", "point"}
    <2>1. Waits(b, ops[b]) /\ serving = ops[b].original
        BY <1>4 DEF Good, Sound, Grounded, BaseOK
    <2>2. \A c : Base(c) => c = b
        BY <1>4, OneBase DEF Good, IInv, Records, Types
    <2>3. NoneBegun
        BY <1>4, <2>2 DEF NoneBegun
    <2> QED BY <1>1, <1>2, <1>4, <2>1, <2>3 DEF Waits
<1>5. Full(deployed)
    BY <1>2, <1>3 DEF NoneBegun
<1> QED BY <1>2, <1>3, <1>4, <1>5

LEMMA ClientWriteSound == Good /\ ClientWrite => Sound'
<1> SUFFICES ASSUME Good, ClientWrite PROVE Sound'
    OBVIOUS
<1>1. /\ ops' = ops /\ generation' = generation /\ serving' = serving /\ deployed' = deployed /\ drv' = drv
      /\ obj' = obj /\ sent' = sent /\ total' = total + 1 /\ data' = [data EXCEPT ![deployed] = @ + 1]
      /\ obj[deployed].mode = "open"
    BY DEF ClientWrite, pointer
<1>2. Full(deployed)'
    BY <1>1, OpenFull DEF Full, Good, IInv, Counted, Around
<1>3. NoneBegun => Full(serving)'
    BY <1>1, <1>2, OpenFull
<1>4. ASSUME NEW b \in 1..Len(ops), Base(b)
      PROVE IF Begun(ops[b])
             THEN /\ ops[b].runs["revert"] # "succeeded" => Full(ops[b].clone)'
                  /\ deployed # ops[b].clone /\ ~ops[b].bookmark => Full(ops[b].original)'
             ELSE ops[b].kind = "restore" /\ Drivable(b) /\ ops[b].state = "running" =>
                    /\ ops[b].step \in {"verify", "import", "promote", "point"} => ops[b].dump = total'
                    /\ ops[b].step \in {"promote", "point"} => Full(ops[b].clone)'
    <2>0. PICK row, x, y : row = ops[b] /\ x = ops[b].clone /\ y = ops[b].original
        OBVIOUS
    <2>1. IF Begun(row)
                THEN deployed = x \/ (deployed = y /\ row.runs["revert"] = "succeeded")
                ELSE row.kind = "restore" /\ Drivable(b) /\ row.state = "running" =>
                       row.step \notin {"backup", "verify", "import", "promote", "point"}
        BY <1>1, <1>4, <2>0, OpenFull
    <2>2. (deployed = x => Full(x)') /\ (deployed = y => Full(y)')
        BY <1>1, <1>2
    <2>3. IF Begun(row)
             THEN /\ row.runs["revert"] # "succeeded" => Full(x)'
                  /\ deployed # x /\ ~row.bookmark => Full(y)'
             ELSE row.kind = "restore" /\ Drivable(b) /\ row.state = "running" =>
                    /\ row.step \in {"verify", "import", "promote", "point"} => row.dump = total'
                    /\ row.step \in {"promote", "point"} => Full(x)'
        BY <2>1, <2>2
    <2> QED BY <1>1, <2>0, <2>3 DEF Full
<1> QED BY <1>1, <1>3, <1>4, DataSound

----------------------------------------------------------------------------
(* The holder's requests *)

\* What is asked for is at the newest generation, of a running operation.
LEMMA Publishing ==
  ASSUME Good, Publishes
  PROVE  /\ drv.stack # <<>> /\ drv.todo # <<>> /\ Request.kind = "state" /\ Request.generation = generation
         /\ Request.object \in Objects /\ Request.mode \in Modes
         /\ <<Request.object, Request.mode>> \in Ahead(drv.todo) /\ drv.todo[1] = <<Request.object, Request.mode>>
         /\ ops # <<>> /\ Latest.state = "running"
         /\ Latest.kind = "recovery" /\ Latest.resolution = "resume" => ops[Len(ops) - 1].state = "running"
<1>1. /\ drv.stack # <<>> /\ drv.todo # <<>> /\ Request.kind = "state" /\ Request.generation = Op.generation
      /\ Request.object \in Objects /\ Request.mode \in Modes
      /\ <<Request.object, Request.mode>> \in Ahead(drv.todo) /\ drv.todo[1] = <<Request.object, Request.mode>>
    BY RequestIn DEF Good, Requests
<1>2. /\ ops # <<>> /\ Latest.state = "running" /\ Op.state = "running" /\ Op = ops[Top]
      /\ Op.kind # "recovery" => Op.generation = generation
      /\ Op.kind = "recovery" => Op = Latest /\ RecoveryOK(Op, drv.pc, drv.todo)
      /\ \/ Top = Len(ops) \/ (Top = Len(ops) - 1 /\ Op.kind # "recovery")
    BY <1>1, Driven DEF Good
<1>3. Op.kind = "recovery" => Op.step \notin {"reconcile", "resume"}
    BY <1>1, <1>2 DEF RecoveryOK
<1>4. Op.generation = generation
    BY <1>1, <1>2, <1>3 DEF Good, Sound, Driving
<1>5. Latest.kind = "recovery" /\ Latest.resolution = "resume" => ops[Len(ops) - 1].state = "running"
    <2>1. CASE Op.kind = "recovery"
        BY <1>2, <1>3, <2>1 DEF Good, Sound, Finals
    <2>2. CASE Op.kind # "recovery"
        BY <1>2, <2>2 DEF Latest
    <2> QED BY <2>1, <2>2
<1> QED BY <1>1, <1>2, <1>4, <1>5

\* What a holder asks for agrees with what it relies on, and opens only what may be open.
LEMMA AsksFor ==
  ASSUME Good, Publishes, Op.kind = "restore"
  PROVE  /\ Ahead(drv.todo) \subseteq RestoreAgreed(Op) /\ Op.original # Op.clone /\ Base(Top) /\ Drivable(Top)
         /\ BaseOK(Top, Op) /\ Op.state = "running" /\ Op = ops[Top] /\ Top \in 1..Len(ops) /\ Len(ops) \in Nat
         /\ PlaceOK(Op, drv.pc, drv.todo)
<1>1. drv.stack # <<>> /\ drv.todo # <<>>
    BY DEF Publishes
<1>2. Agrees(Op, drv.pc, drv.todo, AskedFor(Op.generation)) /\ RowOK(Top, Op, generation) /\ Op \in OpRecords
      /\ Top \in 1..Len(ops)
    BY <1>1, TopIn DEF Good
<1>3. Ahead(drv.todo) \subseteq RestoreAgreed(Op)
    BY <1>1, <1>2, AgreedRestore DEF Agrees, Silent, Settling
<1>4. Op.original # Op.clone
    BY <1>2, Fields, Bounds DEF RowOK, Objects
<1> QED BY <1>1, <1>3, <1>4, Driven DEF Good

\* A request for a mode leaves the objects that it is not for, and the ones in that mode.
LEMMA SendWithin ==
  ASSUME NEW r, sent' = sent \cup {r}, obj' = obj, NEW o, NEW modes, Within(o, modes), o # r.object \/ r.mode \in modes
  PROVE  Within(o, modes)'
BY DEF Within

\* A holder's request, where it opens nothing that has to stay shut and asks for nothing it does not rely on.
LEMMA SendStands ==
  ASSUME Good, Send, NEW r, r = Request,
         r.mode = "open" => (NoneBegun => deployed = serving \/ deployed # r.object),
         r.mode = "open" => \A b \in 1..Len(ops) : Base(b) =>
           IF Begun(ops[b])
             THEN /\ ops[b].runs["revert"] # "succeeded" => r.object # ops[b].original
                  /\ deployed \notin {ops[b].original, ops[b].clone} => deployed # r.object
             ELSE ops[b].kind = "restore" /\ Drivable(b) /\ ops[b].state = "running"
                    /\ ops[b].step \in {"backup", "verify", "import", "promote", "point"} => r.object # ops[b].original,
         Placed'
  PROVE  Sound'
<1>1. /\ Publishes /\ sent' = sent \cup {r} /\ ops' = ops /\ generation' = generation /\ serving' = serving
      /\ deployed' = deployed /\ drv' = drv /\ obj' = obj /\ data' = data /\ total' = total
    BY DEF Send, pointer
<1>2. r.kind = "state" /\ r.object \in Objects /\ r.mode \in Modes /\ ops # <<>> /\ Latest.state = "running"
      /\ (Latest.kind = "recovery" /\ Latest.resolution = "resume" => ops[Len(ops) - 1].state = "running")
    BY <1>1, Publishing
<1>3. \A o : Shut(o) /\ (r.mode # "open" \/ o # r.object) => Shut(o)'
    BY <1>1, <1>2, SendWithin DEF Shut
<1>4. (\A b : Base(b)' <=> Base(b)) /\ (NoneBegun' <=> NoneBegun) /\ (\A b : Drivable(b)' <=> Drivable(b))
      /\ (\A o : Full(o)' <=> Full(o))
    BY <1>1 DEF Base, NoneBegun, Begun, Drivable, Full
<1>5. ASSUME NEW b \in 1..Len(ops), Base(b) PROVE BaseOK(b, ops[b])'
    <2>0. PICK row : row = ops[b]
        OBVIOUS
    <2>1. BaseOK(b, row)
        BY <1>5, <2>0 DEF Good, Sound, Grounded
    <2>2. CASE Begun(row)
        <3>1. r.mode = "open" =>
                  /\ row.runs["revert"] # "succeeded" => r.object # row.original
                  /\ deployed \notin {row.original, row.clone} => deployed # r.object
            BY <1>5, <2>0, <2>2
        <3>2. Carries(b, row)
            BY <2>1, <2>2 DEF BaseOK
        <3>3. Carries(b, row)'
            BY <1>1, <1>3, <1>4, <3>1, <3>2 DEF Carries
        <3>4. BaseOK(b, row)'
            BY <2>2, <3>3 DEF BaseOK, Begun
        <3> QED BY <1>1, <2>0, <3>4
    <2>3. CASE ~Begun(row)
        <3>1. serving = row.original
            BY <2>1, <2>3 DEF BaseOK
        <3>2. CASE row.kind = "restore"
            <4>1. Waits(b, row)
                BY <2>1, <2>3, <3>2 DEF BaseOK
            <4>2. r.mode = "open" /\ Drivable(b) /\ row.state = "running"
                    /\ row.step \in {"backup", "verify", "import", "promote", "point"} => r.object # row.original
                BY <1>5, <2>0, <2>3, <3>2
            <4>3. Waits(b, row)'
                BY <1>1, <1>3, <1>4, <4>1, <4>2 DEF Waits
            <4>4. BaseOK(b, row)'
                BY <1>1, <2>3, <3>1, <4>3 DEF BaseOK, Begun
            <4> QED BY <1>1, <2>0, <4>4
        <3>3. CASE row.kind # "restore"
            <4>1. BaseOK(b, row)'
                BY <1>1, <2>3, <3>1, <3>3 DEF BaseOK, Begun
            <4> QED BY <1>1, <2>0, <4>1
        <3> QED BY <3>2, <3>3
    <2> QED BY <2>2, <2>3
<1>6. Grounded'
    <2>1. PICK o, p : o = serving /\ p = deployed
        OBVIOUS
    <2>2. NoneBegun => Full(o) /\ (p # o => Shut(p))
        BY <2>1 DEF Good, Sound, Grounded, Steady
    <2>3. NoneBegun => Full(o)' /\ (p # o => Shut(p)')
        BY <1>3, <1>4, <2>1, <2>2
    <2>4. NoneBegun => Steady'
        BY <1>1, <2>1, <2>3 DEF Steady, Full
    <2> QED BY <1>1, <1>4, <1>5, <2>4 DEF Good, Sound, Grounded
<1>7. Harmless'
    BY <1>1, <1>2 DEF Good, Sound, Harmless, Base, Spares
<1>8. Linked' /\ OneRun'
    BY <1>1 DEF Good, Sound, Linked, OneRun, NoneBegun, Begun, Base
<1>9. Finals'
    BY <1>1, <1>2 DEF Finals, EndOK, Latest
<1>10. Driving'
    BY <1>1 DEF Good, Sound, Driving, Latest, Op, Top
<1> QED BY <1>6, <1>7, <1>8, <1>9, <1>10 DEF Sound

\* What the holder relies on stays, where the request is for it or for another object.
LEMMA SendSure ==
  ASSUME NEW r, sent' = sent \cup {r}, obj' = obj, NEW o, NEW mode, NEW todo, Sure(o, mode, todo),
         o = r.object => r.mode = mode
  PROVE  Sure(o, mode, todo)'
<1>1. CASE Stays(o, mode)
    BY <1>1, SendWithin DEF Stays, Sure
<1>2. CASE <<o, mode>> \in Ahead(todo)
    BY <1>2 DEF Sure, Ahead
<1> QED BY <1>1, <1>2 DEF Sure

\* The same for a whole place of an operation, and of a recovery.
LEMMA SendPlace ==
  ASSUME Good, NEW r, sent' = sent \cup {r}, obj' = obj, ops' = ops, serving' = serving, drv' = drv,
         drv.stack # <<>>, Op.kind # "recovery",
         Op.kind # "restore" /\ r.object = serving => r.mode = Op.mode,
         Op.kind = "restore" => <<r.object, r.mode>> \in RestoreAgreed(Op)
  PROVE  Placed'
<1>0. PICK row, pc, todo : row = Op /\ pc = drv.pc /\ todo = drv.todo
    OBVIOUS
<1>1. PlaceOK(row, pc, todo) /\ Stepped(row) /\ row.original # row.clone /\ row.kind # "recovery" /\ row.kind \in AllKinds
    <2>1. RowOK(Top, Op, generation) /\ Op \in OpRecords
        BY TopIn DEF Good
    <2>2. Op.original # Op.clone /\ Stepped(Op) /\ Op.kind \in AllKinds
        BY <2>1, Fields, Bounds DEF RowOK, Objects
    <2>3. PlaceOK(Op, drv.pc, drv.todo)
        BY Driven DEF Good
    <2> QED BY <1>0, <2>2, <2>3
<1>2. ASSUME NEW o, NEW mode, Sure(o, mode, todo), o = r.object => r.mode = mode PROVE Sure(o, mode, todo)'
    BY <1>2, SendSure
<1>3. PlaceOK(row, pc, todo)'
    <2>1. CASE row.kind # "restore"
        <3>1. serving = r.object => r.mode = row.mode
            BY <1>0, <2>1
        <3>2. /\ row.kind = "maintenance" /\ pc = "acked" => Sure(serving, row.mode, todo)'
              /\ row.kind = "backup" /\ (row.step = "verify" \/ (row.step = "open" /\ pc = "acked")) =>
                   Sure(serving, "open", todo)'
              /\ row.kind = "migrate" /\ row.step = "open" /\ pc = "acked" => Sure(serving, "open", todo)'
            <4>0. PICK s : s = serving
                OBVIOUS
            <4>1. /\ row.kind = "maintenance" /\ pc = "acked" => Sure(s, row.mode, todo)
                  /\ row.kind = "backup" /\ (row.step = "verify" \/ (row.step = "open" /\ pc = "acked")) =>
                       Sure(s, "open", todo) /\ row.mode = "open"
                  /\ row.kind = "migrate" /\ row.step = "open" /\ pc = "acked" => Sure(s, "open", todo) /\ row.mode = "open"
                BY <1>1, <4>0 DEF PlaceOK, Stepped
            <4>2. /\ row.kind = "maintenance" /\ pc = "acked" => Sure(s, row.mode, todo)'
                  /\ row.kind = "backup" /\ (row.step = "verify" \/ (row.step = "open" /\ pc = "acked")) =>
                       Sure(s, "open", todo)'
                  /\ row.kind = "migrate" /\ row.step = "open" /\ pc = "acked" => Sure(s, "open", todo)'
                BY <1>2, <3>1, <4>0, <4>1
            <4> QED BY <4>0, <4>2 DEF Sure, Stays
        <3> QED BY <1>1, <2>1, <3>2 DEF PlaceOK, Ahead
    <2>2. CASE row.kind = "restore"
        <3>0. PICK x, y : x = row.original /\ y = row.clone
            OBVIOUS
        <3>1. <<r.object, r.mode>> \in RestoreAgreed(row) /\ x # y
            BY <1>0, <1>1, <2>2, <3>0
        <3>2. /\ row.step = "list" => (x = r.object => r.mode = "open")
              /\ row.step = "restrict" => (x = r.object => r.mode = "read-only")
              /\ row.step \in {"promote", "point", "serve", "rewind", "check"} => (y = r.object => r.mode = "open")
              /\ row.step = "open" => (x = r.object => r.mode = "open")
            BY <3>0, <3>1 DEF RestoreAgreed
        <3>3. /\ row.step = "list" => Sure(x, "open", todo)
              /\ row.step = "restrict" /\ pc = "acked" => Sure(x, "read-only", todo)
              /\ row.step = "promote" /\ pc = "acked" => Sure(y, "open", todo)
              /\ row.step \in {"point", "serve", "rewind", "check"} => Sure(y, "open", todo)
              /\ row.step = "open" /\ pc = "acked" => Sure(x, "open", todo)
            BY <1>1, <2>2, <3>0 DEF PlaceOK
        <3>4. /\ row.step = "list" => Sure(x, "open", todo)'
              /\ row.step = "restrict" /\ pc = "acked" => Sure(x, "read-only", todo)'
              /\ row.step = "promote" /\ pc = "acked" => Sure(y, "open", todo)'
              /\ row.step \in {"point", "serve", "rewind", "check"} => Sure(y, "open", todo)'
              /\ row.step = "open" /\ pc = "acked" => Sure(x, "open", todo)'
            BY <1>2, <3>2, <3>3
        <3> QED BY <1>1, <2>2, <3>0, <3>4 DEF PlaceOK
    <2> QED BY <2>1, <2>2
<1>4. Op' = row /\ drv'.pc = pc /\ drv'.todo = todo
    BY <1>0 DEF Op, Top
<1> QED BY <1>1, <1>3, <1>4 DEF Placed

LEMMA SendRecoveryPlace ==
  ASSUME Good, NEW r, sent' = sent \cup {r}, obj' = obj, ops' = ops, serving' = serving, deployed' = deployed, drv' = drv,
         drv.stack # <<>>, drv.todo # <<>>, Op.kind = "recovery", <<r.object, r.mode>> \in Ahead(drv.todo)
  PROVE  Placed'
<1>0. PICK row, pc, todo, n, s : row = Op /\ pc = drv.pc /\ todo = drv.todo /\ n = Past /\ s = serving
    OBVIOUS
<1>1. PICK base : base = ops[n]
    OBVIOUS
<1>2. /\ RecoveryOK(row, pc, todo) /\ todo # <<>> /\ row.kind = "recovery" /\ <<r.object, r.mode>> \in Ahead(todo)
      /\ \A b : Base(b) => b = n
    BY <1>0, RecoveryDriven, PastBase
<1>3. base.original # base.clone /\ Base(n) /\ n \in 1..Len(ops)
    BY <1>0, <1>1, PastBase
<1>4. ASSUME NEW o, NEW mode, Sure(o, mode, todo), o = r.object => r.mode = mode PROVE Sure(o, mode, todo)'
    BY <1>4, SendSure
<1>5. (\A b : Base(b)' <=> Base(b)) /\ Ahead(todo)' = Ahead(todo)
    BY DEF Base, Ahead
<1>6. row.step = "open" /\ pc = "acked" => Sure(serving, "open", todo)'
    <2>1. row.step = "open" /\ pc = "acked" => Sure(s, "open", todo) /\ r.mode = "open"
        BY <1>0, <1>2 DEF RecoveryOK
    <2>2. row.step = "open" /\ pc = "acked" => Sure(s, "open", todo)'
        BY <1>4, <2>1
    <2> QED BY <1>0, <2>2 DEF Sure, Stays
<1>7. pc \in {"kept", "revert", "settle"} => Passes(base, pc, todo)'
    <2> SUFFICES ASSUME pc \in {"kept", "revert", "settle"} PROVE Passes(base, pc, todo)'
        OBVIOUS
    <2>0. PICK x, y : x = base.original /\ y = base.clone
        OBVIOUS
    <2>1. Passes(base, pc, todo)
        BY <1>1, <1>2, <1>3 DEF RecoveryOK
    <2>2. pc = "kept" => Sure(y, "open", todo) /\ Ahead(todo) \subseteq {<<x, "inspect">>, <<y, "open">>}
        BY <2>0, <2>1 DEF Passes
    <2>3. pc = "settle" => Sure(x, "open", todo) /\ Ahead(todo) \subseteq {<<x, "open">>, <<y, "inspect">>}
        BY <2>0, <2>1 DEF Passes
    <2>4. pc = "kept" => (y = r.object => r.mode = "open")
        BY <1>2, <1>3, <2>0, <2>2
    <2>5. pc = "settle" => (x = r.object => r.mode = "open")
        BY <1>2, <1>3, <2>0, <2>3
    <2>6. /\ pc = "kept" => Sure(y, "open", todo)'
          /\ pc = "settle" => Sure(x, "open", todo)'
        BY <1>4, <2>2, <2>3, <2>4, <2>5
    <2> QED BY <1>2, <1>5, <2>0, <2>1, <2>6 DEF Passes, Begun
<1>8. \A b \in 1..Len(ops) : Base(b) => b = n /\ ops[b] = base
    BY <1>1, <1>2
<1>9. RecoveryOK(row, pc, todo)'
    <2>1. pc \in {"kept", "revert", "settle"} => \A b \in 1..Len(ops') : Base(b)' => Passes(ops[b], pc, todo)'
        <3> SUFFICES ASSUME pc \in {"kept", "revert", "settle"}, NEW b \in 1..Len(ops'), Base(b)' PROVE Passes(ops[b], pc, todo)'
            OBVIOUS
        <3>1. ops'[b] = base
            BY <1>5, <1>8
        <3> QED BY <1>7, <3>1
    <2>2. row.step = "open" => \A b \in 1..Len(ops) : Base(b) => ops[b].kind # "restore"
        BY <1>2 DEF RecoveryOK
    <2>3. row.step = "open" => \A b \in 1..Len(ops') : Base(b)' => ops'[b].kind # "restore"
        BY <1>5, <2>2
    <2>4. /\ row.step \notin {"reconcile", "resume"} /\ pc # "step" /\ pc # "arm"
          /\ row.step = "restrict" /\ pc = "acked" =>
               /\ \A p \in Ahead(todo) : p = <<serving, "closed">>
               /\ row.resolution = "open" => \A b \in 1..Len(ops) : Base(b) => ops[b].kind # "restore"
          /\ row.step = "open" => row.resolution = "open" /\ \A p \in Ahead(todo) : p = <<serving, "open">>
          /\ pc \in {"kept", "revert", "settle"} => row.step = "restrict" /\ row.resolution = "open"
        BY <1>2 DEF RecoveryOK
    <2> QED BY <1>5, <1>6, <2>1, <2>3, <2>4 DEF RecoveryOK
<1>10. Op' = row /\ drv'.pc = pc /\ drv'.todo = todo
    BY <1>0 DEF Op, Top
<1> QED BY <1>2, <1>9, <1>10 DEF Placed

LEMMA SendSound == Good /\ Send => Sound'
<1> SUFFICES ASSUME Good, Send PROVE Sound'
    OBVIOUS
<1>0. PICK r : r = Request
    OBVIOUS
<1>1. /\ Publishes /\ sent' = sent \cup {r} /\ ops' = ops /\ serving' = serving
      /\ deployed' = deployed /\ drv' = drv /\ obj' = obj
    BY <1>0 DEF Send, pointer
<1>2. drv.stack # <<>> /\ drv.todo # <<>> /\ <<r.object, r.mode>> \in Ahead(drv.todo)
    BY <1>0, <1>1, Publishing
<1>3. CASE Op.kind = "restore"
    <2>1. /\ <<r.object, r.mode>> \in RestoreAgreed(Op) /\ Op.original # Op.clone /\ Base(Top) /\ Drivable(Top)
          /\ BaseOK(Top, Op) /\ Op.state = "running" /\ Op = ops[Top] /\ Top \in 1..Len(ops) /\ Len(ops) \in Nat
        BY <1>1, <1>2, <1>3, AsksFor
    <2>2. Placed'
        BY <1>1, <1>2, <1>3, <2>1, SendPlace
    <2>3. PICK row, t : row = Op /\ t = Top
        OBVIOUS
    <2>4. \A b : Base(b) => b = t /\ ops[b] = row
        BY <2>1, <2>3, OneBase
    <2>5. /\ r.object \in {row.original, row.clone}
          /\ r.mode = "open" /\ r.object = row.original => row.step \in {"list", "open"}
        <3>1. row.step \in RestoreSteps /\ <<r.object, r.mode>> \in RestoreAgreed(row) /\ row.original # row.clone
            BY <1>2, <1>3, <2>1, <2>3, TopIn DEF Good, RowOK, Stepped
        <3> QED BY <3>1 DEF RestoreAgreed, RestoreSteps
    <2>6. CASE Begun(row)
        <3>1. /\ row.runs["revert"] # "succeeded" => row.step \notin {"list", "open"}
            BY <2>1, <2>3, <2>6 DEF BaseOK, Carries
        <3>2. ~NoneBegun
            BY <2>1, <2>3, <2>6 DEF NoneBegun
        <3>3. r.mode = "open" => \A b \in 1..Len(ops) : Base(b) =>
           IF Begun(ops[b])
             THEN /\ ops[b].runs["revert"] # "succeeded" => r.object # ops[b].original
                  /\ deployed \notin {ops[b].original, ops[b].clone} => deployed # r.object
             ELSE ops[b].kind = "restore" /\ Drivable(b) /\ ops[b].state = "running"
                    /\ ops[b].step \in {"backup", "verify", "import", "promote", "point"} => r.object # ops[b].original
            BY <2>4, <2>5, <2>6, <3>1
        <3> QED BY <1>0, <2>2, <3>2, <3>3, SendStands
    <2>7. CASE ~Begun(row)
        <3>1. serving = row.original /\ deployed # row.clone
            BY <1>3, <2>1, <2>3, <2>7 DEF BaseOK, Waits
        <3>2. deployed = serving \/ deployed # r.object
            BY <2>5, <3>1
        <3>3. r.mode = "open" => \A b \in 1..Len(ops) : Base(b) =>
           IF Begun(ops[b])
             THEN /\ ops[b].runs["revert"] # "succeeded" => r.object # ops[b].original
                  /\ deployed \notin {ops[b].original, ops[b].clone} => deployed # r.object
             ELSE ops[b].kind = "restore" /\ Drivable(b) /\ ops[b].state = "running"
                    /\ ops[b].step \in {"backup", "verify", "import", "promote", "point"} => r.object # ops[b].original
            BY <2>4, <2>5, <2>7
        <3> QED BY <1>0, <2>2, <3>2, <3>3, SendStands
    <2> QED BY <2>6, <2>7
<1>4. CASE Op.kind \notin {"restore", "recovery"}
    <2>1. /\ Base(Top) /\ Op = ops[Top] /\ Top \in 1..Len(ops) /\ Len(ops) \in Nat /\ PlaceOK(Op, drv.pc, drv.todo)
        BY <1>2, <1>4, Driven DEF Good
    <2>2. <<r.object, r.mode>> = <<serving, Op.mode>>
        BY <1>2, <1>4, <2>1 DEF PlaceOK
    <2>3. Placed'
        BY <1>1, <1>2, <1>4, <2>2, SendPlace
    <2>4. \A b : Base(b) => ops[b].kind # "restore" /\ ~Begun(ops[b])
        BY <1>4, <2>1, OneBase DEF Begun
    <2>5. deployed = serving \/ deployed # r.object
        BY <2>2
    <2> QED BY <1>0, <2>3, <2>4, <2>5, SendStands
<1>5. CASE Op.kind = "recovery"
    <2>1. Placed'
        BY <1>1, <1>2, <1>5, SendRecoveryPlace
    <2>2. PICK n, base : n = Past /\ base = ops[n]
        OBVIOUS
    <2>3. \A b : Base(b) => b = n /\ ops[b] = base
        BY <1>2, <1>5, <2>2, PastBase
    <2>4. Base(n) /\ n \in 1..Len(ops) /\ BaseOK(n, base) /\ base.original # base.clone
        BY <1>2, <1>5, <2>2, PastBase
    <2>5. RecoveryOK(Op, drv.pc, drv.todo) /\ Op.kind = "recovery" /\ Stepped(Op)
        BY <1>2, <1>5, RecoveryDriven
    <2>6. drv.pc \in Places /\ drv.pc # "step" /\ drv.pc # "arm" /\ Op.step \notin {"reconcile", "resume"}
        BY <1>2, <2>5, TopIn DEF RecoveryOK, Good
    <2>7. CASE drv.pc = "acked" /\ Op.step = "restrict"
        <3>1. r.mode # "open"
            BY <1>2, <2>5, <2>7 DEF RecoveryOK
        <3> QED BY <1>0, <2>1, <3>1, SendStands
    <2>8. CASE drv.pc = "acked" /\ Op.step = "open"
        <3>1. r.object = serving /\ base.kind # "restore"
            BY <1>2, <2>2, <2>4, <2>5, <2>8 DEF RecoveryOK
        <3>2. \A b : Base(b) => ops[b].kind # "restore" /\ ~Begun(ops[b])
            BY <2>3, <3>1 DEF Begun
        <3>3. deployed = serving \/ deployed # r.object
            BY <3>1
        <3> QED BY <1>0, <2>1, <3>2, <3>3, SendStands
    <2>9. CASE drv.pc = "kept"
        <3>1. Begun(base) /\ <<r.object, r.mode>> \in {<<base.original, "inspect">>, <<base.clone, "open">>}
            BY <1>2, <2>2, <2>4, <2>5, <2>9 DEF RecoveryOK, Passes
        <3>2. ~NoneBegun
            BY <2>2, <2>4, <3>1 DEF NoneBegun
        <3>3. r.mode = "open" => r.object = base.clone
            BY <3>1
        <3>4. r.mode = "open" => \A b \in 1..Len(ops) : Base(b) =>
           IF Begun(ops[b])
             THEN /\ ops[b].runs["revert"] # "succeeded" => r.object # ops[b].original
                  /\ deployed \notin {ops[b].original, ops[b].clone} => deployed # r.object
             ELSE ops[b].kind = "restore" /\ Drivable(b) /\ ops[b].state = "running"
                    /\ ops[b].step \in {"backup", "verify", "import", "promote", "point"} => r.object # ops[b].original
            BY <2>3, <2>4, <3>1, <3>3
        <3> QED BY <1>0, <2>1, <3>2, <3>4, SendStands
    <2>10. CASE drv.pc = "settle"
        <3>1. /\ Begun(base) => base.runs["revert"] = "succeeded"
              /\ <<r.object, r.mode>> \in {<<base.original, "open">>, <<base.clone, "inspect">>}
              /\ Op.resolution = "open"
            BY <1>2, <2>2, <2>4, <2>5, <2>10 DEF RecoveryOK, Passes
        <3>2. r.mode = "open" => r.object = base.original
            BY <3>1
        <3>3. ~Drivable(n)
            BY <1>2, <1>5, <2>2, <3>1, OpensPast
        <3>4. r.mode = "open" => (NoneBegun => deployed = serving \/ deployed # r.object)
            BY <2>2, <2>4, <3>2 DEF NoneBegun, BaseOK
        <3>5. r.mode = "open" => \A b \in 1..Len(ops) : Base(b) =>
           IF Begun(ops[b])
             THEN /\ ops[b].runs["revert"] # "succeeded" => r.object # ops[b].original
                  /\ deployed \notin {ops[b].original, ops[b].clone} => deployed # r.object
             ELSE ops[b].kind = "restore" /\ Drivable(b) /\ ops[b].state = "running"
                    /\ ops[b].step \in {"backup", "verify", "import", "promote", "point"} => r.object # ops[b].original
            BY <2>3, <3>1, <3>2, <3>3
        <3> QED BY <1>0, <2>1, <3>4, <3>5, SendStands
    <2>11. CASE drv.pc = "revert"
        BY <1>2, <2>2, <2>4, <2>5, <2>11 DEF RecoveryOK, Passes
    <2>12. Op.step \in {"restrict", "open"}
        BY <1>5, <2>5, <2>6 DEF Stepped
    <2> QED BY <2>6, <2>7, <2>8, <2>9, <2>10, <2>11, <2>12 DEF Places
<1>6. Op.kind \in AllKinds
    BY <1>2, TopIn, Fields DEF Good
<1> QED BY <1>3, <1>4, <1>5, <1>6 DEF AllKinds

\* The answer: the object is in the mode asked for at the newest generation, and nothing newer is on its way.
LEMMA AckedSound == Good /\ Acked => Sound'
<1> SUFFICES ASSUME Good, Acked PROVE Sound'
    OBVIOUS
<1>0. PICK r, row, pc, todo, rest : r = Request /\ row = Op /\ pc = drv.pc /\ todo = drv.todo /\ rest = Tail(drv.todo)
    OBVIOUS
<1>1. /\ Publishes /\ Acknowledged /\ drv' = [drv EXCEPT !.todo = rest] /\ ops' = ops /\ generation' = generation
      /\ serving' = serving /\ deployed' = deployed /\ obj' = obj /\ data' = data /\ total' = total /\ sent' = sent
    BY <1>0 DEF Acked, pointer, world
<1>2. /\ drv.stack # <<>> /\ todo # <<>> /\ todo \in Seq(Objects \X Modes) /\ todo[1] = <<r.object, r.mode>>
      /\ r.generation = generation
    BY <1>0, <1>1, Publishing, TopIn DEF Good
<1>3. obj[r.object] = [generation |-> r.generation, mode |-> r.mode]
    BY <1>0, <1>1 DEF Acknowledged
<1>4. Stays(r.object, r.mode)
    <2>1. obj[r.object].mode = r.mode /\ obj[r.object].generation = generation
        BY <1>2, <1>3
    <2>2. generation \in Nat /\ \A q \in sent : q.generation \in Nat /\ q.generation <= generation
        BY Bounds DEF Good, IInv, Records, Types, Requests, Allocated
    <2> QED BY <2>1, <2>2 DEF Stays, Within
<1>5. /\ Ahead(rest) \subseteq Ahead(todo)
      /\ \A p \in Ahead(todo) : p = todo[1] \/ p \in Ahead(rest)
    <2>1. Len(todo) \in Nat \ {0} /\ rest = Tail(todo)
        BY <1>0, <1>2, EmptySeq
    <2>2. Len(rest) = Len(todo) - 1 /\ \A k \in 1..Len(rest) : rest[k] = todo[k + 1] /\ k + 1 \in 1..Len(todo)
        BY <1>2, <2>1
    <2>3. ASSUME NEW k \in 1..Len(todo), k # 1 PROVE todo[k] = rest[k - 1] /\ k - 1 \in 1..Len(rest)
        BY <2>1, <2>2, <2>3
    <2>4. ASSUME NEW p \in Ahead(todo) PROVE p = todo[1] \/ p \in Ahead(rest)
        <3>1. PICK k \in 1..Len(todo) : p = todo[k]
            BY DEF Ahead
        <3> QED BY <2>3, <3>1 DEF Ahead
    <2>5. ASSUME NEW p \in Ahead(rest) PROVE p \in Ahead(todo)
        <3>1. PICK k \in 1..Len(rest) : p = rest[k]
            BY DEF Ahead
        <3> QED BY <2>2, <3>1 DEF Ahead
    <2> QED BY <2>4, <2>5
<1>6. ASSUME NEW o, NEW mode, Sure(o, mode, todo) PROVE Sure(o, mode, rest)
    <2>1. CASE Stays(o, mode)
        BY <2>1 DEF Sure
    <2>2. CASE <<o, mode>> \in Ahead(todo)
        BY <1>2, <1>4, <1>5, <2>2 DEF Sure
    <2> QED BY <1>6, <2>1, <2>2 DEF Sure
<1>7. Quiet /\ Alike
    BY <1>1 DEF Quiet, Alike, Kept
<1>8. /\ drv'.stack = drv.stack /\ drv'.pc = pc /\ drv'.todo = rest /\ Op' = row
    BY <1>0, <1>1 DEF Good, IInv, Holder, Drivers, Op, Top
<1>9. Placed'
    <2>1. CASE row.kind # "recovery"
        <3>1. PlaceOK(row, pc, todo)
            BY <1>0, <1>2, <2>1, Driven DEF Good
        <3>2. PlaceOK(row, pc, rest)
            BY <1>5, <1>6, <3>1 DEF PlaceOK
        <3>3. PlaceOK(row, pc, rest)'
            BY <1>7, <3>2, QuietSame DEF Good
        <3> QED BY <1>8, <2>1, <3>3 DEF Placed
    <2>2. CASE row.kind = "recovery"
        <3>1. RecoveryOK(row, pc, todo)
            BY <1>0, <1>2, <2>2, Driven DEF Good
        <3>2. ASSUME NEW b, Passes(b, pc, todo) PROVE Passes(b, pc, rest)
            <4>1. pc # "revert"
                BY <1>2, <3>2 DEF Passes
            <4> QED BY <1>5, <1>6, <3>2, <4>1 DEF Passes
        <3>3. /\ row.step \notin {"reconcile", "resume"} /\ pc # "step"
              /\ row.step = "open" => \A b \in 1..Len(ops) : Base(b) => ops[b].kind # "restore"
            BY <1>2, <3>1 DEF RecoveryOK
        <3>4. RecoveryOK(row, pc, rest)
            BY <1>5, <1>6, <3>1, <3>2, <3>3 DEF RecoveryOK
        <3>5. RecoveryOK(row, pc, rest)'
            <4>1. \A b, todo2 : Passes(b, pc, todo2)' <=> Passes(b, pc, todo2)
                BY <1>7, QuietSame DEF Good
            <4>2. \A o, mode, todo2 : Sure(o, mode, todo2)' <=> Sure(o, mode, todo2)
                <5>1. \A o, mode : Stays(o, mode)' <=> Stays(o, mode)
                    BY <1>7, QuietSame DEF Good
                <5> QED BY <5>1 DEF Sure, Ahead
            <4>3. \A b : Base(b)' <=> Base(b)
                BY <1>1 DEF Base
            <4>4. Ahead(rest)' = Ahead(rest)
                BY DEF Ahead
            <4> QED BY <1>1, <3>3, <3>4, <4>1, <4>2, <4>3, <4>4 DEF RecoveryOK
        <3> QED BY <1>8, <2>2, <3>5 DEF Placed
    <2> QED BY <2>1, <2>2
<1>10. \A o : (Shut(o)' <=> Shut(o)) /\ (Stays(o, "open")' <=> Stays(o, "open"))
    BY <1>7, QuietSame DEF Good
<1>11. Grounded' /\ (\A b : Landed(b)' <=> Landed(b))
    BY <1>1, <1>10, StandsGrounded
<1>12. Harmless'
    BY <1>1 DEF Good, Sound, Harmless, Base, Spares
<1>13. Stays(serving, "open") => Stays(serving, "open")'
    BY <1>1 DEF Stays, Within
<1> QED BY <1>1, <1>8, <1>9, <1>11, <1>12, <1>13, Standing

\* No holder is behind the objects: it took a fresh generation.
LEMMA AdoptSound == Good /\ Adopt => Sound'
<1> SUFFICES ASSUME Good, Adopt PROVE FALSE
    OBVIOUS
<1>1. Publishes /\ Request.generation < obj[Request.object].generation
    BY DEF Adopt
<1>2. Request.generation = generation /\ Request.object \in Objects
    BY <1>1, Publishing
<1>3. obj[Request.object].generation <= generation /\ generation \in Nat /\ obj[Request.object].generation \in Nat
    BY <1>2, Bounds DEF Good, IInv, Records, Types, Allocated
<1> QED BY <1>1, <1>2, <1>3

LEMMA StopSound == Good /\ Stop => Sound'
<1> SUFFICES ASSUME Good, Stop PROVE Sound'
    OBVIOUS
<1>1. /\ ops' = ops /\ generation' = generation /\ serving' = serving /\ deployed' = deployed /\ obj' = obj
      /\ data' = data /\ total' = total /\ sent' = sent /\ drv'.stack = <<>>
    BY DEF Stop, pointer, world, Idle
<1>2. Quiet /\ Alike
    BY <1>1 DEF Quiet, Alike, Kept
<1>3. \A o : (Shut(o)' <=> Shut(o)) /\ (Stays(o, "open")' <=> Stays(o, "open"))
    BY <1>2, QuietSame DEF Good
<1>4. Grounded' /\ (\A b : Landed(b)' <=> Landed(b)) /\ (\A b : Remains(b)' <=> Remains(b))
    BY <1>1, <1>3, StandsGrounded
<1>5. Harmless' /\ Linked' /\ OneRun'
    BY <1>1 DEF Good, Sound, Harmless, Base, Spares, Linked, OneRun, NoneBegun, Begun
<1>6. Finals'
    <2>1. Stays(serving, "open")' <=> Stays(serving, "open")
        BY <1>1 DEF Stays, Within
    <2>2. ASSUME NEW row, EndOK(row) PROVE EndOK(row)'
        BY <1>1, <1>4, <2>1, <2>2 DEF EndOK, OpenOf, Base, Begun
    <2> QED BY <1>1, <2>1, <2>2 DEF Good, Sound, Finals, Latest
<1>7. Driving' /\ Placed'
    BY <1>1 DEF Driving, Placed
<1> QED BY <1>4, <1>5, <1>6, <1>7 DEF Sound

----------------------------------------------------------------------------
(* Runs *)

\* A run of a record moves to a status.
Ran(row, old, d, s) ==
  /\ Kept(row, old) /\ row.resolution = old.resolution /\ row.step = old.step /\ row.mode = old.mode
  /\ row.state = old.state /\ row.code = old.code /\ row.generation = old.generation /\ row.failure = old.failure
  /\ row.bookmark <=> old.bookmark
  /\ row.dump = old.dump /\ row.runs[d] = s /\ \A e \in Deploys : e # d => row.runs[e] = old.runs[e]

LEMMA RunRow ==
  ASSUME IInv, NEW i \in 1..Len(ops), NEW d \in Deploys, NEW s, RunSet(i, d, s)
  PROVE  \E row : Ran(row, ops[i], d, s) /\ ops' = [ops EXCEPT ![i] = row]
<1> DEFINE row == [ops[i] EXCEPT !.runs[d] = s]
<1>1. ops[i] \in OpRecords /\ ops \in Seq(OpRecords)
    BY DEF IInv, Records, Types
<1>2. ops' = [ops EXCEPT ![i] = row]
    BY <1>1 DEF RunSet
<1>3. /\ row.kind = ops[i].kind /\ row.clone = ops[i].clone /\ row.original = ops[i].original
      /\ row.recovers = ops[i].recovers
    BY <1>1 DEF OpRecords
<1>4. /\ row.resolution = ops[i].resolution /\ row.step = ops[i].step /\ row.mode = ops[i].mode
      /\ row.state = ops[i].state /\ row.code = ops[i].code /\ row.generation = ops[i].generation
      /\ row.failure = ops[i].failure /\ row.dump = ops[i].dump /\ row.bookmark = ops[i].bookmark
    BY <1>1 DEF OpRecords
<1>5. row.runs[d] = s /\ \A e \in Deploys : e # d => row.runs[e] = ops[i].runs[e]
    BY <1>1 DEF OpRecords
<1> HIDE DEF row
<1>6. Ran(row, ops[i], d, s)
    BY <1>3, <1>4, <1>5 DEF Ran, Kept
<1> QED BY <1>2, <1>6

LEMMA RunAlike ==
  ASSUME IInv, NEW i \in 1..Len(ops), NEW d, NEW s, NEW row, Ran(row, ops[i], d, s), ops' = [ops EXCEPT ![i] = row]
  PROVE  /\ Alike /\ Len(ops') = Len(ops) /\ Len(ops) \in Nat
         /\ \A k \in 1..Len(ops) : ops'[k] = IF k = i THEN row ELSE ops[k]
         /\ \A b : Base(b)' <=> Base(b)
         /\ \A b \in 1..Len(ops) : Drivable(b)' <=> Drivable(b)
<1>1. ops \in Seq(OpRecords) /\ Len(ops) \in Nat /\ Len(ops') = Len(ops)
    BY DEF IInv, Records, Types
<1>2. \A k \in 1..Len(ops) : ops'[k] = IF k = i THEN row ELSE ops[k]
    BY <1>1
<1>3. Alike
    BY <1>1, <1>2 DEF Alike, Ran, Kept
<1> QED BY <1>1, <1>2, <1>3, AlikeBase

LEMMA RunStill ==
  ASSUME Good, NEW i \in 1..Len(ops), NEW d, NEW s, NEW row, Ran(row, ops[i], d, s), ops' = [ops EXCEPT ![i] = row],
         Quiet, generation' = generation, drv' = drv
  PROVE  Linked' /\ Harmless' /\ Driving'
<1>1. /\ Alike /\ Len(ops') = Len(ops) /\ Len(ops) \in Nat
      /\ \A k \in 1..Len(ops) : ops'[k] = IF k = i THEN row ELSE ops[k]
      /\ \A b : Base(b)' <=> Base(b)
    BY RunAlike DEF Good
<1>2. /\ \A k \in 1..Len(ops) : /\ ops'[k].kind = ops[k].kind /\ ops'[k].resolution = ops[k].resolution
                                /\ ops'[k].recovers = ops[k].recovers /\ ops'[k].step = ops[k].step
                                /\ ops'[k].state = ops[k].state /\ ops'[k].generation = ops[k].generation
      /\ \A k \in 1..Len(ops) : \A o : Spares(o, ops'[k]) <=> Spares(o, ops[k])
    BY <1>1 DEF Ran, Kept, Spares
<1>3. Linked'
    BY <1>1, <1>2 DEF Good, Sound, Linked
<1>4. Harmless'
    BY <1>1, <1>2 DEF Good, Sound, Harmless, Quiet
<1>5. Driving'
    <2>1. CASE drv.stack = <<>>
        BY <2>1 DEF Driving
    <2>2. CASE drv.stack # <<>>
        <3>1. Top \in 1..Len(ops) /\ Top' = Top /\ Len(ops) \in 1..Len(ops) /\ Op = ops[Top]
            BY <2>2, Driven DEF Good, Top
        <3>2. /\ Op'.state = Op.state /\ Op'.generation = Op.generation /\ Op'.kind = Op.kind /\ Op'.step = Op.step
              /\ Latest'.state = Latest.state /\ Latest'.kind = Latest.kind /\ Latest'.step = Latest.step
              /\ Latest'.resolution = Latest.resolution
            BY <1>1, <1>2, <3>1 DEF Op, Latest
        <3> QED BY <1>1, <2>2, <3>2 DEF Good, Sound, Driving
    <2> QED BY <2>1, <2>2
<1> QED BY <1>3, <1>4, <1>5

LEMMA RunGrounded ==
  ASSUME Good, NEW i \in 1..Len(ops), NEW d, NEW s, NEW row, Ran(row, ops[i], d, s), ops' = [ops EXCEPT ![i] = row],
         Quiet, Base(i) => BaseOK(i, row), Base(i) /\ Begun(ops[i]) => Begun(row)
  PROVE  Grounded'
<1>1. /\ Alike /\ Len(ops') = Len(ops) /\ Len(ops) \in Nat
      /\ \A k \in 1..Len(ops) : ops'[k] = IF k = i THEN row ELSE ops[k]
      /\ \A b : Base(b)' <=> Base(b)
    BY RunAlike DEF Good
<1>2. ASSUME NEW b \in 1..Len(ops), Base(b) PROVE BaseOK(b, ops[b])'
    <2>0. PICK new : new = ops'[b]
        OBVIOUS
    <2>1. BaseOK(b, new)
        BY <1>1, <1>2, <2>0 DEF Good, Sound, Grounded
    <2>2. BaseOK(b, new)'
        BY <1>1, <2>1, QuietSame DEF Good
    <2> QED BY <2>0, <2>2
<1>3. NoneBegun' => NoneBegun
    BY <1>1 DEF NoneBegun, Begun
<1>4. Steady' <=> Steady
    BY <1>1, QuietSame DEF Good
<1> QED BY <1>1, <1>2, <1>3, <1>4 DEF Good, Sound, Grounded, Quiet

\* One run at a time: it goes on beside no other, or another status changes nothing.
LEMMA RunOne ==
  ASSUME Good, NEW i \in 1..Len(ops), NEW d \in Deploys, NEW s, NEW row, Ran(row, ops[i], d, s),
         ops' = [ops EXCEPT ![i] = row], Quiet,
         \/ s # "running" /\ (Base(i) /\ Begun(row) => Begun(ops[i]))
         \/ s = "running" /\ NoneDeploys /\ Base(i)
              /\ \/ d \in {"list", "migrate"} /\ ops[i].original = serving /\ ~Begun(row)
                 \/ d \in {"point", "revert"} /\ ops[i].kind = "restore"
  PROVE  OneRun'
<1>1. /\ Len(ops') = Len(ops) /\ Len(ops) \in Nat
      /\ \A k \in 1..Len(ops) : ops'[k] = IF k = i THEN row ELSE ops[k]
      /\ \A b : Base(b)' <=> Base(b)
    BY RunAlike DEF Good
<1>2. \A k \in 1..Len(ops), e \in Deploys : ops'[k].runs[e] = IF k = i /\ e = d THEN s ELSE ops[k].runs[e]
    BY <1>1 DEF Ran
<1>3. \A k \in 1..Len(ops) : ops'[k].original = ops[k].original /\ ops'[k].kind = ops[k].kind
    BY <1>1 DEF Ran, Kept
<1>4. serving' = serving
    BY DEF Quiet
<1>5. CASE s # "running" /\ (Base(i) /\ Begun(row) => Begun(ops[i]))
    <2>1. \A k \in 1..Len(ops), e \in Deploys : ops'[k].runs[e] = "running" => ops[k].runs[e] = "running"
        BY <1>2, <1>5
    <2>2. NoneBegun => NoneBegun'
        BY <1>1, <1>5 DEF NoneBegun, Begun
    <2> QED BY <1>1, <1>3, <1>4, <2>1, <2>2 DEF Good, Sound, OneRun
<1>6. CASE s = "running" /\ NoneDeploys /\ Base(i)
              /\ \/ d \in {"list", "migrate"} /\ ops[i].original = serving /\ ~Begun(row)
                 \/ d \in {"point", "revert"} /\ ops[i].kind = "restore"
    <2>1. \A k \in 1..Len(ops), e \in Deploys : ops'[k].runs[e] = "running" => k = i /\ e = d
        BY <1>2, <1>6 DEF NoneDeploys
    <2>2. ~Begun(row) => NoneBegun'
        <3> SUFFICES ASSUME ~Begun(row), NEW b \in 1..Len(ops'), Base(b)' PROVE ~Begun(ops[b])'
            BY DEF NoneBegun
        <3>1. b = i
            BY <1>1, <1>6, OneBase
        <3>2. ops'[b] = row
            BY <1>1, <3>1
        <3> QED BY <3>2 DEF Begun
    <2> QED BY <1>1, <1>3, <1>4, <1>6, <2>1, <2>2 DEF OneRun
<1> QED BY <1>5, <1>6

LEMMA RunPlace ==
  ASSUME Good, NEW i \in 1..Len(ops), NEW d, NEW s, NEW row, Ran(row, ops[i], d, s), ops' = [ops EXCEPT ![i] = row],
         Quiet, drv' = drv, drv.stack # <<>> => Op.kind # "recovery"
  PROVE  Placed'
<1> SUFFICES ASSUME drv.stack # <<>> PROVE Placed'
    BY DEF Placed
<1>1. /\ Alike /\ \A k \in 1..Len(ops) : ops'[k] = IF k = i THEN row ELSE ops[k]
    <2>1. IInv /\ i \in 1..Len(ops) /\ Ran(row, ops[i], d, s) /\ ops' = [ops EXCEPT ![i] = row]
        BY DEF Good
    <2> QED BY ONLY <2>1, RunAlike
<1>2. PICK old, new, pc, todo : old = Op /\ new = Op' /\ pc = drv.pc /\ todo = drv.todo
    OBVIOUS
<1>3. Top \in 1..Len(ops) /\ PlaceOK(old, pc, todo) /\ Top' = Top /\ Op = ops[Top] /\ old.kind # "recovery"
    BY <1>2, Driven DEF Good, Top
<1>4. /\ new.kind = old.kind /\ new.step = old.step /\ new.mode = old.mode /\ new.original = old.original
      /\ new.clone = old.clone /\ new.failure = old.failure
    BY <1>1, <1>2, <1>3 DEF Op, Ran, Kept
<1>5. PlaceOK(new, pc, todo)
    BY <1>3, <1>4 DEF PlaceOK
<1>6. PlaceOK(new, pc, todo)'
    BY <1>1, <1>5, QuietSame DEF Good
<1> QED BY <1>2, <1>3, <1>4, <1>6 DEF Placed

LEMMA RunRecovery ==
  ASSUME Good, NEW i \in 1..Len(ops), NEW d, NEW s, NEW row, Ran(row, ops[i], d, s), ops' = [ops EXCEPT ![i] = row],
         Quiet, drv' = drv, drv.stack # <<>>, Op.kind = "recovery",
         Base(i) /\ Op.step = "open" /\ Begun(row) /\ (Begun(ops[i]) => Landed(ops[i]) /\ Remains(ops[i])) =>
           Landed(row) /\ Remains(row),
         Base(i) /\ drv.pc \in {"kept", "revert", "settle"} /\ Passes(ops[i], drv.pc, drv.todo) =>
           Passes(row, drv.pc, drv.todo)
  PROVE  Placed'
<1>1. /\ Alike /\ Len(ops') = Len(ops) /\ Len(ops) \in Nat
      /\ \A k \in 1..Len(ops) : ops'[k] = IF k = i THEN row ELSE ops[k]
      /\ \A b : Base(b)' <=> Base(b)
    <2>1. IInv /\ i \in 1..Len(ops) /\ Ran(row, ops[i], d, s) /\ ops' = [ops EXCEPT ![i] = row]
        BY DEF Good
    <2> QED BY ONLY <2>1, RunAlike
<1>2. PICK old, new, pc, todo : old = Op /\ new = Op' /\ pc = drv.pc /\ todo = drv.todo
    OBVIOUS
<1>3. /\ Top \in 1..Len(ops) /\ RecoveryOK(old, pc, todo) /\ Top' = Top /\ Op = ops[Top] /\ old.kind = "recovery"
      /\ Len(ops) - 1 \in 1..Len(ops)
    BY <1>2, RecoveryDriven DEF Top
<1>4. /\ new.kind = old.kind /\ new.step = old.step /\ new.mode = old.mode /\ new.resolution = old.resolution
    BY <1>1, <1>2, <1>3 DEF Op, Ran, Kept
<1>5. /\ \A o, mode : Sure(o, mode, todo)' <=> Sure(o, mode, todo)
      /\ \A r : (Landed(r)' <=> Landed(r)) /\ (Remains(r)' <=> Remains(r))
      /\ \A r : Passes(r, pc, todo)' <=> Passes(r, pc, todo)
      /\ Ahead(todo)' = Ahead(todo) /\ serving' = serving
    <2>1. \A o, mode : Stays(o, mode)' <=> Stays(o, mode)
        BY <1>1, QuietSame DEF Good
    <2>2. \A o, mode : Sure(o, mode, todo)' <=> Sure(o, mode, todo)
        BY <2>1 DEF Sure, Ahead
    <2>3. Ahead(todo)' = Ahead(todo) /\ serving' = serving
        BY DEF Ahead, Quiet
    <2>4. \A r : (Landed(r)' <=> Landed(r)) /\ (Remains(r)' <=> Remains(r))
        BY <1>1, QuietSame DEF Good
    <2>5. \A r : Passes(r, pc, todo)' <=> Passes(r, pc, todo)
        BY <1>1, QuietSame DEF Good
    <2> QED BY <2>2, <2>3, <2>4, <2>5
<1>6. ASSUME old.step = "open", NEW b \in 1..Len(ops), Base(b), ops'[b].kind = "restore"
      PROVE  pc = "acked" /\ todo = <<>> /\ (Begun(ops[b])' => Landed(ops[b])' /\ Remains(ops[b])')
    <2>0. PICK r : r = ops'[b]
        OBVIOUS
    <2>1. ops[b].kind = "restore"
        BY <1>1, <1>6 DEF Ran, Kept
    <2>2. pc = "acked" /\ todo = <<>> /\ (Begun(ops[b]) => Landed(ops[b]) /\ Remains(ops[b]))
        BY <1>3, <1>6, <2>1 DEF RecoveryOK
    <2>3. Begun(r) => Landed(r) /\ Remains(r)
        BY <1>1, <1>2, <1>6, <2>0, <2>2
    <2>4. Begun(r) => Landed(r)' /\ Remains(r)'
        BY <1>5, <2>3
    <2> QED BY <2>0, <2>2, <2>4 DEF Begun
<1>7. ASSUME pc \in {"kept", "revert", "settle"}, NEW b \in 1..Len(ops), Base(b) PROVE Passes(ops[b], pc, todo)'
    <2>0. PICK r : r = ops'[b]
        OBVIOUS
    <2>1. Passes(ops[b], pc, todo)
        BY <1>3, <1>7 DEF RecoveryOK
    <2>2. Passes(r, pc, todo)
        BY <1>1, <1>2, <1>7, <2>0, <2>1
    <2> QED BY <1>5, <2>0, <2>2
<1>8. \A k \in 1..Len(ops) : ops'[k].kind = ops[k].kind /\ ops'[k].state = ops[k].state /\ ops'[k].mode = ops[k].mode
    BY <1>1 DEF Ran, Kept
<1>9. RecoveryOK(new, pc, todo)'
    <2>1. /\ new.step \in {"reconcile", "resume"} \/ pc = "step" => todo = <<>>
          /\ new.step = "restrict" /\ pc = "acked" =>
               /\ \A p \in Ahead(todo) : p = <<serving, "closed">>
               /\ new.resolution = "open" => \A b \in 1..Len(ops) : Base(b) => ops[b].kind # "restore"
          /\ new.step = "open" => /\ new.resolution = "open" /\ \A p \in Ahead(todo) : p = <<serving, "open">>
                                  /\ pc = "acked" => Sure(serving, "open", todo)
          /\ new.step = "resume" => new.resolution = "resume"
          /\ new.step = "resume" /\ pc = "acked" =>
               ops[Len(ops) - 1].state = "succeeded" /\ new.mode = ops[Len(ops) - 1].mode
          /\ pc \in {"kept", "revert", "settle"} => new.step = "restrict" /\ new.resolution = "open"
          /\ pc # "arm"
        BY <1>3, <1>4 DEF RecoveryOK
    <2>2. Sure(serving, "open", todo)' <=> Sure(serving, "open", todo)
        <3>0. PICK x : x = serving
            OBVIOUS
        <3>1. Sure(x, "open", todo)' <=> Sure(x, "open", todo)
            BY <1>5
        <3> QED BY <1>5, <3>0, <3>1 DEF Sure, Stays
    <2>3. new.step = "open" =>
            \A b \in 1..Len(ops') : Base(b)' /\ ops'[b].kind = "restore" =>
              pc = "acked" /\ todo = <<>> /\ (Begun(ops[b])' => Landed(ops[b])' /\ Remains(ops[b])')
        BY <1>1, <1>4, <1>6
    <2>4. pc \in {"kept", "revert", "settle"} => \A b \in 1..Len(ops') : Base(b)' => Passes(ops[b], pc, todo)'
        BY <1>1, <1>7
    <2> QED BY <1>1, <1>3, <1>5, <1>8, <2>1, <2>2, <2>3, <2>4 DEF RecoveryOK
<1> QED BY <1>2, <1>3, <1>4, <1>9 DEF Placed

\* What ended is as it was, where nothing ended that the run could disturb.
LEMMA RunFinals ==
  ASSUME Good, NEW i \in 1..Len(ops), NEW d, NEW s, NEW row, Ran(row, ops[i], d, s), ops' = [ops EXCEPT ![i] = row], Quiet,
         \/ /\ Latest.state = "running"
            /\ Latest.kind = "recovery" /\ Latest.resolution = "resume" => ops[Len(ops) - 1].state = "running"
         \/ Base(i) /\ Begun(row) /\ (Begun(ops[i]) => Landed(ops[i])) =>
              Begun(ops[i]) /\ Landed(row) /\ (Remains(ops[i]) => Remains(row))
  PROVE  Finals'
<1>1. /\ Alike /\ Len(ops') = Len(ops) /\ Len(ops) \in Nat
      /\ \A k \in 1..Len(ops) : ops'[k] = IF k = i THEN row ELSE ops[k]
      /\ \A b : Base(b)' <=> Base(b)
    BY RunAlike DEF Good
<1>2. Len(ops) \in 1..Len(ops) /\ ops # <<>> /\ ops' # <<>>
    BY <1>1
<1>3. \A k \in 1..Len(ops) : /\ ops'[k].kind = ops[k].kind /\ ops'[k].state = ops[k].state /\ ops'[k].step = ops[k].step
                             /\ ops'[k].mode = ops[k].mode /\ ops'[k].code = ops[k].code
                             /\ ops'[k].resolution = ops[k].resolution
    BY <1>1 DEF Ran, Kept
<1>4. Latest.kind = "recovery" => Len(ops) - 1 \in 1..Len(ops)
    BY <1>1, <1>2, Fields, Bounds DEF Good, IInv, Records, Types, Rows, RowOK, Latest
<1>5. /\ Latest'.kind = Latest.kind /\ Latest'.state = Latest.state /\ Latest'.step = Latest.step
      /\ Latest'.resolution = Latest.resolution /\ Latest = ops[Len(ops)] /\ Latest' = ops'[Len(ops)]
    BY <1>1, <1>2, <1>3 DEF Latest
<1>6. /\ Latest.kind = "recovery" /\ Latest.resolution = "resume" /\ Latest.state = "running" =>
           /\ Latest.step # "resume" => ops[Len(ops) - 1].state = "running"
           /\ EndOK(ops[Len(ops) - 1])
      /\ EndOK(Latest)
    BY <1>2 DEF Good, Sound, Finals
<1>7. CASE /\ Latest.state = "running"
           /\ Latest.kind = "recovery" /\ Latest.resolution = "resume" => ops[Len(ops) - 1].state = "running"
    BY <1>1, <1>2, <1>3, <1>4, <1>5, <1>7 DEF Finals, EndOK
<1>8. CASE Base(i) /\ Begun(row) /\ (Begun(ops[i]) => Landed(ops[i])) =>
              Begun(ops[i]) /\ Landed(row) /\ (Remains(ops[i]) => Remains(row))
    <2>1. ASSUME NEW k \in 1..Len(ops), EndOK(ops[k]) PROVE EndOK(ops[k])'
        <3>0. PICK old, new : old = ops[k] /\ new = ops'[k]
            OBVIOUS
        <3>1. (OpenOf(new) <=> OpenOf(old)) /\ new.state = old.state
            BY <1>3, <3>0 DEF OpenOf
        <3> SUFFICES ASSUME old.state # "running" PROVE EndOK(new)'
            BY <3>0, <3>1 DEF EndOK
        <3>2. OpenOf(old) => Stays(serving, "open")
            BY <2>1, <3>0 DEF EndOK
        <3>3. ASSUME NEW b \in 1..Len(ops), Base(b), Begun(ops'[b])
              PROVE  Landed(ops[b])' /\ (OpenOf(old) => Remains(ops[b])')
            <4>0. PICK r : r = ops'[b]
                OBVIOUS
            <4>1. Begun(ops[b]) => Landed(ops[b]) /\ (OpenOf(old) => Remains(ops[b]))
                BY <2>1, <3>0, <3>3 DEF EndOK
            <4>2. Landed(r) /\ (OpenOf(old) => Remains(r))
                BY <1>1, <1>8, <3>3, <4>0, <4>1
            <4>3. Landed(r)' /\ (OpenOf(old) => Remains(r)')
                BY <1>1, <4>2, QuietSame DEF Good
            <4> QED BY <4>0, <4>3
        <3>4. Stays(serving, "open")' <=> Stays(serving, "open")
            BY DEF Quiet, Stays, Within
        <3> QED BY <1>1, <3>1, <3>2, <3>3, <3>4 DEF EndOK, OpenOf, Begun
    <2>2. EndOK(Latest)'
        BY <1>2, <1>5, <1>6, <2>1
    <2>3. Latest.kind = "recovery" /\ Latest.resolution = "resume" /\ Latest.state = "running" =>
            EndOK(ops[Len(ops) - 1])'
        BY <1>4, <1>6, <2>1
    <2> QED BY <1>1, <1>2, <1>3, <1>4, <1>5, <1>6, <2>2, <2>3 DEF Finals
<1> QED BY <1>7, <1>8

LEMMA RunListBase ==
  ASSUME NEW b, NEW old, NEW row, NEW d \in {"list", "migrate"}, NEW s, Ran(row, old, d, s)
  PROVE  (Begun(row) <=> Begun(old)) /\ (BaseOK(b, old) => BaseOK(b, row))
         /\ (Landed(row) <=> Landed(old)) /\ (Remains(row) <=> Remains(old))
         /\ \A pc, todo : Passes(old, pc, todo) => Passes(row, pc, todo)
<1>1. /\ row.kind = old.kind /\ row.clone = old.clone /\ row.original = old.original /\ row.step = old.step
      /\ row.state = old.state /\ row.failure = old.failure /\ row.dump = old.dump
      /\ row.runs["point"] = old.runs["point"] /\ row.runs["revert"] = old.runs["revert"]
    BY DEF Ran, Kept, Deploys
<1>2. row.bookmark <=> old.bookmark
    BY DEF Ran
<1>3. Begun(row) <=> Begun(old)
    BY <1>1 DEF Begun
<1>4. Carries(b, old) => Carries(b, row)
    BY <1>1, <1>2 DEF Carries
<1>5. Waits(b, old) => Waits(b, row)
    BY <1>1, <1>2 DEF Waits
<1>6. BaseOK(b, old) => BaseOK(b, row)
    BY <1>1, <1>3, <1>4, <1>5 DEF BaseOK
<1> QED BY <1>1, <1>3, <1>6 DEF Landed, Remains, Passes

\* The way back: only of what has begun, where the traffic never left the original.
LEMMA RunRevertBase ==
  ASSUME NEW b, NEW old, NEW row, NEW s, Ran(row, old, "revert", s), BaseOK(b, old), Begun(old),
         old.runs["revert"] # "succeeded", old.runs["point"] # "running", deployed = old.original,
         Drivable(b) => old.step = "revert"
  PROVE  Begun(row) /\ BaseOK(b, row)
<1>1. /\ row.kind = old.kind /\ row.clone = old.clone /\ row.original = old.original /\ row.step = old.step
      /\ row.state = old.state /\ row.failure = old.failure /\ row.dump = old.dump
      /\ row.runs["point"] = old.runs["point"]
    BY DEF Ran, Kept, Deploys
<1>2. row.bookmark <=> old.bookmark
    BY DEF Ran
<1>3. Begun(row) /\ Carries(b, old)
    BY <1>1 DEF Begun, BaseOK
<1>4. Carries(b, row)
    BY <1>1, <1>2, <1>3 DEF Carries
<1> QED BY <1>3, <1>4 DEF BaseOK

\* The pointer deploy, before a provider takes it and after it ends.
LEMMA RunPointBase ==
  ASSUME NEW b, NEW old, NEW row, NEW s, Ran(row, old, "point", s), BaseOK(b, old),
         \/ ~Begun(old) /\ s \in {"named", "pending", "rejected"}
         \/ Begun(old) /\ s \in {"succeeded", "failed"}
  PROVE  (Begun(row) <=> Begun(old)) /\ BaseOK(b, row)
<1>1. /\ row.kind = old.kind /\ row.clone = old.clone /\ row.original = old.original /\ row.step = old.step
      /\ row.state = old.state /\ row.failure = old.failure /\ row.dump = old.dump
      /\ row.runs["revert"] = old.runs["revert"] /\ row.runs["point"] = s
    BY DEF Ran, Kept, Deploys
<1>2. row.bookmark <=> old.bookmark
    BY DEF Ran
<1>3. CASE ~Begun(old) /\ s \in {"named", "pending", "rejected"}
    <2>1. ~Begun(row)
        BY <1>1, <1>3 DEF Begun
    <2>2. Waits(b, old) => Waits(b, row)
        BY <1>1, <1>2 DEF Waits
    <2> QED BY <1>1, <1>3, <2>1, <2>2 DEF BaseOK
<1>4. CASE Begun(old) /\ s \in {"succeeded", "failed"}
    <2>1. Begun(row) /\ Carries(b, old)
        BY <1>1, <1>4 DEF Begun, BaseOK
    <2>2. Carries(b, row)
        BY <1>1, <1>2, <1>4, <2>1 DEF Carries
    <2> QED BY <1>4, <2>1, <2>2 DEF BaseOK
<1> QED BY <1>3, <1>4

\* A provider takes the pointer deploy: the clone is full, and the original shut.
LEMMA RunPointStarts ==
  ASSUME Good, NEW b \in 1..Len(ops), Base(b), Drivable(b), NEW old, old = ops[b], NEW row, Ran(row, old, "point", "running"),
         ~Begun(old), old.kind = "restore", old.step = "point", old.state = "running", old.failure = "none",
         old.original # old.clone
  PROVE  Begun(row) /\ BaseOK(b, row)
<1>1. /\ row.kind = old.kind /\ row.clone = old.clone /\ row.original = old.original /\ row.step = old.step
      /\ row.state = old.state /\ row.failure = old.failure /\ row.dump = old.dump
      /\ row.runs["revert"] = old.runs["revert"] /\ row.runs["point"] = "running"
    BY DEF Ran, Kept, Deploys
<1>2. row.bookmark <=> old.bookmark
    BY DEF Ran
<1>3. Waits(b, old) /\ serving = old.original
    BY DEF Good, Sound, Grounded, BaseOK
<1>4. Steady
    <2>1. \A c : Base(c) => c = b
        BY OneBase DEF Good, IInv, Records, Types
    <2>2. NoneBegun
        BY <2>1 DEF NoneBegun
    <2> QED BY <2>2 DEF Good, Sound, Grounded
<1>5. Begun(row)
    BY <1>1 DEF Begun
<1>6. Carries(b, row)
    BY <1>1, <1>2, <1>3, <1>4 DEF Carries, Waits, Steady
<1> QED BY <1>5, <1>6 DEF BaseOK

----------------------------------------------------------------------------
\* A holder runs a deploy of the operation it drives.
LEMMA DriverLatest ==
  ASSUME Good, drv.stack # <<>>, Op.kind # "recovery" \/ Op.resolution # "resume"
  PROVE  /\ Latest.state = "running"
         /\ Latest.kind = "recovery" /\ Latest.resolution = "resume" => ops[Len(ops) - 1].state = "running"
<1>1. /\ Latest.state = "running" /\ Op.state = "running" /\ Op = ops[Top]
      /\ Op.kind = "recovery" => Op = Latest
      /\ Top = Len(ops) \/ (Top = Len(ops) - 1 /\ Op.kind # "recovery")
    BY Driven DEF Good
<1> QED BY <1>1 DEF Latest

LEMMA DriverRuns ==
  ASSUME Good, NEW d \in Deploys, RestoreDeploy(Top, d), drv.stack # <<>>, Op.kind # "recovery", Base(Top),
         NEW row, NEW s, Ran(row, Op, d, s), ops' = [ops EXCEPT ![Top] = row],
         s \in {"named", "pending", "running"}, s = "running" => NoneDeploys,
         BaseOK(Top, row), Begun(Op) => Begun(row), s # "running" => (Begun(row) => Begun(Op)),
         s = "running" => \/ d \in {"list", "migrate"} /\ Op.original = serving /\ ~Begun(row)
                          \/ d \in {"point", "revert"} /\ Op.kind = "restore"
  PROVE  Sound'
<1>1. generation' = generation /\ drv' = drv /\ Quiet
    BY DEF RestoreDeploy, pointer, world, Quiet
<1>2. Top \in 1..Len(ops) /\ Op = ops[Top]
    BY Driven DEF Good
<1>3. Ran(row, ops[Top], d, s)
    BY <1>2
<1>4. Linked' /\ Harmless' /\ Driving'
    BY <1>1, <1>2, <1>3, RunStill
<1>5. Grounded'
    BY <1>1, <1>2, <1>3, RunGrounded
<1>6. OneRun'
    <2>1. \/ s # "running" /\ (Base(Top) /\ Begun(row) => Begun(ops[Top]))
          \/ s = "running" /\ NoneDeploys /\ Base(Top)
              /\ \/ d \in {"list", "migrate"} /\ ops[Top].original = serving /\ ~Begun(row)
                 \/ d \in {"point", "revert"} /\ ops[Top].kind = "restore"
        BY <1>2
    <2> QED BY <1>1, <1>2, <1>3, <2>1, RunOne
<1>7. Placed'
    BY <1>1, <1>2, <1>3, RunPlace
<1>8. Finals'
    <2>1. /\ Latest.state = "running"
          /\ Latest.kind = "recovery" /\ Latest.resolution = "resume" => ops[Len(ops) - 1].state = "running"
        BY DriverLatest
    <2> QED BY <1>1, <1>2, <1>3, <2>1, RunFinals
<1> QED BY <1>4, <1>5, <1>6, <1>7, <1>8 DEF Sound

LEMMA DeployRow ==
  ASSUME IInv, NEW i \in 1..Len(ops), NEW d \in Deploys, RestoreDeploy(i, d)
  PROVE  \E row, s : /\ Ran(row, ops[i], d, s) /\ ops' = [ops EXCEPT ![i] = row]
                     /\ s \in {"named", "pending", "running"} /\ (s = "running" => NoneDeploys)
                     /\ ops[i].runs[d] \in {"none", "named", "pending"}
<1>1. PICK s \in {"named", "pending", "running"} :
         RunSet(i, d, s) /\ (s = "running" => NoneDeploys) /\ ops[i].runs[d] \in {"none", "named", "pending"}
    BY DEF RestoreDeploy
<1> QED BY <1>1, RunRow

LEMMA RestoreRunSound == \A d \in {"list", "point", "revert"} : Good /\ RestoreRun(d, d) => Sound'
<1> SUFFICES ASSUME NEW d \in {"list", "point", "revert"}, Good, RestoreRun(d, d) PROVE Sound'
    OBVIOUS
<1>1. At("restore", d, "acked") /\ RestoreDeploy(Top, d)
    BY DEF RestoreRun
<1>2. /\ drv.stack # <<>> /\ Op.kind = "restore" /\ Op.step = d /\ Op.state = "running" /\ Op \in OpRecords
      /\ Op.original # Op.clone /\ Base(Top) /\ Drivable(Top) /\ BaseOK(Top, Op) /\ PlaceOK(Op, "acked", <<>>)
      /\ Op.kind # "recovery"
    BY <1>1, AtStep DEF Good
<1>3. Top \in 1..Len(ops) /\ Op = ops[Top] /\ d \in Deploys
    BY <1>2, Driven DEF Good, Deploys
<1>4. PICK row, s : /\ Ran(row, Op, d, s) /\ ops' = [ops EXCEPT ![Top] = row]
                    /\ s \in {"named", "pending", "running"} /\ (s = "running" => NoneDeploys)
                    /\ Op.runs[d] \in {"none", "named", "pending"}
    BY <1>1, <1>3, DeployRow DEF Good
<1>5. CASE d = "list"
    <2>1. (Begun(row) <=> Begun(Op)) /\ BaseOK(Top, row)
        BY <1>2, <1>4, <1>5, RunListBase
    <2>2. ~Begun(Op) /\ Op.original = serving
        BY <1>2, <1>5 DEF BaseOK, Carries
    <2>3. s = "running" => \/ d \in {"list", "migrate"} /\ Op.original = serving /\ ~Begun(row)
                           \/ d \in {"point", "revert"} /\ Op.kind = "restore"
        BY <1>5, <2>1, <2>2
    <2> QED BY <1>1, <1>2, <1>3, <1>4, <2>1, <2>3, DriverRuns
<1>6. CASE d = "revert"
    <2>1. Begun(Op) /\ Carries(Top, Op)
        BY <1>2, <1>6 DEF BaseOK, Waits
    <2>2. Op.runs["revert"] # "succeeded" /\ Op.runs["point"] # "running" /\ deployed = Op.original
        BY <1>2, <1>4, <1>6, <2>1 DEF Carries
    <2>3. Begun(row) /\ BaseOK(Top, row)
        BY <1>2, <1>4, <1>6, <2>1, <2>2, RunRevertBase
    <2>4. s = "running" => \/ d \in {"list", "migrate"} /\ Op.original = serving /\ ~Begun(row)
                           \/ d \in {"point", "revert"} /\ Op.kind = "restore"
        BY <1>2, <1>6
    <2> QED BY <1>1, <1>2, <1>3, <1>4, <2>1, <2>3, <2>4, DriverRuns
<1>7. CASE d = "point"
    <2>1. ~Begun(Op) /\ Op.failure = "none"
        BY <1>2, <1>4, <1>7 DEF Begun, PlaceOK
    <2>2. s # "running" => BaseOK(Top, row) /\ (Begun(row) <=> Begun(Op))
        BY <1>2, <1>4, <1>7, <2>1, RunPointBase
    <2>3. s = "running" => BaseOK(Top, row)
        BY <1>2, <1>3, <1>4, <1>7, <2>1, RunPointStarts
    <2>4. /\ s = "running" => \/ d \in {"list", "migrate"} /\ Op.original = serving /\ ~Begun(row)
                              \/ d \in {"point", "revert"} /\ Op.kind = "restore"
          /\ BaseOK(Top, row) /\ (Begun(Op) => Begun(row)) /\ (s # "running" => (Begun(row) => Begun(Op)))
        BY <1>2, <1>7, <2>1, <2>2, <2>3
    <2> QED BY <1>1, <1>2, <1>3, <1>4, <2>4, DriverRuns
<1> QED BY <1>5, <1>6, <1>7

LEMMA MigrateDeploySound == Good /\ MigrateDeploy => Sound'
<1> SUFFICES ASSUME Good, MigrateDeploy PROVE Sound'
    OBVIOUS
<1>1. At("migrate", "deploy", "acked") /\ RestoreDeploy(Top, "migrate")
    BY DEF MigrateDeploy
<1>2. /\ drv.stack # <<>> /\ Op.kind = "migrate" /\ Base(Top) /\ BaseOK(Top, Op) /\ Op.kind # "recovery"
    BY <1>1, AtStep DEF Good
<1>3. Top \in 1..Len(ops) /\ Op = ops[Top] /\ "migrate" \in Deploys
    BY <1>2, Driven DEF Good, Deploys
<1>4. PICK row, s : /\ Ran(row, Op, "migrate", s) /\ ops' = [ops EXCEPT ![Top] = row]
                    /\ s \in {"named", "pending", "running"} /\ (s = "running" => NoneDeploys)
    BY <1>1, <1>3, DeployRow DEF Good
<1>5. (Begun(row) <=> Begun(Op)) /\ BaseOK(Top, row)
    BY <1>2, <1>4, RunListBase
<1>6. ~Begun(Op) /\ Op.original = serving
    BY <1>2 DEF BaseOK, Begun
<1>7. \/ "migrate" \in {"list", "migrate"} /\ Op.original = serving /\ ~Begun(row)
      \/ "migrate" \in {"point", "revert"} /\ Op.kind = "restore"
    BY <1>5, <1>6
<1> QED BY <1>1, <1>2, <1>3, <1>4, <1>5, <1>7, DriverRuns

LEMMA RecoveryRevertsSound == Good /\ RecoveryReverts => Sound'
<1> SUFFICES ASSUME Good, RecoveryReverts PROVE Sound'
    OBVIOUS
<1>1. At("recovery", "restrict", "revert") /\ RevertNeeded /\ RestoreDeploy(Past, "revert")
    BY DEF RecoveryReverts
<1>2. PICK n, old : n = Past /\ old = ops[Past]
    OBVIOUS
<1>3. /\ drv.stack # <<>> /\ Op.kind = "recovery" /\ Op.step = "restrict" /\ drv.pc = "revert"
      /\ RecoveryOK(Op, "revert", <<>>) /\ drv.todo = <<>>
    BY <1>1, AtRecovery
<1>4. /\ n \in 1..Len(ops) /\ Base(n) /\ BaseOK(n, old) /\ old = ops[n] /\ old.original # old.clone
    BY <1>2, <1>3, PastBase
<1>5. Op.resolution = "open" /\ Passes(old, "revert", <<>>)
    BY <1>3, <1>4 DEF RecoveryOK
<1>6. ~Drivable(n)
    BY <1>2, <1>3, <1>5, OpensPast
<1>7. Begun(old)
    <2>1. serving # old.original \/ old.runs["point"] \in {"succeeded", "failed"}
        BY <1>1, <1>2 DEF RevertNeeded, PointAccepted
    <2>2. old.kind = "restore"
        BY <1>5 DEF Passes
    <2> QED BY <1>4, <2>1, <2>2 DEF BaseOK, Begun
<1>8. PICK row, s : /\ Ran(row, old, "revert", s) /\ ops' = [ops EXCEPT ![n] = row]
                    /\ s \in {"named", "pending", "running"} /\ (s = "running" => NoneDeploys)
                    /\ old.runs["revert"] \in {"none", "named", "pending"}
    BY <1>1, <1>2, <1>4, DeployRow DEF Good, Deploys
<1>9. /\ old.kind = "restore" /\ deployed = old.original /\ old.runs["point"] # "running" /\ old.runs["revert"] # "succeeded"
    BY <1>5, <1>7, <1>8 DEF Passes
<1>10. Begun(row) /\ BaseOK(n, row)
    BY <1>4, <1>6, <1>7, <1>8, <1>9, RunRevertBase
<1>11. generation' = generation /\ drv' = drv /\ Quiet
    BY <1>1 DEF RestoreDeploy, pointer, world, Quiet
<1>12. Ran(row, ops[n], "revert", s) /\ "revert" \in Deploys
    BY <1>4, <1>8 DEF Deploys
<1>13. Linked' /\ Harmless' /\ Driving'
    BY <1>4, <1>8, <1>11, <1>12, RunStill
<1>14. Grounded'
    BY <1>4, <1>8, <1>10, <1>11, <1>12, RunGrounded
<1>15. OneRun'
    <2>1. \/ s # "running" /\ (Base(n) /\ Begun(row) => Begun(ops[n]))
          \/ s = "running" /\ NoneDeploys /\ Base(n)
              /\ \/ "revert" \in {"list", "migrate"} /\ ops[n].original = serving /\ ~Begun(row)
                 \/ "revert" \in {"point", "revert"} /\ ops[n].kind = "restore"
        BY <1>4, <1>7, <1>8, <1>9
    <2> QED BY <1>4, <1>8, <1>11, <1>12, <2>1, RunOne
<1>16. Placed'
    <2>1. Op.step # "open"
        BY <1>3
    <2>2. Passes(row, "revert", <<>>)
        <3>1. /\ row.kind = old.kind /\ row.runs["point"] = old.runs["point"] /\ row.original = old.original
            BY <1>8 DEF Ran, Kept, Deploys
        <3> QED BY <1>5, <1>9, <3>1 DEF Passes
    <2>3. drv.pc = "revert" /\ drv.todo = <<>>
        BY <1>3
    <2> QED BY <1>3, <1>4, <1>8, <1>11, <1>12, <2>1, <2>2, <2>3, RunRecovery
<1>17. Finals'
    <2>1. /\ Latest.state = "running"
          /\ Latest.kind = "recovery" /\ Latest.resolution = "resume" => ops[Len(ops) - 1].state = "running"
        BY <1>3, <1>5, DriverLatest
    <2> QED BY <1>4, <1>8, <1>11, <1>12, <2>1, RunFinals
<1> QED BY <1>13, <1>14, <1>15, <1>16, <1>17 DEF Sound

LEMMA Apart ==
  ASSUME IInv, NEW b \in 1..Len(ops)
  PROVE  ops[b].original # ops[b].clone
<1>1. ops[b] \in OpRecords /\ RowOK(b, ops[b], generation)
    BY DEF IInv, Records, Types, Rows
<1> QED BY <1>1, Fields, Bounds DEF RowOK, Objects

\* A run ends, beside whatever holder there is.
LEMMA RunEndsBase ==
  ASSUME Good, NEW i \in 1..Len(ops), Base(i), NEW d \in Deploys, NEW old, old = ops[i], NEW row, NEW s, Ran(row, old, d, s),
         (old.runs[d] = "pending" /\ s = "rejected") \/ (old.runs[d] = "running" /\ s \in {"succeeded", "failed"})
  PROVE  /\ Begun(row) <=> Begun(old)
         /\ BaseOK(i, row)
         /\ Begun(old) /\ Landed(old) => Landed(row) /\ (Remains(old) => Remains(row))
         /\ \A pc \in {"kept", "revert", "settle"} : \A todo : Passes(old, pc, todo) => Passes(row, pc, todo)
<1>1. BaseOK(i, old)
    BY DEF Good, Sound, Grounded
<1>2. CASE d \in {"list", "migrate"}
    BY <1>1, <1>2, RunListBase
<1>3. CASE d = "point"
    <2>1. old.kind = "restore" => (Begun(old) <=> old.runs["point"] = "running")
        BY <1>3 DEF Begun
    <2>2. CASE old.kind = "restore"
        <3>1. (Begun(row) <=> Begun(old)) /\ BaseOK(i, row)
            BY <1>1, <1>3, <2>1, <2>2, RunPointBase
        <3>2. ~(Begun(old) /\ Landed(old)) /\ \A pc, todo : ~Passes(old, pc, todo)
            BY <1>3, <2>1, <2>2 DEF Landed, Passes
        <3> QED BY <3>1, <3>2
    <2>3. CASE old.kind # "restore"
        <3>1. row.kind = old.kind /\ row.original = old.original
            BY DEF Ran, Kept
        <3> QED BY <1>1, <2>3, <3>1 DEF BaseOK, Begun, Passes
    <2> QED BY <2>2, <2>3
<1>4. CASE d = "revert"
    <2>1. CASE old.kind # "restore"
        <3>1. row.kind = old.kind /\ row.original = old.original
            BY DEF Ran, Kept
        <3> QED BY <1>1, <2>1, <3>1 DEF BaseOK, Begun, Passes
    <2>2. CASE old.kind = "restore"
        <3>1. Begun(old) /\ Carries(i, old)
            BY <1>1, <1>4, <2>2 DEF BaseOK, Waits
        <3>2. /\ old.runs["point"] # "running" /\ deployed = old.original /\ old.runs["revert"] # "succeeded"
              /\ Drivable(i) => old.step = "revert"
            BY <1>4, <3>1 DEF Carries
        <3>3. Begun(row) /\ BaseOK(i, row)
            BY <1>1, <1>4, <3>1, <3>2, RunRevertBase
        <3>4. /\ row.kind = old.kind /\ row.clone = old.clone /\ row.original = old.original /\ row.failure = old.failure
              /\ row.runs["point"] = old.runs["point"] /\ row.runs["revert"] = s
            BY <1>4 DEF Ran, Kept, Deploys
        <3>5. Landed(old) => Landed(row) /\ (Remains(old) => Remains(row))
            BY <1>4, <3>4 DEF Landed, Remains
        <3>6. \A pc \in {"kept", "revert", "settle"} : \A todo : Passes(old, pc, todo) => Passes(row, pc, todo)
            BY <1>4, <3>1, <3>3, <3>4 DEF Passes
        <3> QED BY <3>1, <3>3, <3>5, <3>6
    <2> QED BY <2>1, <2>2
<1> QED BY <1>2, <1>3, <1>4 DEF Deploys

LEMMA RunEndsSound == \A i \in 1..Len(ops), d \in Deploys : Good /\ RunEnds(i, d) => Sound'
<1> SUFFICES ASSUME NEW i \in 1..Len(ops), NEW d \in Deploys, Good, RunEnds(i, d) PROVE Sound'
    OBVIOUS
<1>1. generation' = generation /\ drv' = drv /\ Quiet
    BY DEF RunEnds, pointer, world, Quiet
<1>2. PICK s : /\ RunSet(i, d, s)
               /\ \/ ops[i].runs[d] = "pending" /\ s = "rejected"
                  \/ ops[i].runs[d] = "running" /\ s \in {"succeeded", "failed"}
    BY DEF RunEnds
<1>3. PICK row, old : old = ops[i] /\ Ran(row, ops[i], d, s) /\ ops' = [ops EXCEPT ![i] = row]
    BY <1>2, RunRow DEF Good
<1>4. Base(i) => /\ Begun(row) <=> Begun(ops[i])
                 /\ BaseOK(i, row)
                 /\ Begun(ops[i]) /\ Landed(ops[i]) => Landed(row) /\ (Remains(ops[i]) => Remains(row))
                 /\ \A pc \in {"kept", "revert", "settle"} : \A todo : Passes(ops[i], pc, todo) => Passes(row, pc, todo)
    BY <1>2, <1>3, RunEndsBase
<1>5. Linked' /\ Harmless' /\ Driving'
    BY <1>1, <1>3, RunStill
<1>6. Grounded'
    BY <1>1, <1>3, <1>4, RunGrounded
<1>7. OneRun'
    <2>1. s # "running" /\ (Base(i) /\ Begun(row) => Begun(ops[i]))
        BY <1>2, <1>4
    <2> QED BY <1>1, <1>3, <2>1, RunOne
<1>8. Placed'
    <2>1. CASE drv.stack # <<>> /\ Op.kind = "recovery"
        <3>1. Base(i) /\ Op.step = "open" /\ Begun(row) /\ (Begun(ops[i]) => Landed(ops[i]) /\ Remains(ops[i])) =>
                Landed(row) /\ Remains(row)
            BY <1>4
        <3>2. Base(i) /\ drv.pc \in {"kept", "revert", "settle"} /\ Passes(ops[i], drv.pc, drv.todo) =>
                Passes(row, drv.pc, drv.todo)
            BY <1>4
        <3> QED BY <1>1, <1>3, <2>1, <3>1, <3>2, RunRecovery
    <2>2. CASE ~(drv.stack # <<>> /\ Op.kind = "recovery")
        BY <1>1, <1>3, <2>2, RunPlace
    <2> QED BY <2>1, <2>2
<1>9. Finals'
    <2>1. Base(i) /\ Begun(row) /\ (Begun(ops[i]) => Landed(ops[i])) =>
              Begun(ops[i]) /\ Landed(row) /\ (Remains(ops[i]) => Remains(row))
        BY <1>4
    <2> QED BY <1>1, <1>3, <2>1, RunFinals
<1> QED BY <1>5, <1>6, <1>7, <1>8, <1>9 DEF Sound

----------------------------------------------------------------------------
(* The traffic moves *)

LEMMA DeployMoves ==
  ASSUME Good, UNCHANGED <<ops, generation, serving, obj, data, total, sent, drv>>,
         deployed' \in 0..Len(ops), NoneBegun => deployed' = serving,
         \A b \in 1..Len(ops) : Base(b) /\ Begun(ops[b]) =>
           /\ Carries(b, ops[b])' /\ (Landed(ops[b]) => Landed(ops[b])')
           /\ \A todo : drv.stack # <<>> /\ Passes(ops[b], "revert", todo) => deployed' = ops[b].original
  PROVE  Sound'
<1>1. (\A b : Base(b)' <=> Base(b)) /\ (NoneBegun' <=> NoneBegun) /\ (\A b : Drivable(b)' <=> Drivable(b))
      /\ (\A o : Full(o)' <=> Full(o)) /\ (\A r : Begun(r)' <=> Begun(r))
    BY DEF Base, NoneBegun, Begun, Drivable, Full
<1>2. /\ \A o, mode : Stays(o, mode)' <=> Stays(o, mode)
      /\ \A o : Shut(o)' <=> Shut(o)
    BY Unmoved DEF Stays, Shut
<1>3. ASSUME NEW b \in 1..Len(ops), Base(b) PROVE BaseOK(b, ops[b])'
    <2>0. PICK row : row = ops[b]
        OBVIOUS
    <2>1. BaseOK(b, row) /\ row.original # row.clone
        BY <1>3, <2>0, Apart DEF Good, Sound, Grounded
    <2>2. CASE Begun(row)
        <3>1. Carries(b, row)'
            BY <1>3, <2>0, <2>2
        <3>2. BaseOK(b, row)'
            BY <2>2, <3>1 DEF BaseOK, Begun
        <3> QED BY <2>0, <3>2
    <2>3. CASE ~Begun(row)
        <3>1. NoneBegun
            BY <1>3, <2>0, <2>3, OneBase DEF NoneBegun, Good, IInv, Records, Types
        <3>2. deployed' # row.clone /\ serving = row.original
            BY <2>1, <2>3, <3>1 DEF BaseOK
        <3>3. row.kind = "restore" => Waits(b, row)
            BY <2>1, <2>3 DEF BaseOK
        <3>4. row.kind = "restore" => Waits(b, row)'
            BY <1>1, <1>2, <3>2, <3>3 DEF Waits
        <3>5. BaseOK(b, row)'
            BY <2>3, <3>2, <3>4 DEF BaseOK, Begun
        <3> QED BY <2>0, <3>5
    <2> QED BY <2>2, <2>3
<1>4. Grounded'
    <2>1. NoneBegun => Steady'
        <3>1. NoneBegun => Full(serving)
            BY DEF Good, Sound, Grounded, Steady
        <3> QED BY <3>1 DEF Steady, Full
    <2> QED BY <1>1, <1>3, <2>1 DEF Grounded
<1>5. Harmless'
    BY DEF Good, Sound, Harmless, Base, Spares
<1>6. Placed'
    <2> SUFFICES ASSUME drv.stack # <<>> PROVE Placed'
        BY DEF Placed
    <2>0. PICK row, pc, todo : row = Op /\ pc = drv.pc /\ todo = drv.todo
        OBVIOUS
    <2>1. Op' = row /\ drv'.pc = pc /\ drv'.todo = todo
        BY <2>0 DEF Op, Top
    <2>2. \A o, mode : Sure(o, mode, todo)' <=> Sure(o, mode, todo)
        BY <1>2 DEF Sure, Ahead
    <2>3. CASE row.kind # "recovery"
        <3>1. PlaceOK(row, pc, todo)
            BY <2>0, <2>3 DEF Good, Sound, Placed
        <3>2. PlaceOK(row, pc, todo)'
            BY <2>2, <3>1 DEF PlaceOK, Ahead
        <3> QED BY <2>1, <2>3, <3>2 DEF Placed
    <2>4. CASE row.kind = "recovery"
        <3>1. RecoveryOK(row, pc, todo)
            BY <2>0, <2>4 DEF Good, Sound, Placed
        <3>2. ASSUME NEW b \in 1..Len(ops), Base(b), Passes(ops[b], pc, todo) PROVE Passes(ops[b], pc, todo)'
            <4>0. PICK base : base = ops[b]
                OBVIOUS
            <4>1. pc = "revert" /\ Begun(base) => deployed' = base.original
                BY <3>2, <4>0
            <4>2. Passes(base, pc, todo)
                BY <3>2, <4>0
            <4>3. Passes(base, pc, todo)'
                BY <1>1, <2>2, <4>1, <4>2 DEF Passes, Ahead
            <4> QED BY <4>0, <4>3
        <3>3. ASSUME NEW b \in 1..Len(ops), Base(b), Begun(ops[b]), Landed(ops[b]), Remains(ops[b])
              PROVE  Landed(ops[b])' /\ Remains(ops[b])'
            BY <3>3 DEF Remains
        <3>4. RecoveryOK(row, pc, todo)'
            <4>1. /\ row.step \in {"reconcile", "resume"} \/ pc = "step" => todo = <<>>
                  /\ row.step = "restrict" /\ pc = "acked" =>
                       /\ \A p \in Ahead(todo) : p = <<serving, "closed">>
                       /\ row.resolution = "open" => \A b \in 1..Len(ops) : Base(b) => ops[b].kind # "restore"
                  /\ row.step = "open" =>
                       /\ row.resolution = "open" /\ \A p \in Ahead(todo) : p = <<serving, "open">>
                       /\ pc = "acked" => Sure(serving, "open", todo)
                  /\ row.step = "resume" => row.resolution = "resume"
                  /\ row.step = "resume" /\ pc = "acked" =>
                       ops[Len(ops) - 1].state = "succeeded" /\ row.mode = ops[Len(ops) - 1].mode
                  /\ pc \in {"kept", "revert", "settle"} => row.step = "restrict" /\ row.resolution = "open"
                  /\ pc # "arm"
                BY <3>1 DEF RecoveryOK
            <4>2. row.step = "open" => \A b \in 1..Len(ops) : Base(b) /\ ops[b].kind = "restore" =>
                    pc = "acked" /\ todo = <<>> /\ (Begun(ops[b]) => Landed(ops[b])' /\ Remains(ops[b])')
                BY <3>1, <3>3 DEF RecoveryOK
            <4>3. pc \in {"kept", "revert", "settle"} => \A b \in 1..Len(ops) : Base(b) => Passes(ops[b], pc, todo)'
                BY <3>1, <3>2 DEF RecoveryOK
            <4>4. Ahead(todo)' = Ahead(todo) /\ (Sure(serving, "open", todo)' <=> Sure(serving, "open", todo))
                BY DEF Ahead, Sure, Stays, Within
            <4> QED BY <1>1, <4>1, <4>2, <4>3, <4>4 DEF RecoveryOK
        <3> QED BY <2>1, <2>4, <3>4 DEF Placed
    <2> QED BY <2>3, <2>4
<1>7. Stays(serving, "open") => Stays(serving, "open")'
    BY DEF Stays, Within
<1>8. drv'.stack = drv.stack
    OBVIOUS
<1> QED BY <1>4, <1>5, <1>6, <1>7, <1>8, Standing

\* The traffic reaches the clone at last: it holds every write, and the original takes none.
LEMMA DeployLandsSound == \A i \in 1..Len(ops), d \in Deploys : Good /\ DeployLands(i, d) => Sound'
<1> SUFFICES ASSUME NEW i \in 1..Len(ops), NEW d \in Deploys, Good, DeployLands(i, d) PROVE Sound'
    OBVIOUS
<1>1. /\ ops[i].runs[d] = "running" /\ deployed' = PointerOf(i, d) /\ deployed' # deployed
      /\ UNCHANGED <<ops, generation, serving, obj, data, total, sent, drv>>
    BY DEF DeployLands, pointer
<1>2. \/ d \in {"list", "migrate"} /\ ops[i].original = serving /\ NoneBegun
      \/ d \in {"point", "revert"} /\ Base(i) /\ ops[i].kind = "restore"
    BY <1>1 DEF Good, Sound, OneRun
<1>3. CASE d \in {"list", "migrate"} /\ ops[i].original = serving /\ NoneBegun
    <2>1. deployed' = serving /\ serving \in 0..Len(ops)
        BY <1>1, <1>3 DEF PointerOf, Good, IInv, Records, Types
    <2> QED BY <1>1, <1>3, <2>1, DeployMoves DEF NoneBegun
<1>4. CASE d \in {"point", "revert"} /\ Base(i) /\ ops[i].kind = "restore"
    <2>0. PICK row : row = ops[i]
        OBVIOUS
    <2>1. BaseOK(i, row) /\ row.original # row.clone /\ row.clone = i /\ Len(ops) \in Nat
        BY <1>4, <2>0, Fields, Bounds DEF Good, Sound, Grounded, IInv, Records, Types, Rows, RowOK, Objects
    <2>2. Begun(row) /\ Carries(i, row)
        BY <1>1, <1>4, <2>0, <2>1 DEF BaseOK, Begun, Waits
    <2>3. d = "point"
        <3>1. d = "revert" => deployed = row.original /\ deployed' = row.original
            BY <1>1, <2>0, <2>2 DEF Carries, PointerOf
        <3> QED BY <1>1, <1>4, <3>1
    <2>4. deployed' = row.clone /\ row.runs["point"] = "running"
        BY <1>1, <2>0, <2>3 DEF PointerOf
    <2>5. /\ row.step = "point" /\ row.runs["revert"] = "none" /\ row.failure = "none" /\ ~row.bookmark
          /\ Full(row.clone) /\ Shut(row.original)
        BY <2>2, <2>4 DEF Carries
    <2>6. (\A o : Full(o)' <=> Full(o)) /\ (\A o : Shut(o)' <=> Shut(o)) /\ (Drivable(i)' <=> Drivable(i))
        BY <1>1, Unmoved DEF Full, Shut, Drivable
    <2>7. Carries(i, row)'
        BY <1>1, <2>1, <2>2, <2>4, <2>5, <2>6 DEF Carries
    <2>8. ~Landed(row) /\ \A todo : ~Passes(row, "revert", todo)
        BY <2>4 DEF Landed, Passes
    <2>9. \A b \in 1..Len(ops) : Base(b) => b = i
        BY <1>4, <2>1, OneBase
    <2>10. \A b \in 1..Len(ops) : Base(b) /\ Begun(ops[b]) =>
             /\ Carries(b, ops[b])' /\ (Landed(ops[b]) => Landed(ops[b])')
             /\ \A todo : drv.stack # <<>> /\ Passes(ops[b], "revert", todo) => deployed' = ops[b].original
        <3> SUFFICES ASSUME NEW b \in 1..Len(ops), Base(b)
                     PROVE  /\ Carries(b, ops[b])' /\ (Landed(ops[b]) => Landed(ops[b])')
                            /\ \A todo : drv.stack # <<>> /\ Passes(ops[b], "revert", todo) => deployed' = ops[b].original
            OBVIOUS
        <3>1. b = i /\ ops[b] = row /\ ops'[b] = row
            BY <1>1, <2>0, <2>9
        <3> QED BY <2>7, <2>8, <3>1
    <2>11. ~NoneBegun /\ deployed' \in 0..Len(ops)
        BY <1>4, <2>0, <2>1, <2>2, <2>4 DEF NoneBegun
    <2> QED BY <1>1, <2>10, <2>11, DeployMoves
<1> QED BY <1>2, <1>3, <1>4

LEMMA DeploySound == Good /\ Deploy => Sound'
<1> SUFFICES ASSUME Good, Deploy PROVE Sound'
    OBVIOUS
<1>1. /\ drv.stack = <<>> /\ RecordedMaintenance = "open" /\ deployed # serving /\ deployed' = serving
      /\ UNCHANGED <<ops, generation, serving, obj, data, total, sent, drv>>
    BY DEF Deploy, pointer, Idle
<1>2. deployed' \in 0..Len(ops) /\ Len(ops) \in Nat
    BY <1>1 DEF Good, IInv, Records, Types
<1>3. ASSUME NEW b \in 1..Len(ops), Base(b), Begun(ops[b]) PROVE Carries(b, ops[b])' /\ Landed(ops[b])'
    <2>0. PICK row : row = ops[b]
        OBVIOUS
    <2>1. Carries(b, row) /\ row.original # row.clone
        BY <1>3, <2>0, Apart DEF Good, Sound, Grounded, BaseOK
    <2>2. EndOK(Latest) /\ OpenOf(Latest) /\ Latest.state # "running"
        <3>1. ops # <<>>
            BY <1>3
        <3> QED BY <1>1, <3>1 DEF Good, Sound, Finals, RecordedMaintenance, OpenOf
    <2>3. Landed(row) /\ Remains(row)
        BY <1>3, <2>0, <2>2 DEF EndOK
    <2>4. serving = row.clone
        BY <1>1, <2>1, <2>3 DEF Carries, Landed
    <2>5. row.failure = "none" /\ row.runs["revert"] = "none"
        BY <2>3, <2>4 DEF Remains
    <2>6. (\A o : Full(o)' <=> Full(o)) /\ (\A o : Shut(o)' <=> Shut(o)) /\ (Drivable(b)' <=> Drivable(b))
        BY <1>1, Unmoved DEF Full, Shut, Drivable
    <2>7. Carries(b, row)'
        BY <1>1, <2>1, <2>4, <2>5, <2>6 DEF Carries
    <2>8. Landed(row)'
        BY <1>1, <2>1, <2>3, <2>4 DEF Landed
    <2> QED BY <1>1, <2>0, <2>7, <2>8
<1> QED BY <1>1, <1>2, <1>3, DeployMoves

----------------------------------------------------------------------------
(* Starts *)

\* A record as a start creates it.
New(row) ==
  /\ row.original = serving /\ row.clone = Len(ops) + 1 /\ row.state = "running" /\ row.failure = "none"
  /\ ~row.bookmark /\ row.generation = generation + 1 /\ row.runs["point"] = "none" /\ row.runs["revert"] = "none"
  /\ \A d \in Deploys : row.runs[d] # "running"

LEMMA Added ==
  ASSUME IInv, NEW row, NEW driven, Start(row, driven)
  PROVE  /\ Len(ops) \in Nat /\ Len(ops') = Len(ops) + 1 /\ ops'[Len(ops) + 1] = row /\ ops' # <<>> /\ Latest' = row
         /\ \A k \in 1..Len(ops) : ops'[k] = ops[k]
         /\ \A k \in 1..Len(ops') : k \in 1..Len(ops) \/ k = Len(ops) + 1
         /\ Quiet /\ generation' = generation + 1 /\ drv.stack = <<>>
         /\ drv'.stack = <<>> \/ (driven /\ drv'.stack = <<Len(ops) + 1>> /\ drv'.pc = "step" /\ drv'.todo = <<>>)
<1>1. /\ drv = Idle /\ generation' = generation + 1 /\ ops' = Append(ops, row) /\ UNCHANGED <<pointer, world, stops>>
      /\ drv' = IF driven THEN [Idle EXCEPT !.stack = <<Len(ops) + 1>>, !.starter = TRUE] ELSE drv
    BY DEF Start
<1>2. ops \in Seq(OpRecords) /\ Len(ops) \in Nat
    BY DEF IInv, Records, Types
<1>3. Len(ops') = Len(ops) + 1 /\ ops'[Len(ops) + 1] = row /\ \A k \in 1..Len(ops) : ops'[k] = ops[k]
    BY <1>1, <1>2
<1>4. ops' # <<>> /\ Latest' = row
    BY <1>2, <1>3 DEF Latest
<1>5. \A k \in 1..Len(ops') : k \in 1..Len(ops) \/ k = Len(ops) + 1
    BY <1>2, <1>3
<1>6. Quiet
    BY <1>1 DEF Quiet, pointer, world
<1>7. drv.stack = <<>> /\ (drv'.stack = <<>> \/ (driven /\ drv'.stack = <<Len(ops) + 1>> /\ drv'.pc = "step" /\ drv'.todo = <<>>))
    BY <1>1 DEF Idle
<1> QED BY <1>1, <1>2, <1>3, <1>4, <1>5, <1>6, <1>7

LEMMA StartStraight ==
  ASSUME IInv, NEW row, NEW driven, Start(row, driven), Straight'
  PROVE  Straight
<1>1. /\ Len(ops) \in Nat /\ Len(ops') = Len(ops) + 1 /\ \A k \in 1..Len(ops) : ops'[k] = ops[k]
    BY Added
<1> SUFFICES ASSUME NEW i \in 1..Len(ops), ops[i].kind = "recovery"
             PROVE  ops[i].recovers = i - 1 /\ (ops[i].resolution = "resume" => ops[i - 1].kind # "recovery")
    BY DEF Straight
<1>2. i \in 1..Len(ops') /\ ops'[i] = ops[i]
    BY <1>1
<1>3. ops[i].recovers = i - 1 /\ (ops[i].resolution = "resume" => ops'[i - 1].kind # "recovery")
    BY <1>2 DEF Straight
<1>4. i # 1
    BY <1>3 DEF IInv, Records, Rows, RowOK
<1>5. ops'[i - 1] = ops[i - 1]
    BY <1>1, <1>4
<1> QED BY <1>3, <1>5

\* Where nothing runs any more, the serving object holds every write and takes the traffic, if any does.
LEMMA SettledSteady ==
  ASSUME Good, NoneRunning
  PROVE  /\ Steady
         /\ \A i \in 1..Len(ops), d \in Deploys : ops[i].runs[d] = "running" =>
              d \in {"list", "migrate"} /\ ops[i].original = serving
<1>1. ASSUME NEW b \in 1..Len(ops), Base(b), Begun(ops[b])
      PROVE  Carries(b, ops[b]) /\ Landed(ops[b])
    <2>1. ops # <<>> /\ Latest.state # "running"
        BY <1>1 DEF NoneRunning
    <2> QED BY <1>1, <2>1 DEF Good, Sound, Grounded, BaseOK, Finals, EndOK
<1>2. Steady
    <2>1. CASE NoneBegun
        BY <2>1 DEF Good, Sound, Grounded
    <2>2. CASE ~NoneBegun
        <3>1. PICK b \in 1..Len(ops) : Base(b) /\ Begun(ops[b])
            BY <2>2 DEF NoneBegun
        <3>2. Carries(b, ops[b]) /\ Landed(ops[b]) /\ ops[b].original # ops[b].clone
            BY <1>1, <3>1, Apart DEF Good
        <3>3. CASE serving = ops[b].clone
            BY <3>2, <3>3 DEF Carries, Landed, Steady
        <3>4. CASE serving = ops[b].original
            BY <3>2, <3>4 DEF Carries, Landed, Steady
        <3> QED BY <3>2, <3>3, <3>4 DEF Carries
    <2> QED BY <2>1, <2>2
<1>3. ASSUME NEW i \in 1..Len(ops), NEW d \in Deploys, ops[i].runs[d] = "running"
      PROVE  d \in {"list", "migrate"} /\ ops[i].original = serving
    <2>1. \/ d \in {"list", "migrate"} /\ ops[i].original = serving
          \/ d \in {"point", "revert"} /\ Base(i) /\ ops[i].kind = "restore"
        BY <1>3 DEF Good, Sound, OneRun
    <2>2. CASE d \in {"point", "revert"} /\ Base(i) /\ ops[i].kind = "restore"
        <3>1. Begun(ops[i])
            BY <1>3, <2>2 DEF Good, Sound, Grounded, BaseOK, Waits, Begun
        <3>2. Landed(ops[i])
            BY <1>1, <2>2, <3>1
        <3> QED BY <1>3, <2>2, <3>2 DEF Landed
    <2> QED BY <2>1, <2>2
<1> QED BY <1>2, <1>3

\* A new base.
LEMMA StartSound ==
  ASSUME Good, NoneRunning, NEW row, NEW driven \in BOOLEAN, Start(row, driven), New(row), row.recovers = 0,
         row.kind \in {"maintenance", "backup", "migrate", "restore"},
         row.kind = "restore" => row.step = "list" /\ ~driven,
         row.kind \in {"backup", "migrate"} => row.step = "restrict"
  PROVE  Sound'
<1>0. PICK n : n = Len(ops) + 1
    OBVIOUS
<1>1. /\ Len(ops) \in Nat /\ Len(ops') = n /\ n = Len(ops) + 1 /\ ops'[n] = row /\ ops' # <<>> /\ Latest' = row
      /\ \A k \in 1..Len(ops) : ops'[k] = ops[k]
      /\ \A k \in 1..Len(ops') : k \in 1..Len(ops) \/ k = n
      /\ Quiet /\ generation' = generation + 1
      /\ drv'.stack = <<>> \/ (driven /\ drv'.stack = <<n>> /\ drv'.pc = "step" /\ drv'.todo = <<>>)
    BY <1>0, Added DEF Good
<1>2. serving' = serving /\ deployed' = deployed /\ sent' = sent /\ obj' = obj /\ data' = data /\ total' = total
    BY <1>1 DEF Quiet
<1>3. \A b : Base(b)' <=> b = n
    <2>1. n \in 1..Len(ops') /\ \A j \in 1..Len(ops') : ~(j > n)
        BY <1>1
    <2>2. Base(n)'
        BY <1>1, <2>1 DEF Base
    <2>3. \A b \in 1..Len(ops) : n > b
        BY <1>1
    <2>4. ASSUME NEW b, Base(b)' PROVE b = n
        BY <1>1, <2>1, <2>3, <2>4 DEF Base
    <2> QED BY <2>2, <2>4
<1>4. ~Begun(row) /\ row.original = serving /\ row.clone = n
    BY <1>1 DEF New, Begun
<1>5. NoneBegun'
    BY <1>1, <1>3, <1>4 DEF NoneBegun, Begun
<1>6. Linked'
    <2>1. \A k \in 1..Len(ops) : /\ ops[k].kind = "recovery" => ops[k].resolution \in {"open", "resume"}
                                 /\ ops[k].kind # "recovery" => ops[k].recovers = 0
        BY DEF Good, Sound, Linked
    <2> QED BY <1>1, <2>1 DEF Linked
<1>7. Grounded'
    <2>1. Steady'
        <3>1. (\A o : Shut(o)' <=> Shut(o)) /\ Steady
            BY <1>2, Unmoved, SettledSteady DEF Shut
        <3> QED BY <1>2, <3>1 DEF Steady, Full
    <2>2. deployed \in 0..Len(ops)
        BY DEF Good, Sound, Grounded
    <2>3. BaseOK(n, row)'
        <3>1. row.kind = "restore" => Waits(n, row)'
            <4>1. deployed' # row.clone
                BY <1>1, <1>2, <1>4, <2>2
            <4> QED BY <4>1 DEF Waits, New
        <3> QED BY <1>2, <1>4, <3>1 DEF BaseOK, Begun
    <2>4. \A b \in 1..Len(ops') : Base(b)' => BaseOK(b, ops[b])'
        BY <1>1, <1>3, <2>3
    <2>5. deployed' \in 0..Len(ops')
        BY <1>1, <1>2, <2>2
    <2> QED BY <2>1, <2>4, <2>5 DEF Grounded
<1>8. Harmless'
    <2>1. ASSUME NEW q \in sent, q.kind = "arm"
          PROVE  q.object \in 0..n /\ q.object # serving /\ Spares(q.object, row)
        <3>1. q.object \in 0..Len(ops) /\ q.object # serving
            BY <2>1 DEF Good, Sound, Harmless
        <3> QED BY <1>1, <1>4, <3>1 DEF Spares
    <2> QED BY <1>1, <1>2, <1>3, <2>1 DEF Harmless, Spares
<1>9. OneRun'
    <2>1. \A k \in 1..Len(ops'), d \in Deploys : ops'[k].runs[d] = "running" => k \in 1..Len(ops) /\ ops[k].runs[d] = "running"
        BY <1>1 DEF New
    <2>2. \A k \in 1..Len(ops), d \in Deploys : ops[k].runs[d] = "running" =>
            d \in {"list", "migrate"} /\ ops[k].original = serving
        BY SettledSteady
    <2> QED BY <1>1, <1>2, <1>5, <2>1, <2>2 DEF Good, Sound, OneRun
<1>10. Finals'
    BY <1>1 DEF Finals, EndOK, New
<1>11. Driving' /\ Placed'
    <2>1. CASE drv'.stack = <<>>
        BY <2>1 DEF Driving, Placed
    <2>2. CASE driven /\ drv'.stack = <<n>> /\ drv'.pc = "step" /\ drv'.todo = <<>>
        <3>1. Op' = row /\ Len(drv'.stack) = 1 /\ drv'.stack[1] = n
            BY <1>1, <2>2 DEF Op, Top
        <3>2. Driving'
            BY <1>1, <3>1 DEF Driving, New
        <3>3. Ahead(<<>>)' = {}
            BY DEF Ahead
        <3>4. row.kind # "restore" /\ row.kind # "recovery"
            BY <2>2
        <3>5. PlaceOK(row, "step", <<>>)'
            BY <3>3, <3>4 DEF PlaceOK
        <3> QED BY <2>2, <3>1, <3>2, <3>4, <3>5 DEF Placed
    <2> QED BY <1>1, <2>1, <2>2
<1> QED BY <1>6, <1>7, <1>8, <1>9, <1>10, <1>11 DEF Sound

\* A recovery of the newest operation leaves the base, and takes the driving of it over.
LEMMA StartRecoverySound ==
  ASSUME Good, NEW row, Start(row, TRUE), New(row), row.kind = "recovery", row.step = "reconcile",
         row.resolution \in {"open", "resume"}, row.resolution = "resume" => ops # <<>> /\ Latest.state = "running"
  PROVE  Sound'
<1>0. PICK n : n = Len(ops) + 1
    OBVIOUS
<1>1. /\ Len(ops) \in Nat /\ Len(ops') = n /\ n = Len(ops) + 1 /\ ops'[n] = row /\ ops' # <<>> /\ Latest' = row
      /\ \A k \in 1..Len(ops) : ops'[k] = ops[k]
      /\ \A k \in 1..Len(ops') : k \in 1..Len(ops) \/ k = n
      /\ Quiet /\ generation' = generation + 1
      /\ drv'.stack = <<>> \/ (drv'.stack = <<n>> /\ drv'.pc = "step" /\ drv'.todo = <<>>)
    BY <1>0, Added DEF Good
<1>2. serving' = serving /\ deployed' = deployed /\ sent' = sent /\ obj' = obj /\ data' = data /\ total' = total
    BY <1>1 DEF Quiet
<1>3. /\ \A b : Base(b)' <=> Base(b)
      /\ \A b \in 1..Len(ops) : Drivable(b)' => Drivable(b)
    <2>1. 1..Len(ops) \subseteq 1..Len(ops') /\ n \in 1..Len(ops')
        BY <1>1
    <2>2. ASSUME NEW b, Base(b) PROVE Base(b)'
        BY <1>1, <2>1, <2>2 DEF Base
    <2>3. ASSUME NEW b, Base(b)' PROVE Base(b)
        BY <1>1, <2>1, <2>3 DEF Base
    <2>4. ASSUME NEW b \in 1..Len(ops), Drivable(b)' PROVE Drivable(b)
        BY <1>1, <2>4 DEF Drivable
    <2> QED BY <2>2, <2>3, <2>4
<1>4. \A b : Base(b) => b \in 1..Len(ops) /\ ops'[b] = ops[b]
    BY <1>1 DEF Base
<1>5. NoneBegun' <=> NoneBegun
    BY <1>1, <1>3, <1>4 DEF NoneBegun, Begun
<1>6. (\A o : Shut(o)' <=> Shut(o)) /\ (\A o : Full(o)' <=> Full(o))
    BY <1>2, Unmoved DEF Shut, Full
<1>7. Linked'
    <2>1. \A k \in 1..Len(ops) : /\ ops[k].kind = "recovery" => ops[k].resolution \in {"open", "resume"}
                                 /\ ops[k].kind # "recovery" => ops[k].recovers = 0
        BY DEF Good, Sound, Linked
    <2> QED BY <1>1, <2>1 DEF Linked
<1>8. Grounded'
    <2>1. ASSUME NEW b, Base(b) PROVE BaseOK(b, ops[b])'
        <3>0. PICK old : old = ops[b]
            OBVIOUS
        <3>1. b \in 1..Len(ops) /\ BaseOK(b, old) /\ ops'[b] = old
            BY <1>4, <2>1, <3>0 DEF Good, Sound, Grounded
        <3>2. Carries(b, old) => Carries(b, old)'
            BY <1>2, <1>3, <1>6, <3>1 DEF Carries
        <3>3. Waits(b, old) => Waits(b, old)'
            BY <1>2, <1>3, <1>6, <3>1 DEF Waits
        <3>4. BaseOK(b, old)'
            BY <1>2, <3>1, <3>2, <3>3 DEF BaseOK, Begun
        <3> QED BY <3>1, <3>4
    <2>2. NoneBegun' => Steady'
        BY <1>2, <1>5, <1>6 DEF Good, Sound, Grounded, Steady
    <2>3. deployed' \in 0..Len(ops')
        BY <1>1, <1>2 DEF Good, Sound, Grounded
    <2> QED BY <1>3, <2>1, <2>2, <2>3 DEF Grounded
<1>9. Harmless'
    <2>1. ASSUME NEW q \in sent, q.kind = "arm"
          PROVE  q.object \in 0..n /\ q.object # serving /\ \A b : Base(b) => Spares(q.object, ops'[b])
        <3>1. q.object \in 0..Len(ops) /\ q.object # serving /\ \A b \in 1..Len(ops) : Base(b) => Spares(q.object, ops[b])
            BY <2>1 DEF Good, Sound, Harmless
        <3> QED BY <1>1, <1>4, <3>1
    <2> QED BY <1>1, <1>2, <1>3, <2>1 DEF Harmless
<1>10. OneRun'
    <2>1. \A k \in 1..Len(ops'), d \in Deploys : ops'[k].runs[d] = "running" =>
            k \in 1..Len(ops) /\ ops'[k] = ops[k] /\ ops[k].runs[d] = "running"
        BY <1>1 DEF New
    <2> QED BY <1>1, <1>2, <1>3, <1>5, <2>1 DEF Good, Sound, OneRun
<1>11. Finals'
    <2>1. row.resolution = "resume" => ops'[n - 1].state = "running" /\ Len(ops') - 1 = n - 1
        BY <1>1 DEF Latest
    <2> QED BY <1>1, <2>1 DEF Finals, EndOK, New
<1>12. Driving' /\ Placed'
    <2>1. CASE drv'.stack = <<>>
        BY <2>1 DEF Driving, Placed
    <2>2. CASE drv'.stack = <<n>> /\ drv'.pc = "step" /\ drv'.todo = <<>>
        <3>1. Op' = row /\ Len(drv'.stack) = 1 /\ drv'.stack[1] = n
            BY <1>1, <2>2 DEF Op, Top
        <3>2. Driving'
            BY <1>1, <3>1 DEF Driving, New
        <3>3. RecoveryOK(row, "step", <<>>)'
            BY DEF RecoveryOK
        <3> QED BY <2>2, <3>1, <3>2, <3>3 DEF Placed
    <2> QED BY <1>1, <2>1, <2>2
<1> QED BY <1>7, <1>8, <1>9, <1>10, <1>11, <1>12 DEF Sound

LEMMA RecordNew ==
  ASSUME NEW kind, NEW step, NEW mode, NEW recovers, NEW resolution, NEW row,
         row = Record(kind, step, mode, recovers, resolution)
  PROVE  /\ New(row) /\ row.kind = kind /\ row.step = step /\ row.recovers = recovers
         /\ row.resolution = resolution
<1>1. /\ row.original = serving /\ row.clone = Len(ops) + 1 /\ row.state = "running" /\ row.failure = "none"
      /\ row.bookmark = FALSE /\ row.generation = generation + 1 /\ row.kind = kind /\ row.recovers = recovers
      /\ row.step = step /\ row.resolution = resolution /\ row.runs = NoRuns
    BY DEF Record
<1>2. \A d \in Deploys : row.runs[d] = "none"
    BY <1>1 DEF NoRuns
<1>3. /\ "point" \in Deploys /\ "revert" \in Deploys /\ "migrate" \in Deploys /\ "list" \in Deploys
    BY DEF Deploys
<1>4. New(row)
    BY <1>1, <1>2, <1>3 DEF New
<1> QED BY <1>1, <1>4

LEMMA StartStepSound == IInv /\ (Straight => Sound) /\ StartStep /\ Straight' => Sound'
<1> SUFFICES ASSUME IInv, Straight => Sound, StartStep, Straight' PROVE Sound'
    OBVIOUS
<1>1. ASSUME NEW row, NEW driven, Start(row, driven) PROVE Good
    BY <1>1, StartStraight DEF Good
<1>2. /\ "point" \in Deploys /\ "revert" \in Deploys /\ "migrate" \in Deploys /\ TRUE \in BOOLEAN /\ FALSE \in BOOLEAN
    BY DEF Deploys
<1>4. ASSUME NEW mode \in Modes, StartMaintenance(mode) PROVE Sound'
    <2>1. PICK row, step : row = Record("maintenance", step, mode, 0, "none") /\ Start(row, TRUE)
        BY <1>4 DEF StartMaintenance
    <2>2. NoneRunning
        BY <1>4 DEF StartMaintenance
    <2>3. New(row) /\ row.kind = "maintenance" /\ row.recovers = 0 /\ row.step = step
        BY ONLY <2>1, RecordNew
    <2>4. Good
        BY <1>1, <2>1
    <2> QED BY <1>2, <2>1, <2>2, <2>3, <2>4, StartSound
<1>5. CASE StartBackup
    <2>1. PICK row : row = Record("backup", "restrict", "read-only", 0, "none") /\ Start(row, TRUE)
        BY <1>5 DEF StartBackup
    <2>2. NoneRunning
        BY <1>5 DEF StartBackup
    <2>3. New(row) /\ row.kind = "backup" /\ row.recovers = 0 /\ row.step = "restrict"
        BY ONLY <2>1, RecordNew
    <2>4. Good
        BY <1>1, <2>1
    <2> QED BY <1>2, <2>1, <2>2, <2>3, <2>4, StartSound
<1>6. CASE StartRestore
    <2>1. PICK row : row = Record("restore", "list", "open", 0, "none") /\ Start(row, FALSE)
        BY <1>6 DEF StartRestore
    <2>2. NoneRunning
        BY <1>6 DEF StartRestore
    <2>3. New(row) /\ row.kind = "restore" /\ row.recovers = 0 /\ row.step = "list"
        BY ONLY <2>1, RecordNew
    <2>4. Good
        BY <1>1, <2>1
    <2> QED BY <1>2, <2>1, <2>2, <2>3, <2>4, StartSound
<1>7. CASE StartMigration
    <2>1. PICK old, row : /\ old = Record("migrate", "restrict", "read-only", 0, "none")
                          /\ row = [old EXCEPT !.runs["migrate"] = "pending"] /\ Start(row, TRUE)
        BY <1>7 DEF StartMigration
    <2>2. /\ row.original = serving /\ row.clone = Len(ops) + 1 /\ row.state = "running" /\ row.failure = "none"
          /\ row.bookmark = FALSE /\ row.generation = generation + 1 /\ row.kind = "migrate" /\ row.recovers = 0
          /\ row.step = "restrict" /\ row.runs = [NoRuns EXCEPT !["migrate"] = "pending"]
        BY <2>1 DEF Record
    <2>3. \A d \in Deploys : row.runs[d] = IF d = "migrate" THEN "pending" ELSE "none"
        BY <1>2, <2>2 DEF NoRuns
    <2>4. New(row)
        BY <1>2, <2>2, <2>3 DEF New
    <2>5. NoneRunning /\ Good
        BY <1>1, <1>7, <2>1 DEF StartMigration
    <2> QED BY <1>2, <2>1, <2>2, <2>4, <2>5, StartSound
<1>8. ASSUME NEW i \in 1..Len(ops), NEW resolution \in Resolutions, StartRecovery(i, resolution) PROVE Sound'
    <2>1. PICK row : row = Record("recovery", "reconcile", "closed", i, resolution) /\ Start(row, TRUE)
        BY <1>8 DEF StartRecovery
    <2>2. New(row) /\ row.kind = "recovery" /\ row.step = "reconcile" /\ row.recovers = i /\ row.resolution = resolution
        BY ONLY <2>1, RecordNew
    <2>6. Good
        BY <1>1, <2>1
    <2>3. resolution \in {"open", "resume"}
        BY BoundsAssumption
    <2>4. i = Len(ops) /\ ops # <<>>
        <3>1. Len(ops) \in Nat /\ Len(ops') = Len(ops) + 1 /\ ops'[Len(ops) + 1] = row
            BY <2>1, Added
        <3>2. Len(ops) + 1 \in 1..Len(ops')
            BY <3>1
        <3>3. row.recovers = Len(ops) + 1 - 1
            BY <2>2, <3>1, <3>2 DEF Straight
        <3> QED BY <2>2, <3>1, <3>3
    <2>5. resolution = "resume" => Latest.state = "running"
        BY <1>8, <2>4 DEF StartRecovery, Latest
    <2> QED BY <2>1, <2>2, <2>3, <2>4, <2>5, <2>6, StartRecoverySound
<1> QED BY <1>4, <1>5, <1>6, <1>7, <1>8 DEF StartStep

----------------------------------------------------------------------------
(* A history stays straight or never was *)

Created(row, old) == Kept(row, old) /\ row.resolution = old.resolution

LEMMA WriteAlike ==
  ASSUME IInv, NEW i \in 1..Len(ops), NEW row, Created(row, ops[i]), ops' = [ops EXCEPT ![i] = row]
  PROVE  Alike
<1>1. ops \in Seq(OpRecords) /\ Len(ops) \in Nat /\ Len(ops') = Len(ops)
    BY DEF IInv, Records, Types
<1>2. \A k \in 1..Len(ops) : ops'[k] = IF k = i THEN row ELSE ops[k]
    BY <1>1
<1> QED BY <1>1, <1>2 DEF Alike, Created, Kept

LEMMA SameAlike == ops' = ops => Alike
BY DEF Alike, Kept

\* The holder's record, wherever it moves.
LEMMA TopAlike ==
  ASSUME IInv, drv.stack # <<>>, NEW row, Write(row), Created(row, Op)
  PROVE  Alike
<1>1. Top \in 1..Len(ops) /\ Op = ops[Top]
    BY TopIn DEF Op
<1> QED BY <1>1, WriteAlike DEF Write

LEMMA EndAlike ==
  ASSUME IInv, drv.stack # <<>>, NEW state, NEW code, End(state, code)
  PROVE  Alike
<1> DEFINE row == [Op EXCEPT !.state = state, !.code = code]
<1>1. Op \in OpRecords
    BY TopIn
<1>2. Created(row, Op)
    BY <1>1 DEF Created, Kept, OpRecords
<1>3. Write(row)
    BY DEF End
<1> HIDE DEF row
<1> QED BY <1>2, <1>3, TopAlike

LEMMA FreshAlike ==
  ASSUME IInv, drv.stack # <<>>, NEW row \in OpRecords, AdvanceFresh(row), Created(row, Op)
  PROVE  Alike
<1> DEFINE new == [row EXCEPT !.generation = generation + 1]
<1>1. Created(new, Op)
    BY DEF Created, Kept, OpRecords
<1>2. Write(new)
    BY DEF AdvanceFresh
<1> HIDE DEF new
<1> QED BY <1>1, <1>2, TopAlike

LEMMA ReopenAlike ==
  ASSUME IInv, drv.stack # <<>>, NEW row \in OpRecords, Reopen(row), Created(row, Op)
  PROVE  Alike
<1> DEFINE new == [row EXCEPT !.step = "open", !.mode = "open"]
<1>1. Created(new, Op) /\ new \in OpRecords
    BY DEF Created, Kept, OpRecords, Steps, Modes
<1>2. AdvanceFresh(new)
    BY DEF Reopen
<1> HIDE DEF new
<1> QED BY <1>1, <1>2, FreshAlike

\* What the steps write to a record.
LEMMA Edits ==
  ASSUME IInv, drv.stack # <<>>
  PROVE  /\ Op \in OpRecords /\ Created(Op, Op)
         /\ \A step, mode, g, v : Created([Op EXCEPT !.step = step], Op)
              /\ Created([Op EXCEPT !.step = step, !.mode = mode], Op)
              /\ Created([Op EXCEPT !.step = step, !.mode = mode, !.generation = g], Op)
              /\ Created([Op EXCEPT !.backup = v, !.step = step], Op)
              /\ Created([Op EXCEPT !.generation = g], Op)
              /\ Created([Op EXCEPT !.mode = mode], Op)
              /\ Created([Op EXCEPT !.failure = v], Op)
              /\ Created([Op EXCEPT !.bookmark = v], Op)
              /\ Created([Op EXCEPT !.arms = v], Op)
         /\ \A step \in Steps, mode \in Modes : [Op EXCEPT !.step = step, !.mode = mode] \in OpRecords
         /\ \A step \in Steps : [Op EXCEPT !.step = step] \in OpRecords
         /\ [Op EXCEPT !.backup = "failed"] \in OpRecords /\ Created([Op EXCEPT !.backup = "failed"], Op)
         /\ \A v \in 0..MaxWrites : /\ [Op EXCEPT !.dump = v] \in OpRecords /\ Created([Op EXCEPT !.dump = v], Op)
                                    /\ Created([[Op EXCEPT !.dump = v] EXCEPT !.step = "verify"], Op)
<1>1. Op \in OpRecords
    BY TopIn
<1>2. ASSUME NEW step, NEW mode, NEW g, NEW v
      PROVE  /\ Created([Op EXCEPT !.step = step], Op)
             /\ Created([Op EXCEPT !.step = step, !.mode = mode], Op)
             /\ Created([Op EXCEPT !.step = step, !.mode = mode, !.generation = g], Op)
             /\ Created([Op EXCEPT !.backup = v, !.step = step], Op)
             /\ Created([Op EXCEPT !.generation = g], Op)
             /\ Created([Op EXCEPT !.mode = mode], Op)
             /\ Created([Op EXCEPT !.failure = v], Op)
             /\ Created([Op EXCEPT !.bookmark = v], Op)
             /\ Created([Op EXCEPT !.arms = v], Op)
    BY <1>1 DEF OpRecords, Created, Kept
<1>3. ASSUME NEW step \in Steps, NEW mode \in Modes
      PROVE  [Op EXCEPT !.step = step, !.mode = mode] \in OpRecords /\ [Op EXCEPT !.step = step] \in OpRecords
    BY <1>1 DEF OpRecords
<1>4. [Op EXCEPT !.backup = "failed"] \in OpRecords /\ Created([Op EXCEPT !.backup = "failed"], Op)
    BY <1>1 DEF OpRecords, Created, Kept
<1>5. ASSUME NEW v \in 0..MaxWrites
      PROVE  /\ [Op EXCEPT !.dump = v] \in OpRecords /\ Created([Op EXCEPT !.dump = v], Op)
             /\ Created([[Op EXCEPT !.dump = v] EXCEPT !.step = "verify"], Op)
    BY <1>1, <1>5 DEF OpRecords, Created, Kept
<1>6. Created(Op, Op)
    BY DEF Created, Kept
<1>7. Modes # {}
    BY DEF Modes
<1> QED BY <1>1, <1>2, <1>3, <1>4, <1>5, <1>6, <1>7

LEMMA AdvanceAlike ==
  ASSUME IInv, drv.stack # <<>>, NEW row, Advance(row), Created(row, Op)
  PROVE  Alike
BY TopAlike DEF Advance

\* A run of a record moves.
LEMMA RunSetAlike ==
  ASSUME IInv, NEW i \in 1..Len(ops), NEW d \in Deploys, NEW s, RunSet(i, d, s)
  PROVE  Alike
<1>1. PICK row : Ran(row, ops[i], d, s) /\ ops' = [ops EXCEPT ![i] = row]
    BY RunRow
<1> QED BY <1>1, RunAlike

LEMMA RestoreDeployAlike ==
  ASSUME IInv, NEW i \in 1..Len(ops), NEW d \in Deploys, RestoreDeploy(i, d)
  PROVE  Alike
BY RunSetAlike DEF RestoreDeploy

LEMMA RunEndsAlike == \A i \in 1..Len(ops), d \in Deploys : IInv /\ RunEnds(i, d) => Alike
<1> SUFFICES ASSUME NEW i \in 1..Len(ops), NEW d \in Deploys, IInv, RunEnds(i, d) PROVE Alike
    OBVIOUS
<1>1. PICK s : RunSet(i, d, s)
    BY DEF RunEnds
<1> QED BY <1>1, RunSetAlike

LEMMA DriveAlike == IInv /\ DriveStep => Alike
<1> SUFFICES ASSUME IInv, DriveStep PROVE Alike
    OBVIOUS
<1>1. drv.stack # <<>>
    BY DEF DriveStep, HolderStep, BootFails, Boots, BeginStep, FailedStep, MaintenanceStep, RestrictStep, DumpStep, VerifyStep, BackupOpened,
       BackupVerified, MigrateDeploy, MigrateDeployed, MigrateRequest, MigrateOpened, RestoreRun, ListStep,
       ImportStep, PromoteStep, PointStep, ServeStep, Booted, RewindStep, Arm, CheckStep, RevertStep,
       RestoreOpened, Reconcile, RecoveryRestricted, RecoveryResumes, RecoveryResumed, RecoveryEnds,
       RecoverRestore, KeepClone, RecoveryReverts, RecoveryReverted, KeepOriginal, At
<1>2. /\ Op \in OpRecords /\ Created(Op, Op) /\ Top \in 1..Len(ops) /\ ops \in Seq(OpRecords)
      /\ [Op EXCEPT !.backup = "failed"] \in OpRecords /\ Created([Op EXCEPT !.backup = "failed"], Op)
      /\ data[Op.original] \in 0..MaxWrites
    BY <1>1, Edits, TopIn, Fields DEF IInv, Records, Types, Counted
<1>3. CASE BeginStep \/ RecoverRestore \/ BootFails
    BY <1>3, SameAlike DEF BeginStep, RecoverRestore, BootFails, Stop
<1>4. CASE MaintenanceStep \/ BackupVerified \/ MigrateOpened \/ CheckStep \/ RestoreOpened
    BY <1>1, <1>4, EndAlike DEF MaintenanceStep, BackupVerified, MigrateOpened, CheckStep, RestoreOpened
<1>5. CASE MigrateDeploy \/ (\E d \in {"list", "point", "revert"} : RestoreRun(d, d))
    BY <1>2, <1>5, RestoreDeployAlike DEF MigrateDeploy, RestoreRun, Deploys
<1>6. CASE RecoveryReverts
    BY <1>1, <1>6, PastIn, RestoreDeployAlike DEF RecoveryReverts, At, Deploys
<1>7. CASE FailedStep
    <2>1. CASE Advance([Op EXCEPT !.step = "revert"])
        BY <1>1, <2>1, Edits, AdvanceAlike
    <2>2. CASE Reopen(Op)
        BY <1>1, <1>2, <2>2, ReopenAlike
    <2> QED BY <1>7, <2>1, <2>2 DEF FailedStep
<1>8. CASE \E kind \in {"backup", "migrate", "restore"} : RestrictStep(kind)
    <2>1. Advance([Op EXCEPT !.step = "backup"])
        BY <1>8 DEF RestrictStep
    <2> QED BY <1>1, <2>1, Edits, AdvanceAlike
<1>9. CASE \E kind \in {"backup", "migrate", "restore"} : DumpStep(kind)
    <2> DEFINE dumped == [Op EXCEPT !.dump = data[Op.original]]
    <2>1. \/ Reopen(dumped) \/ Advance([dumped EXCEPT !.step = "verify"]) \/ Reopen([Op EXCEPT !.backup = "failed"])
        BY <1>9 DEF DumpStep
    <2>2. dumped \in OpRecords /\ Created(dumped, Op) /\ Created([dumped EXCEPT !.step = "verify"], Op)
        BY <1>1, <1>2, Edits
    <2> HIDE DEF dumped
    <2> QED BY <1>1, <1>2, <2>1, <2>2, AdvanceAlike, ReopenAlike
<1>10. CASE \E kind \in {"migrate", "restore"} : VerifyStep(kind)
    <2>1. PICK step : \/ Advance([Op EXCEPT !.backup = "succeeded", !.step = step])
                      \/ Reopen([Op EXCEPT !.backup = "failed"])
        BY <1>10 DEF VerifyStep
    <2>2. Created([Op EXCEPT !.backup = "succeeded", !.step = step], Op)
        BY <1>1, Edits
    <2> QED BY <1>1, <1>2, <2>1, <2>2, AdvanceAlike, ReopenAlike
<1>11. CASE BackupOpened \/ Booted
    <2>1. \/ End("failed", "backup_failed") \/ \E step \in {"verify", "rewind"} : AdvanceFresh([Op EXCEPT !.step = step])
        BY <1>11 DEF BackupOpened, Booted
    <2>2. \A step \in {"verify", "rewind"} : [Op EXCEPT !.step = step] \in OpRecords /\ Created([Op EXCEPT !.step = step], Op)
        BY <1>1, Edits DEF Steps
    <2> QED BY <1>1, <2>1, <2>2, EndAlike, FreshAlike
<1>12. CASE MigrateDeployed \/ MigrateRequest
    <2>1. \/ Advance([Op EXCEPT !.step = "migrate"]) \/ Reopen(Op) \/ \E code : End("failed", code)
        <3>1. CASE MigrateRequest
            BY <3>1 DEF MigrateRequest
        <3>2. CASE MigrateDeployed
            <4>1. Op.runs["migrate"] \in {"succeeded", "rejected", "failed"}
                BY <3>2 DEF MigrateDeployed, Ended, Op
            <4>2. CASE Op.runs["migrate"] = "succeeded"
                BY <3>2, <4>2 DEF MigrateDeployed
            <4>3. CASE Op.runs["migrate"] = "rejected"
                BY <3>2, <4>3 DEF MigrateDeployed
            <4>4. CASE Op.runs["migrate"] = "failed"
                BY <3>2, <4>4 DEF MigrateDeployed
            <4> QED BY <4>1, <4>2, <4>3, <4>4
        <3> QED BY <1>12, <3>1, <3>2
    <2>2. Created([Op EXCEPT !.step = "migrate"], Op)
        BY <1>1, Edits
    <2> QED BY <1>1, <1>2, <2>1, <2>2, AdvanceAlike, ReopenAlike, EndAlike
<1>13. CASE ListStep \/ RevertStep
    <2>1. \/ \E code : End("failed", code)
          \/ \E step, mode, g : Write([Op EXCEPT !.step = step, !.mode = mode, !.generation = g])
        BY <1>13 DEF ListStep, RevertStep
    <2>2. CASE \E code : End("failed", code)
        BY <1>1, <2>2, EndAlike
    <2>3. ASSUME NEW step, NEW mode, NEW g, Write([Op EXCEPT !.step = step, !.mode = mode, !.generation = g])
          PROVE  Alike
        BY <1>1, <2>3, Edits, TopAlike
    <2> QED BY <2>1, <2>2, <2>3
<1>14. CASE ImportStep
    <2> DEFINE row == [Op EXCEPT !.step = "promote", !.mode = "inspect"]
    <2>1. AdvanceFresh(row) \/ Write([Op EXCEPT !.failure = "import_failed"])
        BY <1>14 DEF ImportStep, Abandon
    <2>2. row \in OpRecords /\ Created(row, Op) /\ Created([Op EXCEPT !.failure = "import_failed"], Op)
        BY <1>1, Edits DEF Steps, Modes
    <2> HIDE DEF row
    <2> QED BY <1>1, <2>1, <2>2, FreshAlike, TopAlike
<1>15. CASE PromoteStep \/ Reconcile
    <2>1. PICK step : Advance([Op EXCEPT !.step = step])
        BY <1>15 DEF PromoteStep, Reconcile
    <2> QED BY <1>1, <2>1, Edits, AdvanceAlike
<1>16. CASE PointStep
    <2>1. Write([Op EXCEPT !.failure = "point_failed"]) \/ Write([Op EXCEPT !.step = "serve", !.mode = "open"])
        BY <1>16 DEF PointStep, Abandon
    <2>2. Created([Op EXCEPT !.failure = "point_failed"], Op) /\ Created([Op EXCEPT !.step = "serve", !.mode = "open"], Op)
        BY <1>1, Edits
    <2> QED BY <1>1, <2>1, <2>2, TopAlike
<1>17. CASE ServeStep
    <2>1. \/ Write([Op EXCEPT !.failure = "pointer_not_deployed"]) \/ Write([Op EXCEPT !.bookmark = TRUE])
          \/ \E code : End("failed", code)
        BY <1>17 DEF ServeStep, Abandon
    <2>2. Created([Op EXCEPT !.failure = "pointer_not_deployed"], Op) /\ Created([Op EXCEPT !.bookmark = TRUE], Op)
        BY <1>1, Edits
    <2> QED BY <1>1, <2>1, <2>2, TopAlike, EndAlike
<1>18. CASE RewindStep
    <2>1. PICK arms : \/ Advance([Op EXCEPT !.step = "check"]) \/ End("failed", "rewind_failed")
                      \/ Write([Op EXCEPT !.arms = arms])
        BY <1>18 DEF RewindStep
    <2>2. Created([Op EXCEPT !.step = "check"], Op) /\ Created([Op EXCEPT !.arms = arms], Op)
        BY <1>1, Edits
    <2> QED BY <1>1, <2>1, <2>2, AdvanceAlike, TopAlike, EndAlike
<1>19. CASE Arm
    BY <1>1, <1>19, SameAlike, EndAlike DEF Arm
<1>20. CASE RecoveryRestricted
    <2>1. PICK mode : Reopen(Op) \/ Advance([Op EXCEPT !.step = "resume", !.mode = mode])
        BY <1>20 DEF RecoveryRestricted
    <2>2. Created([Op EXCEPT !.step = "resume", !.mode = mode], Op)
        BY <1>1, Edits
    <2> QED BY <1>1, <1>2, <2>1, <2>2, AdvanceAlike, ReopenAlike
<1>21. CASE RecoveryResumes
    <2>1. PICK j : j = Op.recovers
        OBVIOUS
    <2>2. j \in 1..Len(ops) /\ ops[j] \in OpRecords
        BY <1>1, <1>21, <2>1, RecoversIn DEF RecoveryResumes, At
    <2>3. ops' = ops \/ ops' = [ops EXCEPT ![j].generation = generation + 1]
        BY <1>21, <2>1 DEF RecoveryResumes
    <2>4. CASE ops' = [ops EXCEPT ![j].generation = generation + 1]
        <3>1. PICK row : row = [ops[j] EXCEPT !.generation = generation + 1]
            OBVIOUS
        <3>2. ops' = [ops EXCEPT ![j] = row]
            BY <1>2, <2>2, <2>4, <3>1
        <3>3. Created(row, ops[j])
            BY <2>2, <3>1 DEF OpRecords, Created, Kept
        <3> QED BY <2>2, <3>2, <3>3, WriteAlike
    <2> QED BY <2>3, <2>4, SameAlike
<1>22. CASE RecoveryResumed
    <2>1. PICK mode : End("failed", "resume_failed") \/ Write([Op EXCEPT !.mode = mode])
        BY <1>22 DEF RecoveryResumed
    <2> QED BY <1>1, <2>1, Edits, TopAlike, EndAlike
<1>23. CASE RecoveryEnds
    <2>1. \/ End("succeeded", "none")
          \/ \E n \in Chain(Op.recovers) : ops' = [ops EXCEPT ![n].state = "failed", ![n].code = "recovered"]
        BY <1>23 DEF RecoveryEnds
    <2>2. ASSUME NEW n \in Chain(Op.recovers), ops' = [ops EXCEPT ![n].state = "failed", ![n].code = "recovered"]
          PROVE  Alike
        <3>1. n \in 1..Len(ops) /\ ops[n] \in OpRecords
            BY <1>2 DEF Chain
        <3>2. PICK row : row = [ops[n] EXCEPT !.state = "failed", !.code = "recovered"]
            OBVIOUS
        <3>3. ops' = [ops EXCEPT ![n] = row]
            BY <1>2, <2>2, <3>1, <3>2
        <3>4. Created(row, ops[n])
            BY <3>1, <3>2 DEF OpRecords, Created, Kept
        <3> QED BY <3>1, <3>3, <3>4, WriteAlike
    <2> QED BY <1>1, <2>1, <2>2, EndAlike
<1>24. CASE KeepClone \/ KeepOriginal
    <2>1. PICK g : Write([Op EXCEPT !.step = "open", !.mode = "open"]) \/ Write([Op EXCEPT !.generation = g])
        BY <1>24 DEF KeepClone, KeepOriginal, SettleRecovery
    <2>2. Created([Op EXCEPT !.step = "open", !.mode = "open"], Op) /\ Created([Op EXCEPT !.generation = g], Op)
        BY <1>1, Edits
    <2> QED BY <1>1, <2>1, <2>2, TopAlike
<1>25. CASE RecoveryReverted
    BY <1>1, <1>25, SameAlike, EndAlike DEF RecoveryReverted
<1> QED BY <1>3, <1>4, <1>5, <1>6, <1>7, <1>8, <1>9, <1>10, <1>11, <1>12, <1>13, <1>14, <1>15, <1>16, <1>17, <1>18,
           <1>19, <1>20, <1>21, <1>22, <1>23, <1>24, <1>25 DEF DriveStep, HolderStep

\* Only a start adds to the history.
LEMMA StepAlike == IInv /\ Next /\ ~StartStep => Alike
<1> SUFFICES ASSUME IInv, Next, ~StartStep PROVE Alike
    OBVIOUS
<1>1. CASE Stop \/ Send \/ Acked \/ (\E r \in sent : Land(r) \/ LandArm(r)) \/ ClientWrite \/ Deploy
    BY <1>1, SameAlike DEF Stop, Send, Acked, Land, LandArm, ClientWrite, Deploy
<1>2. CASE DriveStep
    BY <1>2, DriveAlike
<1>3. CASE RunStep
    BY <1>3, RunEndsAlike, SameAlike DEF RunStep, DeployLands
<1>4. CASE Adopt
    <2>1. drv.stack # <<>> /\ Write([Op EXCEPT !.generation = generation + 1])
        BY <1>4 DEF Adopt, Publishes
    <2> QED BY <2>1, Edits, TopAlike
<1>5. CASE Resume
    <2>1. PICK n, row : n = Len(ops) /\ row = [ops[n] EXCEPT !.generation = generation + 1]
        OBVIOUS
    <2>2. ops \in Seq(OpRecords) /\ n \in 1..Len(ops) /\ ops[n] \in OpRecords
        BY <1>5, <2>1, EmptySeq DEF Resume, IInv, Records, Types
    <2>3. ops' = [ops EXCEPT ![n] = row]
        BY <1>5, <2>1, <2>2 DEF Resume
    <2>4. Created(row, ops[n])
        BY <2>1, <2>2 DEF OpRecords, Created, Kept
    <2> QED BY <2>2, <2>3, <2>4, WriteAlike
<1> QED BY <1>1, <1>2, <1>3, <1>4, <1>5 DEF Next

----------------------------------------------------------------------------
(* Every step *)

LEMMA InitSound == Init => Sound
<1> SUFFICES ASSUME Init PROVE Sound
    OBVIOUS
<1>1. /\ ops = <<>> /\ Len(ops) = 0 /\ serving = 0 /\ deployed = 0 /\ total = 0 /\ sent = {} /\ drv.stack = <<>>
      /\ obj[0].mode = "open" /\ data[0] = 0
    <2>1. 0 \in Objects
        BY Bounds DEF Objects
    <2> QED BY <2>1 DEF Init, Idle
<1>2. Linked /\ Harmless /\ OneRun
    BY <1>1 DEF Linked, Harmless, OneRun
<1>3. Grounded
    BY <1>1 DEF Grounded, Steady, Full
<1>4. Finals
    BY <1>1 DEF Finals, Stays, Within
<1>5. Driving /\ Placed
    BY <1>1 DEF Driving, Placed
<1> QED BY <1>2, <1>3, <1>4, <1>5 DEF Sound

LEMMA StutterSound == Good /\ UNCHANGED vars => Sound'
<1> SUFFICES ASSUME Good, UNCHANGED vars PROVE Sound'
    OBVIOUS
<1>1. /\ ops' = ops /\ generation' = generation /\ serving' = serving /\ deployed' = deployed /\ obj' = obj
      /\ data' = data /\ total' = total /\ sent' = sent /\ drv' = drv
    BY DEF vars
<1>2. Alike /\ Quiet /\ IInv
    BY <1>1, SameAlike DEF Quiet, Good
<1>3. /\ \A o, mode : Stays(o, mode)' <=> Stays(o, mode)
      /\ Steady' <=> Steady
      /\ \A b \in 1..Len(ops) : \A row : BaseOK(b, row)' <=> BaseOK(b, row)
      /\ \A row : (Landed(row)' <=> Landed(row)) /\ (Remains(row)' <=> Remains(row))
      /\ \A row, pc, todo : PlaceOK(row, pc, todo)' <=> PlaceOK(row, pc, todo)
      /\ \A row, pc, todo : Passes(row, pc, todo)' <=> Passes(row, pc, todo)
    BY <1>2, QuietSame
<1>4. (\A b : Base(b)' <=> Base(b)) /\ (NoneBegun' <=> NoneBegun)
    BY <1>1 DEF Base, NoneBegun
<1>5. Linked' /\ Harmless' /\ OneRun' /\ Grounded'
    BY <1>1, <1>3, <1>4 DEF Good, Sound, Linked, Harmless, OneRun, Grounded
<1>6. \A row : EndOK(row)' <=> EndOK(row)
    BY <1>1, <1>3, <1>4 DEF EndOK
<1>7. Latest' = Latest /\ Op' = Op
    BY <1>1 DEF Latest, Op, Top
<1>8. Finals' /\ Driving'
    BY <1>1, <1>3, <1>6, <1>7 DEF Good, Sound, Finals, Driving
<1>9. \A row, pc, todo : RecoveryOK(row, pc, todo) => RecoveryOK(row, pc, todo)'
    BY <1>1, <1>3, <1>4 DEF RecoveryOK, Sure
<1>10. Placed'
    BY <1>1, <1>3, <1>7, <1>9 DEF Good, Sound, Placed
<1> QED BY <1>5, <1>8, <1>10 DEF Sound

LEMMA DriveStepSound == Good /\ DriveStep => Sound'
<1> SUFFICES ASSUME Good, DriveStep PROVE Sound'
    OBVIOUS
<1>1. CASE BeginStep
    BY <1>1, BeginBaseSound, BeginRecoverySound
<1>2. CASE \/ FailedStep \/ MaintenanceStep \/ BackupOpened \/ BackupVerified
           \/ \E kind \in {"backup", "migrate", "restore"} : RestrictStep(kind) \/ DumpStep(kind)
           \/ \E kind \in {"migrate", "restore"} : VerifyStep(kind)
    BY <1>2, FailedStepSound, MaintenanceStepSound, BackupOpenedSound, BackupVerifiedSound, RestrictStepSound,
       DumpStepSound, VerifyStepSound
<1>3. CASE MigrateDeploy \/ MigrateDeployed \/ MigrateRequest \/ MigrateOpened
    BY <1>3, MigrateDeploySound, MigrateDeployedSound, MigrateRequestSound, MigrateOpenedSound
<1>4. CASE \/ \E d \in {"list", "point", "revert"} : RestoreRun(d, d)
           \/ ListStep \/ ImportStep \/ PromoteStep \/ PointStep \/ ServeStep \/ Booted \/ BootFails
    BY <1>4, StopSound, RestoreRunSound, ListStepSound, ImportStepSound, PromoteStepSound, PointStepSound, ServeStepSound,
       BootedSound DEF BootFails
<1>5. CASE RewindStep \/ Arm \/ CheckStep \/ RevertStep \/ RestoreOpened
    BY <1>5, RewindStepSound, ArmSound, CheckStepSound, RevertStepSound, RestoreOpenedSound
<1>6. CASE Reconcile \/ RecoveryRestricted \/ RecoveryResumes \/ RecoveryResumed \/ RecoveryEnds
    BY <1>6, ReconcileSound, RecoveryRestrictedSound, RecoveryResumesSound, RecoveryResumedSound, RecoveryEndsSound
<1>7. CASE RecoverRestore \/ KeepClone \/ RecoveryReverts \/ RecoveryReverted \/ KeepOriginal
    BY <1>7, RecoverRestoreSound, KeepCloneSound, RecoveryRevertsSound, RecoveryRevertedSound, KeepOriginalSound
<1> QED BY <1>1, <1>2, <1>3, <1>4, <1>5, <1>6, <1>7 DEF DriveStep, HolderStep

LEMMA NextSound == IInv /\ (Straight => Sound) /\ [Next]_vars => (Straight => Sound)'
<1> SUFFICES ASSUME IInv, Straight => Sound, [Next]_vars, Straight' PROVE Sound'
    OBVIOUS
<1>1. CASE StartStep
    BY <1>1, StartStepSound
<1>2. CASE ~StartStep
    <2>1. Alike
        BY <1>2, StepAlike, SameAlike DEF vars
    <2>2. Good
        BY <2>1, AlikeBase DEF Good
    <2>3. CASE UNCHANGED vars
        BY <2>2, <2>3, StutterSound
    <2>4. CASE Resume \/ Stop \/ Send \/ Acked \/ Adopt
        BY <2>2, <2>4, ResumeSound, StopSound, SendSound, AckedSound, AdoptSound
    <2>5. CASE DriveStep
        BY <2>2, <2>5, DriveStepSound
    <2>6. CASE RunStep
        BY <2>2, <2>6, DeployLandsSound, RunEndsSound DEF RunStep
    <2>7. CASE (\E r \in sent : Land(r) \/ LandArm(r)) \/ ClientWrite \/ Deploy
        BY <2>2, <2>7, LandSound, LandArmSound, ClientWriteSound, DeploySound
    <2> QED BY <1>2, <2>3, <2>4, <2>5, <2>6, <2>7 DEF Next
<1> QED BY <1>1, <1>2

\* Along a straight history the writes are where the base operation's record, the pointer and the runs say
\* they are: every start, step, fence, late request, arm, deploy and run keeps it, wherever a holder stops.
THEOREM StraightSound == Spec => [](Straight => Sound)
<1>1. Init => IInv /\ (Straight => Sound)
    BY InitHolds, InitSound
<1>2. IInv /\ (Straight => Sound) /\ [Next]_vars => (Straight => Sound)'
    BY NextSound
<1> QED BY <1>1, <1>2, Invariant, PTL DEF Spec

\* What recordedMaintenance answers can be relied on: an environment it calls open serves from an object
\* that is open and holds every accepted write, after any backup, migration, restore, failure, takeover and
\* recovery of a straight history.
THEOREM OpenServes == Spec => []RecordedOpenServes
<1>1. IInv /\ (Straight => Sound) => RecordedOpenServes
    <2> SUFFICES ASSUME IInv, Straight, Sound, RecordedMaintenance = "open"
                 PROVE  obj[serving].mode = "open" /\ data[serving] = total
        BY DEF RecordedOpenServes
    <2>1. NoneRunning
        BY DEF RecordedMaintenance, NoneRunning
    <2>2. Full(serving)
        BY <2>1, SettledSteady DEF Good, Steady
    <2>3. Stays(serving, "open")
        <3>1. CASE ops = <<>>
            BY <3>1 DEF Sound, Finals
        <3>2. CASE ops # <<>>
            <4>1. Latest.state # "running" /\ OpenOf(Latest)
                BY <3>2 DEF RecordedMaintenance, OpenOf
            <4> QED BY <3>2, <4>1 DEF Sound, Finals, EndOK
        <3> QED BY <3>1, <3>2
    <2> QED BY <2>2, <2>3 DEF Full, Stays, Within
<1> QED BY <1>1, Invariant, StraightSound, PTL

\* No accepted write is left behind: along a straight history ordinary traffic is only ever accepted by an
\* object that holds every earlier write, whatever restore moved the traffic, failed, was driven back or was
\* opened past, and however late a request, an arm or a pointer deploy takes effect.
THEOREM WritesKept == Spec => NoWriteLost
<1>1. IInv /\ (Straight => Sound) /\ [Next]_vars => [Straight /\ total' # total => data[deployed] = total]_vars
    <2> SUFFICES ASSUME IInv, Straight => Sound, Next, Straight, total' # total PROVE data[deployed] = total
        BY DEF vars
    <2>1. ClientWrite
        BY DEF Next, StartStep, StartMaintenance, StartBackup, StartMigration, StartRestore, StartRecovery, Start,
           Resume, Stop, Send, Acked, Adopt, RunStep, DeployLands, RunEnds, Land, LandArm, Deploy,
           DriveStep, HolderStep, BootFails, BeginStep, FailedStep, MaintenanceStep, RestrictStep, DumpStep, VerifyStep, BackupOpened,
           BackupVerified, MigrateDeploy, MigrateDeployed, MigrateRequest, MigrateOpened, RestoreRun, ListStep,
           ImportStep, PromoteStep, PointStep, ServeStep, Booted, RewindStep, Arm, CheckStep, RevertStep,
           RestoreOpened, Reconcile, RecoveryRestricted, RecoveryResumes, RecoveryResumed, RecoveryEnds,
           RecoverRestore, KeepClone, RecoveryReverts, RecoveryReverted, KeepOriginal, RestoreDeploy, world
    <2>2. Good /\ obj[deployed].mode = "open"
        BY <2>1 DEF Good, ClientWrite
    <2> QED BY <2>2, OpenFull DEF Full
<1> QED BY <1>1, Invariant, StraightSound, PTL DEF Spec, NoWriteLost
=============================================================================
