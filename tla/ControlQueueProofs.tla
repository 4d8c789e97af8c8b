------------------------- MODULE ControlQueueProofs -------------------------
(***************************************************************************)
(* The control queue keeps its promise (AtLeastOnce) for any number of     *)
(* consumers, works, messages, attempts and faults.                        *)
(*                                                                         *)
(* The argument: an ack deletes a row by id, whoever claimed it since, so  *)
(* what has to hold when a consumer is about to ack is that its work is    *)
(* not owed or that a later message carries it (LaterSettled).  The later  *)
(* message may be deleted by another consumer's ack before: then the same  *)
(* holds of that one, with a message later still or work that is not owed. *)
(* A namespace requeued while its handler runs stays pending when the      *)
(* handler returns, so the same has to hold of that handler already.       *)
(***************************************************************************)
EXTENDS ControlQueue, WellFoundedInduction, TLAPS

Batch(c) == consumer[c].batch

\* Ids are handed out in order.
ClaimedIds == \A c \in Consumers : \A j \in Batch(c) : j.id <= sent

\* A claim is about the work of its row, as long as the row is there.
ClaimMatches ==
  \A c \in Consumers : \A j \in Batch(c) : \A k \in rows : j.id = k.id => j.work = k.work

\* Work is not owed, or a message later than i carries it.
SettledAfter(w, i) == w \notin Owed \/ \E k \in rows : k.work = w /\ k.id > i

\* The consumer acks its message next, or will leave its work pending when its handler returns.
WillAck(c) == At(c, "ack") \/ (At(c, "run") /\ status[Current(c).work] = "pending")

\* It leaves its work with nobody to whom it is owed or with a later message.
LaterSettled == \A c \in Consumers : WillAck(c) => SettledAfter(Current(c).work, Current(c).id)

IInv == TypeOK /\ ClaimedIds /\ ClaimMatches /\ LaterSettled

----------------------------------------------------------------------------
\* A nonempty set of naturals has a least element.
LEMMA LeastNatural ==
  ASSUME NEW S, S \subseteq Nat, S # {}
  PROVE  \E x \in S : \A y \in S : x <= y
<1>1. IsWellFoundedOn(OpToRel(<, Nat), Nat)
  BY NatLessThanWellFounded
<1>2. PICK x \in S : \A y \in S : ~(<<y, x>> \in OpToRel(<, Nat))
  BY <1>1, WFMin
<1>3. \A y \in S : ~(y < x)
  BY <1>2 DEF OpToRel
<1> QED BY <1>3

\* The job a consumer handles is one of its batch.
LEMMA CurrentInBatch ==
  ASSUME TypeOK, NEW c \in Consumers, ~At(c, "poll")
  PROVE  /\ Current(c) \in Batch(c)
         /\ Current(c) \in Claims
<1> DEFINE S == {j.id : j \in Batch(c)}
<1>1. Batch(c) # {} /\ Batch(c) \subseteq Claims
  BY DEF TypeOK, At, Batch
<1>2. S \subseteq Nat /\ S # {}
  BY <1>1 DEF Claims, Ids
<1>3. \E x \in S : \A y \in S : x <= y
  BY <1>2, LeastNatural
<1>4. \E j \in Batch(c) : \A k \in Batch(c) : j.id <= k.id
  BY <1>3
<1>5. Current(c) \in Batch(c)
  BY <1>4 DEF Current, Earliest, Batch
<1> QED BY <1>1, <1>5

\* A new message's id is above every id in use.
LEMMA FreshRow ==
  ASSUME TypeOK, NEW w \in Works, NEW visible \in BOOLEAN
  PROVE  Fresh(w, visible) \in Rows /\ Fresh(w, visible).id = sent + 1 /\ Fresh(w, visible).work = w
<1>1. sent \in Nat /\ sent + 1 \in Ids
  BY DEF TypeOK, Ids
<1> QED BY <1>1 DEF Fresh, Rows

\* Initially the queue is empty.
LEMMA InitIInv == Init => IInv
BY DEF Init, IInv, TypeOK, ClaimedIds, ClaimMatches, LaterSettled, WillAck, Batch, At, Pcs, Rows, Statuses

----------------------------------------------------------------------------
(* The steps, by what they do to the table and to the consumers *)

\* A message more is put into the table, and no work but its own becomes owed.
LEMMA RowAdded ==
  ASSUME IInv, TypeOK', NEW n \in Rows, n.id = sent + 1, rows' = rows \cup {n}, sent' = sent + 1,
         Owed' \subseteq Owed \cup {n.work},
         \A c \in Consumers : Batch(c)' = Batch(c) /\ Current(c)' = Current(c),
         \A c \in Consumers : WillAck(c)' => ~At(c, "poll") /\ (WillAck(c) \/ Current(c).work = n.work)
  PROVE  IInv'
<1> USE DEF IInv
<1>1. ClaimedIds'
  BY DEF ClaimedIds, TypeOK, Batch, Claims, Ids
<1>2. ClaimMatches'
  BY DEF ClaimMatches, ClaimedIds, TypeOK, Batch, Claims, Ids
<1>3. LaterSettled'
  <2> SUFFICES ASSUME NEW c \in Consumers, WillAck(c)'
               PROVE  SettledAfter(Current(c).work, Current(c).id)'
    BY DEF LaterSettled
  <2>1. Current(c) \in Batch(c) /\ Current(c) \in Claims /\ Current(c)' = Current(c)
    BY CurrentInBatch
  <2>2. Current(c).id <= sent /\ Current(c).id \in Nat /\ sent \in Nat
    BY <2>1 DEF ClaimedIds, Claims, Ids, TypeOK
  <2>3. CASE Current(c).work = n.work
    BY <2>1, <2>2, <2>3 DEF SettledAfter
  <2>4. CASE Current(c).work # n.work
    <3>1. SettledAfter(Current(c).work, Current(c).id)
      BY <2>4 DEF LaterSettled
    <3> QED BY <2>1, <2>4, <3>1 DEF SettledAfter
  <2> QED BY <2>3, <2>4
<1> QED BY <1>1, <1>2, <1>3

\* A step that keeps every row's id and work, claims only rows of the table, makes nothing owed and lets a
\* consumer come to its ack only with work that is not.
LEMMA RowsKept ==
  ASSUME IInv, TypeOK', sent' = sent, Owed' \subseteq Owed,
         \A j \in rows : \E k \in rows' : k.id = j.id /\ k.work = j.work,
         \A k \in rows' : \E j \in rows : k.id = j.id /\ k.work = j.work,
         \A c \in Consumers : \A j \in Batch(c)' :
           j \in Batch(c) \/ \E k \in rows : k.id = j.id /\ k.work = j.work,
         \A c \in Consumers : WillAck(c)' =>
           \/ WillAck(c) /\ Current(c)' = Current(c)
           \/ Current(c)'.work \notin Owed'
  PROVE  IInv'
<1> USE DEF IInv
<1>1. ClaimedIds'
  BY DEF ClaimedIds, TypeOK
<1>2. ClaimMatches'
  BY DEF ClaimMatches, TypeOK
<1>3. LaterSettled'
  <2> SUFFICES ASSUME NEW c \in Consumers, WillAck(c)'
               PROVE  SettledAfter(Current(c).work, Current(c).id)'
    BY DEF LaterSettled
  <2>1. CASE WillAck(c) /\ Current(c)' = Current(c)
    BY <2>1 DEF LaterSettled, SettledAfter
  <2>2. CASE Current(c)'.work \notin Owed'
    BY <2>2 DEF SettledAfter
  <2> QED BY <2>1, <2>2
<1> QED BY <1>1, <1>2, <1>3

\* A consumer that settles its job goes on with the rest of its batch.
LEMMA NextJobMoves ==
  ASSUME TypeOK, NEW c \in Consumers, NextJob(c), status' = status
  PROVE  /\ consumer' \in [Consumers -> [pc : Pcs, batch : SUBSET Claims]]
         /\ \A d \in Consumers : At(d, "poll")' <=> consumer'[d].batch = {}
         /\ \A d \in Consumers : Batch(d)' \subseteq Batch(d)
         /\ \A d \in Consumers : WillAck(d)' => d # c /\ WillAck(d) /\ Current(d)' = Current(d)
<1> DEFINE rest == consumer[c].batch \ {Current(c)}
           moved == [pc |-> IF rest = {} THEN "poll" ELSE "handle", batch |-> rest]
<1> HIDE DEF rest
<1>1. moved \in [pc : Pcs, batch : SUBSET Claims]
  BY DEF TypeOK, Pcs, rest
<1>2. consumer' = [consumer EXCEPT ![c] = moved]
  BY DEF NextJob, rest
<1>3. moved.pc \notin {"ack", "run"} /\ moved.batch = rest /\ (moved.pc = "poll" <=> rest = {})
  OBVIOUS
<1>4. rest \subseteq consumer[c].batch
  BY DEF rest
<1> HIDE DEF moved
<1>5. consumer' \in [Consumers -> [pc : Pcs, batch : SUBSET Claims]]
  BY <1>1, <1>2 DEF TypeOK
<1>6. consumer'[c] = moved /\ \A d \in Consumers \ {c} : consumer'[d] = consumer[d]
  BY <1>2 DEF TypeOK
<1>7. \A d \in Consumers : At(d, "poll")' <=> consumer'[d].batch = {}
  BY <1>3, <1>6 DEF TypeOK, At
<1>8. \A d \in Consumers : Batch(d)' \subseteq Batch(d)
  BY <1>3, <1>4, <1>6 DEF Batch
<1>9. \A d \in Consumers \ {c} : Current(d)' = Current(d)
  BY <1>6 DEF Current
<1>10. ~WillAck(c)'
  BY <1>3, <1>6 DEF WillAck, At
<1>11. \A d \in Consumers \ {c} : WillAck(d)' => WillAck(d)
  BY <1>6, <1>9 DEF WillAck, At
<1> QED BY <1>5, <1>7, <1>8, <1>9, <1>10, <1>11

\* A step inside a handler moves one consumer and keeps its batch.
LEMMA GotoMoves ==
  ASSUME TypeOK, NEW c \in Consumers, NEW pc \in Pcs \ {"poll"}, ~At(c, "poll"), Goto(c, pc)
  PROVE  /\ consumer' \in [Consumers -> [pc : Pcs, batch : SUBSET Claims]]
         /\ \A d \in Consumers : At(d, "poll")' <=> consumer'[d].batch = {}
         /\ \A d \in Consumers : Batch(d)' = Batch(d) /\ Current(d)' = Current(d)
         /\ consumer'[c].pc = pc
         /\ \A d \in Consumers \ {c} : consumer'[d].pc = consumer[d].pc
BY DEF TypeOK, Goto, At, Batch, Current, Pcs

\* A row is deleted by id, and its work is not owed or a later message carries it.
LEMMA RowRemoved ==
  ASSUME IInv, NEW c \in Consumers, ~At(c, "poll"), NextJob(c),
         rows' = {j \in rows : j.id # Current(c).id},
         givenUp' \subseteq Works, Owed' \subseteq Owed,
         UNCHANGED <<sent, lease, status, faults>>,
         \/ Current(c).work \notin Owed'
         \/ \E k \in rows : k.work = Current(c).work /\ k.id > Current(c).id
  PROVE  IInv'
<1> USE DEF IInv
<1>1. Current(c) \in Batch(c) /\ Current(c) \in Claims
  BY CurrentInBatch
<1>2. /\ consumer' \in [Consumers -> [pc : Pcs, batch : SUBSET Claims]]
      /\ \A d \in Consumers : At(d, "poll")' <=> consumer'[d].batch = {}
      /\ \A d \in Consumers : Batch(d)' \subseteq Batch(d)
      /\ \A d \in Consumers : WillAck(d)' => d # c /\ WillAck(d) /\ Current(d)' = Current(d)
  BY NextJobMoves
<1>3. TypeOK'
  BY <1>2 DEF TypeOK
<1>4. ClaimedIds'
  BY <1>2 DEF ClaimedIds
<1>5. ClaimMatches'
  BY <1>2 DEF ClaimMatches
<1>6. \A k \in rows : k.id = Current(c).id => k.work = Current(c).work
  BY <1>1 DEF ClaimMatches
<1>7. \/ Current(c).work \notin Owed'
      \/ \E k \in rows' : k.work = Current(c).work /\ k.id > Current(c).id
  <2>1. \A k \in rows : k.id > Current(c).id => k \in rows'
    BY <1>1 DEF TypeOK, Rows, Claims, Ids
  <2> QED BY <2>1
<1>8. LaterSettled'
  <2> SUFFICES ASSUME NEW d \in Consumers, WillAck(d)'
               PROVE  SettledAfter(Current(d).work, Current(d).id)'
    BY DEF LaterSettled
  <2>1. d # c /\ WillAck(d) /\ Current(d)' = Current(d)
    BY <1>2
  <2>2. Current(d) \in Claims
    BY <2>1, CurrentInBatch DEF WillAck, At
  <2>3. CASE Current(d).work \notin Owed
    BY <2>1, <2>3 DEF SettledAfter
  <2>4. CASE \E k \in rows : k.work = Current(d).work /\ k.id > Current(d).id
    <3>1. PICK k \in rows : k.work = Current(d).work /\ k.id > Current(d).id
      BY <2>4
    <3>2. CASE k.id # Current(c).id
      BY <2>1, <3>1, <3>2 DEF SettledAfter
    <3>3. CASE k.id = Current(c).id
      <4>1. Current(c).work = Current(d).work
        BY <1>6, <3>1, <3>3
      <4>2. CASE Current(c).work \notin Owed'
        BY <2>1, <4>1, <4>2 DEF SettledAfter
      <4>3. CASE \E m \in rows' : m.work = Current(c).work /\ m.id > Current(c).id
        <5>1. PICK m \in rows' : m.work = Current(c).work /\ m.id > Current(c).id
          BY <4>3
        <5>2. m.id \in Nat /\ Current(c).id \in Nat /\ Current(d).id \in Nat
          BY <1>1, <2>2 DEF TypeOK, Rows, Claims, Ids
        <5>3. m.id > Current(d).id
          BY <3>1, <3>3, <5>1, <5>2
        <5> QED BY <2>1, <4>1, <5>1, <5>3 DEF SettledAfter
      <4> QED BY <1>7, <4>2, <4>3
    <3> QED BY <3>2, <3>3
  <2> QED BY <2>1, <2>3, <2>4 DEF LaterSettled, SettledAfter
<1> QED BY <1>3, <1>4, <1>5, <1>8

----------------------------------------------------------------------------
(* The actions *)

\* A sender's message.
LEMMA SendIInv == ASSUME IInv, NEW w \in Works, Send(w) PROVE IInv'
<1> DEFINE n == Fresh(w, TRUE)
<1>1. n \in Rows /\ n.id = sent + 1 /\ n.work = w
  BY FreshRow DEF IInv
<1> HIDE DEF n
<1>2. rows' = rows \cup {n} /\ sent' = sent + 1 /\ consumer' = consumer
  BY DEF Send, n
<1>3. /\ status' = [status EXCEPT ![w] = "pending"] /\ givenUp' = givenUp \ {w}
      /\ lease' = lease /\ faults' = faults
  BY DEF Send
<1>4. status' \in [Works -> Statuses]
  BY <1>3 DEF IInv, TypeOK, Statuses
<1>5. TypeOK'
  BY <1>1, <1>2, <1>3, <1>4 DEF IInv, TypeOK, Rows, Ids, At
<1>6. \A x \in Works : x # w => status'[x] = status[x] /\ (x \in givenUp' <=> x \in givenUp)
  BY <1>3 DEF IInv, TypeOK
<1>7. Owed' \subseteq Owed \cup {n.work}
  BY <1>1, <1>6 DEF Owed
<1>8. \A c \in Consumers : Batch(c)' = Batch(c) /\ Current(c)' = Current(c)
  BY <1>2 DEF Batch, Current
<1>9. ASSUME NEW c \in Consumers, WillAck(c)'
      PROVE  ~At(c, "poll") /\ (WillAck(c) \/ Current(c).work = n.work)
  <2>1. ~At(c, "poll")
    BY <1>2, <1>9 DEF WillAck, At
  <2>2. Current(c).work \in Works
    BY <2>1, CurrentInBatch DEF IInv, Claims
  <2> QED BY <1>1, <1>2, <1>6, <1>8, <1>9, <2>1, <2>2 DEF WillAck, At
<1> QED BY <1>1, <1>2, <1>5, <1>7, <1>8, <1>9, RowAdded

\* What a handler gives back.
LEMMA FreedLease ==
  ASSUME TypeOK, NEW c \in Consumers
  PROVE  Freed(c) \in [Works -> Consumers \cup {NoConsumer}]
BY DEF TypeOK, Freed

\* The replacement of a contended message.
LEMMA DeferContendedIInv == ASSUME IInv, NEW c \in Consumers, DeferContended(c) PROVE IInv'
<1> DEFINE w == Current(c).work
           n == Fresh(w, FALSE)
<1>1. ~At(c, "poll") /\ Goto(c, "ack")
  BY DEF DeferContended, Contended, At
<1>2. w \in Works
  BY <1>1, CurrentInBatch DEF IInv, Claims
<1>3. n \in Rows /\ n.id = sent + 1 /\ n.work = w
  BY <1>2, FreshRow DEF IInv
<1> HIDE DEF n
<1>4. rows' = rows \cup {n} /\ sent' = sent + 1
  BY DEF DeferContended, n
<1> HIDE DEF w
<1>5. /\ consumer' \in [Consumers -> [pc : Pcs, batch : SUBSET Claims]]
      /\ \A d \in Consumers : At(d, "poll")' <=> consumer'[d].batch = {}
      /\ \A d \in Consumers : Batch(d)' = Batch(d) /\ Current(d)' = Current(d)
      /\ consumer'[c].pc = "ack"
      /\ \A d \in Consumers \ {c} : consumer'[d].pc = consumer[d].pc
  BY <1>1, GotoMoves DEF IInv, Pcs
<1>6. status' = status /\ givenUp' = givenUp /\ faults' = faults /\ lease' = Freed(c)
  BY DEF DeferContended
<1>7. lease' \in [Works -> Consumers \cup {NoConsumer}]
  BY <1>6, FreedLease DEF IInv
<1>8. TypeOK'
  BY <1>3, <1>4, <1>5, <1>6, <1>7 DEF IInv, TypeOK, Rows, Ids
<1>9. Owed' \subseteq Owed \cup {n.work}
  BY <1>6 DEF Owed
<1>10. ASSUME NEW d \in Consumers, WillAck(d)'
       PROVE  ~At(d, "poll") /\ (WillAck(d) \/ Current(d).work = n.work)
  <2>1. CASE d = c
    BY <1>1, <1>3, <2>1 DEF w
  <2>2. CASE d # c
    BY <1>5, <1>6, <1>10, <2>2 DEF WillAck, At
  <2> QED BY <2>1, <2>2
<1> QED BY <1>3, <1>4, <1>5, <1>8, <1>9, <1>10, RowAdded

\* A hidden row becomes visible again, claimed or not.
LEMMA LapseIInv == ASSUME IInv, NEW j \in rows, Lapse(j) PROVE IInv'
<1> DEFINE seen == [j EXCEPT !.visible = TRUE]
<1>1. seen \in Rows /\ seen.id = j.id /\ seen.work = j.work
  BY DEF IInv, TypeOK, Rows
<1> HIDE DEF seen
<1>2. rows' = (rows \ {j}) \cup {seen}
  BY DEF Lapse, seen
<1>3. TypeOK'
  BY <1>1, <1>2 DEF IInv, TypeOK, Lapse, At
<1>4. \A c \in Consumers : Batch(c)' = Batch(c) /\ Current(c)' = Current(c) /\ (WillAck(c)' => WillAck(c))
  BY DEF Lapse, Batch, Current, WillAck, At
<1>5. Owed' = Owed /\ sent' = sent
  BY DEF Lapse, Owed
<1> QED BY <1>1, <1>2, <1>3, <1>4, <1>5, RowsKept

\* A settled run is not owed.
LEMMA SettleRunIInv == ASSUME IInv, NEW w \in Works, SettleRun(w) PROVE IInv'
<1>1. /\ rows' = rows /\ sent' = sent /\ consumer' = consumer /\ lease' = lease
      /\ givenUp' = givenUp /\ faults' = faults /\ status' = [status EXCEPT ![w] = "done"]
  BY DEF SettleRun
<1>2. \A x \in Works : status'[x] = IF x = w THEN "done" ELSE status[x]
  BY <1>1 DEF IInv, TypeOK
<1>3. TypeOK'
  BY <1>1 DEF IInv, TypeOK, At, Statuses
<1>4. Owed' \subseteq Owed
  BY <1>1, <1>2 DEF Owed
<1>5. ASSUME NEW c \in Consumers, WillAck(c)'
      PROVE  WillAck(c) /\ Current(c)' = Current(c)
  <2>1. ~At(c, "poll") /\ Current(c)' = Current(c)
    BY <1>1, <1>5 DEF WillAck, At, Current
  <2>2. Current(c).work \in Works
    BY <2>1, CurrentInBatch DEF IInv, Claims
  <2> QED BY <1>1, <1>2, <1>5, <2>1, <2>2 DEF WillAck, At
<1> QED BY <1>1, <1>3, <1>4, <1>5, RowsKept DEF Batch

\* A claim copies ids and works of the table.
LEMMA PollIInv ==
  ASSUME IInv, NEW c \in Consumers, NEW taken \in SUBSET rows, Poll(c, taken) PROVE IInv'
<1> DEFINE hid(j) == [j EXCEPT !.visible = FALSE, !.attempts = j.attempts + 1]
           claim(j) == [id |-> j.id, work |-> j.work, attempts |-> j.attempts + 1]
<1>1. \A j \in rows : /\ hid(j) \in Rows /\ hid(j).id = j.id /\ hid(j).work = j.work
                      /\ claim(j) \in Claims /\ claim(j).id = j.id /\ claim(j).work = j.work
  <2> TAKE j \in rows
  <2>1. j \in Rows /\ j.attempts + 1 \in Nat
    BY DEF IInv, TypeOK, Rows
  <2>2. hid(j) \in Rows /\ hid(j).id = j.id /\ hid(j).work = j.work
    BY <2>1 DEF Rows
  <2>3. claim(j) \in Claims /\ claim(j).id = j.id /\ claim(j).work = j.work
    BY <2>1 DEF Rows, Claims
  <2> QED BY <2>2, <2>3
<1>2. rows' = (rows \ taken) \cup {hid(j) : j \in taken}
  BY DEF Poll
<1>3. consumer' = [consumer EXCEPT ![c] = [pc |-> "handle", batch |-> {claim(j) : j \in taken}]]
  BY DEF Poll
<1> HIDE DEF hid, claim
<1> DEFINE batch == {claim(j) : j \in taken}
<1>4. batch # {} /\ batch \subseteq Claims
  BY <1>1 DEF Poll
<1>5. \A j \in batch : \E k \in rows : k.id = j.id /\ k.work = j.work
  BY <1>1
<1> HIDE DEF batch
<1>6. /\ consumer' \in [Consumers -> [pc : Pcs, batch : SUBSET Claims]]
      /\ \A d \in Consumers : At(d, "poll")' <=> consumer'[d].batch = {}
      /\ Batch(c)' = batch /\ consumer'[c].pc = "handle"
      /\ \A d \in Consumers \ {c} : consumer'[d] = consumer[d]
  BY <1>3, <1>4 DEF IInv, TypeOK, Batch, At, Pcs, batch
<1>7. \A k \in rows' : \E j \in rows : k.id = j.id /\ k.work = j.work
  BY <1>1, <1>2
<1>8. \A j \in rows : \E k \in rows' : k.id = j.id /\ k.work = j.work
  BY <1>1, <1>2
<1>9. TypeOK'
  <2>1. rows' \subseteq Rows
    BY <1>1, <1>2 DEF IInv, TypeOK
  <2>2. \A j, k \in rows' : j.id = k.id => j = k
    BY <1>1, <1>2 DEF IInv, TypeOK
  <2>3. \A j \in rows' : j.id <= sent'
    BY <1>7 DEF IInv, TypeOK, Poll
  <2> QED BY <1>6, <2>1, <2>2, <2>3 DEF IInv, TypeOK, Poll
<1>10. \A d \in Consumers : \A j \in Batch(d)' :
         j \in Batch(d) \/ \E k \in rows : k.id = j.id /\ k.work = j.work
  BY <1>5, <1>6 DEF Batch
<1>11. \A d \in Consumers : WillAck(d)' => WillAck(d) /\ Current(d)' = Current(d)
  BY <1>6 DEF WillAck, At, Current, Poll
<1>12. sent' = sent /\ Owed' = Owed
  BY DEF Poll, Owed
<1> QED BY <1>7, <1>8, <1>9, <1>10, <1>11, <1>12, RowsKept

\* A failed job is hidden again, also one somebody else has claimed.
LEMMA RetryIInv == ASSUME IInv, NEW c \in Consumers, Retry(c) PROVE IInv'
<1> DEFINE late(j) == IF j.id = Current(c).id THEN [j EXCEPT !.visible = FALSE] ELSE j
<1>1. \A j \in rows : late(j) \in Rows /\ late(j).id = j.id /\ late(j).work = j.work
  BY DEF IInv, TypeOK, Rows
<1>2. rows' = {late(j) : j \in rows}
  BY DEF Retry
<1> HIDE DEF late
<1>3. /\ consumer' \in [Consumers -> [pc : Pcs, batch : SUBSET Claims]]
      /\ \A d \in Consumers : At(d, "poll")' <=> consumer'[d].batch = {}
      /\ \A d \in Consumers : Batch(d)' \subseteq Batch(d)
      /\ \A d \in Consumers : WillAck(d)' => d # c /\ WillAck(d) /\ Current(d)' = Current(d)
  BY NextJobMoves DEF IInv, Retry
<1>4. TypeOK'
  <2>1. rows' \subseteq Rows
    BY <1>1, <1>2
  <2>2. \A j, k \in rows' : j.id = k.id => j = k
    BY <1>1, <1>2 DEF IInv, TypeOK
  <2>3. \A j \in rows' : j.id <= sent
    BY <1>1, <1>2 DEF IInv, TypeOK
  <2>4. sent' = sent /\ lease' = lease /\ status' = status /\ givenUp' = givenUp /\ faults' = faults
    BY DEF Retry
  <2> QED BY <1>3, <2>1, <2>2, <2>3, <2>4 DEF IInv, TypeOK
<1>5. \A j \in rows : \E k \in rows' : k.id = j.id /\ k.work = j.work
  BY <1>1, <1>2
<1>6. \A k \in rows' : \E j \in rows : k.id = j.id /\ k.work = j.work
  BY <1>1, <1>2
<1>7. sent' = sent /\ Owed' = Owed
  BY DEF Retry, Owed
<1> QED BY <1>3, <1>4, <1>5, <1>6, <1>7, RowsKept

\* A settlement that failed leaves the table.
LEMMA SettlementFailedIInv == ASSUME IInv, NEW c \in Consumers, SettlementFailed(c) PROVE IInv'
<1>1. /\ consumer' \in [Consumers -> [pc : Pcs, batch : SUBSET Claims]]
      /\ \A d \in Consumers : At(d, "poll")' <=> consumer'[d].batch = {}
      /\ \A d \in Consumers : Batch(d)' \subseteq Batch(d)
      /\ \A d \in Consumers : WillAck(d)' => d # c /\ WillAck(d) /\ Current(d)' = Current(d)
  BY NextJobMoves DEF IInv, SettlementFailed
<1>2. TypeOK'
  BY <1>1 DEF IInv, TypeOK, SettlementFailed
<1>3. rows' = rows /\ sent' = sent /\ Owed' = Owed
  BY DEF SettlementFailed, Owed
<1> QED BY <1>1, <1>2, <1>3, RowsKept

\* A crash loses the claims, never a row.
LEMMA CrashIInv == ASSUME IInv, NEW c \in Consumers, Crash(c) PROVE IInv'
<1>1. /\ consumer' \in [Consumers -> [pc : Pcs, batch : SUBSET Claims]]
      /\ \A d \in Consumers : At(d, "poll")' <=> consumer'[d].batch = {}
      /\ Batch(c)' = {} /\ consumer'[c].pc = "poll"
      /\ \A d \in Consumers \ {c} : consumer'[d] = consumer[d]
  BY DEF IInv, TypeOK, Crash, At, Batch, Pcs
<1>2. lease' \in [Works -> Consumers \cup {NoConsumer}]
  BY DEF IInv, TypeOK, Crash
<1>3. rows' = rows /\ sent' = sent /\ status' = status /\ givenUp' = givenUp /\ faults' \in Nat
  BY DEF Crash, IInv, TypeOK
<1>4. TypeOK'
  BY <1>1, <1>2, <1>3 DEF IInv, TypeOK
<1>5. \A d \in Consumers : WillAck(d)' => WillAck(d) /\ Current(d)' = Current(d)
  BY <1>1, <1>3 DEF WillAck, At, Current
<1>6. \A d \in Consumers : Batch(d)' \subseteq Batch(d)
  BY <1>1 DEF Batch
<1>7. Owed' = Owed
  BY <1>3 DEF Owed
<1> QED BY <1>3, <1>4, <1>5, <1>6, <1>7, RowsKept

\* A step of a handler that touches no row keeps the invariant when it makes nothing owed and comes to its
\* ack, or to its run, only with work that is not owed or not pending.
LEMMA HandlerMoves ==
  ASSUME IInv, NEW c \in Consumers, ~At(c, "poll"), NEW pc \in Pcs \ {"poll"}, Goto(c, pc),
         rows' = rows, sent' = sent, faults' \in Nat, givenUp' \subseteq Works,
         lease' \in [Works -> Consumers \cup {NoConsumer}],
         NEW value \in Statuses, status' = [status EXCEPT ![Current(c).work] = value],
         value = "pending" => status[Current(c).work] = "pending",
         Owed' \subseteq Owed,
         pc = "ack" => Current(c).work \notin Owed' \/ WillAck(c),
         pc = "run" => value # "pending"
  PROVE  IInv'
<1>1. /\ consumer' \in [Consumers -> [pc : Pcs, batch : SUBSET Claims]]
      /\ \A d \in Consumers : At(d, "poll")' <=> consumer'[d].batch = {}
      /\ \A d \in Consumers : Batch(d)' = Batch(d) /\ Current(d)' = Current(d)
      /\ consumer'[c].pc = pc
      /\ \A d \in Consumers \ {c} : consumer'[d].pc = consumer[d].pc
  BY GotoMoves DEF IInv
<1>2. Current(c).work \in Works
  BY CurrentInBatch DEF IInv, Claims
<1>3. \A x \in Works : status'[x] = IF x = Current(c).work THEN value ELSE status[x]
  BY <1>2 DEF IInv, TypeOK
<1>4. TypeOK'
  BY <1>1, <1>2 DEF IInv, TypeOK
<1>5. ASSUME NEW d \in Consumers, WillAck(d)'
      PROVE  WillAck(d) \/ Current(d).work \notin Owed'
  <2>1. CASE d = c
    <3>1. CASE pc = "ack"
      BY <2>1, <3>1
    <3>2. CASE pc = "run"
      BY <1>1, <1>2, <1>3, <1>5, <2>1, <3>2 DEF WillAck, At
    <3>3. CASE pc \notin {"ack", "run"}
      BY <1>1, <1>5, <2>1, <3>3 DEF WillAck, At
    <3> QED BY <3>1, <3>2, <3>3
  <2>2. CASE d # c
    <3>1. ~At(d, "poll")
      BY <1>1, <1>5, <2>2 DEF WillAck, At
    <3>2. Current(d).work \in Works
      BY <3>1, CurrentInBatch DEF IInv, Claims
    <3> QED BY <1>1, <1>3, <1>5, <2>2, <3>2 DEF WillAck, At
  <2> QED BY <2>1, <2>2
<1>6. \A d \in Consumers : WillAck(d)' =>
        (WillAck(d) /\ Current(d)' = Current(d)) \/ Current(d)'.work \notin Owed'
  BY <1>1, <1>5
<1> QED BY <1>1, <1>4, <1>6, RowsKept

\* The first read, the lease, and an error.
LEMMA LookIInv == ASSUME IInv, NEW c \in Consumers, Look(c) \/ Acquire(c) \/ Throw(c) PROVE IInv'
<1> DEFINE w == Current(c).work
<1>1. ~At(c, "poll") /\ \E pc \in {"lease", "claim", "fail"} : Goto(c, pc)
  BY DEF Look, Acquire, Throw, At
<1>2. w \in Works
  BY <1>1, CurrentInBatch DEF IInv, Claims
<1>3. status' = status /\ givenUp' = givenUp /\ rows' = rows /\ sent' = sent /\ faults' = faults
  BY DEF Look, Acquire, Throw
<1>4. status' = [status EXCEPT ![w] = status[w]] /\ status[w] \in Statuses
  BY <1>2, <1>3 DEF IInv, TypeOK
<1>5. lease' \in [Works -> Consumers \cup {NoConsumer}]
  BY <1>2, FreedLease DEF IInv, TypeOK, Look, Acquire, Throw
<1>6. Owed' = Owed
  BY <1>3 DEF Owed
<1>7. PICK pc \in {"lease", "claim", "fail"} : Goto(c, pc)
  BY <1>1
<1>8. pc \in Pcs \ {"poll"} /\ pc # "ack" /\ pc # "run"
  BY DEF Pcs
<1> QED BY <1>1, <1>3, <1>4, <1>5, <1>6, <1>7, <1>8, HandlerMoves DEF IInv, TypeOK

\* What is not runnable is not owed.
LEMMA SkipIInv == ASSUME IInv, NEW c \in Consumers, Skip(c) PROVE IInv'
<1> DEFINE w == Current(c).work
<1>1. ~At(c, "poll") /\ Goto(c, "ack") /\ ~Runnable(w)
  BY DEF Skip, At
<1>2. w \in Works
  BY <1>1, CurrentInBatch DEF IInv, Claims
<1>3. status' = status /\ givenUp' = givenUp /\ rows' = rows /\ sent' = sent /\ faults' = faults
  BY DEF Skip
<1>4. status' = [status EXCEPT ![w] = status[w]] /\ status[w] \in Statuses
  BY <1>2, <1>3 DEF IInv, TypeOK
<1>5. lease' \in [Works -> Consumers \cup {NoConsumer}]
  BY FreedLease DEF IInv, Skip
<1>6. Owed' = Owed /\ w \notin Owed'
  BY <1>1, <1>3 DEF Owed, Runnable
<1>7. "ack" \in Pcs \ {"poll"}
  BY DEF Pcs
<1> QED BY <1>1, <1>3, <1>4, <1>5, <1>6, <1>7, HandlerMoves DEF IInv, TypeOK

\* A claim moves the work from pending.
LEMMA ClaimIInv == ASSUME IInv, NEW c \in Consumers, Claim(c) PROVE IInv'
<1> DEFINE w == Current(c).work
           value == IF status[w] = "retryable" THEN "retryable" ELSE "claimed"
<1>1. ~At(c, "poll") /\ Goto(c, "run") /\ Runnable(w)
  BY DEF Claim, At
<1>2. w \in Works
  BY <1>1, CurrentInBatch DEF IInv, Claims
<1>3. /\ givenUp' = givenUp /\ rows' = rows /\ sent' = sent /\ faults' = faults /\ lease' = lease
      /\ status' = [status EXCEPT ![w] = value]
  BY DEF Claim
<1>4. value \in Statuses /\ value # "pending"
  BY DEF Statuses
<1>5. \A x \in Works : status'[x] = IF x = w THEN value ELSE status[x]
  BY <1>2, <1>3 DEF IInv, TypeOK
<1>6. Owed' \subseteq Owed
  BY <1>1, <1>3, <1>5 DEF Owed, Runnable
<1>7. "run" \in Pcs \ {"poll"}
  BY DEF Pcs
<1> HIDE DEF value
<1> QED BY <1>1, <1>3, <1>4, <1>6, <1>7, HandlerMoves DEF IInv, TypeOK

\* A run that is failed is not owed.
LEMMA RefuseIInv == ASSUME IInv, NEW c \in Consumers, Refuse(c) PROVE IInv'
<1> DEFINE w == Current(c).work
<1>1. ~At(c, "poll") /\ Goto(c, "ack")
  BY DEF Refuse, At
<1>2. w \in Works
  BY <1>1, CurrentInBatch DEF IInv, Claims
<1>3. /\ givenUp' = givenUp /\ rows' = rows /\ sent' = sent /\ faults' = faults
      /\ status' = [status EXCEPT ![w] = "done"]
  BY DEF Refuse
<1>4. \A x \in Works : status'[x] = IF x = w THEN "done" ELSE status[x]
  BY <1>2, <1>3 DEF IInv, TypeOK
<1>5. lease' \in [Works -> Consumers \cup {NoConsumer}]
  BY FreedLease DEF IInv, Refuse
<1>6. Owed' \subseteq Owed /\ w \notin Owed'
  BY <1>2, <1>3, <1>4 DEF Owed
<1>7. "ack" \in Pcs \ {"poll"} /\ "done" \in Statuses
  BY DEF Pcs, Statuses
<1> QED BY <1>1, <1>3, <1>5, <1>6, <1>7, HandlerMoves DEF IInv, TypeOK

\* A handler that returns leaves work with an outcome, or a requeued namespace whose message is later.
LEMMA FinishIInv == ASSUME IInv, NEW c \in Consumers, Finish(c) PROVE IInv'
<1> DEFINE w == Current(c).work
<1>1. ~At(c, "poll") /\ At(c, "run") /\ Goto(c, "ack")
  BY DEF Finish, At
<1>2. w \in Works
  BY <1>1, CurrentInBatch DEF IInv, Claims
<1>3. PICK end \in Ends(w) : status' = [status EXCEPT ![w] = IF @ = "pending" THEN @ ELSE end]
  BY DEF Finish
<1> DEFINE value == IF status[w] = "pending" THEN "pending" ELSE end
<1>4. status' = [status EXCEPT ![w] = value]
  BY <1>2, <1>3 DEF IInv, TypeOK
<1>5. end \in Statuses \ {"pending"} /\ (w \notin Deploys => end # "claimed")
  BY DEF Ends, Statuses
<1>6. value \in Statuses /\ (value = "pending" => status[w] = "pending")
  BY <1>5 DEF Statuses
<1>7. \A x \in Works : status'[x] = IF x = w THEN value ELSE status[x]
  BY <1>2, <1>4 DEF IInv, TypeOK
<1>8. givenUp' = givenUp /\ rows' = rows /\ sent' = sent /\ faults' = faults
  BY DEF Finish
<1>9. lease' \in [Works -> Consumers \cup {NoConsumer}]
  BY FreedLease DEF IInv, Finish
<1>10. Owed' \subseteq Owed
  BY <1>5, <1>7, <1>8 DEF Owed
<1>11. w \notin Owed' \/ WillAck(c)
  BY <1>1, <1>2, <1>5, <1>7 DEF Owed, WillAck
<1>12. "ack" \in Pcs \ {"poll"}
  BY DEF Pcs
<1> HIDE DEF value
<1> QED BY <1>1, <1>4, <1>6, <1>8, <1>9, <1>10, <1>11, <1>12, HandlerMoves DEF IInv, TypeOK

\* A deploy that lost its lease has moved its run or gives its message up.
LEMMA LoseLeaseIInv == ASSUME IInv, NEW c \in Consumers, LoseLease(c) PROVE IInv'
<1> DEFINE w == Current(c).work
           pc == IF w \in Deploys THEN "ack" ELSE "fail"
<1>1. ~At(c, "poll") /\ Goto(c, pc)
  BY DEF LoseLease, At
<1>2. w \in Works
  BY <1>1, CurrentInBatch DEF IInv, Claims
<1>3. /\ status' = status /\ rows' = rows /\ sent' = sent /\ faults' = faults + 1
      /\ givenUp' = IF w \in Deploys /\ status[w] = "pending" THEN givenUp \cup {w} ELSE givenUp
  BY DEF LoseLease
<1>4. status' = [status EXCEPT ![w] = status[w]] /\ status[w] \in Statuses
  BY <1>2, <1>3 DEF IInv, TypeOK
<1>5. lease' \in [Works -> Consumers \cup {NoConsumer}]
  BY FreedLease DEF IInv, LoseLease
<1>6. givenUp' \subseteq Works /\ faults' \in Nat
  BY <1>2, <1>3 DEF IInv, TypeOK
<1>7. Owed' \subseteq Owed
  BY <1>3 DEF Owed
<1>8. w \in Deploys => w \notin Owed'
  BY <1>3 DEF Owed
<1>9. pc \in Pcs \ {"poll"} /\ pc # "run" /\ (pc = "ack" => w \in Deploys)
  BY DEF Pcs
<1> HIDE DEF pc
<1> QED BY <1>1, <1>3, <1>4, <1>5, <1>6, <1>7, <1>8, <1>9, HandlerMoves

\* An ack deletes what is not owed or carried by a later message.
LEMMA AckIInv == ASSUME IInv, NEW c \in Consumers, Ack(c) PROVE IInv'
<1>1. ~At(c, "poll") /\ SettledAfter(Current(c).work, Current(c).id)
  BY DEF IInv, LaterSettled, WillAck, Ack, At
<1>2. Owed' = Owed
  BY DEF Ack, Owed
<1> QED BY <1>1, <1>2, RowRemoved DEF IInv, TypeOK, SettledAfter, Ack

\* An abandoned job is given up.
LEMMA AbandonIInv == ASSUME IInv, NEW c \in Consumers, Abandon(c) PROVE IInv'
<1>1. ~At(c, "poll")
  BY DEF Abandon, At
<1>2. Current(c).work \in Works
  BY <1>1, CurrentInBatch DEF IInv, Claims
<1>3. Owed' \subseteq Owed /\ Current(c).work \notin Owed'
  BY DEF Abandon, Owed
<1> QED BY <1>1, <1>2, <1>3, RowRemoved DEF IInv, TypeOK, Abandon

\* Every step keeps the inductive invariant.
LEMMA NextIInv == IInv /\ [Next]_vars => IInv'
<1> SUFFICES ASSUME IInv, [Next]_vars PROVE IInv'
  OBVIOUS
<1>1. ASSUME NEW w \in Works, Send(w) \/ SettleRun(w) PROVE IInv'
  BY <1>1, SendIInv, SettleRunIInv
<1>2. ASSUME NEW j \in rows, Lapse(j) PROVE IInv'
  BY <1>2, LapseIInv
<1>3. ASSUME NEW c \in Consumers, Work(c) PROVE IInv'
  <2>1. ASSUME NEW taken \in SUBSET rows, Poll(c, taken) PROVE IInv'
    BY <2>1, PollIInv
  <2>2. CASE Look(c) \/ Acquire(c) \/ Throw(c)
    BY <2>2, LookIInv
  <2> QED BY <1>3, <2>1, <2>2, SkipIInv, DeferContendedIInv, ClaimIInv, RefuseIInv, FinishIInv,
             AckIInv, AbandonIInv, RetryIInv DEF Work
<1>4. ASSUME NEW c \in Consumers, LoseLease(c) \/ SettlementFailed(c) \/ Crash(c) PROVE IInv'
  BY <1>4, LoseLeaseIInv, SettlementFailedIInv, CrashIInv
<1>5. CASE UNCHANGED vars
  BY <1>5 DEF vars, IInv, TypeOK, ClaimedIds, ClaimMatches, LaterSettled, SettledAfter, WillAck,
              Owed, Batch, Current, At
<1> QED BY <1>1, <1>2, <1>3, <1>4, <1>5 DEF Next

\* The invariant holds in every reachable state.
LEMMA InductiveInvariant == Spec => []IInv
<1>1. Init => IInv
  BY InitIInv
<1>2. IInv /\ [Next]_vars => IInv'
  BY NextIInv
<1> QED BY <1>1, <1>2, PTL DEF Spec

----------------------------------------------------------------------------
(* The refinement *)

\* Deleting a message drops its work or leaves it to another message.
LEMMA OutstandingRemoved ==
  ASSUME IInv, NEW c \in Consumers, ~At(c, "poll"),
         rows' = {j \in rows : j.id # Current(c).id}
  PROVE  \/ Outstanding' = Outstanding
         \/ Outstanding' = Outstanding \ {Current(c).work} /\ Current(c).work \notin Outstanding'
<1>1. Current(c) \in Batch(c)
  BY CurrentInBatch DEF IInv
<1>2. \A k \in rows : k.id = Current(c).id => k.work = Current(c).work
  BY <1>1 DEF IInv, ClaimMatches
<1>3. \A w \in Outstanding : w = Current(c).work \/ w \in Outstanding'
  BY <1>2 DEF Outstanding
<1>4. Outstanding' \subseteq Outstanding
  BY DEF Outstanding
<1> QED BY <1>3, <1>4

\* Every step is a step of the abstract queue or leaves it as it is.
LEMMA StepRefines ==
  ASSUME IInv, [Next]_vars
  PROVE  [Promise!AbsNext]_(Promise!absVars)
<1> USE DEF Promise!AbsNext, Promise!absVars
<1>1. ASSUME NEW w \in Works, Send(w) PROVE Promise!AbsNext
  <2>1. Fresh(w, TRUE).work = w
    BY FreshRow DEF IInv
  <2>2. Outstanding' = Outstanding \cup {w}
    BY <1>1, <2>1 DEF Send, Outstanding
  <2>3. \A x \in Works : status'[x] = IF x = w THEN "pending" ELSE status[x]
    BY <1>1 DEF Send, IInv, TypeOK
  <2>4. givenUp' = givenUp \ {w}
    BY <1>1 DEF Send
  <2>5. Owed' = Owed \cup {w}
    BY <2>3, <2>4 DEF Owed
  <2> QED BY <2>2, <2>4, <2>5 DEF Promise!Accept
<1>2. ASSUME NEW w \in Works, SettleRun(w) PROVE Promise!AbsNext
  <2>1. \A x \in Works : status'[x] = IF x = w THEN "done" ELSE status[x]
    BY <1>2 DEF SettleRun, IInv, TypeOK
  <2>2. givenUp' = givenUp /\ Outstanding' = Outstanding
    BY <1>2 DEF SettleRun, Outstanding
  <2>3. Owed' = Owed \ {w}
    BY <2>1, <2>2 DEF Owed
  <2> QED BY <2>2, <2>3 DEF Promise!TakeOver
<1>3. ASSUME NEW j \in rows, Lapse(j) PROVE UNCHANGED Promise!absVars
  <2> DEFINE seen == [j EXCEPT !.visible = TRUE]
  <2>1. seen.work = j.work
    BY DEF IInv, TypeOK, Rows
  <2> HIDE DEF seen
  <2>2. rows' = (rows \ {j}) \cup {seen}
    BY <1>3 DEF Lapse, seen
  <2>3. Outstanding' = Outstanding
    BY <2>1, <2>2 DEF Outstanding
  <2> QED BY <1>3, <2>3 DEF Lapse, Owed
<1>4. ASSUME NEW c \in Consumers, NEW taken \in SUBSET rows, Poll(c, taken)
      PROVE  UNCHANGED Promise!absVars
  <2> DEFINE hid(j) == [j EXCEPT !.visible = FALSE, !.attempts = j.attempts + 1]
  <2>1. \A j \in rows : hid(j).work = j.work
    BY DEF IInv, TypeOK, Rows
  <2>2. rows' = (rows \ taken) \cup {hid(j) : j \in taken}
    BY <1>4 DEF Poll
  <2> HIDE DEF hid
  <2>3. Outstanding' = Outstanding
    BY <2>1, <2>2 DEF Outstanding
  <2> QED BY <1>4, <2>3 DEF Poll, Owed
<1>5. ASSUME NEW c \in Consumers, Look(c) \/ Skip(c) \/ Acquire(c) \/ Throw(c)
      PROVE  UNCHANGED Promise!absVars
  BY <1>5 DEF Look, Skip, Acquire, Throw, Outstanding, Owed
<1>6. ASSUME NEW c \in Consumers, DeferContended(c) PROVE Promise!AbsNext
  <2> DEFINE w == Current(c).work
  <2>1. w \in Works
    BY <1>6, CurrentInBatch DEF IInv, DeferContended, Contended, At, Claims
  <2>2. Fresh(w, FALSE).work = w
    BY <2>1, FreshRow DEF IInv
  <2> HIDE DEF w
  <2>3. rows' = rows \cup {Fresh(w, FALSE)}
    BY <1>6 DEF DeferContended, w
  <2>4. Outstanding' = Outstanding \cup {w}
    BY <2>2, <2>3 DEF Outstanding
  <2>5. Owed' = Owed /\ givenUp' = givenUp
    BY <1>6 DEF DeferContended, Owed
  <2> QED BY <2>1, <2>4, <2>5 DEF Promise!Repeat
<1>7. ASSUME NEW c \in Consumers, Claim(c) \/ Refuse(c) \/ Finish(c)
      PROVE  Promise!AbsNext \/ UNCHANGED Promise!absVars
  <2> DEFINE w == Current(c).work
  <2>1. ~At(c, "poll")
    BY <1>7 DEF Claim, Refuse, Finish, At
  <2>2. w \in Works
    BY <2>1, CurrentInBatch DEF IInv, Claims
  <2>3. PICK value : status' = [status EXCEPT ![w] = value]
    <3>1. CASE Claim(c)
      BY <3>1 DEF Claim
    <3>2. CASE Refuse(c)
      BY <3>2 DEF Refuse
    <3>3. CASE Finish(c)
      BY <3>3, <2>2 DEF Finish, IInv, TypeOK
    <3> QED BY <1>7, <3>1, <3>2, <3>3
  <2>4. givenUp' = givenUp /\ rows' = rows
    BY <1>7 DEF Claim, Refuse, Finish
  <2>5. Outstanding' = Outstanding
    BY <2>4 DEF Outstanding
  <2>6. Owed' \subseteq Owed
    <3>1. CASE Claim(c)
      <4>1. \A x \in Works : status'[x] = IF x = w THEN IF status[w] = "retryable" THEN status[w] ELSE "claimed"
                                         ELSE status[x]
        BY <2>2, <3>1 DEF Claim, IInv, TypeOK
      <4> QED BY <2>4, <3>1, <4>1 DEF Owed, Claim, Runnable
    <3>2. CASE Refuse(c)
      <4>1. \A x \in Works : status'[x] = IF x = w THEN "done" ELSE status[x]
        BY <2>2, <3>2 DEF Refuse, IInv, TypeOK
      <4> QED BY <2>4, <4>1 DEF Owed
    <3>3. CASE Finish(c)
      <4>1. PICK end \in Ends(w) : status' = [status EXCEPT ![w] = IF @ = "pending" THEN @ ELSE end]
        BY <3>3 DEF Finish
      <4>2. \A x \in Works : status'[x] = IF x = w THEN IF status[w] = "pending" THEN "pending" ELSE end
                                         ELSE status[x]
        BY <2>2, <4>1 DEF IInv, TypeOK
      <4>3. end # "pending" /\ (w \notin Deploys => end # "claimed")
        BY DEF Ends
      <4> QED BY <2>4, <4>2, <4>3 DEF Owed
    <3> QED BY <1>7, <3>1, <3>2, <3>3
  <2>7. \A x \in Works : x # w => status'[x] = status[x]
    BY <2>2, <2>3 DEF IInv, TypeOK
  <2> HIDE DEF w
  <2>8. Owed \ {w} \subseteq Owed'
    BY <2>4, <2>7 DEF Owed
  <2>9. Owed' = Owed \/ Owed' = Owed \ {w}
    BY <2>6, <2>8
  <2> QED BY <2>2, <2>4, <2>5, <2>9 DEF Promise!TakeOver
<1>8. ASSUME NEW c \in Consumers, LoseLease(c) PROVE Promise!AbsNext \/ UNCHANGED Promise!absVars
  <2> DEFINE w == Current(c).work
  <2>1. ~At(c, "poll")
    BY <1>8 DEF LoseLease, At
  <2>2. w \in Works
    BY <2>1, CurrentInBatch DEF IInv, Claims
  <2>3. /\ status' = status /\ rows' = rows
        /\ givenUp' = IF w \in Deploys /\ status[w] = "pending" THEN givenUp \cup {w} ELSE givenUp
    BY <1>8 DEF LoseLease
  <2>4. Outstanding' = Outstanding
    BY <2>3 DEF Outstanding
  <2> HIDE DEF w
  <2>5. CASE givenUp' = givenUp
    BY <2>3, <2>4, <2>5 DEF Owed
  <2>6. CASE givenUp' = givenUp \cup {w}
    <3>1. Owed' = Owed \ {w}
      BY <2>3, <2>6 DEF Owed
    <3> QED BY <2>2, <2>4, <2>6, <3>1 DEF Promise!GiveUp
  <2> QED BY <2>3, <2>5, <2>6
<1>9. ASSUME NEW c \in Consumers, Ack(c) PROVE Promise!AbsNext \/ UNCHANGED Promise!absVars
  <2> DEFINE w == Current(c).work
  <2>1. ~At(c, "poll") /\ SettledAfter(w, Current(c).id)
    BY <1>9 DEF IInv, LaterSettled, WillAck, Ack, At
  <2>2. Current(c) \in Claims /\ w \in Works
    BY <2>1, CurrentInBatch DEF IInv, Claims
  <2>3. \/ Outstanding' = Outstanding
        \/ Outstanding' = Outstanding \ {w} /\ w \notin Outstanding'
    BY <1>9, <2>1, OutstandingRemoved DEF Ack
  <2>4. Owed' = Owed /\ givenUp' = givenUp
    BY <1>9 DEF Ack, Owed
  <2>5. CASE w \notin Owed
    BY <2>2, <2>3, <2>4, <2>5 DEF Promise!Drop
  <2>6. CASE \E k \in rows : k.work = w /\ k.id > Current(c).id
    <3>1. w \in Outstanding'
      BY <1>9, <2>2, <2>6 DEF Ack, Outstanding, IInv, TypeOK, Rows, Claims, Ids
    <3> QED BY <2>3, <2>4, <3>1
  <2> QED BY <2>1, <2>5, <2>6 DEF SettledAfter
<1>10. ASSUME NEW c \in Consumers, Abandon(c) PROVE Promise!AbsNext
  <2> DEFINE w == Current(c).work
  <2>1. ~At(c, "poll")
    BY <1>10 DEF Abandon, At
  <2>2. w \in Works
    BY <2>1, CurrentInBatch DEF IInv, Claims
  <2>3. \/ Outstanding' = Outstanding
        \/ Outstanding' = Outstanding \ {w} /\ w \notin Outstanding'
    BY <1>10, <2>1, OutstandingRemoved DEF Abandon
  <2>4. givenUp' = givenUp \cup {w} /\ status' = status
    BY <1>10 DEF Abandon
  <2> HIDE DEF w
  <2>5. Owed' = Owed \ {w}
    BY <2>4 DEF Owed
  <2> QED BY <2>2, <2>3, <2>4, <2>5 DEF Promise!GiveUp
<1>11. ASSUME NEW c \in Consumers, Retry(c) PROVE UNCHANGED Promise!absVars
  <2> DEFINE late(j) == IF j.id = Current(c).id THEN [j EXCEPT !.visible = FALSE] ELSE j
  <2>1. \A j \in rows : late(j).work = j.work
    BY DEF IInv, TypeOK, Rows
  <2>2. rows' = {late(j) : j \in rows}
    BY <1>11 DEF Retry
  <2> HIDE DEF late
  <2>3. Outstanding' = Outstanding
    BY <2>1, <2>2 DEF Outstanding
  <2> QED BY <1>11, <2>3 DEF Retry, Owed
<1>12. ASSUME NEW c \in Consumers, SettlementFailed(c) \/ Crash(c) PROVE UNCHANGED Promise!absVars
  BY <1>12 DEF SettlementFailed, Crash, Outstanding, Owed
<1>13. CASE UNCHANGED vars
  BY <1>13 DEF vars, Outstanding, Owed
<1> HIDE DEF Promise!AbsNext, Promise!absVars
<1> QED BY <1>1, <1>2, <1>3, <1>4, <1>5, <1>6, <1>7, <1>8, <1>9, <1>10, <1>11, <1>12, <1>13 DEF Next, Work

\* While work a sender was told is queued is owed, a message carries it: no skip of a redelivery, double ack,
\* late defer, requeue, lost settlement or crash drops the last one (consumer.ts, executeDeploy, runNamespaceJob).
THEOREM QueueRefinement == Spec => ImplementsAtLeastOnce
<1>1. Init => Promise!AbsInit
  BY DEF Init, Promise!AbsInit, Outstanding, Owed
<1>2. IInv /\ [Next]_vars => [Promise!AbsNext]_(Promise!absVars)
  BY StepRefines
<1> QED BY <1>1, <1>2, InductiveInvariant, PTL DEF Spec, ImplementsAtLeastOnce, Promise!AbsSpec
=============================================================================
