--------------------------- MODULE MailRelayProofs ---------------------------
(***************************************************************************)
(* The mail relay for any number of dispatchers, posts, attempts, requeues *)
(* and faults.                                                             *)
(*                                                                         *)
(* Over a transport that does not recognise a repeated key the argument is *)
(* that an attempt is the only one (Sole): a claim needs a queued row, a   *)
(* queued row was never taken and nobody attempts it, and an interrupted   *)
(* attempt leaves the row "sending", from where it can only become         *)
(* "unknown", which no person may requeue.  Over an idempotent transport   *)
(* attempts overlap, and what tells them apart is the count each claim     *)
(* raises (ClaimsCount), until a requeue starts it anew; the provider      *)
(* recognises what it already has until the key lapses, and then the       *)
(* message is settled, was requeued or had to wait (Lapsing).              *)
(***************************************************************************)
EXTENDS MailRelay, TLAPS

Attempts(c) == actor[c].pc \in Attempting

\* An attempt that may be claimed is within the budget.
Budget ==
  /\ row.state \in {"held", "queued"} => row.attempts < MaxAttempts
  /\ \A c \in Consumers :
       /\ actor[c].pc \in {"claim", "reclaim"} => actor[c].attempts < MaxAttempts
       /\ At(c, "record") /\ actor[c].outcome = "defer" => actor[c].attempts < MaxAttempts
       /\ At(c, "record") => actor[c].outcome # "none"

\* A row is recorded once, by a post that has ended, and before it is nobody has anything to do.
Named == /\ row.id = NoPost <=> row.state = "none"
         /\ \A p \in Posts : post[p] # "ended" => row.id # p
         /\ row.state = "none" => \A a \in Actors : At(a, "idle")

\* What is recorded as sent was taken.
SentTaken == /\ row.state = "sent" => taken
             /\ \A c \in Consumers : At(c, "record") /\ actor[c].outcome = "sent" => taken

\* Where a key is not recognised an attempt is the only one, and nothing that goes again was taken.
Sole ==
  ~Idempotent =>
    /\ row.state \in {"none", "held", "queued", "failed"} => ~taken
    /\ \A c \in Consumers :
         /\ ~At(c, "reclaim")
         /\ Attempts(c) => row.state \in {"sending", "unknown"}
         /\ Attempts(c) /\ row.state = "sending" => row.attempts = actor[c].attempts /\ holder = c
         /\ actor[c].pc \in {"content", "send"} => ~taken
         /\ At(c, "record") /\ actor[c].outcome \in {"failed", "defer"} => ~taken
    /\ \A c, d \in Consumers : Attempts(c) /\ Attempts(d) => c = d

\* Until a requeue the attempts a claim counts are its own.
ClaimsCount ==
  requeues = 0 => \A c \in Consumers : Attempts(c) =>
    actor[c].attempts <= row.attempts /\ (actor[c].attempts = row.attempts => holder = c)

\* Until a requeue content is forgotten only of a settled message.
Purging ==
  requeues = 0 => \A a \in Actors :
    actor[a].pc \in {"purge", "delete", "clear"} => row.state \in Final

\* A row is inserted once its object is written.
Written == \A p \in Posts : post[p] = "insert" => p \in objects

\* A key lapses while nobody is about to send; a message nobody requeued and that never lacked its transport is
\* settled by then, and no dispatcher can claim it again.
Lapsing ==
  lapsed => /\ Idempotent
            /\ requeues = 0 /\ switches = 0 =>
                 row.state \in Final /\ \A c \in Consumers : actor[c].pc \notin {"content", "send"}

IInv == /\ TypeOK /\ Budget /\ Named /\ SentTaken /\ Sole /\ Lapsing /\ DeliveredOnce /\ ClaimsCount
        /\ Purging /\ Written /\ ContentKept

----------------------------------------------------------------------------
(* The values the actions are built from *)

\* The empty row and the idle actor.
LEMMA Values ==
  /\ NoRow \in Rows /\ NoRow.state = "none" /\ NoRow.attempts = 0 /\ NoRow.id = NoPost
  /\ Idle \in ActorStates /\ Idle.pc = "idle" /\ Idle.outcome = "none"
<1>1. MaxAttempts \in Nat /\ MaxAttempts > 0
  BY ConstantsAssumption
<1> QED BY <1>1 DEF NoRow, Rows, Idle, ActorStates, Outcomes

\* A step of one actor leaves the others.
LEMMA ActorMoves ==
  ASSUME TypeOK, NEW a \in Actors, NEW v \in ActorStates, actor' = [actor EXCEPT ![a] = v]
  PROVE  /\ actor' \in [Actors -> ActorStates] /\ actor'[a] = v
         /\ \A b \in Actors : b # a => actor'[b] = actor[b]
BY DEF TypeOK

\* An actor goes on to forget content.
LEMMA GotoMoves ==
  ASSUME TypeOK, NEW a \in Actors, Goto(a, "purge") \/ Goto(a, "delete") \/ Goto(a, "clear")
  PROVE  /\ actor' \in [Actors -> ActorStates]
         /\ actor'[a].pc \in {"purge", "delete", "clear"}
         /\ \A b \in Actors : b # a => actor'[b] = actor[b]
BY DEF TypeOK, Goto, ActorStates

\* An actor comes to rest.
LEMMA RestMoves ==
  ASSUME TypeOK, NEW a \in Actors, Rest(a)
  PROVE  /\ actor' \in [Actors -> ActorStates] /\ actor'[a].pc = "idle"
         /\ \A b \in Actors : b # a => actor'[b] = actor[b]
BY Values DEF TypeOK, Rest

\* Jobs stay within their bound.
LEMMA EnqueuedJobs == ASSUME TypeOK, Enqueued PROVE jobs' \in 0..MaxJobs
<1>1. MaxJobs \in Nat
  BY ConstantsAssumption
<1> QED BY <1>1 DEF TypeOK, Enqueued

\* Initially nothing is recorded.
LEMMA InitIInv == Init => IInv
<1> SUFFICES ASSUME Init PROVE IInv
  OBVIOUS
<1> USE DEF Init
<1>1. TypeOK
  <2>1. row \in Rows /\ actor \in [Actors -> ActorStates] /\ holder \in Actors
    BY Values DEF Actors
  <2>2. jobs \in 0..MaxJobs /\ copies \in 0..1 /\ requeues \in Nat /\ faults \in Nat
    BY ConstantsAssumption
  <2> QED BY <2>1, <2>2 DEF TypeOK
<1>2. \A a \in Actors : actor[a].pc = "idle"
  BY Values
<1>3. row.state = "none" /\ row.id = NoPost /\ \A p \in Posts : row.id # p /\ post[p] = "idle"
  BY Values, ConstantsAssumption
<1> QED BY <1>1, <1>2, <1>3 DEF IInv, Budget, Named, SentTaken, Sole, Lapsing, DeliveredOnce, ClaimsCount,
                              Purging, Written, ContentKept, At, Attempts, Attempting, Actors

\* A step that touches neither the message nor what anybody does about it.
LEMMA SameMessage ==
  ASSUME IInv, TypeOK', row'.state = row.state, row'.attempts = row.attempts, row'.id = row.id,
         row'.kept = row.kept, UNCHANGED <<holder, actor, content, taken, copies, lapsed, requeues, transport, switches, setup>>
  PROVE  IInv'
<1> USE DEF IInv
<1>1. Budget' /\ Named' /\ SentTaken' /\ Sole'
  BY DEF Budget, Named, SentTaken, Sole, At, Attempts, Idempotent, content
<1>2. Lapsing' /\ DeliveredOnce' /\ ClaimsCount' /\ Purging' /\ Written' /\ ContentKept'
  BY DEF Lapsing, DeliveredOnce, Idempotent, ClaimsCount, Purging, Written, ContentKept, Attempts, Objects, content
<1> QED BY <1>1, <1>2

\* An actor gives up what it was doing.
LEMMA Rested ==
  ASSUME IInv, TypeOK', NEW a \in Actors, actor'[a].pc = "idle",
         \A b \in Actors : b # a => actor'[b] = actor[b],
         row' = row, UNCHANGED <<holder, content, taken, copies, lapsed, requeues, transport, switches, setup>>
  PROVE  IInv'
<1> USE DEF IInv
<1>1. Consumers \subseteq Actors
  BY DEF Actors
<1>2. Budget' /\ Named' /\ SentTaken' /\ Sole'
  BY <1>1 DEF Budget, Named, SentTaken, Sole, At, Attempts, Attempting, Idempotent, content
<1>3. Lapsing' /\ DeliveredOnce' /\ ClaimsCount' /\ Purging' /\ Written' /\ ContentKept'
  BY <1>1 DEF Lapsing, DeliveredOnce, Idempotent, ClaimsCount, Purging, Written, ContentKept, Attempts, Attempting, Objects, content
<1> QED BY <1>2, <1>3

----------------------------------------------------------------------------
(* Dispatchers *)

\* A dispatcher reads the row.
LEMMA GetIInv == ASSUME IInv, NEW c \in Consumers, Get(c) PROVE IInv'
<1> DEFINE read == [Idle EXCEPT !.pc = Intent, !.attempts = row.attempts, !.readable = row.kept]
<1>1. c \in Actors
  BY DEF Actors
<1>2. row \in Rows /\ Intent \in {"idle", "claim", "reclaim", "settle"}
  BY DEF IInv, TypeOK, Intent
<1>3. /\ read \in ActorStates /\ read.pc = Intent
      /\ read.attempts = row.attempts
  BY <1>2, Values DEF ActorStates, Rows
<1>4. actor' = [actor EXCEPT ![c] = IF Intent = "idle" THEN Idle ELSE read]
  BY DEF Get
<1> HIDE DEF read
<1>5. /\ actor' \in [Actors -> ActorStates]
      /\ actor'[c].pc = Intent
      /\ Intent # "idle" => actor'[c].attempts = row.attempts
      /\ \A b \in Actors : b # c => actor'[b] = actor[b]
  BY <1>1, <1>3, <1>4, Values DEF IInv, TypeOK
<1>6. TypeOK'
  <2>1. jobs' \in 0..MaxJobs
    BY ConstantsAssumption DEF IInv, TypeOK, Get
  <2> QED BY <1>5, <2>1 DEF IInv, TypeOK, Get, content, provider, bounds, control
<1>7. row' = row /\ holder' = holder /\ taken' = taken /\ copies' = copies /\ requeues' = requeues
      /\ lapsed' = lapsed /\ transport' = transport /\ switches' = switches
      /\ setup' = setup /\ post' = post /\ objects' = objects
  BY DEF Get, content, provider, bounds, control
<1>8. /\ Intent \in {"claim", "reclaim"} => row.attempts < MaxAttempts /\ row.state # "none"
      /\ Intent = "reclaim" => Idempotent
      /\ row.state = "none" => Intent = "idle"
  BY DEF Intent, IInv, Budget
<1>9. Budget' /\ Named' /\ SentTaken' /\ Sole'
  BY <1>1, <1>2, <1>5, <1>7, <1>8 DEF IInv, Budget, Named, SentTaken, Sole, At, Attempts, Attempting,
                                      Idempotent, Actors
<1>10. Lapsing' /\ DeliveredOnce' /\ ClaimsCount' /\ Purging' /\ Written' /\ ContentKept'
  BY <1>1, <1>2, <1>5, <1>7 DEF IInv, Lapsing, DeliveredOnce, Idempotent, ClaimsCount, Purging, Written, ContentKept, At,
                                Attempts, Attempting, Objects, Actors
<1> QED BY <1>6, <1>9, <1>10 DEF IInv

\* A claim that still finds the row as it was read, or gives up.
LEMMA ClaimIInv == ASSUME IInv, NEW c \in Consumers, Claim(c) PROVE IInv'
<1>1. c \in Actors /\ row \in Rows /\ actor[c] \in ActorStates
  BY DEF IInv, TypeOK, Actors
<1>2. /\ taken' = taken /\ copies' = copies /\ requeues' = requeues /\ setup' = setup
      /\ lapsed' = lapsed /\ transport' = transport /\ switches' = switches
      /\ post' = post /\ objects' = objects
  BY DEF Claim, content, provider, bounds, control
<1>3. CASE ~Claimable(c)
  <2>1. Rest(c) /\ row' = row /\ holder' = holder
    BY <1>3 DEF Claim
  <2>2. /\ actor' \in [Actors -> ActorStates] /\ actor'[c].pc = "idle"
        /\ \A b \in Actors : b # c => actor'[b] = actor[b]
    BY <1>1, <2>1, RestMoves DEF IInv
  <2>3. TypeOK'
    BY <2>1, <2>2 DEF IInv, TypeOK, Claim, content, provider, bounds, control
  <2>4. UNCHANGED content
    BY DEF Claim
  <2> QED BY <1>1, <1>2, <2>1, <2>2, <2>3, <2>4, Rested
<1>4. CASE Claimable(c)
  <2>1. /\ row' = [row EXCEPT !.state = "sending", !.attempts = @ + 1, !.age = "fresh"]
        /\ holder' = c
        /\ actor' = [actor EXCEPT ![c].pc = "content", ![c].attempts = @ + 1]
    BY <1>4 DEF Claim
  <2>2. /\ row.attempts = actor[c].attempts /\ actor[c].attempts < MaxAttempts
        /\ row.state \in {"queued", "sending"}
        /\ ~Idempotent => row.state = "queued"
    BY <1>4 DEF Claim, Claimable, At, IInv, Budget, Sole
  <2>3. row.attempts + 1 \in 0..MaxAttempts
    BY <1>1, <2>2, ConstantsAssumption DEF Rows
  <2>4. /\ row' \in Rows /\ row'.state = "sending" /\ row'.attempts = row.attempts + 1
        /\ row'.id = row.id /\ row'.kept = row.kept
    BY <1>1, <2>1, <2>3 DEF Rows
  <2>5. /\ actor' \in [Actors -> ActorStates] /\ actor'[c].pc = "content"
        /\ actor'[c].attempts = row.attempts + 1
        /\ \A b \in Actors : b # c => actor'[b] = actor[b]
    BY <1>1, <2>1, <2>2, <2>3 DEF IInv, TypeOK, ActorStates, Attempting
  <2>6. TypeOK'
    BY <1>1, <2>1, <2>4, <2>5 DEF IInv, TypeOK, Claim, content, provider, bounds, control
  <2>7. Budget' /\ Named' /\ SentTaken'
    BY <1>1, <1>2, <2>2, <2>4, <2>5 DEF IInv, Budget, Named, SentTaken, At, Actors
  <2>8. Sole'
    BY <1>1, <1>2, <2>1, <2>2, <2>4, <2>5 DEF IInv, Sole, At, Attempts, Attempting, Idempotent, Actors
  <2>9. ClaimsCount'
    BY <1>1, <1>2, <2>1, <2>2, <2>3, <2>4, <2>5 DEF IInv, TypeOK, ClaimsCount, Attempts, Attempting,
                                                    Actors, Rows, ActorStates
  <2>10. Lapsing' /\ DeliveredOnce' /\ Purging' /\ Written' /\ ContentKept'
    BY <1>1, <1>2, <2>2, <2>4, <2>5 DEF IInv, Lapsing, DeliveredOnce, Idempotent, Purging, Written, ContentKept, Objects,
                                        Actors, Final
  <2> QED BY <2>6, <2>7, <2>8, <2>9, <2>10 DEF IInv
<1> QED BY <1>3, <1>4

\* The content is read after the claim.
LEMMA ReadContentIInv == ASSUME IInv, NEW c \in Consumers, ReadContent(c) PROVE IInv'
<1>1. c \in Actors /\ actor[c] \in ActorStates /\ At(c, "content")
  BY DEF IInv, TypeOK, Actors, ReadContent
<1>2. UNCHANGED <<row, holder, jobs, content, taken, copies, lapsed, requeues, faults, transport, switches, setup>>
  BY DEF ReadContent, provider, bounds, control
<1>3. /\ [actor[c] EXCEPT !.pc = "send"] \in ActorStates
      /\ [actor[c] EXCEPT !.pc = "record", !.outcome = "failed"] \in ActorStates
  BY <1>1 DEF ActorStates, Attempting, Outcomes
<1>4. /\ actor' \in [Actors -> ActorStates]
      /\ \/ actor'[c].pc = "send"
         \/ actor'[c].pc = "record" /\ actor'[c].outcome = "failed"
      /\ actor'[c].attempts = actor[c].attempts
      /\ \A b \in Actors : b # c => actor'[b] = actor[b]
  BY <1>1, <1>3 DEF IInv, TypeOK, ReadContent, ActorStates
<1>5. TypeOK'
  BY <1>2, <1>4 DEF IInv, TypeOK, content
<1>6. Budget' /\ Named' /\ SentTaken' /\ Sole'
  BY <1>1, <1>2, <1>4 DEF IInv, Budget, Named, SentTaken, Sole, At, Attempts, Attempting, Idempotent,
                          Actors, content
<1>7. Lapsing' /\ DeliveredOnce' /\ ClaimsCount' /\ Purging' /\ Written' /\ ContentKept'
  BY <1>1, <1>2, <1>4 DEF IInv, Lapsing, DeliveredOnce, Idempotent, ClaimsCount, Purging, Written, ContentKept, At, Attempts,
                          Attempting, Objects, Actors, content
<1> QED BY <1>5, <1>6, <1>7 DEF IInv

\* What the provider does when a dispatcher sends: over a transport without keys it takes the message
\* for the first time, and over another it has its key unless the message was requeued or had to wait.
LEMMA TakenOnce ==
  ASSUME IInv, NEW c \in Consumers, At(c, "send"), Takes, UNCHANGED <<requeues, switches, setup>>
  PROVE  copies' \in 0..1 /\ DeliveredOnce'
<1>1. requeues \in Nat /\ switches \in Nat /\ copies \in 0..1
  BY DEF IInv, TypeOK
<1>2. CASE taken /\ (~Idempotent \/ lapsed)
  <2>1. Idempotent /\ lapsed
    BY <1>2 DEF IInv, Sole, At
  <2>2. requeues > 0 \/ switches > 0
    BY <1>1, <2>1 DEF IInv, Lapsing, At
  <2> QED BY <1>2, <2>1, <2>2 DEF Takes, DeliveredOnce, Idempotent
<1>3. CASE ~(taken /\ (~Idempotent \/ lapsed))
  BY <1>1, <1>3 DEF Takes, IInv, DeliveredOnce, Idempotent
<1> QED BY <1>2, <1>3

\* A send, taken or refused, with the outcome the dispatcher sees.
LEMMA SendIInv == ASSUME IInv, NEW c \in Consumers, Send(c) PROVE IInv'
<1>1. c \in Actors /\ actor[c] \in ActorStates /\ At(c, "send")
  BY DEF IInv, TypeOK, Actors, Send
<1>2. UNCHANGED <<row, holder, jobs, content, requeues, faults, transport, switches, setup>>
  BY DEF Send, bounds, control
<1>3. PICK o \in {"sent", "defer", "failed", "unknown"} :
        /\ actor' = [actor EXCEPT ![c].pc = "record", ![c].outcome = o]
        /\ o = "sent" => taken'
        /\ o = "defer" => actor[c].attempts < MaxAttempts
        /\ ~Idempotent /\ o \in {"failed", "defer"} => taken' = taken
        /\ taken' = TRUE \/ taken' = taken
        /\ copies' \in 0..1 /\ lapsed' = lapsed /\ DeliveredOnce'
  <2>1. CASE /\ Takes
             /\ \E o \in TakenOutcomes(c) : actor' = [actor EXCEPT ![c].pc = "record", ![c].outcome = o]
    BY <1>1, <1>2, <2>1, TakenOnce DEF TakenOutcomes, Again, Takes
  <2>2. CASE /\ UNCHANGED provider
             /\ \E o \in RefusedOutcomes(c) : actor' = [actor EXCEPT ![c].pc = "record", ![c].outcome = o]
    BY <1>2, <2>2 DEF RefusedOutcomes, Again, provider, IInv, TypeOK, DeliveredOnce, Idempotent
  <2> QED BY <2>1, <2>2 DEF Send
<1>4. /\ actor' \in [Actors -> ActorStates]
      /\ actor'[c].pc = "record" /\ actor'[c].outcome = o
      /\ actor'[c].attempts = actor[c].attempts
      /\ \A b \in Actors : b # c => actor'[b] = actor[b]
  BY <1>1, <1>3 DEF IInv, TypeOK, ActorStates, Attempting, Outcomes
<1>5. TypeOK'
  <2>1. taken' \in BOOLEAN
    BY <1>3 DEF IInv, TypeOK
  <2>2. copies' \in 0..1
    BY <1>3
  <2> QED BY <1>2, <1>3, <1>4, <2>1, <2>2 DEF IInv, TypeOK, content
<1>6. Budget' /\ Named' /\ SentTaken'
  BY <1>1, <1>2, <1>3, <1>4 DEF IInv, Budget, Named, SentTaken, At, Attempts, Attempting, Actors, content
<1>7. Sole'
  BY <1>1, <1>2, <1>3, <1>4 DEF IInv, Sole, At, Attempts, Attempting, Idempotent, Actors
<1>8. Lapsing' /\ DeliveredOnce' /\ ClaimsCount' /\ Purging' /\ Written' /\ ContentKept'
  BY <1>1, <1>2, <1>3, <1>4 DEF IInv, Lapsing, DeliveredOnce, Idempotent, ClaimsCount, Purging, Written, ContentKept, At,
                                Attempts, Attempting, Objects, Actors, content
<1> QED BY <1>5, <1>6, <1>7, <1>8 DEF IInv

\* A claimed message is settled: by the outcome of the only attempt, or as unknown.
LEMMA SettledIInv ==
  ASSUME IInv, NEW c \in Consumers, NEW state \in {"sent", "failed", "unknown"}, Settled(c, state),
         row.state = "sending", state = "sent" => taken, ~Idempotent /\ state = "failed" => ~taken,
         ~Idempotent /\ state # "unknown" => Attempts(c),
         UNCHANGED <<holder, content, taken, copies, lapsed, requeues, faults, transport, switches, setup>>
  PROVE  IInv'
<1>1. c \in Actors /\ row \in Rows
  BY DEF IInv, TypeOK, Actors
<1>2. row' = [row EXCEPT !.state = state, !.due = TRUE, !.age = "fresh"] /\ jobs' = jobs
  BY DEF Settled
<1>3. /\ row' \in Rows /\ row'.state = state /\ row'.attempts = row.attempts
      /\ row'.id = row.id /\ row'.kept = row.kept
  BY <1>1, <1>2 DEF Rows, Final
<1>4. /\ actor' \in [Actors -> ActorStates] /\ actor'[c].pc \in {"idle", "purge", "delete", "clear"}
      /\ \A b \in Actors : b # c => actor'[b] = actor[b]
  BY <1>1, GotoMoves, RestMoves DEF IInv, Settled
<1>5. TypeOK'
  BY <1>2, <1>3, <1>4 DEF IInv, TypeOK, content
<1>6. Budget' /\ Named' /\ SentTaken'
  BY <1>1, <1>3, <1>4 DEF IInv, Budget, Named, SentTaken, At, Actors, content
<1>7. Sole'
  BY <1>1, <1>3, <1>4 DEF IInv, Sole, At, Attempts, Attempting, Idempotent, Actors
<1>8. Lapsing' /\ DeliveredOnce' /\ ClaimsCount' /\ Purging' /\ Written' /\ ContentKept'
  BY <1>1, <1>3, <1>4 DEF IInv, Lapsing, DeliveredOnce, Idempotent, ClaimsCount, Purging, Written, ContentKept, Attempts,
                          Attempting, Objects, Actors, content, Final
<1> QED BY <1>5, <1>6, <1>7, <1>8 DEF IInv

\* The outcome is recorded on a claim that is still there.
LEMMA RecordOutcomeIInv == ASSUME IInv, NEW c \in Consumers, RecordOutcome(c) PROVE IInv'
<1>1. c \in Actors /\ row \in Rows /\ At(c, "record") /\ Attempts(c)
  BY DEF IInv, TypeOK, Actors, RecordOutcome, At, Attempts, Attempting
<1>2. UNCHANGED <<holder, content, taken, copies, lapsed, requeues, faults, transport, switches, setup>>
  BY DEF RecordOutcome, provider, bounds, control
<1>3. CASE ~Claimed(c)
  <2>1. Rest(c) /\ row' = row /\ jobs' = jobs
    BY <1>3 DEF RecordOutcome
  <2>2. /\ actor' \in [Actors -> ActorStates] /\ actor'[c].pc = "idle"
        /\ \A b \in Actors : b # c => actor'[b] = actor[b]
    BY <1>1, <2>1, RestMoves DEF IInv
  <2>3. TypeOK'
    BY <1>2, <2>1, <2>2 DEF IInv, TypeOK, content
  <2> QED BY <1>1, <1>2, <2>1, <2>2, <2>3, Rested
<1>4. CASE Claimed(c) /\ actor[c].outcome = "defer"
  <2>1. Deferred(c)
    BY <1>4 DEF RecordOutcome
  <2>2. /\ row' \in Rows /\ row'.state = "queued" /\ row'.attempts = row.attempts
        /\ row'.id = row.id /\ row'.kept = row.kept
    BY <1>1, <2>1 DEF Deferred, Rows
  <2>3. /\ actor' \in [Actors -> ActorStates] /\ actor'[c].pc = "idle"
        /\ \A b \in Actors : b # c => actor'[b] = actor[b]
    BY <1>1, <2>1, RestMoves DEF IInv, Deferred
  <2>4. TypeOK'
    BY <1>2, <2>1, <2>2, <2>3, EnqueuedJobs DEF IInv, TypeOK, Deferred, content
  <2>5. row.state = "sending" /\ row.attempts < MaxAttempts
    BY <1>1, <1>4 DEF Claimed, IInv, Budget
  <2>6. Budget' /\ Named' /\ SentTaken'
    BY <1>1, <1>2, <2>2, <2>3, <2>5 DEF IInv, Budget, Named, SentTaken, At, Actors, content
  <2>7. Sole'
    BY <1>1, <1>2, <1>4, <2>2, <2>3 DEF IInv, Sole, At, Attempts, Attempting, Idempotent, Actors
  <2>8. Lapsing' /\ DeliveredOnce' /\ ClaimsCount' /\ Purging' /\ Written' /\ ContentKept'
    BY <1>1, <1>2, <2>2, <2>3, <2>5 DEF IInv, Lapsing, DeliveredOnce, Idempotent, ClaimsCount, Purging, Written, ContentKept,
                                        Attempts, Attempting, Objects, Actors, content, Final
  <2> QED BY <2>4, <2>6, <2>7, <2>8 DEF IInv
<1>5. CASE Claimed(c) /\ actor[c].outcome # "defer"
  <2>1. Settled(c, actor[c].outcome) /\ row.state = "sending"
    BY <1>5 DEF RecordOutcome, Claimed
  <2>2. actor[c].outcome \in {"sent", "failed", "unknown"}
    BY <1>1, <1>5 DEF IInv, TypeOK, Budget, ActorStates, Outcomes
  <2>3. /\ actor[c].outcome = "sent" => taken
        /\ ~Idempotent /\ actor[c].outcome = "failed" => ~taken
    BY <1>1 DEF IInv, SentTaken, Sole
  <2> QED BY <1>1, <1>2, <2>1, <2>2, <2>3, SettledIInv
<1> QED BY <1>3, <1>4, <1>5

\* A stale claim is settled as unknown.
LEMMA SettleStaleIInv == ASSUME IInv, NEW c \in Consumers, SettleStale(c) PROVE IInv'
<1>1. UNCHANGED <<holder, content, taken, copies, lapsed, requeues, faults, transport, switches, setup>> /\ c \in Actors
  BY DEF SettleStale, provider, bounds, control, Actors
<1>2. CASE Claimed(c)
  BY <1>1, <1>2, SettledIInv DEF SettleStale, Claimed
<1>3. CASE ~Claimed(c)
  <2>1. Rest(c) /\ row' = row /\ jobs' = jobs
    BY <1>3 DEF SettleStale
  <2>2. /\ actor' \in [Actors -> ActorStates] /\ actor'[c].pc = "idle"
        /\ \A b \in Actors : b # c => actor'[b] = actor[b]
    BY <1>1, <2>1, RestMoves DEF IInv
  <2>3. TypeOK'
    BY <1>1, <2>1, <2>2 DEF IInv, TypeOK, content
  <2> QED BY <1>1, <2>1, <2>2, <2>3, Rested
<1> QED BY <1>2, <1>3

\* A dispatcher stops.
LEMMA StopIInv == ASSUME IInv, NEW c \in Consumers, Stop(c) PROVE IInv'
<1>1. UNCHANGED <<row, holder, content, taken, copies, lapsed, requeues, transport, switches, setup>> /\ c \in Actors
  BY DEF Stop, provider, control, Actors
<1>2. /\ actor' \in [Actors -> ActorStates] /\ actor'[c].pc = "idle"
      /\ \A b \in Actors : b # c => actor'[b] = actor[b]
  BY <1>1, RestMoves DEF IInv, Stop
<1>3. jobs' \in 0..MaxJobs /\ faults' \in Nat
  BY EnqueuedJobs DEF Stop, IInv, TypeOK
<1>4. TypeOK'
  BY <1>1, <1>2, <1>3 DEF IInv, TypeOK, content
<1> QED BY <1>1, <1>2, <1>4, Rested

\* A dispatcher stops after the provider has taken its message.
LEMMA StopAfterSendIInv == ASSUME IInv, NEW c \in Consumers, StopAfterSend(c) PROVE IInv'
<1>1. /\ UNCHANGED <<row, holder, content, requeues, transport, switches, setup>>
      /\ c \in Actors /\ At(c, "send") /\ Attempts(c) /\ taken' = TRUE
  BY DEF StopAfterSend, Takes, control, Actors, At, Attempts, Attempting
<1>2. copies' \in 0..1 /\ lapsed' = lapsed /\ DeliveredOnce'
  BY <1>1, TakenOnce DEF StopAfterSend, Takes
<1>3. /\ actor' \in [Actors -> ActorStates] /\ actor'[c].pc = "idle"
      /\ \A b \in Actors : b # c => actor'[b] = actor[b]
  BY <1>1, RestMoves DEF IInv, StopAfterSend
<1>4. TypeOK'
  <2>1. jobs' \in 0..MaxJobs /\ faults' \in Nat /\ copies' \in 0..1
    BY <1>2, EnqueuedJobs DEF StopAfterSend, IInv, TypeOK
  <2>2. taken' \in BOOLEAN
    BY <1>1
  <2> QED BY <1>1, <1>2, <1>3, <2>1, <2>2 DEF IInv, TypeOK, content
<1>5. Budget' /\ Named' /\ SentTaken'
  BY <1>1, <1>3 DEF IInv, Budget, Named, SentTaken, At, Actors, content
<1>6. Sole'
  BY <1>1, <1>3 DEF IInv, Sole, At, Attempts, Attempting, Idempotent, Actors
<1>7. Lapsing' /\ DeliveredOnce' /\ ClaimsCount' /\ Purging' /\ Written' /\ ContentKept'
  BY <1>1, <1>2, <1>3 DEF IInv, Lapsing, DeliveredOnce, Idempotent, ClaimsCount, Purging, Written, ContentKept, Attempts,
                          Attempting, Objects, Actors, content
<1> QED BY <1>4, <1>5, <1>6, <1>7 DEF IInv

----------------------------------------------------------------------------
(* Forgetting content *)

\* An actor forgets content, of a settled message as long as nobody requeued it.
LEMMA Forgets ==
  ASSUME IInv, NEW a \in Actors, ~At(a, "idle") \/ row.state \in Final,
         actor' \in [Actors -> ActorStates],
         actor'[a].pc \in {"idle", "delete", "clear", "purge"},
         actor'[a].pc # "idle" /\ requeues = 0 => row.state \in Final,
         \A b \in Actors : b # a => actor'[b] = actor[b],
         row' = row \/ (row' = [row EXCEPT !.kept = FALSE] /\ row.state \in Final),
         objects' = objects \/ (objects' = objects \ {row.id} /\ (requeues = 0 => row.state \in Final)),
         UNCHANGED <<holder, jobs, post, uploads, taken, copies, lapsed, requeues, faults, transport, switches, setup>>
  PROVE  IInv'
<1>1. row \in Rows /\ Consumers \subseteq Actors
  BY DEF IInv, TypeOK, Actors
<1>2. /\ row' \in Rows /\ row'.state = row.state /\ row'.attempts = row.attempts /\ row'.id = row.id
      /\ row.state \notin Final => row'.kept = row.kept
  BY <1>1 DEF Rows
<1>3. TypeOK'
  BY <1>2 DEF IInv, TypeOK
<1>4. row.state # "none"
  BY DEF IInv, Named, Final
<1>5. Budget' /\ Named' /\ SentTaken'
  BY <1>1, <1>2, <1>4 DEF IInv, Budget, Named, SentTaken, At
<1>6. Sole'
  BY <1>1, <1>2 DEF IInv, Sole, At, Attempts, Attempting, Idempotent
<1>7. Written'
  BY DEF IInv, Written, Named
<1>8. Lapsing' /\ DeliveredOnce' /\ ClaimsCount' /\ Purging'
  BY <1>1, <1>2 DEF IInv, Lapsing, DeliveredOnce, Idempotent, ClaimsCount, Purging, Attempts, Attempting
<1>9. ContentKept'
  BY <1>2 DEF IInv, ContentKept, Objects, Final
<1> QED BY <1>3, <1>5, <1>6, <1>7, <1>8, <1>9 DEF IInv

\* The steps of a purge.
LEMMA ForgetIInv == ASSUME IInv, NEW a \in Actors, Forget(a) PROVE IInv'
<1>1. CASE Purge(a)
  <2> DEFINE forgets == row.state \in Final /\ row.kept /\ (a = Maintenance => row.age = "expired")
  <2>1. CASE Rest(a)
    BY <1>1, <2>1, RestMoves, Forgets DEF Purge, content, provider, bounds, control, IInv, At
  <2>2. CASE Goto(a, "delete") /\ forgets
    BY <1>1, <2>2, GotoMoves, Forgets DEF Purge, content, provider, bounds, control, IInv, At
  <2> QED BY <1>1, <2>1, <2>2 DEF Purge
<1>2. CASE PurgeObject(a)
  <2>1. requeues = 0 => row.state \in Final
    BY <1>2 DEF PurgeObject, At, IInv, Purging
  <2> QED BY <1>2, <2>1, GotoMoves, Forgets DEF PurgeObject, provider, bounds, control, IInv, At
<1>3. CASE ClearRef(a)
  BY <1>3, RestMoves, Forgets DEF ClearRef, content, provider, bounds, control, IInv, At
<1> QED BY <1>1, <1>2, <1>3 DEF Forget

\* The maintenance pass starts one.
LEMMA StartPurgeIInv == ASSUME IInv, StartPurge PROVE IInv'
<1>1. Maintenance \in Actors
  BY DEF Actors
<1> QED BY <1>1, GotoMoves, Forgets DEF StartPurge, content, provider, bounds, control, IInv

\* The maintenance pass stops.
LEMMA StopPurgeIInv == ASSUME IInv, StopPurge PROVE IInv'
<1>1. UNCHANGED <<row, holder, jobs, content, taken, copies, lapsed, requeues, transport, switches, setup>> /\ Maintenance \in Actors
  BY DEF StopPurge, provider, control, Actors
<1>2. /\ actor' \in [Actors -> ActorStates] /\ actor'[Maintenance].pc = "idle"
      /\ \A b \in Actors : b # Maintenance => actor'[b] = actor[b]
  BY <1>1, RestMoves DEF IInv, StopPurge
<1>3. TypeOK'
  BY <1>1, <1>2 DEF IInv, TypeOK, content, StopPurge
<1> QED BY <1>1, <1>2, <1>3, Rested

----------------------------------------------------------------------------
(* Acceptance *)

\* A post moves on without touching the row.
LEMMA PostMoves ==
  ASSUME IInv, NEW p \in Posts,
         NEW pc \in {"put", "insert", "discard", "discarded", "ended"},
         post' = [post EXCEPT ![p] = pc], pc # "ended" => row.id # p,
         uploads' \subseteq Posts, objects' \subseteq Posts,
         \A q \in Posts : q # p => (q \in objects' <=> q \in objects),
         pc = "insert" => p \in objects', row.id = p => (p \in objects' <=> p \in objects),
         jobs' \in 0..MaxJobs, faults' \in Nat,
         UNCHANGED <<row, holder, actor, taken, copies, lapsed, requeues, transport, switches, setup>>
  PROVE  IInv'
<1>1. /\ post' \in [Posts -> {"idle", "put", "insert", "discard", "discarded", "ended"}]
      /\ post'[p] = pc /\ \A q \in Posts : q # p => post'[q] = post[q]
  BY DEF IInv, TypeOK
<1>2. TypeOK'
  BY <1>1 DEF IInv, TypeOK
<1>3. Named' /\ Written'
  BY <1>1 DEF IInv, Named, Written, At
<1>4. ContentKept'
  BY DEF IInv, ContentKept, Objects, Named, TypeOK, Rows
<1>5. Budget' /\ SentTaken' /\ Sole' /\ Lapsing' /\ DeliveredOnce' /\ ClaimsCount' /\ Purging'
  BY DEF IInv, Budget, SentTaken, Sole, Lapsing, DeliveredOnce, Idempotent, ClaimsCount, Purging, At, Attempts, Idempotent
<1> QED BY <1>2, <1>3, <1>4, <1>5 DEF IInv

\* The first post that comes to it records the row, with its content.
LEMMA InsertIInv ==
  ASSUME IInv, NEW p \in Posts, post[p] \in {"idle", "insert"}, Objects => p \in objects, Insert(p),
         UNCHANGED <<holder, actor, objects, taken, copies, lapsed, requeues, faults, transport, switches, setup>>
  PROVE  IInv'
<1>1. CASE row.id # NoPost
  <2>1. /\ post' = [post EXCEPT ![p] = IF Objects THEN "discard" ELSE "ended"]
        /\ UNCHANGED <<row, jobs, uploads>>
    BY <1>1 DEF Insert
  <2>2. row.id # p
    BY DEF IInv, Named
  <2>3. CASE Objects
    BY <2>1, <2>2, <2>3, PostMoves DEF IInv, TypeOK
  <2>4. CASE ~Objects
    BY <2>1, <2>2, <2>4, PostMoves DEF IInv, TypeOK
  <2> QED BY <2>3, <2>4
<1>2. CASE row.id = NoPost
  <2>1. PICK s \in GateStates :
          /\ row' = [NoRow EXCEPT !.id = p, !.state = s, !.kept = TRUE]
          /\ IF s = "queued" THEN Enqueued ELSE UNCHANGED jobs
    BY <1>2 DEF Insert
  <2>2. s \in {"queued", "held", "dropped"}
    BY DEF GateStates
  <2>3. /\ row' \in Rows /\ row'.state = s /\ row'.id = p /\ row'.kept = TRUE /\ row'.attempts = 0
    BY <2>1, <2>2, Values DEF Rows, Final
  <2>4. jobs' \in 0..MaxJobs /\ uploads' \subseteq Posts
    BY <1>2, <2>1, EnqueuedJobs DEF Insert, IInv, TypeOK
  <2>5. /\ post' \in [Posts -> {"idle", "put", "insert", "discard", "discarded", "ended"}]
        /\ post'[p] = "ended" /\ \A q \in Posts : q # p => post'[q] = post[q]
    BY <1>2 DEF Insert, IInv, TypeOK
  <2>6. TypeOK'
    BY <2>3, <2>4, <2>5 DEF IInv, TypeOK
  <2>7. row.state = "none" /\ \A a \in Actors : At(a, "idle")
    BY <1>2 DEF IInv, Named
  <2>8. \A a \in Actors : At(a, "idle")'
    BY <2>7 DEF At
  <2>9. MaxAttempts > 0
    BY ConstantsAssumption
  <2>10. Budget' /\ SentTaken' /\ Sole' /\ ClaimsCount' /\ Purging'
    BY <2>2, <2>3, <2>7, <2>8, <2>9 DEF IInv, Budget, SentTaken, Sole, ClaimsCount, Purging, At, Attempts,
                                        Attempting, Idempotent, Actors
  <2>11. Named'
    BY <2>2, <2>3, <2>5, ConstantsAssumption DEF Named
  <2>12. Lapsing' /\ DeliveredOnce' /\ Written' /\ ContentKept'
    BY <2>2, <2>3, <2>5, <2>7 DEF IInv, Lapsing, DeliveredOnce, Idempotent, Written, ContentKept, Objects, Final
  <2> QED BY <2>6, <2>10, <2>11, <2>12 DEF IInv
<1> QED BY <1>1, <1>2

\* The steps of a post.
LEMMA AcceptIInv == ASSUME IInv, NEW p \in Posts, Accept(p) PROVE IInv'
<1>1. CASE Record(p)
  <2>1. UNCHANGED <<holder, actor, objects, taken, copies, lapsed, requeues, faults, transport, switches, setup>>
    BY <1>1 DEF Record, provider, bounds, control
  <2>2. CASE Refused
    <3>1. /\ post' = [post EXCEPT ![p] = "ended"] /\ UNCHANGED <<row, jobs, uploads>>
      BY <1>1, <2>2 DEF Record
    <3> QED BY <2>1, <3>1, PostMoves DEF IInv, TypeOK
  <2>3. CASE ~Refused /\ Objects
    <3>1. /\ post' = [post EXCEPT ![p] = "put"] /\ row' = row /\ jobs' = jobs
          /\ uploads' \subseteq Posts /\ row.id # p
      BY <1>1, <2>3 DEF Record, IInv, TypeOK, Named
    <3> QED BY <2>1, <3>1, PostMoves DEF IInv, TypeOK
  <2>4. CASE ~Refused /\ ~Objects
    BY <1>1, <2>1, <2>4, InsertIInv DEF Record
  <2> QED BY <2>2, <2>3, <2>4
<1>2. CASE PutObject(p)
  BY <1>2, PostMoves DEF PutObject, provider, bounds, control, IInv, TypeOK, Named
<1>3. CASE InsertWithObject(p)
  BY <1>3, InsertIInv DEF InsertWithObject, provider, bounds, control, IInv, Written
<1>4. CASE DiscardObject(p)
  BY <1>4, PostMoves DEF DiscardObject, provider, bounds, control, IInv, TypeOK, Named
<1>5. CASE DiscardUpload(p)
  BY <1>5, PostMoves DEF DiscardUpload, provider, bounds, control, IInv, TypeOK, Named
<1> QED BY <1>1, <1>2, <1>3, <1>4, <1>5 DEF Accept

\* A post stops.
LEMMA StopPostIInv == ASSUME IInv, NEW p \in Posts, StopPost(p) PROVE IInv'
<1>1. /\ post' = [post EXCEPT ![p] = "ended"]
      /\ UNCHANGED <<row, holder, jobs, actor, uploads, objects, taken, copies, lapsed, requeues, transport, switches, setup>>
  BY DEF StopPost, provider, control
<1>2. faults' \in Nat /\ jobs' \in 0..MaxJobs /\ uploads' \subseteq Posts /\ objects' \subseteq Posts
  BY <1>1 DEF StopPost, IInv, TypeOK
<1> QED BY <1>1, <1>2, PostMoves

\* An abandoned upload is collected.
LEMMA CollectUploadIInv == ASSUME IInv, NEW p \in Posts, CollectUpload(p) PROVE IInv'
<1>1. /\ UNCHANGED <<row, holder, jobs, actor, post, taken, copies, lapsed, requeues, faults, transport, switches, setup>>
      /\ uploads' \subseteq Posts /\ objects' \subseteq Posts /\ post[p] = "ended"
      /\ objects' = IF row.id = p /\ row.kept THEN objects ELSE objects \ {p}
  BY DEF CollectUpload, provider, bounds, control, IInv, TypeOK
<1>2. TypeOK'
  BY <1>1 DEF IInv, TypeOK
<1>3. Budget' /\ SentTaken' /\ Sole' /\ Lapsing' /\ DeliveredOnce' /\ ClaimsCount' /\ Purging' /\ Named'
  BY <1>1 DEF IInv, Budget, SentTaken, Sole, Lapsing, DeliveredOnce, Idempotent, ClaimsCount, Purging, Named, At, Attempts,
              Idempotent
<1>4. Written'
  BY <1>1 DEF IInv, Written
<1>5. ContentKept'
  BY <1>1 DEF IInv, ContentKept, Objects
<1> QED BY <1>2, <1>3, <1>4, <1>5 DEF IInv

----------------------------------------------------------------------------
(* A person, and time *)

\* Nobody is at work on a held message, nor, where keys are not recognised, on a failed one.
LEMMA OpensIInv ==
  ASSUME IInv, TypeOK', NEW s \in {"queued", "dropped"}, row'.state = s,
         row'.attempts < MaxAttempts, row'.id = row.id, row'.kept = row.kept,
         \/ row.state = "held" /\ row'.attempts = row.attempts /\ requeues' = requeues
         \/ /\ row.state \in {"failed", "unknown"} /\ requeues' = requeues + 1
            /\ ~Idempotent => row.state = "failed",
         UNCHANGED <<holder, actor, content, taken, copies, lapsed, transport, switches, setup>>
  PROVE  IInv'
<1>1. requeues \in Nat
  BY DEF IInv, TypeOK
<1>2. requeues' = 0 => row.state = "held" /\ row'.attempts = row.attempts /\ requeues = 0
  BY <1>1
<1>3. Budget' /\ Named' /\ SentTaken'
  BY DEF IInv, Budget, Named, SentTaken, At, content
<1>4. Sole'
  BY DEF IInv, Sole, At, Attempts, Attempting, Idempotent
<1>5. ClaimsCount' /\ Purging' /\ Written'
  BY <1>2 DEF IInv, ClaimsCount, Purging, Written, Attempts, Attempting, content, Final
<1>6. ContentKept'
  BY <1>2 DEF IInv, ContentKept, Objects, content
<1>7. Lapsing' /\ DeliveredOnce'
  BY <1>1, <1>2 DEF IInv, Lapsing, DeliveredOnce, Idempotent, Final
<1> QED BY <1>3, <1>4, <1>5, <1>6, <1>7 DEF IInv

\* A person releases, drops or requeues.
LEMMA PersonIInv == ASSUME IInv, Release \/ DropHeld \/ Requeue PROVE IInv'
<1>1. row \in Rows /\ MaxAttempts > 0 /\ 0 \in 0..MaxAttempts /\ requeues + 1 \in Nat
  BY ConstantsAssumption DEF IInv, TypeOK
<1>2. CASE Release
  <2>1. /\ row' \in Rows /\ row'.state = "queued" /\ row'.attempts = row.attempts
        /\ row'.id = row.id /\ row'.kept = row.kept
    BY <1>1, <1>2 DEF Release, Rows
  <2>2. row.state = "held" /\ row.attempts < MaxAttempts
    BY <1>2 DEF Release, IInv, Budget
  <2>3. TypeOK'
    BY <1>2, <2>1, EnqueuedJobs DEF Release, IInv, TypeOK, content, provider, bounds, control
  <2> QED BY <1>2, <2>1, <2>2, <2>3, OpensIInv DEF Release, content, provider, bounds, control
<1>3. CASE DropHeld
  <2>1. /\ row' \in Rows /\ row'.state = "dropped" /\ row'.attempts = row.attempts
        /\ row'.id = row.id /\ row'.kept = row.kept
    BY <1>1, <1>3 DEF DropHeld, Rows, Final
  <2>2. row.state = "held" /\ row.attempts < MaxAttempts
    BY <1>3 DEF DropHeld, IInv, Budget
  <2>3. TypeOK'
    BY <1>3, <2>1 DEF DropHeld, IInv, TypeOK, content, provider, bounds, control
  <2> QED BY <1>3, <2>1, <2>2, <2>3, OpensIInv DEF DropHeld, content, provider, bounds, control
<1>4. CASE Requeue
  <2>1. /\ row' \in Rows /\ row'.state = "queued" /\ row'.attempts = 0
        /\ row'.id = row.id /\ row'.kept = row.kept
    BY <1>1, <1>4 DEF Requeue, Rows
  <2>2. /\ row.state \in {"failed", "unknown"} /\ requeues' = requeues + 1
        /\ ~Idempotent => row.state = "failed"
    BY <1>4 DEF Requeue, Requeueable
  <2>3. TypeOK'
    BY <1>1, <1>4, <2>1, EnqueuedJobs DEF Requeue, IInv, TypeOK, content, provider, control
  <2> QED BY <1>1, <1>4, <2>1, <2>2, <2>3, OpensIInv DEF Requeue, content, provider, control
<1> QED BY <1>2, <1>3, <1>4

\* Time passes and jobs come and go.
LEMMA TimeIInv == ASSUME IInv, Age \/ BecomesDue \/ EnqueueStalled \/ LoseJob PROVE IInv'
<1>1. row \in Rows /\ MaxJobs \in Nat
  BY ConstantsAssumption DEF IInv, TypeOK
<1>2. /\ row' \in Rows /\ row'.state = row.state /\ row'.attempts = row.attempts
      /\ row'.id = row.id /\ row'.kept = row.kept
  <2>1. CASE Age
    <3>1. PICK a \in Ages : row' = [row EXCEPT !.age = a[2]]
      BY <2>1 DEF Age
    <3>2. a[2] \in {"stale", "expired"}
      BY DEF Ages
    <3> QED BY <1>1, <3>1, <3>2 DEF Rows
  <2>2. CASE BecomesDue
    BY <1>1, <2>2 DEF BecomesDue, Rows
  <2>3. CASE EnqueueStalled \/ LoseJob
    BY <1>1, <2>3 DEF EnqueueStalled, LoseJob
  <2> QED BY <2>1, <2>2, <2>3
<1>3. jobs' \in 0..MaxJobs /\ faults' \in Nat
  <2>1. CASE EnqueueStalled
    BY <2>1, EnqueuedJobs DEF EnqueueStalled, IInv, TypeOK, bounds, control
  <2>2. CASE Age \/ BecomesDue \/ LoseJob
    BY <1>1, <2>2 DEF Age, BecomesDue, LoseJob, IInv, TypeOK, bounds, control
  <2> QED BY <2>1, <2>2
<1>4. UNCHANGED <<holder, actor, content, taken, copies, lapsed, requeues, transport, switches, setup>>
  BY DEF Age, BecomesDue, EnqueueStalled, LoseJob, provider, bounds, control
<1>5. TypeOK'
  BY <1>2, <1>3, <1>4 DEF IInv, TypeOK, content
<1> QED BY <1>2, <1>4, <1>5, SameMessage

\* Control loses its transport or gets it back, and the provider forgets a key.
LEMMA SwitchIInv == ASSUME IInv, SwitchTransport PROVE IInv'
<1>1. /\ UNCHANGED <<row, holder, jobs, actor, content, taken, copies, lapsed, requeues, setup>>
      /\ switches' = switches + 1 /\ transport' \in BOOLEAN /\ faults' \in Nat
  BY DEF SwitchTransport, provider, IInv, TypeOK
<1>2. switches \in Nat /\ switches' > 0
  BY <1>1 DEF IInv, TypeOK
<1>3. TypeOK'
  BY <1>1, <1>2 DEF IInv, TypeOK, content
<1>4. Budget' /\ Named' /\ SentTaken' /\ Sole'
  BY <1>1 DEF IInv, Budget, Named, SentTaken, Sole, At, Attempts, Idempotent, content
<1>5. Lapsing' /\ DeliveredOnce'
  BY <1>1, <1>2 DEF IInv, Lapsing, DeliveredOnce, Idempotent
<1>6. ClaimsCount' /\ Purging' /\ Written' /\ ContentKept'
  BY <1>1 DEF IInv, ClaimsCount, Purging, Written, ContentKept, Attempts, Objects, content
<1> QED BY <1>3, <1>4, <1>5, <1>6 DEF IInv

\* A key lapses.
LEMMA KeyLapsesIInv == ASSUME IInv, KeyLapses PROVE IInv'
<1>1. /\ UNCHANGED <<row, holder, jobs, actor, content, taken, copies, requeues, faults, transport, switches, setup>>
      /\ lapsed' = TRUE /\ ~lapsed
  BY DEF KeyLapses, bounds, control
<1>2. requeues \in Nat /\ switches \in Nat
  BY DEF IInv, TypeOK
<1>3. TypeOK'
  BY <1>1 DEF IInv, TypeOK, content
<1>4. Budget' /\ Named' /\ SentTaken' /\ Sole'
  BY <1>1 DEF IInv, Budget, Named, SentTaken, Sole, At, Attempts, Idempotent, content
<1>5. Lapsing' /\ DeliveredOnce'
  BY <1>1, <1>2 DEF IInv, KeyLapses, Lapsing, DeliveredOnce, Idempotent
<1>6. ClaimsCount' /\ Purging' /\ Written' /\ ContentKept'
  BY <1>1 DEF IInv, ClaimsCount, Purging, Written, ContentKept, Attempts, Objects, content
<1> QED BY <1>3, <1>4, <1>5, <1>6 DEF IInv

----------------------------------------------------------------------------
(* The theorems *)

\* Every step keeps the inductive invariant.
LEMMA NextIInv == IInv /\ [Next]_vars => IInv'
<1> SUFFICES ASSUME IInv, [Next]_vars PROVE IInv'
  OBVIOUS
<1>1. ASSUME NEW p \in Posts, Accept(p) \/ StopPost(p) \/ CollectUpload(p) PROVE IInv'
  BY <1>1, AcceptIInv, StopPostIInv, CollectUploadIInv
<1>2. CASE Release \/ DropHeld \/ Requeue
  BY <1>2, PersonIInv
<1>3. CASE Age \/ BecomesDue \/ EnqueueStalled \/ LoseJob
  BY <1>3, TimeIInv
<1>4. ASSUME NEW c \in Consumers, Dispatch(c) PROVE IInv'
  BY <1>4, GetIInv, ClaimIInv, SettleStaleIInv, ReadContentIInv, SendIInv, RecordOutcomeIInv DEF Dispatch
<1>5. ASSUME NEW c \in Consumers, Stop(c) \/ StopAfterSend(c) PROVE IInv'
  BY <1>5, StopIInv, StopAfterSendIInv
<1>6. ASSUME NEW a \in Actors, Forget(a) PROVE IInv'
  BY <1>6, ForgetIInv
<1>7. CASE StartPurge \/ StopPurge
  BY <1>7, StartPurgeIInv, StopPurgeIInv
<1>8. CASE UNCHANGED vars
  <2>1. TypeOK'
    BY <1>8 DEF vars, IInv, TypeOK
  <2> QED BY <1>8, <2>1, SameMessage DEF vars, content
<1>9. CASE SwitchTransport \/ KeyLapses
  BY <1>9, SwitchIInv, KeyLapsesIInv
<1> QED BY <1>1, <1>2, <1>3, <1>4, <1>5, <1>6, <1>7, <1>8, <1>9 DEF Next

\* The invariant holds in every reachable state.
LEMMA InductiveInvariant == Spec => []IInv
<1>1. Init => IInv
  BY InitIInv
<1>2. IInv /\ [Next]_vars => IInv'
  BY NextIInv
<1> QED BY <1>1, <1>2, PTL DEF Spec

\* Attempts stay within the budget, also of claims that were read before and made late (claim, reclaim).
THEOREM TypeCorrect == Spec => []TypeOK
<1>1. IInv => TypeOK
  BY DEF IInv
<1> QED BY <1>1, InductiveInvariant, PTL

\* Over a transport without keys the provider never takes a second copy, whatever dispatchers stop, stall and are
\* taken for dead and whatever a person requeues; over an idempotent one it takes one only of a message that was
\* requeued or had to wait for a transport, once its key has lapsed (dispatchMail, requeueableMailStates).
THEOREM NoSecondCopy == Spec => []DeliveredOnce
<1>1. IInv => DeliveredOnce
  BY DEF IInv
<1> QED BY <1>1, InductiveInvariant, PTL

\* "sent" was taken, and "failed" was not where a key is not recognised (markSent, markUndelivered).
THEOREM RecordedOutcome == Spec => []FailedNotSent
<1>1. IInv => FailedNotSent
  BY DEF IInv, FailedNotSent, SentTaken, Sole
<1> QED BY <1>1, InductiveInvariant, PTL

\* The guard of a record, state and attempts, finds the recorder's own claim.
THEOREM RecordsOwnClaim == Spec => []OwnClaim
<1>1. IInv => OwnClaim
  BY DEF IInv, OwnClaim, Sole, ClaimsCount, Claimed, At, Attempts, Attempting
<1> QED BY <1>1, InductiveInvariant, PTL

\* What is to be sent has its content until a person requeues it (insertWithObject, purgeObjects, collectUploads).
THEOREM ContentAvailable == Spec => []ContentKept
<1>1. IInv => ContentKept
  BY DEF IInv
<1> QED BY <1>1, InductiveInvariant, PTL

\* A settled message is opened again by a person's requeue alone: no late claim or outcome of a dispatcher
\* that stalled through the settlement does (claim, reclaim, markSent, markUndelivered, defer).
THEOREM SettledIsFinal == Spec => SettledStays
<1> DEFINE A == row.state \in Final /\ row'.state # row.state => requeues' = requeues + 1
<1>1. IInv /\ [Next]_vars => [A]_vars
  <2> SUFFICES ASSUME IInv, Next, row.state \in Final, row'.state # row.state PROVE requeues' = requeues + 1
    OBVIOUS
  <2>1. row \in Rows
    BY DEF IInv, TypeOK
  <2>2. row.id # NoPost
    BY DEF IInv, Named, Final
  <2>3. ASSUME NEW p \in Posts, Accept(p) \/ StopPost(p) \/ CollectUpload(p) PROVE FALSE
    BY <2>2, <2>3 DEF Accept, Record, Insert, PutObject, InsertWithObject, DiscardObject, DiscardUpload,
                      StopPost, CollectUpload
  <2>4. ASSUME Release \/ DropHeld \/ Age \/ BecomesDue \/ EnqueueStalled \/ LoseJob PROVE FALSE
    BY <2>1, <2>4 DEF Release, DropHeld, Age, BecomesDue, EnqueueStalled, LoseJob, Final, Rows
  <2>5. CASE Requeue
    BY <2>5 DEF Requeue
  <2>6. ASSUME NEW c \in Consumers, Dispatch(c) \/ Stop(c) \/ StopAfterSend(c) PROVE FALSE
    <3>1. ~Claimable(c) \/ actor[c].pc \notin {"claim", "reclaim"}
      BY DEF Claimable, At, Final
    <3>2. ~Claimed(c)
      BY DEF Claimed, Final
    <3> QED BY <2>6, <3>1, <3>2 DEF Dispatch, Get, Claim, SettleStale, ReadContent, Send, RecordOutcome,
                                    Stop, StopAfterSend
  <2>7. ASSUME NEW a \in Actors, Forget(a) PROVE FALSE
    BY <2>1, <2>7 DEF Forget, Purge, PurgeObject, ClearRef, Rows
  <2>8. ASSUME StartPurge \/ StopPurge PROVE FALSE
    BY <2>8 DEF StartPurge, StopPurge
  <2>9. ASSUME SwitchTransport \/ KeyLapses PROVE FALSE
    BY <2>9 DEF SwitchTransport, KeyLapses
  <2> QED BY <2>3, <2>4, <2>5, <2>6, <2>7, <2>8, <2>9 DEF Next
<1>2. Spec => [][A]_vars
  BY <1>1, InductiveInvariant, PTL DEF Spec
<1> QED BY <1>2 DEF SettledStays
==============================================================================
