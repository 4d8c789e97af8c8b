----------------------------- MODULE MailRelay -----------------------------
(***************************************************************************)
(* One message of Control's mail relay (packages/control/src/mail-relay/,  *)
(* db/mail-messages.ts): the posts that may record it under one            *)
(* idempotency key, the dispatchers that claim and send it, the person who *)
(* releases, drops or requeues it, and the maintenance that enqueues it    *)
(* again and forgets its content.                                          *)
(*                                                                         *)
(* A statement on the row is one action.  A dispatcher reads the row,      *)
(* claims, reads the content, sends and records in separate steps, and may *)
(* stop or stall before each of them.  A job names the message and nothing *)
(* else, so jobs are only counted; a lost enqueue is an enqueued job that  *)
(* is lost.  Ages are abstract: a row is fresh, stale (ten minutes) or     *)
(* expired (thirty days).  A post ends within the upload grace (one hour)  *)
(* and an attempt within the day for which a provider keeps a key; that    *)
(* day runs out only while nobody sends: once the message is settled, is   *)
(* requeued, or has waited for a transport.  The retries of one queueing   *)
(* take eight and a half hours.                                            *)
(***************************************************************************)
EXTENDS Naturals, FiniteSets

CONSTANTS Consumers,     \* dispatchers
          Maintenance,   \* the maintenance pass, which purges as dispatchers do
          Posts,         \* requests that record the message; each brings an id of its own
          NoPost,        \* no row is recorded
          Setups,        \* the installations and senders considered
          MaxAttempts,   \* MAIL_MAX_ATTEMPTS
          MaxJobs,       \* bound: jobs that wait at once; further ones merge
          MaxRequeues,   \* bound: requeues by a person
          MaxSwitches,   \* bound: times Control loses its transport or gets it back
          MaxFaults      \* bound: stopped dispatchers, posts and purges, lost jobs, and such changes of the transport

ASSUME ConstantsAssumption ==
  /\ Maintenance \notin Consumers /\ NoPost \notin Posts
  /\ Setups \subseteq [idempotent : BOOLEAN, objects : BOOLEAN, installation : BOOLEAN]
  /\ MaxAttempts \in Nat \ {0} /\ {MaxJobs, MaxRequeues, MaxSwitches, MaxFaults} \subseteq Nat

VARIABLES
  row,      \* the message's row
  holder,   \* the dispatcher whose claim the row records
  jobs,     \* dispatch jobs waiting
  actor,    \* what each dispatcher, and the purge of the maintenance pass, is doing
  post,     \* where each recording is
  uploads,  \* mail_content_uploads
  objects,  \* the content objects, by the id that names them
  taken,    \* the provider has taken the message
  copies,   \* the provider took it again and did not recognise its key
  lapsed,   \* the provider has forgotten the key it took the message under
  requeues, faults,
  transport, switches,  \* Control has its transport now, and how often that changed
  setup     \* the transport's kind, where content is kept, and the kind of sender

content == <<post, uploads, objects>>
provider == <<taken, copies, lapsed>>
control == <<transport, switches, setup>>
bounds == <<requeues, faults, control>>
vars == <<row, holder, jobs, actor, post, uploads, objects, taken, copies, lapsed, requeues, faults,
          transport, switches, setup>>

Idempotent == setup.idempotent      \* the transport recognises a repeated key
Objects == setup.objects            \* content is in an object (Worker) or in the row (Postgres)
Installation == setup.installation  \* the sender is an installation service

Actors == Consumers \cup {Maintenance}
Final == {"sent", "failed", "unknown", "dropped"}
Outcomes == {"none", "sent", "defer", "failed", "unknown"}
Idle == [pc |-> "idle", attempts |-> 0, readable |-> FALSE, outcome |-> "none"]
NoRow == [id |-> NoPost, state |-> "none", attempts |-> 0, due |-> TRUE, age |-> "fresh", kept |-> FALSE]

Init ==
  /\ row = NoRow /\ holder = Maintenance /\ jobs = 0
  /\ actor = [a \in Actors |-> Idle]
  /\ post = [p \in Posts |-> "idle"] /\ uploads = {} /\ objects = {}
  /\ taken = FALSE /\ copies = 0 /\ lapsed = FALSE
  /\ requeues = 0 /\ faults = 0 /\ transport = TRUE /\ switches = 0 /\ setup \in Setups

At(a, pc) == actor[a].pc = pc
Goto(a, pc) == actor' = [actor EXCEPT ![a].pc = pc]
Rest(a) == actor' = [actor EXCEPT ![a] = Idle]
Enqueued == jobs' = IF jobs < MaxJobs THEN jobs + 1 ELSE jobs

----------------------------------------------------------------------------
(* Acceptance: record, insertOrFind *)

\* The gate's decision: an installation sender always passes, and without a transport a message waits for a
\* person.  It is taken before an upload; a transport that comes or goes meanwhile might as well do so after it.
GateStates ==
  IF Installation THEN {"queued"} ELSE IF transport THEN {"queued", "held", "dropped"} ELSE {"held"}

\* The row is inserted unless its key has one; an upload leaves the list in the same batch.
Insert(p) ==
  IF row.id = NoPost
  THEN /\ \E s \in GateStates :
            /\ row' = [NoRow EXCEPT !.id = p, !.state = s, !.kept = TRUE]
            /\ IF s = "queued" THEN Enqueued ELSE UNCHANGED jobs
       /\ uploads' = uploads \ {p}
       /\ post' = [post EXCEPT ![p] = "ended"]
  ELSE /\ post' = [post EXCEPT ![p] = IF Objects THEN "discard" ELSE "ended"]
       /\ UNCHANGED <<row, jobs, uploads>>

\* An installation message is refused where nothing would send it.
Refused == Installation /\ ~transport

Record(p) ==
  /\ post[p] = "idle"
  /\ IF Refused THEN post' = [post EXCEPT ![p] = "ended"] /\ UNCHANGED <<row, jobs, uploads>>
     ELSE IF Objects
     THEN /\ uploads' = uploads \cup {p} /\ post' = [post EXCEPT ![p] = "put"]
          /\ UNCHANGED <<row, jobs>>
     ELSE Insert(p)
  /\ UNCHANGED <<holder, actor, objects, provider, bounds>>

\* Mutant: the row is inserted before the object it names is written.
PutAfterRow(p) ==
  /\ post[p] = "put" /\ Insert(p)
  /\ UNCHANGED <<holder, actor, objects, provider, bounds>>

PutObject(p) ==
  /\ post[p] = "put"
  /\ objects' = objects \cup {p} /\ post' = [post EXCEPT ![p] = "insert"]
  /\ UNCHANGED <<row, holder, jobs, actor, uploads, provider, bounds>>

InsertWithObject(p) ==
  /\ post[p] = "insert" /\ Insert(p)
  /\ UNCHANGED <<holder, actor, objects, provider, bounds>>

\* discardUpload: the object of a message that lost, then its upload's record.
DiscardObject(p) ==
  /\ post[p] = "discard"
  /\ objects' = objects \ {p} /\ post' = [post EXCEPT ![p] = "discarded"]
  /\ UNCHANGED <<row, holder, jobs, actor, uploads, provider, bounds>>

DiscardUpload(p) ==
  /\ post[p] = "discarded"
  /\ uploads' = uploads \ {p} /\ post' = [post EXCEPT ![p] = "ended"]
  /\ UNCHANGED <<row, holder, jobs, actor, objects, provider, bounds>>

\* The request stops or a call of it fails.
StopPost(p) ==
  /\ post[p] \notin {"idle", "ended"} /\ faults < MaxFaults
  /\ post' = [post EXCEPT ![p] = "ended"] /\ faults' = faults + 1
  /\ UNCHANGED <<row, holder, jobs, actor, uploads, objects, provider, requeues, control>>

\* Mutant: the upload's record goes and its object stays.
CollectUploadRecord(p) ==
  /\ p \in uploads /\ post[p] = "ended"
  /\ uploads' = uploads \ {p}
  /\ UNCHANGED <<row, holder, jobs, actor, post, objects, provider, bounds>>

\* collectUploads, past the grace: the object goes unless a row names it.
CollectUpload(p) ==
  /\ p \in uploads /\ post[p] = "ended"
  /\ uploads' = uploads \ {p}
  /\ objects' = IF row.id = p /\ row.kept THEN objects ELSE objects \ {p}
  /\ UNCHANGED <<row, holder, jobs, actor, post, provider, bounds>>

----------------------------------------------------------------------------
(* A person, and time *)

\* decide, and the job of a released message.
Release ==
  /\ row.state = "held"
  /\ row' = [row EXCEPT !.state = "queued", !.age = "fresh"] /\ Enqueued
  /\ UNCHANGED <<holder, actor, content, provider, bounds>>

DropHeld ==
  /\ row.state = "held"
  /\ row' = [row EXCEPT !.state = "dropped", !.age = "fresh"]
  /\ UNCHANGED <<holder, jobs, actor, content, provider, bounds>>

\* Mutant: a message that may have left goes again over any transport.
RequeueableAll == {"failed", "unknown"}

\* requeueableMailStates
Requeueable == IF transport /\ Idempotent THEN {"failed", "unknown"} ELSE {"failed"}

\* requeue: its attempts are spent anew.
Requeue ==
  /\ requeues < MaxRequeues /\ row.state \in Requeueable /\ row.kept
  /\ row' = [row EXCEPT !.state = "queued", !.attempts = 0, !.due = TRUE, !.age = "fresh"]
  /\ requeues' = requeues + 1 /\ Enqueued
  /\ UNCHANGED <<holder, actor, content, provider, faults, control>>

Ages == IF row.state \in Final THEN {<<"fresh", "stale">>, <<"stale", "expired">>} ELSE {<<"fresh", "stale">>}

Age ==
  /\ row.state # "none"
  /\ \E a \in Ages : row.age = a[1] /\ row' = [row EXCEPT !.age = a[2]]
  /\ UNCHANGED <<holder, jobs, actor, content, provider, bounds>>

\* A deferred attempt's time comes.
BecomesDue ==
  /\ row.state = "queued" /\ ~row.due
  /\ row' = [row EXCEPT !.due = TRUE]
  /\ UNCHANGED <<holder, jobs, actor, content, provider, bounds>>

\* Mutant: only queued messages are looked for.
StalledQueued == row.age = "stale" /\ row.state = "queued" /\ row.due

\* listStalled
Stalled == row.age = "stale" /\ ((row.state = "queued" /\ row.due) \/ row.state = "sending")

\* runMailMaintenance, its first half.
EnqueueStalled ==
  /\ Stalled /\ Enqueued
  /\ UNCHANGED <<row, holder, actor, content, provider, bounds>>

\* Control is configured without a transport, or with it again.
SwitchTransport ==
  /\ switches < MaxSwitches /\ faults < MaxFaults
  /\ transport' = ~transport /\ switches' = switches + 1 /\ faults' = faults + 1
  /\ UNCHANGED <<row, holder, jobs, actor, content, provider, requeues, setup>>

\* The provider keeps a key for a day.
KeyLapses ==
  /\ Idempotent /\ taken /\ ~lapsed
  /\ row.state \in Final \/ requeues > 0 \/ switches > 0
  /\ \A c \in Consumers : actor[c].pc \notin {"content", "send"}
  /\ lapsed' = TRUE
  /\ UNCHANGED <<row, holder, jobs, actor, content, taken, copies, bounds>>

LoseJob ==
  /\ jobs > 0 /\ faults < MaxFaults
  /\ jobs' = jobs - 1 /\ faults' = faults + 1
  /\ UNCHANGED <<row, holder, actor, content, provider, requeues, control>>

----------------------------------------------------------------------------
(* The dispatcher: dispatchMail *)

\* get, and what the dispatcher decides from it: to claim, to take over or settle a stale claim, or to skip.
\* Without a transport a queued message waits and a stale claim is settled.
Intent ==
  IF row.state = "queued" /\ row.due /\ transport THEN "claim"
  ELSE IF row.state # "sending" \/ row.age = "fresh" THEN "idle"
  ELSE IF transport /\ Idempotent /\ row.attempts < MaxAttempts THEN "reclaim" ELSE "settle"

Get(c) ==
  /\ At(c, "idle") /\ jobs > 0
  /\ jobs' = jobs - 1
  /\ actor' = [actor EXCEPT ![c] = IF Intent = "idle" THEN Idle
                 ELSE [Idle EXCEPT !.pc = Intent, !.attempts = row.attempts, !.readable = row.kept]]
  /\ UNCHANGED <<row, holder, content, provider, bounds>>

\* What claim and reclaim ask of the row: it is as the dispatcher read it.
Claimable(c) ==
  /\ row.attempts = actor[c].attempts
  /\ CASE At(c, "claim") -> row.state = "queued" /\ row.due
       [] At(c, "reclaim") -> row.state = "sending" /\ row.age # "fresh"

\* Mutant: the claim does not compare the attempts it read.
ClaimAny(c) ==
  /\ actor[c].pc \in {"claim", "reclaim"}
  /\ row' = [row EXCEPT !.state = "sending", !.attempts = actor[c].attempts + 1, !.age = "fresh"]
  /\ holder' = c
  /\ actor' = [actor EXCEPT ![c].pc = "content", ![c].attempts = @ + 1]
  /\ UNCHANGED <<jobs, content, provider, bounds>>

Claim(c) ==
  /\ actor[c].pc \in {"claim", "reclaim"}
  /\ IF Claimable(c)
     THEN /\ row' = [row EXCEPT !.state = "sending", !.attempts = @ + 1, !.age = "fresh"]
          /\ holder' = c
          /\ actor' = [actor EXCEPT ![c].pc = "content", ![c].attempts = @ + 1]
     ELSE Rest(c) /\ UNCHANGED <<row, holder>>
  /\ UNCHANGED <<jobs, content, provider, bounds>>

\* content: from the row the dispatcher read, or from the object that row named; none is invalid_message.
ReadContent(c) ==
  /\ At(c, "content")
  /\ actor' = [actor EXCEPT ![c] =
       IF @.readable /\ (Objects => row.id \in objects) THEN [@ EXCEPT !.pc = "send"]
       ELSE [@ EXCEPT !.pc = "record", !.outcome = "failed"]]
  /\ UNCHANGED <<row, holder, jobs, content, provider, bounds>>

\* The outcomes of a send the provider took, or did not: mayRetryDelivery and the attempts left decide a failure,
\* and an idempotency_conflict is unknown and not retried over any transport.
Again(c, may) == may /\ actor[c].attempts < MaxAttempts
TakenOutcomes(c) == {"sent", "unknown"} \cup (IF Again(c, Idempotent) THEN {"defer"} ELSE {})
RefusedOutcomes(c) == {"failed", "unknown"} \cup (IF Again(c, TRUE) THEN {"defer"} ELSE {})

\* The provider takes the message, and recognises a repeated key while it keeps it, over an idempotent transport.
Takes == /\ taken' = TRUE /\ lapsed' = lapsed
         /\ copies' = IF taken /\ (~Idempotent \/ lapsed) THEN 1 ELSE copies

Send(c) ==
  /\ At(c, "send")
  /\ \/ /\ Takes
        /\ \E o \in TakenOutcomes(c) : actor' = [actor EXCEPT ![c].pc = "record", ![c].outcome = o]
     \/ /\ UNCHANGED provider
        /\ \E o \in RefusedOutcomes(c) : actor' = [actor EXCEPT ![c].pc = "record", ![c].outcome = o]
  /\ UNCHANGED <<row, holder, jobs, content, bounds>>

\* The guard of markSent, markUndelivered and defer.
Claimed(c) == row.state = "sending" /\ row.attempts = actor[c].attempts

\* markSent and markUndelivered, and what forgets an installation message.
Settled(c, state) ==
  /\ row' = [row EXCEPT !.state = state, !.due = TRUE, !.age = "fresh"]
  /\ IF Installation THEN Goto(c, "purge") ELSE Rest(c)
  /\ UNCHANGED jobs

\* defer, and the job of the next attempt.
Deferred(c) ==
  /\ row' = [row EXCEPT !.state = "queued", !.due = FALSE, !.age = "fresh"]
  /\ Enqueued /\ Rest(c)

\* Mutant: an outcome is recorded whatever became of the claim.
RecordLate(c) ==
  /\ At(c, "record")
  /\ CASE actor[c].outcome = "defer" -> Deferred(c)
       [] OTHER -> Settled(c, actor[c].outcome)
  /\ UNCHANGED <<holder, content, provider, bounds>>

\* A dispatcher whose claim is gone records nothing.
RecordOutcome(c) ==
  /\ At(c, "record")
  /\ CASE ~Claimed(c) -> Rest(c) /\ UNCHANGED <<row, jobs>>
       [] Claimed(c) /\ actor[c].outcome = "defer" -> Deferred(c)
       [] OTHER -> Settled(c, actor[c].outcome)
  /\ UNCHANGED <<holder, content, provider, bounds>>

\* Mutant: an interrupted attempt is held to be unsent.
SettleStaleFailed(c) ==
  /\ At(c, "settle")
  /\ IF Claimed(c) THEN Settled(c, "failed") ELSE Rest(c) /\ UNCHANGED <<row, jobs>>
  /\ UNCHANGED <<holder, content, provider, bounds>>

\* settleStaleClaim over a transport that may not send again.
SettleStale(c) ==
  /\ At(c, "settle")
  /\ IF Claimed(c) THEN Settled(c, "unknown") ELSE Rest(c) /\ UNCHANGED <<row, jobs>>
  /\ UNCHANGED <<holder, content, provider, bounds>>

\* The process dies or a call throws; the queue delivers an unacked job again.
Stop(c) ==
  /\ ~At(c, "idle") /\ faults < MaxFaults
  /\ Rest(c) /\ Enqueued /\ faults' = faults + 1
  /\ UNCHANGED <<row, holder, content, provider, requeues, control>>

\* A dispatcher dies as the provider takes its message.
StopAfterSend(c) ==
  /\ At(c, "send") /\ faults < MaxFaults
  /\ Takes
  /\ Rest(c) /\ Enqueued /\ faults' = faults + 1
  /\ UNCHANGED <<row, holder, content, requeues, control>>

----------------------------------------------------------------------------
(* Forgetting content: purgeContent after an installation message, purgeFinalContent past retention *)

StartPurge ==
  /\ At(Maintenance, "idle") /\ row.state \in Final /\ row.kept /\ row.age = "expired"
  /\ Goto(Maintenance, "purge")
  /\ UNCHANGED <<row, holder, jobs, content, provider, bounds>>

\* The row's content is cleared at once, an object's row is selected first.
Purge(a) ==
  /\ At(a, "purge")
  /\ LET forgets == row.state \in Final /\ row.kept /\ (a = Maintenance => row.age = "expired")
     IN  /\ row' = IF forgets /\ ~Objects THEN [row EXCEPT !.kept = FALSE] ELSE row
         /\ IF forgets /\ Objects THEN Goto(a, "delete") ELSE Rest(a)
  /\ UNCHANGED <<holder, jobs, content, provider, bounds>>

PurgeObject(a) ==
  /\ At(a, "delete")
  /\ objects' = objects \ {row.id} /\ Goto(a, "clear")
  /\ UNCHANGED <<row, holder, jobs, post, uploads, provider, bounds>>

ClearRef(a) ==
  /\ At(a, "clear")
  /\ row' = IF row.state \in Final THEN [row EXCEPT !.kept = FALSE] ELSE row
  /\ Rest(a)
  /\ UNCHANGED <<holder, jobs, content, provider, bounds>>

StopPurge ==
  /\ ~At(Maintenance, "idle") /\ faults < MaxFaults
  /\ Rest(Maintenance) /\ faults' = faults + 1
  /\ UNCHANGED <<row, holder, jobs, content, provider, requeues, control>>

----------------------------------------------------------------------------
Dispatch(c) == Get(c) \/ Claim(c) \/ SettleStale(c) \/ ReadContent(c) \/ Send(c) \/ RecordOutcome(c)
Forget(a) == Purge(a) \/ PurgeObject(a) \/ ClearRef(a)
Accept(p) == Record(p) \/ PutObject(p) \/ InsertWithObject(p) \/ DiscardObject(p) \/ DiscardUpload(p)

Next == \/ \E p \in Posts : Accept(p) \/ StopPost(p) \/ CollectUpload(p)
        \/ Release \/ DropHeld \/ Requeue \/ Age \/ BecomesDue \/ EnqueueStalled \/ LoseJob
        \/ SwitchTransport \/ KeyLapses
        \/ \E c \in Consumers : Dispatch(c) \/ Stop(c) \/ StopAfterSend(c)
        \/ \E a \in Actors : Forget(a)
        \/ StartPurge \/ StopPurge

Spec == Init /\ [][Next]_vars

\* Dispatchers and requests run, time passes and the cron pass repeats; a person need not act.
FairSpec == /\ Spec
            /\ \A c \in Consumers : WF_vars(Dispatch(c))
            /\ \A a \in Actors : WF_vars(Forget(a))
            /\ \A p \in Posts : WF_vars(Accept(p) /\ post[p] # "idle") /\ WF_vars(CollectUpload(p))
            /\ WF_vars(Age) /\ WF_vars(BecomesDue) /\ WF_vars(EnqueueStalled) /\ WF_vars(StartPurge)

----------------------------------------------------------------------------
(* Properties *)

Attempting == {"content", "send", "record"}

Rows == [id : Posts \cup {NoPost}, state : Final \cup {"none", "held", "queued", "sending"},
         attempts : 0..MaxAttempts, due : BOOLEAN, age : {"fresh", "stale", "expired"}, kept : BOOLEAN]
ActorStates ==
  [pc : {"idle", "claim", "reclaim", "settle", "purge", "delete", "clear"} \cup Attempting,
   attempts : 0..MaxAttempts, readable : BOOLEAN, outcome : Outcomes]

\* The type invariant.
TypeOK ==
  /\ row \in Rows /\ holder \in Actors /\ jobs \in 0..MaxJobs /\ actor \in [Actors -> ActorStates]
  /\ post \in [Posts -> {"idle", "put", "insert", "discard", "discarded", "ended"}]
  /\ uploads \subseteq Posts /\ objects \subseteq Posts
  /\ taken \in BOOLEAN /\ copies \in 0..1 /\ lapsed \in BOOLEAN /\ requeues \in Nat /\ faults \in Nat
  /\ transport \in BOOLEAN /\ switches \in Nat /\ setup \in Setups

\* Who gets a second copy: over a transport without keys nobody, whatever stops, is claimed late or is requeued;
\* over an idempotent one only the recipient of a message that a person requeued, or that waited for a transport,
\* until the provider had forgotten its key.  No dispatcher that read the row before it was settled sends it late.
DeliveredOnce == copies = 0 \/ (Idempotent /\ lapsed /\ (requeues > 0 \/ switches > 0))

\* What the row tells a person is so: a sent message was taken, and over a transport that does not recognise a
\* key a failed ("not sent") one was not.
FailedNotSent == (row.state = "sent" => taken) /\ (row.state = "failed" /\ ~Idempotent => ~taken)

\* An attempt's outcome is recorded against its own claim: the claim the guard of a record finds is the one
\* its dispatcher made; requeues, which start the attempts anew, are safe where an unknown message cannot be requeued.
OwnClaim ==
  (Idempotent => requeues = 0) => \A c \in Consumers : At(c, "record") /\ Claimed(c) => holder = c

\* A message that is still to be sent can be, until a person requeues it: its content is there, in its row or
\* in its object, whatever posts, discards, purges and collections of uploads race.
ContentKept ==
  row.state \in {"held", "queued", "sending"} /\ requeues = 0 => row.kept /\ (Objects => row.id \in objects)

\* A settled message stays settled, and only a person's requeue opens it again.
SettledStays ==
  [][row.state \in Final /\ row'.state # row.state => requeues' = requeues + 1]_vars

\* A queued message waits, and its content with it, as long as Control has no transport.
Waits == row.state = "queued" /\ ~transport

\* Every message that was accepted for sending is settled in the end, unless Control stays without a transport.
EveryMessageSettles == row.state \in {"queued", "sending"} ~> (row.state \in Final \/ []Waits)

\* No content object is left behind: what a post wrote and no row names, and what a settled row has outlived, goes.
\* Only the content of a message that a person has not decided, or that has no transport, stays.
ContentForgotten ==
  \A p \in Posts : p \in objects ~> (p \notin objects \/ (row.id = p /\ row.state = "held") \/ [](row.id = p /\ Waits))
=============================================================================
