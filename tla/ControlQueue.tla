---------------------------- MODULE ControlQueue ----------------------------
(***************************************************************************)
(* The Postgres job queue of packages/platform-node/src/                   *)
(* job-queue-postgres.ts with the consumer body of packages/control/src/   *)
(* consumer.ts and what its two handlers (executeDeploy of                 *)
(* run-lifecycle.ts, runNamespaceJob of api/namespaces.ts) do to the state *)
(* that decides whether a message is still about anything.                 *)
(*                                                                         *)
(* Claiming a job hides its row for the visibility timeout and counts an   *)
(* attempt; ack deletes the row and defer hides it again, both by id and   *)
(* whoever has claimed it meanwhile.  A handler may outlast the timeout    *)
(* (30 minutes against a deploy of up to 75), so a hidden row may become   *)
(* visible at any time (Lapse): the clock itself is not modelled.          *)
(*                                                                         *)
(* A redelivered deploy whose run is no longer pending is acknowledged,    *)
(* also while its first handler still works on it; a redelivered namespace *)
(* job is acknowledged only when the namespace is settled.  A handler that *)
(* finds its work's lease held sends a fresh message and returns normally, *)
(* which acks its own.                                                     *)
(***************************************************************************)
EXTENDS Naturals, FiniteSets

CONSTANTS Consumers,    \* PostgresJobConsumer instances
          NoConsumer,   \* nobody holds the work's lease
          Works,        \* what a message points at: a run or a namespace
          Deploys,      \* the works that are runs
          MaxAttempts,  \* maxAttempts
          BatchSize,    \* jobs claimed per pass
          MaxJobs,      \* bound: messages ever sent
          MaxFaults     \* bound: crashes, lost leases and failed settlements

ASSUME ConsumersAssumption == NoConsumer \notin Consumers
ASSUME WorksAssumption == Deploys \subseteq Works
ASSUME NumbersAssumption == /\ MaxAttempts \in Nat \ {0} /\ BatchSize \in Nat \ {0}
                            /\ MaxJobs \in Nat /\ MaxFaults \in Nat

VARIABLES
  rows,      \* the jobs table: id, work, visible, attempts
  sent,      \* messages sent so far; ids rise in enqueue order (uuidv7)
  consumer,  \* what each consumer has claimed and is doing
  lease,     \* who holds the deploy or namespace lease of each work
  status,    \* the run's status or the namespace's state, as far as the handlers read it
  givenUp,   \* works some message of which was dropped although they were owed
  faults

vars == <<rows, sent, consumer, lease, status, givenUp, faults>>

Ids == Nat \ {0}
Claims == [id : Ids, work : Works, attempts : Nat]
Rows == [id : Ids, work : Works, visible : BOOLEAN, attempts : Nat]
\* "handle": the next job of the batch; "lease": its work was found runnable; "claim": under the lease,
\* before the row is read again; "run": the row is claimed; "ack" and "fail": the handler returned or
\* threw, and the job is about to be settled.
Pcs == {"poll", "handle", "lease", "claim", "run", "ack", "fail"}
\* "claimed" is a running run or a provisioning namespace; "retryable" a namespace left provisioning by a
\* recorded failure; "parked" a run awaiting approval; "done" anything terminal.
Statuses == {"none", "pending", "claimed", "retryable", "parked", "done"}

Init ==
  /\ rows = {} /\ sent = 0
  /\ consumer = [c \in Consumers |-> [pc |-> "poll", batch |-> {}]]
  /\ lease = [w \in Works |-> NoConsumer]
  /\ status = [w \in Works |-> "none"]
  /\ givenUp = {} /\ faults = 0

\* The job of the batch that is being handled: handlers run in enqueue order.
Earliest(batch) == CHOOSE j \in batch : \A k \in batch : j.id <= k.id
Current(c) == Earliest(consumer[c].batch)

\* The row a new message becomes, visible at once or after a delay.
Fresh(w, visible) == [id |-> sent + 1, work |-> w, visible |-> visible, attempts |-> 0]

\* Mutant: a namespace left provisioning by a dead handler is not resumed.
RunnablePendingOnly(w) == status[w] = "pending"

\* A deploy runs a pending run only; a namespace job also resumes a provisioning namespace.
Runnable(w) == status[w] = "pending" \/ (w \notin Deploys /\ status[w] \in {"claimed", "retryable"})

\* The lease is given back, if the consumer holds it.
Freed(c) == [lease EXCEPT ![Current(c).work] = IF @ = c THEN NoConsumer ELSE @]

\* The consumer settles its current job and goes on with its batch.
NextJob(c) ==
  LET rest == consumer[c].batch \ {Current(c)}
  IN  consumer' = [consumer EXCEPT ![c] = [pc |-> IF rest = {} THEN "poll" ELSE "handle",
                                           batch |-> rest]]

At(c, pc) == consumer[c].pc = pc
Goto(c, pc) == consumer' = [consumer EXCEPT ![c].pc = pc]

----------------------------------------------------------------------------
\* A run is created or approved, a namespace created or requeued (whatever its state): pending, then the
\* message.
Send(w) ==
  /\ sent < MaxJobs
  /\ w \in Deploys => status[w] \in {"none", "parked"}
  /\ status' = [status EXCEPT ![w] = "pending"]
  /\ rows' = rows \cup {Fresh(w, TRUE)} /\ sent' = sent + 1
  /\ givenUp' = givenUp \ {w}
  /\ UNCHANGED <<consumer, lease, faults>>

\* A hidden row's visible_at passes: after a retry delay, a requeue delay or the visibility timeout.
Lapse(j) ==
  /\ ~j.visible
  /\ rows' = (rows \ {j}) \cup {[j EXCEPT !.visible = TRUE]}
  /\ UNCHANGED <<sent, consumer, lease, status, givenUp, faults>>

\* The cron, the sweep or a cancellation settles a run no handler holds.
SettleRun(w) ==
  /\ w \in Deploys /\ status[w] \in {"pending", "claimed", "parked"} /\ lease[w] = NoConsumer
  /\ status' = [status EXCEPT ![w] = "done"]
  /\ UNCHANGED <<rows, sent, consumer, lease, givenUp, faults>>

\* Mutant: a row that has spent its attempts is no longer claimed.
PollWithinBudget(c, taken) ==
  /\ At(c, "poll") /\ taken # {} /\ Cardinality(taken) <= BatchSize
  /\ \A j \in taken : j.visible /\ j.attempts < MaxAttempts
  /\ rows' = (rows \ taken) \cup
       {[j EXCEPT !.visible = FALSE, !.attempts = j.attempts + 1] : j \in taken}
  /\ consumer' = [consumer EXCEPT ![c] =
       [pc |-> "handle",
        batch |-> {[id |-> j.id, work |-> j.work, attempts |-> j.attempts + 1] : j \in taken}]]
  /\ UNCHANGED <<sent, lease, status, givenUp, faults>>

\* claimRaw: up to a batch of visible rows is hidden and counted in one statement.
Poll(c, taken) ==
  /\ At(c, "poll") /\ taken # {} /\ Cardinality(taken) <= BatchSize
  /\ \A j \in taken : j.visible
  /\ rows' = (rows \ taken) \cup
       {[j EXCEPT !.visible = FALSE, !.attempts = j.attempts + 1] : j \in taken}
  /\ consumer' = [consumer EXCEPT ![c] =
       [pc |-> "handle",
        batch |-> {[id |-> j.id, work |-> j.work, attempts |-> j.attempts + 1] : j \in taken}]]
  /\ UNCHANGED <<sent, lease, status, givenUp, faults>>

\* The first read: there is something to do.
Look(c) ==
  /\ At(c, "handle") /\ Runnable(Current(c).work)
  /\ Goto(c, "lease")
  /\ UNCHANGED <<rows, sent, lease, status, givenUp, faults>>

\* Nothing to do, by the first read or by the one under the lease: the handler returns at once.  A run
\* that is not pending is skipped whoever may still be working on it.
Skip(c) ==
  /\ consumer[c].pc \in {"handle", "claim"}
  /\ ~Runnable(Current(c).work)
  /\ lease' = Freed(c)
  /\ Goto(c, "ack")
  /\ UNCHANGED <<rows, sent, status, givenUp, faults>>

\* acquireLease
Acquire(c) ==
  /\ At(c, "lease") /\ lease[Current(c).work] = NoConsumer
  /\ lease' = [lease EXCEPT ![Current(c).work] = c]
  /\ Goto(c, "claim")
  /\ UNCHANGED <<rows, sent, status, givenUp, faults>>

\* The lease is held; or a deploy holds its own, and its environment or its namespace is busy.
Contended(c) ==
  \/ At(c, "lease") /\ lease[Current(c).work] # NoConsumer
  \/ At(c, "claim") /\ Current(c).work \in Deploys /\ Runnable(Current(c).work)

\* Mutant: the contended message is acked and its replacement is left to the caller.
DeferContendedWithoutSend(c) ==
  /\ Contended(c)
  /\ lease' = Freed(c)
  /\ Goto(c, "ack")
  /\ UNCHANGED <<rows, sent, status, givenUp, faults>>

\* deferred: a fresh message replaces this one before this one is acked.
DeferContended(c) ==
  /\ Contended(c) /\ sent < MaxJobs
  /\ rows' = rows \cup {Fresh(Current(c).work, FALSE)} /\ sent' = sent + 1
  /\ lease' = Freed(c)
  /\ Goto(c, "ack")
  /\ UNCHANGED <<status, givenUp, faults>>

\* markRunStarted, or the namespace write that claims: the read under the lease found work to do.  A
\* namespace whose last failure is on record stays apart: its promise is kept already.
Claim(c) ==
  /\ At(c, "claim") /\ Runnable(Current(c).work)
  /\ status' = [status EXCEPT ![Current(c).work] = IF @ = "retryable" THEN @ ELSE "claimed"]
  /\ Goto(c, "run")
  /\ UNCHANGED <<rows, sent, lease, givenUp, faults>>

\* A run is failed before it starts: superseded, cancelled, or by an error the handler records.
Refuse(c) ==
  /\ At(c, "claim") /\ Current(c).work \in Deploys /\ Runnable(Current(c).work)
  /\ status' = [status EXCEPT ![Current(c).work] = "done"]
  /\ lease' = Freed(c)
  /\ Goto(c, "ack")
  /\ UNCHANGED <<rows, sent, givenUp, faults>>

\* What a handler that returns normally leaves; a run stays running when its provider goes on with it.
Ends(w) == IF w \in Deploys THEN {"done", "parked", "claimed"} ELSE {"done", "retryable"}

\* The handler returns normally.  A namespace requeued while it ran stays pending: only a claim moves it.
Finish(c) ==
  LET w == Current(c).work
  IN  /\ At(c, "run")
      /\ \E end \in Ends(w) : status' = [status EXCEPT ![w] = IF @ = "pending" THEN @ ELSE end]
      /\ lease' = Freed(c)
      /\ Goto(c, "ack")
      /\ UNCHANGED <<rows, sent, givenUp, faults>>

\* The payload does not decode (handleRaw), or the handler throws: a read, the lease or the mutation failed.
Throw(c) ==
  /\ consumer[c].pc \in {"handle", "lease", "claim", "run"}
  /\ lease' = Freed(c)
  /\ Goto(c, "fail")
  /\ UNCHANGED <<rows, sent, status, givenUp, faults>>

\* A handler that lost its lease: a deploy stops and returns normally (failedDeploy), also when it has
\* not moved its run yet; a namespace job throws.
LoseLease(c) ==
  LET w == Current(c).work
  IN  /\ consumer[c].pc \in {"claim", "run"} /\ faults < MaxFaults
      /\ lease' = Freed(c)
      /\ Goto(c, IF w \in Deploys THEN "ack" ELSE "fail")
      /\ givenUp' = IF w \in Deploys /\ status[w] = "pending" THEN givenUp \cup {w} ELSE givenUp
      /\ faults' = faults + 1
      /\ UNCHANGED <<rows, sent, status>>

\* ack deletes by id: also a row that another consumer has claimed again.
Ack(c) ==
  /\ At(c, "ack")
  /\ rows' = {j \in rows : j.id # Current(c).id}
  /\ NextJob(c)
  /\ UNCHANGED <<sent, lease, status, givenUp, faults>>

\* The last attempt failed: the row is deleted and the job abandoned.
Abandon(c) ==
  /\ At(c, "fail") /\ Current(c).attempts >= MaxAttempts
  /\ rows' = {j \in rows : j.id # Current(c).id}
  /\ givenUp' = givenUp \cup {Current(c).work}
  /\ NextJob(c)
  /\ UNCHANGED <<sent, lease, status, faults>>

\* defer hides by id until the retry delay has passed; a deleted row stays deleted.
Retry(c) ==
  /\ At(c, "fail") /\ Current(c).attempts < MaxAttempts
  /\ rows' = {IF j.id = Current(c).id THEN [j EXCEPT !.visible = FALSE] ELSE j : j \in rows}
  /\ NextJob(c)
  /\ UNCHANGED <<sent, lease, status, givenUp, faults>>

\* The settlement statement fails and is only logged: the row stays hidden until it lapses.
SettlementFailed(c) ==
  /\ consumer[c].pc \in {"ack", "fail"} /\ faults < MaxFaults
  /\ NextJob(c)
  /\ faults' = faults + 1
  /\ UNCHANGED <<rows, sent, lease, status, givenUp>>

\* The process dies with its batch; the lease it held expires.
Crash(c) ==
  /\ ~At(c, "poll") /\ faults < MaxFaults
  /\ consumer' = [consumer EXCEPT ![c] = [pc |-> "poll", batch |-> {}]]
  /\ lease' = [w \in Works |-> IF lease[w] = c THEN NoConsumer ELSE lease[w]]
  /\ faults' = faults + 1
  /\ UNCHANGED <<rows, sent, status, givenUp>>

----------------------------------------------------------------------------
Work(c) == \/ \E taken \in SUBSET rows : Poll(c, taken)
           \/ Look(c) \/ Skip(c) \/ Acquire(c) \/ DeferContended(c)
           \/ Claim(c) \/ Refuse(c) \/ Finish(c) \/ Throw(c)
           \/ Ack(c) \/ Abandon(c) \/ Retry(c)

Next == \/ \E w \in Works : Send(w) \/ SettleRun(w)
        \/ \E j \in rows : Lapse(j)
        \/ \E c \in Consumers : Work(c) \/ LoseLease(c) \/ SettlementFailed(c) \/ Crash(c)

Spec == Init /\ [][Next]_vars

\* Consumers keep polling and their handlers end (a deploy's waits all have deadlines); timeouts pass.
\* Nothing is assumed of the senders or of the passes that settle runs.
FairSpec == /\ Spec
            /\ \A c \in Consumers : WF_vars(Work(c))
            /\ WF_vars(\E j \in rows : Lapse(j))

----------------------------------------------------------------------------
(* Properties *)

\* The works some row is about.
Outstanding == {j.work : j \in rows}

\* What the queue owes its senders: a run nobody has moved from pending, a namespace whose mutation has no
\* outcome on record, and neither given up.
Owed == {w \in Works \ givenUp : status[w] = "pending" \/ (w \notin Deploys /\ status[w] = "claimed")}

Promise == INSTANCE AtLeastOnce WITH outstanding <- Outstanding, owed <- Owed

\* The type invariant.
TypeOK ==
  /\ rows \subseteq Rows /\ sent \in Nat
  /\ \A j, k \in rows : j.id = k.id => j = k
  /\ \A j \in rows : j.id <= sent
  /\ consumer \in [Consumers -> [pc : Pcs, batch : SUBSET Claims]]
  /\ \A c \in Consumers : At(c, "poll") <=> consumer[c].batch = {}
  /\ lease \in [Works -> Consumers \cup {NoConsumer}]
  /\ status \in [Works -> Statuses] /\ givenUp \subseteq Works /\ faults \in Nat

\* The last message about owed work never leaves the queue: a pending run nobody has moved, or a namespace
\* whose handler died, keeps a message, whatever is redelivered while a handler runs, skipped and acked by a
\* second consumer, deferred by a late one or requeued meanwhile.  A deploy's message may go while its
\* handler still runs: its run is not pending then (consumer.ts, run-lifecycle.ts executeDeploy).
ImplementsAtLeastOnce == Promise!AbsSpec

\* What is owed is taken over in the end or given up: the run is moved from pending (and settles by
\* RunLifecycle's EveryRunSettles), the namespace's outcome is recorded.
EveryJobSettles == \A w \in Works : w \in Owed ~> w \notin Owed

\* What Job.maxAttempts says: the claims allowed before the job is abandoned.  It does not hold
\* (README, section 6).
ClaimsWithinBudget == \A j \in rows : j.attempts <= MaxAttempts
=============================================================================
