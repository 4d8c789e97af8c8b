------------------------- MODULE CatalogProjection -------------------------
(***************************************************************************)
(* How Control projects its registry of environments into the Operations   *)
(* catalog: packages/control/src/operations-catalog.ts with its repository *)
(* db/operations-catalog.ts, and the receiving side in packages/operations *)
(* (catalog.ts, repositories/catalog.ts, credentials.ts).                  *)
(*                                                                         *)
(* A registry write commits first; the task it schedules then raises the   *)
(* desired revision and tries to deliver a full snapshot under the catalog *)
(* lease.  Another task that finds the lease taken gives up ("coalesced")  *)
(* and relies on the holder, or on the maintenance replay of cron.ts.      *)
(* Operations keeps a cursor: the revision and content it applied last.    *)
(*                                                                         *)
(* A task is a member of Tasks.  The lease is the abstract one of          *)
(* FencedLease: a task acts on it only while it is the remembered holder.  *)
(* markAttempt and markFailed write diagnostics only and are left out.     *)
(***************************************************************************)
EXTENDS Naturals, FiniteSets

CONSTANTS Tasks,            \* concurrent runCatalogSync calls, of any Control process
          NoTask,           \* the lease is free
          DeadTask,         \* the lease row of a task that died
          Envs,             \* environments: one source each
          Origins,          \* the display metadata of a source
          Absent,           \* not registered, or not in a snapshot
          MaxPasses,        \* MAX_COALESCED_PASSES
          MaxHandoffs,      \* MAX_HANDOFF_PASSES
          Faults,           \* which faults happen
          MaxChanges,       \* bound: registry writes
          MaxFaults,        \* bound: faults
          MaxIdleRevision   \* bound: a replay of a catalog that is in step stops here

FaultKinds == {"interrupt", "lease lost", "crash", "crash before mark", "restore"}

ASSUME TasksAssumption == NoTask \notin Tasks /\ DeadTask \notin Tasks /\ NoTask # DeadTask
ASSUME AbsentAssumption == Absent \notin Origins
ASSUME PassesAssumption == MaxPasses \in Nat \ {0} /\ MaxHandoffs \in Nat
ASSUME FaultsAssumption == Faults \subseteq FaultKinds
ASSUME BoundsAssumption == MaxChanges \in Nat /\ MaxFaults \in Nat /\ MaxIdleRevision \in Nat

VARIABLES
  registry,   \* app_envs: the origin of each environment, or Absent
  credential, \* operations_ingest_configs.credential_id of each environment, 0 without a row
  active,     \* environments whose row carries an activated DSN
  issued,     \* credentials generated so far, per environment (uuids are never reused)
  desired, applied,  \* the two revisions of operations_catalog_sync
  appliedContent,    \* applied_snapshot_hash: the content it stands for
  lease,      \* holder of CATALOG_LEASE_KEY
  task,       \* local state of each runCatalogSync
  requests,   \* reconcile requests on their way to, or inside, Operations
  cursor,     \* operations_catalog_cursor: its revision, and the content its hash stands for
  sources,    \* sources: the origin of each enabled one, as committed
  known, live,  \* ingest_credentials: stored pairs, and those that still resolve
  saved,      \* Control's database backup
  unmarked,   \* committed changes whose scheduled task has not run markDirty yet
  changes, faults,
  lostMark,   \* history: some change lost its markDirty, or Control was restored
  overlapped  \* history: two batches of reconcile were open at once

control == <<registry, credential, active, issued, desired, applied, appliedContent>>
operations == <<cursor, sources, overlapped, known, live>>
history == <<saved, changes, faults, lostMark>>
vars == <<control, unmarked, lease, task, requests, operations, history>>

Entries == [origin : Origins, credential : Nat \ {0}]
Contents == [Envs -> Entries \cup {Absent}]
Nothing == [e \in Envs |-> Absent]
Present(content) == {e \in Envs : content[e] # Absent}

\* The rows of sources that a content asks for; the credentials are kept elsewhere.
Shown(content) == [e \in Envs |-> IF content[e] = Absent THEN Absent ELSE content[e].origin]

Pcs == {"idle", "flush", "read", "snapshot", "sent", "answered", "handoff"}
Outcomes == {"none", "ok", "stale", "error"}

Idle == [pc |-> "idle", revision |-> 0, content |-> Nothing, outcome |-> "none",
         remote |-> 0, passes |-> 0, handoffs |-> 0]

Init ==
  /\ registry = [e \in Envs |-> Absent] /\ credential = [e \in Envs |-> 0]
  /\ active = {} /\ issued = [e \in Envs |-> 0]
  /\ desired = 0 /\ applied = 0 /\ appliedContent = Nothing
  /\ lease = NoTask /\ task = [t \in Tasks |-> Idle]
  /\ requests = {}
  /\ cursor = [revision |-> 0, content |-> Nothing] /\ sources = Nothing /\ overlapped = FALSE
  /\ known = {} /\ live = {}
  /\ saved = [registry |-> registry, credential |-> credential, active |-> active,
              desired |-> 0, applied |-> 0, appliedContent |-> Nothing]
  /\ unmarked = 0 /\ changes = 0 /\ faults = 0 /\ lostMark = FALSE

----------------------------------------------------------------------------
(* Control *)

\* The task goes on to its next step.
Goto(t, pc) == task' = [task EXCEPT ![t].pc = pc]

\* The flush loop starts its next pass; nothing but the count of passes is carried over.
NextPass(t) == task' = [task EXCEPT ![t] = [Idle EXCEPT !.pc = "read", !.passes = task[t].passes + 1,
                                                        !.handoffs = task[t].handoffs]]

\* The end of flushUnderLock's finally: a release only frees the task's own row.
ReleaseLease(t) == lease' = IF lease = t THEN NoTask ELSE lease

\* The batch at the end of snapshot(): the sources that have an ingest row.
Snapshot == [e \in Envs |-> IF registry[e] = Absent \/ credential[e] = 0 THEN Absent
                            ELSE [origin |-> registry[e], credential |-> credential[e]]]

\* Operations has every registered environment as it is registered, and no other.
InStep == /\ cursor.content = Snapshot /\ sources = Shown(Snapshot)
          /\ \A e \in Envs : registry[e] # Absent => credential[e] # 0

\* A registration, an origin change or a removal; the ingest row goes with its environment.
ChangeRegistry(e, v) ==
  /\ changes < MaxChanges /\ registry[e] # v
  /\ registry' = [registry EXCEPT ![e] = v]
  /\ credential' = IF v = Absent THEN [credential EXCEPT ![e] = 0] ELSE credential
  /\ active' = IF v = Absent THEN active \ {e} ELSE active
  /\ changes' = changes + 1 /\ unmarked' = unmarked + 1
  /\ UNCHANGED <<issued, desired, applied, appliedContent, lease, task, requests, operations,
                 saved, faults, lostMark>>

\* Mutant: a change made while a revision is pending does not raise it again.
MarkDirtyOnce ==
  /\ unmarked > 0 /\ unmarked' = unmarked - 1
  /\ desired' = IF desired = applied THEN desired + 1 ELSE desired

\* The scheduled task of a change: the desired revision rises before any delivery.
MarkDirty ==
  /\ unmarked > 0 /\ unmarked' = unmarked - 1
  /\ desired' = desired + 1

\* A change's task marks it and goes on to flush.
ProjectChange(t) ==
  /\ task[t].pc = "idle" /\ MarkDirty
  /\ Goto(t, "flush")
  /\ UNCHANGED <<registry, credential, active, issued, applied, appliedContent, lease,
                 requests, operations, history>>

\* A change's task marks it and finds the lease taken.
ProjectCoalesced ==
  /\ lease # NoTask /\ MarkDirty
  /\ UNCHANGED <<registry, credential, active, issued, applied, appliedContent, lease, task,
                 requests, operations, history>>

\* Mutant: the replay only retries what is pending.
EnsurePendingRetryOnly(t) ==
  /\ task[t].pc = "idle" /\ desired # applied
  /\ Goto(t, "flush")
  /\ UNCHANGED <<unmarked, control, lease, requests, operations, history>>

\* The maintenance replay: a new revision when none is pending.
EnsurePending(t) ==
  /\ task[t].pc = "idle"
  /\ IF desired = applied
       THEN /\ desired < MaxIdleRevision \/ ~InStep
            /\ desired' = desired + 1
       ELSE desired' = desired
  /\ Goto(t, "flush")
  /\ UNCHANGED <<unmarked, registry, credential, active, issued, applied, appliedContent, lease,
                 requests, operations, history>>

AcquireLease(t) ==
  /\ task[t].pc = "flush" /\ lease = NoTask
  /\ lease' = t
  /\ task' = [task EXCEPT ![t].pc = "read", ![t].passes = 0]
  /\ UNCHANGED <<unmarked, control, requests, operations, history>>

\* Another holder owns the lease: it is expected to deliver this revision too.
Coalesce(t) ==
  /\ task[t].pc = "flush" /\ lease # NoTask
  /\ task' = [task EXCEPT ![t] = Idle]
  /\ UNCHANGED <<unmarked, control, lease, requests, operations, history>>

\* getState finds nothing pending: the flush is over and its lease is released.
UpToDate(t) ==
  /\ task[t].pc = "read" /\ task[t].passes < MaxPasses /\ desired <= applied
  /\ task' = [task EXCEPT ![t].pc = "handoff", ![t].passes = 0]
  /\ ReleaseLease(t)
  /\ UNCHANGED <<unmarked, control, requests, operations, history>>

\* The last pass is over and work is still coming in: leave it to others.
GiveUpPasses(t) ==
  /\ task[t].pc = "read" /\ task[t].passes = MaxPasses
  /\ task' = [task EXCEPT ![t] = Idle]
  /\ ReleaseLease(t)
  /\ UNCHANGED <<unmarked, control, requests, operations, history>>

\* The insert loop at the head of snapshot(): every registered environment gets an ingest row.
ConfigureIngest(t) ==
  LET fresh == {e \in Envs : registry[e] # Absent /\ credential[e] = 0}
  IN  /\ task[t].pc = "read" /\ task[t].passes < MaxPasses /\ desired > applied
      /\ issued' = [e \in Envs |-> IF e \in fresh THEN issued[e] + 1 ELSE issued[e]]
      /\ credential' = [e \in Envs |-> IF e \in fresh THEN issued[e] + 1 ELSE credential[e]]
      /\ Goto(t, "snapshot")
      /\ UNCHANGED <<unmarked, registry, active, desired, applied, appliedContent, lease, requests,
                     operations, history>>

\* snapshot() and sendCatalog: the request leaves only while the lease is held.
SendCatalog(t) ==
  /\ task[t].pc = "snapshot" /\ lease = t
  /\ task' = [task EXCEPT ![t].pc = "sent", ![t].revision = desired, ![t].content = Snapshot]
  /\ requests' = requests \cup
       {[by |-> t, revision |-> desired, content |-> Snapshot, stage |-> "sent", left |-> {},
         seen |-> {}, written |-> {}, below |-> TRUE]}
  /\ UNCHANGED <<unmarked, control, lease, operations, history>>

\* Mutant: a DSN is stored for the environment, whichever credential its row carries by now.
MarkAppliedAnyCredential(t) ==
  LET r == task[t].revision c == task[t].content
  IN  /\ task[t].pc = "answered" /\ task[t].outcome = "ok" /\ lease = t
      /\ applied' = IF applied < r THEN r ELSE applied
      /\ appliedContent' = IF applied <= r THEN c ELSE appliedContent
      /\ active' = active \cup {e \in Present(c) : credential[e] # 0}
      /\ NextPass(t)
      /\ UNCHANGED <<unmarked, registry, credential, issued, desired, lease, requests, operations, history>>

\* markApplied, fenced on the lease: the applied revision, and the DSN of every row whose
\* credential is still the one that was sent.
MarkApplied(t) ==
  LET r == task[t].revision c == task[t].content
  IN  /\ task[t].pc = "answered" /\ task[t].outcome = "ok" /\ lease = t
      /\ applied' = IF applied < r THEN r ELSE applied
      /\ appliedContent' = IF applied <= r THEN c ELSE appliedContent
      /\ active' = active \cup {e \in Present(c) : credential[e] = c[e].credential}
      /\ NextPass(t)
      /\ UNCHANGED <<unmarked, registry, credential, issued, desired, lease, requests, operations, history>>

\* A stale answer: the desired revision moves past the cursor Operations reported.
AdvancePast(t) ==
  LET remote == task[t].remote
  IN  /\ task[t].pc = "answered" /\ task[t].outcome = "stale" /\ lease = t
      /\ remote > task[t].revision
      /\ desired' = IF desired <= remote THEN remote + 1 ELSE desired
      /\ NextPass(t)
      /\ UNCHANGED <<unmarked, registry, credential, active, issued, applied, appliedContent, lease,
                     requests, operations, history>>

\* An error answer, or a lease found lost at assertHeld, fence or assertWritten.
FailSync(t) ==
  /\ \/ task[t].pc = "answered" /\ (task[t].outcome = "error" \/ lease # t)
     \/ task[t].pc = "snapshot" /\ lease # t
  /\ task' = [task EXCEPT ![t] = Idle]
  /\ ReleaseLease(t)
  /\ UNCHANGED <<unmarked, control, requests, operations, history>>

\* After the release: one more flush for a change that coalesced against this holder.
Handoff(t) ==
  /\ task[t].pc = "handoff"
  /\ IF task[t].handoffs < MaxHandoffs /\ desired > applied
       THEN task' = [task EXCEPT ![t].pc = "flush", ![t].handoffs = @ + 1]
       ELSE task' = [task EXCEPT ![t] = Idle]
  /\ UNCHANGED <<unmarked, control, lease, requests, operations, history>>

----------------------------------------------------------------------------
(* Operations *)

\* The answer reaches the task only if it still waits for this request.
Respond(r, outcome, remote) ==
  IF task[r.by].pc = "sent" /\ task[r.by].revision = r.revision /\ task[r.by].content = r.content
    THEN task' = [task EXCEPT ![r.by].pc = "answered", ![r.by].outcome = outcome,
                              ![r.by].remote = remote]
    ELSE task' = task

\* The cursor has the snapshot: its credentials are accepted next, one source after the other.
Accepting(r) ==
  IF Present(r.content) = {}
    THEN requests' = requests \ {r} /\ Respond(r, "ok", 0)
    ELSE /\ requests' = (requests \ {r}) \cup
              {[r EXCEPT !.stage = "reconciled", !.left = Present(r.content), !.seen = {}, !.written = {},
                        !.below = TRUE]}
         /\ task' = task

\* Mutant: a revision Operations already has is accepted without comparing its content.
DecidedIgnoresHash(r) ==
  \/ /\ r.revision < cursor.revision
     /\ requests' = requests \ {r} /\ Respond(r, "stale", cursor.revision)
  \/ r.revision = cursor.revision /\ Accepting(r)

\* The cursor is at the request's revision or past it: idempotent with the same content, else refused.
Decided(r) ==
  \/ /\ r.revision < cursor.revision
     /\ requests' = requests \ {r} /\ Respond(r, "stale", cursor.revision)
  \/ /\ r.revision = cursor.revision /\ r.content # cursor.content
     /\ requests' = requests \ {r} /\ Respond(r, "error", 0)
  \/ r.revision = cursor.revision /\ r.content = cursor.content /\ Accepting(r)

\* The batches open in Operations' database.  On Postgres one is a READ COMMITTED transaction: its writes
\* are seen when it commits, and lock their rows until then.
Open == {q \in requests : q.stage \in {"begun", "batch"}}
Locked(q) == IF q.stage = "batch" THEN q.seen \cup q.written ELSE {}
Below(r) == r.revision > cursor.revision
Unlocked(r, rows) == \A q \in Open \ {r} : Locked(q) \cap rows = {}

\* CatalogRepository.reconcile reads the cursor; a higher revision opens a batch, whose first statement
\* works on the sources that are enabled when it starts.
Reconcile(r) ==
  /\ r.stage = "sent"
  /\ \/ Decided(r) /\ UNCHANGED overlapped
     \/ /\ r.revision > cursor.revision
        /\ requests' = (requests \ {r}) \cup {[r EXCEPT !.stage = "begun", !.seen = Present(sources)]}
        /\ overlapped' = (overlapped \/ Open # {})
        /\ task' = task
  /\ UNCHANGED <<unmarked, control, lease, cursor, sources, known, live, history>>

\* The first statement has its rows: another batch that holds one has ended.
DisableSources(r) ==
  /\ r.stage = "begun" /\ Unlocked(r, r.seen)
  /\ requests' = (requests \ {r}) \cup {[r EXCEPT !.stage = "batch", !.left = Present(r.content),
                                          !.below = Below(r)]}
  /\ UNCHANGED <<unmarked, control, lease, task, operations, history>>

\* The insert of one source.  It compares with the cursor it saw at its start, which lies anywhere between the
\* end of the statement before and its own, and does nothing when that is not below its revision.
UpsertSource(r, e) ==
  /\ r.stage = "batch" /\ e \in r.left
  /\ \/ /\ r.below /\ Unlocked(r, {e})
        /\ requests' = (requests \ {r}) \cup
             {[r EXCEPT !.left = @ \ {e}, !.written = @ \cup {e}, !.below = Below(r)]}
     \/ /\ ~Below(r)
        /\ requests' = (requests \ {r}) \cup {[r EXCEPT !.left = @ \ {e}, !.below = FALSE]}
  /\ UNCHANGED <<unmarked, control, lease, task, operations, history>>

\* The cursor is written if it is still below, and the batch commits either way.
CommitCatalog(r) ==
  /\ r.stage = "batch" /\ r.left = {}
  /\ sources' = [e \in Envs |-> IF e \in r.written THEN r.content[e].origin
                                ELSE IF e \in r.seen THEN Absent ELSE sources[e]]
  /\ \/ /\ r.revision > cursor.revision
        /\ cursor' = [revision |-> r.revision, content |-> r.content]
        /\ Accepting(r)
     \/ Decided(r) /\ UNCHANGED cursor
  /\ UNCHANGED <<unmarked, control, lease, overlapped, known, live, history>>

Pair(content, e) == <<e, content[e].credential>>

\* One round of the loop over reconcileSourceIngestCredential that ends the request: a disabled source
\* ends it with an error; the other credentials of the source expire; a stored one stays as it is.
AcceptCredential(r, e) ==
  LET c == Pair(r.content, e)
  IN  /\ r.stage = "reconciled" /\ e \in r.left
      /\ IF sources[e] = Absent
           THEN /\ requests' = requests \ {r} /\ Respond(r, "error", 0)
                /\ UNCHANGED <<known, live>>
           ELSE /\ known' = known \cup {c}
                /\ live' = {d \in live : d[1] # e \/ d = c} \cup ({c} \ known)
                /\ IF r.left = {e}
                     THEN requests' = requests \ {r} /\ Respond(r, "ok", 0)
                     ELSE /\ requests' = (requests \ {r}) \cup {[r EXCEPT !.left = @ \ {e}]}
                          /\ task' = task
      /\ UNCHANGED <<unmarked, control, lease, cursor, sources, overlapped, history>>

----------------------------------------------------------------------------
(* Faults *)

Fault(kind) == kind \in Faults /\ faults < MaxFaults /\ faults' = faults + 1

\* A timeout, a lost answer, a failed statement, or a shutdown that interrupts the flush:
\* the task ends and gives its lease back; its request may still arrive.
Interrupt(t) ==
  /\ Fault("interrupt")
  /\ task[t].pc \in {"flush", "read", "snapshot", "sent", "answered", "handoff"}
  /\ task' = [task EXCEPT ![t] = Idle]
  /\ ReleaseLease(t)
  /\ UNCHANGED <<unmarked, control, requests, operations, saved, changes, lostMark>>

\* A statement of a batch fails, in a deadlock for one: the batch is rolled back and the request refused.
BatchFails(r) ==
  /\ Fault("interrupt")
  /\ r \in Open
  /\ requests' = requests \ {r} /\ Respond(r, "error", 0)
  /\ UNCHANGED <<unmarked, control, lease, operations, saved, changes, lostMark>>

\* The holder's renewals fail and another process may take the row.
LoseLease(t) ==
  /\ Fault("lease lost")
  /\ lease = t /\ lease' = NoTask
  /\ UNCHANGED <<unmarked, control, task, requests, operations, saved, changes, lostMark>>

\* The process dies during a sync.
Crash(t) ==
  /\ Fault("crash")
  /\ task[t].pc # "idle"
  /\ task' = [task EXCEPT ![t] = Idle]
  /\ lease' = IF lease = t THEN DeadTask ELSE lease
  /\ UNCHANGED <<control, unmarked, requests, operations, saved, changes, lostMark>>

\* The process dies, or the statement fails, between a committed change and its mark.
LoseMark ==
  /\ Fault("crash before mark")
  /\ unmarked > 0 /\ unmarked' = unmarked - 1
  /\ lostMark' = TRUE
  /\ UNCHANGED <<control, lease, task, requests, operations, saved, changes>>

\* A dead holder's row expires.
Expire ==
  /\ lease = DeadTask /\ lease' = NoTask
  /\ UNCHANGED <<unmarked, control, task, requests, operations, history>>

\* A backup of Control's database.
Backup ==
  /\ "restore" \in Faults /\ faults < MaxFaults
  /\ saved' = [registry |-> registry, credential |-> credential, active |-> active,
               desired |-> desired, applied |-> applied, appliedContent |-> appliedContent]
  /\ saved' # saved
  /\ UNCHANGED <<unmarked, control, lease, task, requests, operations, changes, faults, lostMark>>

\* Control restarts on its backup: Operations now has a later cursor.
Restore ==
  /\ Fault("restore")
  /\ registry' = saved.registry /\ credential' = saved.credential /\ active' = saved.active
  /\ desired' = saved.desired /\ applied' = saved.applied
  /\ appliedContent' = saved.appliedContent
  /\ task' = [t \in Tasks |-> Idle] /\ lease' = NoTask
  /\ unmarked' = 0 /\ lostMark' = TRUE
  /\ UNCHANGED <<issued, requests, operations, saved, changes>>

----------------------------------------------------------------------------
Sync(t) == \/ AcquireLease(t) \/ Coalesce(t) \/ UpToDate(t) \/ GiveUpPasses(t)
           \/ ConfigureIngest(t) \/ SendCatalog(t) \/ MarkApplied(t) \/ AdvancePast(t)
           \/ FailSync(t) \/ Handoff(t)

Handle(r) == \/ Reconcile(r) \/ DisableSources(r) \/ CommitCatalog(r)
             \/ \E e \in Envs : UpsertSource(r, e) \/ AcceptCredential(r, e)
Serve == \E r \in requests : Handle(r)

Next == \/ \E e \in Envs, v \in Origins \cup {Absent} : ChangeRegistry(e, v)
        \/ ProjectCoalesced \/ LoseMark
        \/ \E t \in Tasks : \/ ProjectChange(t) \/ EnsurePending(t) \/ Sync(t)
                            \/ Interrupt(t) \/ LoseLease(t) \/ Crash(t)
        \/ Serve \/ (\E r \in requests : BatchFails(r)) \/ Expire \/ Backup \/ Restore

Spec == Init /\ [][Next]_vars

\* A task runs to its end, Operations answers, rows expire and cron.ts calls the replay every five
\* minutes; faults are finitely many.  A change's task starts whatever the other tasks do, so that it
\* is not starved by the finite set Tasks: strong fairness.
FairSpec == /\ Spec
            /\ \A t \in Tasks : WF_vars(Sync(t))
            /\ SF_vars(ProjectCoalesced \/ \E t \in Tasks : ProjectChange(t))
            /\ WF_vars(\E t \in Tasks : EnsurePending(t))
            /\ WF_vars(Serve) /\ WF_vars(Expire)

----------------------------------------------------------------------------
(* Properties *)

Requests == [by : Tasks, revision : Nat, content : Contents, stage : {"sent", "begun", "batch", "reconciled"},
             left : SUBSET Envs, seen : SUBSET Envs, written : SUBSET Envs, below : BOOLEAN]

\* The type invariant.
TypeOK ==
  /\ registry \in [Envs -> Origins \cup {Absent}] /\ credential \in [Envs -> Nat]
  /\ active \subseteq Envs /\ issued \in [Envs -> Nat]
  /\ desired \in Nat /\ applied \in Nat /\ appliedContent \in Contents
  /\ lease \in Tasks \cup {NoTask, DeadTask}
  /\ task \in [Tasks -> [pc : Pcs, revision : Nat, content : Contents, outcome : Outcomes,
                         remote : Nat, passes : Nat, handoffs : Nat]]
  /\ requests \subseteq Requests
  /\ cursor \in [revision : Nat, content : Contents]
  /\ sources \in [Envs -> Origins \cup {Absent}] /\ overlapped \in BOOLEAN
  /\ known \subseteq Envs \X Nat /\ live \subseteq known
  /\ saved \in [registry : [Envs -> Origins \cup {Absent}], credential : [Envs -> Nat],
                active : SUBSET Envs, desired : Nat, applied : Nat, appliedContent : Contents]
  /\ unmarked \in Nat /\ changes \in Nat /\ faults \in Nat /\ lostMark \in BOOLEAN

\* What Control records as applied, Operations has: the applied revision is at most the cursor, and at the
\* cursor both stand for the same content, whichever requests arrived late or were sent twice under one
\* revision, and after a restore.  Unless Control was restored, Operations is not ahead of what was asked.
AppliedIsDelivered ==
  /\ applied <= cursor.revision /\ (applied = cursor.revision => appliedContent = cursor.content)
  /\ ~lostMark => cursor.revision <= desired

\* Every committed change has been marked and the desired revision is recorded as applied.
Quiet == desired = applied /\ unmarked = 0

\* A change that coalesced is not forgotten: once every change is marked and nothing is pending, the snapshot
\* Operations took last has no environment that was removed and no outdated origin or credential, and the
\* enabled sources are the ones it asks for, unless two batches of reconcile overlapped (README, section 6).
NoOutdatedSource ==
  ~lostMark /\ Quiet => /\ \A e \in Envs : cursor.content[e] \in {Absent, Snapshot[e]}
                        /\ sources = Shown(cursor.content) \/ overlapped

\* The DSN Control hands to deploys carries a credential that Operations has stored for that source,
\* also when the environment was removed and registered again while a request was under way.
ActiveDsnStored == \A e \in active : <<e, credential[e]>> \in known

\* Operations already holds the pending revision and refuses it: with another content, or with one of its
\* sources disabled by an overlapping batch.
Conflicted ==
  desired = cursor.revision /\ applied < desired /\ (cursor.content # Snapshot \/ sources # Shown(cursor.content))

\* Whatever coalesced, timed out, died or arrived late, Operations catches up with the registry, or
\* it refuses the pending revision, which it holds already: no other wait is endless.
EventuallyInStepOrConflict == []<>(InStep \/ Conflicted)

\* What services.ts says of the replay, a "scheduled repair path": a catalog that is out of step
\* with the registry is brought in step.  It does not hold (README, section 6).
EventuallyInStep == ~InStep ~> InStep

\* What db/operations-catalog.ts says of snapshot(): a "complete source snapshot".  Once every change
\* is marked and nothing is pending, every registered environment is in the catalog.  It does not hold
\* (README, section 6).
CompleteSnapshot ==
  ~lostMark /\ Quiet => \A e \in Envs : registry[e] # Absent => cursor.content[e] # Absent

\* What credentials.ts says of an accepted credential: a DSN Control activated for an environment that
\* Operations has enabled under that credential resolves.  It does not hold (README, section 6).
ActiveDsnResolves ==
  (\A r \in requests : r.stage # "reconciled")
    => \A e \in active : sources = Shown(cursor.content) /\ cursor.content[e] = Snapshot[e] => <<e, credential[e]>> \in live
=============================================================================
