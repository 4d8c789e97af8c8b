---------------------------- MODULE RunLifecycle ----------------------------
(***************************************************************************)
(* The deploy runs of one application environment: packages/control/src    *)
(* run-lifecycle.ts, db/runs.ts, approval/, provider-reconcile.ts and      *)
(* consumer.ts, with the Zerops provider's reserve/trigger/await steps.    *)
(*                                                                         *)
(* At most one invocation acts on the environment, the holder of its lease *)
(* (DeployLease proves it): inv is that invocation.  One that lost its     *)
(* lease has no effect left but the build request it already sent.  Every  *)
(* lifecycle write is fenced on the lease, so it is a step of inv; writers *)
(* without the lease are the cancellation request, run creation and the    *)
(* registry.  A step ends where the code awaits the next effect.           *)
(***************************************************************************)
EXTENDS Integers, FiniteSets

CONSTANTS N,                 \* bound: runs created, in the order of their UUIDv7 ids
          Perms,             \* what an access snapshot can grant
          Null,              \* an SQL NULL
          Registered,        \* the protected flags the environment may be registered with
          MaxGeneration,     \* bound: registry writes happen below this generation
          MaxRevision,       \* bound: protection changes
          MaxLosses          \* bound: crashes, lost leases, lost queue messages and failed reads

ASSUME BoundsAssumption ==
  N \in Nat /\ MaxGeneration \in Nat /\ MaxRevision \in Nat /\ MaxLosses \in Nat
ASSUME RegisteredAssumption == Registered \subseteq BOOLEAN

Runs == 1..N
None == 0                    \* no run
Snapshots == SUBSET Perms

MaxPublicationAttempts == 3  \* MAX_PUBLICATION_ATTEMPTS

Terminal == {"succeeded", "failed"}
Active == {"pending", "running", "awaiting_approval"}
Statuses == Terminal \cup Active \cup {"absent"}

VARIABLES
  \* runs: one row per run
  status,       \* status[r], "absent" before the run is created
  cancel,       \* cancel[r]: cancel_requested_at IS NOT NULL
  snapshot,     \* snapshot[r]: snapshot_json
  verdict,      \* verdict[r]: classification_json, the baseline and the flag it was made with
  approval,     \* approval[r]: approval_json, the two digests it names
  checkpoint,   \* checkpoint[r]: external_run_id and provider_state_json: none, reserved or triggered
  \* app_envs: the environment's row
  env,
  \* the control queue and the holder of the environment's lease
  queue, inv,
  \* Zerops
  version,      \* version[r]: the app version reserved for r
  requested,    \* runs whose build request is on its way
  live,         \* the run whose version was activated last
  \* IAM
  iam,          \* the schema IAM holds for the environment
  \* time and failures
  old,          \* runs whose started_at (or created_at) lies past the stale age and the version deadline
  unread,       \* runs whose deploy failed on an answer it could not use after the triggered checkpoint
  losses

rowVars == <<status, cancel, snapshot, verdict, approval, checkpoint>>
providerVars == <<version, requested, live>>
vars == <<rowVars, env, queue, inv, providerVars, iam, old, unread, losses>>

Verdicts == [baseline : Snapshots, protected : BOOLEAN]
Approvals == [candidate : Snapshots, baseline : Snapshots]
ASSUME NullAssumption == \A value \in Snapshots \cup Verdicts \cup Approvals : value # Null

VersionStates == {"none", "uploading", "building", "active", "failed", "deleted"}
Pcs == {"idle", "start", "restart", "supersede", "snapshot", "classify", "publish", "reserve", "record",
        "trigger", "send", "sent", "await", "settle", "cancel", "schema", "finish"}

Environments == [published : Snapshots, publisher : Runs \cup {None}, generation : Nat,
                 protected : BOOLEAN, revision : Nat]

\* run is the run worked on, message the queued run the invocation was started for (None: by cron or the API).
Invocations == [pc : Pcs, mode : {"none", "deploy", "settle", "cancel"}, run : Runs \cup {None},
                message : Runs \cup {None}, generation : Nat, revision : Nat,
                attempt : 0..(MaxPublicationAttempts - 1), outcome : Terminal \cup {"none"}]
NoInvocation == [pc |-> "idle", mode |-> "none", run |-> None, message |-> None,
                 generation |-> 0, revision |-> 0, attempt |-> 0, outcome |-> "none"]

TypeOK ==
  /\ status \in [Runs -> Statuses]
  /\ cancel \in [Runs -> BOOLEAN]
  /\ snapshot \in [Runs -> {Null} \cup Snapshots]
  /\ verdict \in [Runs -> {Null} \cup Verdicts]
  /\ approval \in [Runs -> {Null} \cup Approvals]
  /\ checkpoint \in [Runs -> {"none", "reserved", "triggered"}]
  /\ env \in Environments
  /\ queue \subseteq Runs
  /\ inv \in Invocations
  /\ version \in [Runs -> VersionStates]
  /\ requested \subseteq Runs
  /\ live \in Runs \cup {None}
  /\ iam \in Snapshots
  /\ old \subseteq Runs
  /\ unread \subseteq Runs
  /\ losses \in Nat

\* A registered environment nothing was published to grants nothing.
Init ==
  /\ status = [r \in Runs |-> "absent"]
  /\ cancel = [r \in Runs |-> FALSE]
  /\ snapshot = [r \in Runs |-> Null]
  /\ verdict = [r \in Runs |-> Null]
  /\ approval = [r \in Runs |-> Null]
  /\ checkpoint = [r \in Runs |-> "none"]
  /\ env \in [published : {{}}, publisher : {None}, generation : {0}, protected : Registered, revision : {0}]
  /\ queue = {}
  /\ inv = NoInvocation
  /\ version = [r \in Runs |-> "none"]
  /\ requested = {}
  /\ live = None
  /\ iam = {}
  /\ old = {}
  /\ unread = {}
  /\ losses = 0

-----------------------------------------------------------------------------
(* Helpers.  The run inv works on is inv.run.                              *)

Idle == inv.pc = "idle"
At(pc) == inv.pc = pc
Goto(pc) == inv' = [inv EXCEPT !.pc = pc]

\* The work is over; what is left is the terminal write.
Conclude(outcome) ==
  inv' = [NoInvocation EXCEPT !.pc = "finish", !.mode = inv.mode, !.run = inv.run,
                              !.message = inv.message, !.outcome = outcome]
SetStatus(r, value) == status' = [status EXCEPT ![r] = value]

\* The lease is free: take it for run r.
Invoke(pc, mode, r, message) ==
  /\ Idle
  /\ inv' = [NoInvocation EXCEPT !.pc = pc, !.mode = mode, !.run = r, !.message = message]

\* The work on inv.run ended.  startRun goes on with the queued run that another one blocked: it tries to
\* start it again once the blocking run is settled.  Any other invocation releases the lease.
Return(settled) ==
  inv' = IF inv.message \in {None, inv.run} THEN NoInvocation
         ELSE [NoInvocation EXCEPT !.pc = IF settled THEN "restart" ELSE "supersede",
                                   !.mode = "deploy", !.run = inv.message, !.message = inv.message]

\* boundary() passes and a write guarded by cancel_requested_at IS NULL applies; a cancellation's own steps ask neither.
Permitted == inv.mode = "cancel" \/ ~cancel[inv.run]

\* classifyAccess: a candidate that grants what its baseline does not is a widening.
Widens(candidate, baseline) == ~(candidate \subseteq baseline)

\* Mutant: an approval of the candidate counts whatever it was compared with.
ApprovesAnyBaseline(r, candidate, baseline) == approval[r] # Null /\ approval[r].candidate = candidate

\* approves(run, classification): the approval names the two digests of the classification.
Approves(r, candidate, baseline) == approval[r] = [candidate |-> candidate, baseline |-> baseline]

NeedsApproval(r) ==
  /\ env.protected
  /\ Widens(snapshot[r], env.published)
  /\ ~Approves(r, snapshot[r], env.published)

NewerSucceeded(r) == \E s \in Runs : s > r /\ status[s] = "succeeded"
OtherRunning(r) == \E s \in Runs : s # r /\ status[s] = "running"

\* Mutants: another run of the environment, or a newer success, does not refuse the start.
StartableBesideOther(r) == status[r] = "pending" /\ ~cancel[r] /\ ~NewerSucceeded(r)
StartableOverNewer(r) == status[r] = "pending" /\ ~cancel[r] /\ ~OtherRunning(r)

\* The guard of markRunStarted.
Startable(r) == status[r] = "pending" /\ ~cancel[r] /\ ~OtherRunning(r) /\ ~NewerSucceeded(r)

\* cancelBuildQuietly: stops a build that runs, or the call is lost; nothing else changes.
CancelBuild(r) ==
  /\ version' \in {version, [version EXCEPT ![r] = IF @ = "building" THEN "failed" ELSE @]}
  /\ UNCHANGED <<requested, live>>

-----------------------------------------------------------------------------
(* Runs are created and queued; messages are delivered at least once.      *)

\* createManualRun and the triggers: insert the row, then send the message.
CreateRun(r) ==
  /\ status[r] = "absent" /\ \A s \in Runs : s < r => status[s] # "absent"
  /\ SetStatus(r, "pending")
  /\ queue' = queue \cup {r}
  /\ UNCHANGED <<cancel, snapshot, verdict, approval, checkpoint, env, inv, providerVars, iam, old, unread, losses>>

\* executeDeploy, up to the first read under the lease.  While the lease is held the message is deferred.
ExecuteDeploy(r) ==
  /\ r \in queue /\ status[r] = "pending"
  /\ queue' = queue \ {r}
  /\ IF cancel[r] THEN Invoke("cancel", "cancel", r, r) ELSE Invoke("start", "deploy", r, r)
  /\ UNCHANGED <<rowVars, env, providerVars, iam, old, unread, losses>>

\* executeDeploy of a run that is not pending any more: skipped.
SkipMessage(r) ==
  /\ r \in queue /\ status[r] # "pending"
  /\ queue' = queue \ {r}
  /\ UNCHANGED <<rowVars, env, inv, providerVars, iam, old, unread, losses>>

-----------------------------------------------------------------------------
(* startRun, supersedeRun                                                  *)

\* markRunStarted stamps started_at anew.
MarkRunStarted ==
  /\ inv.pc \in {"start", "restart"} /\ Startable(inv.run)
  /\ SetStatus(inv.run, "running")
  /\ old' = old \ {inv.run}
  /\ Goto("snapshot")
  /\ UNCHANGED <<cancel, snapshot, verdict, approval, checkpoint, env, queue, providerVars, iam, unread, losses>>

\* A run a dead holder left running is settled first, under the same lease.
StartBlocked ==
  /\ At("start") /\ ~Startable(inv.run)
  /\ \E b \in Runs \ {inv.run} :
       /\ status[b] = "running"
       /\ inv' = [inv EXCEPT !.pc = "settle", !.mode = "settle", !.run = b]
  /\ UNCHANGED <<rowVars, env, queue, providerVars, iam, old, unread, losses>>

StartRefused ==
  \/ At("supersede")
  \/ At("restart") /\ ~Startable(inv.run)
  \/ At("start") /\ ~Startable(inv.run) /\ ~OtherRunning(inv.run)

\* markRunSuperseded; its refused write finds the cancellation.
MarkRunSuperseded ==
  /\ StartRefused /\ NewerSucceeded(inv.run)
  /\ IF cancel[inv.run]
       THEN inv' = [inv EXCEPT !.pc = "cancel", !.mode = "cancel"] /\ UNCHANGED status
       ELSE inv' = NoInvocation /\ SetStatus(inv.run, "failed")
  /\ UNCHANGED <<cancel, snapshot, verdict, approval, checkpoint, env, queue, providerVars, iam, old, unread, losses>>

\* Still pending: runDeployJob sends the message again.
DeferDeploy ==
  /\ StartRefused /\ ~NewerSucceeded(inv.run)
  /\ queue' = queue \cup {inv.run}
  /\ inv' = NoInvocation
  /\ UNCHANGED <<rowVars, env, providerVars, iam, old, unread, losses>>

-----------------------------------------------------------------------------
(* approval/publish.ts: publishRunSnapshot                                 *)

\* The snapshot is read once, at the pinned commit; an approved run reuses the recorded one.
RecordRunSnapshot ==
  /\ At("snapshot") /\ Permitted
  /\ \E s \in Snapshots :
       /\ snapshot[inv.run] \in {Null, s}
       /\ snapshot' = [snapshot EXCEPT ![inv.run] = s]
  /\ Goto("classify")
  /\ UNCHANGED <<status, cancel, verdict, approval, checkpoint, env, queue, providerVars, iam, old, unread, losses>>

RecordVerdict(r) ==
  verdict' = [verdict EXCEPT ![r] = [baseline |-> env.published, protected |-> env.protected]]

ParkRunForApproval ==
  /\ At("classify") /\ Permitted /\ NeedsApproval(inv.run)
  /\ RecordVerdict(inv.run)
  /\ SetStatus(inv.run, "awaiting_approval")
  /\ inv' = NoInvocation
  /\ UNCHANGED <<cancel, snapshot, approval, checkpoint, env, queue, providerVars, iam, old, unread, losses>>

RecordRunClassification ==
  /\ At("classify") /\ Permitted /\ ~NeedsApproval(inv.run)
  /\ RecordVerdict(inv.run)
  /\ inv' = [inv EXCEPT !.pc = "publish", !.generation = env.generation, !.revision = env.revision]
  /\ UNCHANGED <<status, cancel, snapshot, approval, checkpoint, env, queue, providerVars, iam, old, unread, losses>>

\* Mutant: the compare-and-swap does not look at the cancellation.
PublishableCancelled == inv.generation = env.generation /\ inv.revision = env.revision

\* The guard of the compare-and-swap.
Publishable == inv.generation = env.generation /\ inv.revision = env.revision /\ ~cancel[inv.run]

PublishRunSnapshot ==
  /\ At("publish") /\ Publishable
  /\ env' = [env EXCEPT !.published = snapshot[inv.run], !.publisher = inv.run, !.generation = @ + 1]
  /\ inv' = [inv EXCEPT !.pc = "reserve", !.generation = 0, !.revision = 0, !.attempt = 0]
  /\ UNCHANGED <<rowVars, queue, providerVars, iam, old, unread, losses>>

\* Lost: classify again, at most three times.
PublicationLost ==
  /\ At("publish") /\ ~Publishable
  /\ IF inv.attempt + 1 = MaxPublicationAttempts
       THEN Conclude("failed")
       ELSE inv' = [inv EXCEPT !.pc = "classify", !.generation = 0, !.revision = 0, !.attempt = @ + 1]
  /\ UNCHANGED <<rowVars, env, queue, providerVars, iam, old, unread, losses>>

\* Any error before the provider accepted the run; a cancellation is noticed by the write that fails the run.
FailDeploy ==
  /\ inv.pc \in {"snapshot", "classify", "publish", "reserve"}
  /\ Conclude("failed")
  /\ UNCHANGED <<rowVars, env, queue, providerVars, iam, old, unread, losses>>

-----------------------------------------------------------------------------
(* provider-zerops: the steps with an effect on the version                *)

ReserveVersion ==
  /\ At("reserve") /\ Permitted
  /\ version' = [version EXCEPT ![inv.run] = "uploading"]
  /\ Goto("record")
  /\ UNCHANGED <<rowVars, env, queue, requested, live, iam, old, unread, losses>>

\* recordInitialRunExternalId: the one run write a cancellation does not stop.
RecordInitialRunExternalId ==
  /\ At("record")
  /\ checkpoint' = [checkpoint EXCEPT ![inv.run] = "reserved"]
  /\ Goto("trigger")
  /\ UNCHANGED <<status, cancel, snapshot, verdict, approval, env, queue, providerVars, iam, old, unread, losses>>

\* A step failed before the build was requested: delete the version, best effort.
UploadFailed ==
  /\ At("trigger")
  /\ version' \in {version, [version EXCEPT ![inv.run] = "deleted"]}
  /\ Conclude("failed")
  /\ UNCHANGED <<rowVars, env, queue, requested, live, iam, old, unread, losses>>

\* The checkpoint is recorded before the request.
CheckpointTriggered ==
  /\ At("trigger") /\ Permitted
  /\ checkpoint' = [checkpoint EXCEPT ![inv.run] = "triggered"]
  /\ Goto("send")
  /\ UNCHANGED <<status, cancel, snapshot, verdict, approval, env, queue, providerVars, iam, old, unread, losses>>

\* A cancellation recorded after the checkpoint's boundary still sends the build, so that there is one to cancel.
SendBuild ==
  /\ At("send")
  /\ requested' = requested \cup {inv.run}
  /\ Goto("sent")
  /\ UNCHANGED <<rowVars, env, queue, version, live, iam, old, unread, losses>>

\* The read that ends the checkpoint event fails although the write is there: the provider does not know that
\* it triggered, sends nothing and deletes the version, best effort.
CheckpointUnread ==
  /\ At("send") /\ losses < MaxLosses
  /\ losses' = losses + 1
  /\ unread' = unread \cup {inv.run}
  /\ version' \in {version, [version EXCEPT ![inv.run] = "deleted"]}
  /\ Conclude("failed")
  /\ UNCHANGED <<rowVars, env, queue, requested, live, iam, old>>

\* The request was accepted, or its outcome is unknown and it may still land.
BuildAnswered ==
  /\ At("sent")
  /\ Goto("await")
  /\ UNCHANGED <<rowVars, env, queue, providerVars, iam, old, unread, losses>>

\* A 4xx: no build.
BuildRefused ==
  /\ At("sent") /\ inv.run \in requested
  /\ requested' = requested \ {inv.run}
  /\ Conclude("failed")
  /\ UNCHANGED <<rowVars, env, queue, version, live, iam, old, unread, losses>>

-----------------------------------------------------------------------------
(* Settling a triggered build: awaitVersion, and the provider's reconcile and cancel.  *)

\* The pcs that look at the version of a triggered run.
Polling ==
  \/ At("await") /\ Permitted
  \/ inv.pc \in {"settle", "cancel"} /\ Permitted /\ checkpoint[inv.run] = "triggered"

\* Mutant: a live version finishes the run without its schema.
VersionActiveWithoutSchema ==
  /\ Polling /\ version[inv.run] = "active"
  /\ Conclude("succeeded")
  /\ UNCHANGED <<rowVars, env, queue, providerVars, iam, old, unread, losses>>

VersionActive ==
  /\ Polling /\ version[inv.run] = "active"
  /\ Goto("schema")
  /\ UNCHANGED <<rowVars, env, queue, providerVars, iam, old, unread, losses>>

VersionFailed ==
  /\ Polling /\ version[inv.run] \in {"failed", "deleted"}
  /\ Conclude("failed")
  /\ UNCHANGED <<rowVars, env, queue, providerVars, iam, old, unread, losses>>

\* Mutants: a build that is not terminal is given up before its deadline; or never by a settlement.
VersionAbandonedEarly ==
  /\ Polling /\ version[inv.run] \in {"uploading", "building"}
  /\ CancelBuild(inv.run)
  /\ Conclude("failed")
  /\ UNCHANGED <<rowVars, env, queue, iam, old, unread, losses>>
VersionAbandonedByDeployOnly ==
  /\ At("await") /\ Permitted /\ inv.run \in old
  /\ CancelBuild(inv.run)
  /\ Conclude("failed")
  /\ UNCHANGED <<rowVars, env, queue, iam, old, unread, losses>>

\* The boundary before the await cannot read the row, the observation names other coordinates, or the pipeline's
\* process ended badly: the deploy fails and leaves its build alone.
AwaitUnread ==
  /\ At("await") /\ losses < MaxLosses
  /\ losses' = losses + 1
  /\ unread' = unread \cup {inv.run}
  /\ Conclude("failed")
  /\ UNCHANGED <<rowVars, env, queue, providerVars, iam, old>>

\* Past the deadline the build is cancelled, best effort, and abandoned; a deploy or a reconcile also
\* abandons a version it cannot observe.
VersionAbandoned ==
  /\ Polling /\ inv.run \in old
  /\ version[inv.run] \in {"uploading", "building"} \/ ~At("cancel")
  /\ CancelBuild(inv.run)
  /\ Conclude("failed")
  /\ UNCHANGED <<rowVars, env, queue, iam, old, unread, losses>>

\* Mutant: asking Zerops to cancel the build counts as its end.
VersionPendingCancelled ==
  /\ Polling /\ ~At("await")
  /\ version[inv.run] \in {"uploading", "building"} /\ inv.run \notin old
  /\ IF At("cancel") THEN CancelBuild(inv.run) /\ Conclude("failed")
                     ELSE UNCHANGED providerVars /\ Return(FALSE)
  /\ UNCHANGED <<rowVars, env, queue, iam, old, unread, losses>>

\* A settlement does not wait: the run stays running.  Only a cancellation stops the build.
VersionPending ==
  /\ Polling /\ ~At("await")
  /\ version[inv.run] \in {"uploading", "building"} /\ inv.run \notin old
  /\ IF At("cancel") THEN CancelBuild(inv.run) ELSE UNCHANGED providerVars
  /\ Return(FALSE)
  /\ UNCHANGED <<rowVars, env, queue, iam, old, unread, losses>>

\* Mutant: the checkpoint's triggered flag is not read.
DeleteAccepted ==
  /\ inv.pc \in {"settle", "cancel"} /\ Permitted /\ checkpoint[inv.run] # "none"
  /\ version' = [version EXCEPT ![inv.run] = "deleted"]
  /\ Conclude("failed")
  /\ UNCHANGED <<rowVars, env, queue, requested, live, iam, old, unread, losses>>

\* The build was never requested: delete the version.
DeleteReserved ==
  /\ inv.pc \in {"settle", "cancel"} /\ Permitted /\ checkpoint[inv.run] = "reserved"
  /\ version' = [version EXCEPT ![inv.run] = "deleted"]
  /\ Conclude("failed")
  /\ UNCHANGED <<rowVars, env, queue, requested, live, iam, old, unread, losses>>

\* No provider accepted the run: it fails (settleUnfinishedRun), or its cancellation has nothing to stop.
SettleUnaccepted ==
  /\ inv.pc \in {"settle", "cancel"} /\ Permitted /\ checkpoint[inv.run] = "none"
  /\ Conclude("failed")
  /\ UNCHANGED <<rowVars, env, queue, providerVars, iam, old, unread, losses>>

\* Zerops does not answer a settlement; a later pass tries again.
ProviderUnavailable ==
  /\ inv.pc \in {"settle", "cancel"} /\ Permitted
  /\ \/ checkpoint[inv.run] = "reserved"
     \/ checkpoint[inv.run] = "triggered" /\ (At("cancel") \/ inv.run \notin old)
  /\ Return(FALSE)
  /\ UNCHANGED <<rowVars, env, queue, providerVars, iam, old, unread, losses>>

-----------------------------------------------------------------------------
(* applyApprovedSchema, then the terminal write                            *)

\* A deploy writes the access it published, a settlement the environment's.
SchemaApplied ==
  /\ At("schema") /\ Permitted
  /\ iam' = IF inv.mode = "deploy" THEN snapshot[inv.run] ELSE env.published
  /\ Conclude("succeeded")
  /\ UNCHANGED <<rowVars, env, queue, providerVars, old, unread, losses>>

SchemaRefused ==
  /\ At("schema") /\ Permitted
  /\ Conclude("failed")
  /\ UNCHANGED <<rowVars, env, queue, providerVars, iam, old, unread, losses>>

\* An unavailable IAM fails an awaited deploy and postpones a settlement.
SchemaUnavailable ==
  /\ At("schema") /\ Permitted
  /\ IF inv.mode = "deploy" THEN Conclude("failed") ELSE Return(FALSE)
  /\ UNCHANGED <<rowVars, env, queue, providerVars, iam, old, unread, losses>>

MarkRunFinished ==
  /\ At("finish") /\ inv.mode # "cancel" /\ Permitted
  /\ SetStatus(inv.run, inv.outcome)
  /\ Return(TRUE)
  /\ UNCHANGED <<cancel, snapshot, verdict, approval, checkpoint, env, queue, providerVars, iam, old, unread, losses>>

\* A run cancelled while it waited drops the approval it held.
MarkRunCancellationFinished ==
  /\ At("finish") /\ inv.mode = "cancel"
  /\ SetStatus(inv.run, inv.outcome)
  /\ approval' = [approval EXCEPT ![inv.run] = IF status[inv.run] = "awaiting_approval" THEN Null ELSE @]
  /\ Return(TRUE)
  /\ UNCHANGED <<cancel, snapshot, verdict, checkpoint, env, queue, providerVars, iam, old, unread, losses>>

\* A boundary, or a refused write, reads the cancellation: the holder settles it (settleCancelledInvocation).
ObserveCancel ==
  /\ inv.pc \in {"snapshot", "classify", "reserve", "trigger", "send", "await", "settle", "schema", "finish"}
  /\ ~Permitted
  /\ inv' = [NoInvocation EXCEPT !.pc = "cancel", !.mode = "cancel", !.run = inv.run, !.message = inv.message]
  /\ UNCHANGED <<rowVars, env, queue, providerVars, iam, old, unread, losses>>

-----------------------------------------------------------------------------
(* The other takers of the lease                                           *)

\* reconcileProviderRuns: a pending run nobody cancelled just waits.
Reconcile(r) ==
  /\ status[r] = "running" \/ (status[r] = "pending" /\ cancel[r])
  /\ Invoke("settle", "settle", r, None)
  /\ UNCHANGED <<rowVars, env, queue, providerVars, iam, old, unread, losses>>

\* sweepStaleRuns
SweepStaleRun(r) ==
  /\ Idle /\ r \in old
  /\ status[r] \in {"pending", "running"} /\ ~cancel[r] /\ checkpoint[r] = "none"
  /\ SetStatus(r, "failed")
  /\ UNCHANGED <<cancel, snapshot, verdict, approval, checkpoint, env, queue, inv, providerVars, iam, old, unread, losses>>

\* cancelDeploy: the request needs no lease and may be repeated; the settlement starts here only if the lease is free.
CancelDeploy(r) ==
  /\ status[r] \in Active
  /\ cancel' = [cancel EXCEPT ![r] = TRUE]
  /\ IF Idle THEN Invoke("cancel", "cancel", r, None) ELSE UNCHANGED inv
  /\ UNCHANGED <<status, snapshot, verdict, approval, checkpoint, env, queue, providerVars, iam, old, unread, losses>>

\* completeApprovalUseCase
ApproveParkedRun(r) ==
  /\ Idle /\ status[r] = "awaiting_approval" /\ ~cancel[r]
  /\ SetStatus(r, "pending")
  /\ approval' = [approval EXCEPT ![r] = [candidate |-> snapshot[r], baseline |-> verdict[r].baseline]]
  /\ queue' = queue \cup {r}
  /\ UNCHANGED <<cancel, snapshot, verdict, checkpoint, env, inv, providerVars, iam, old, unread, losses>>

RejectParkedRun(r) ==
  /\ Idle /\ status[r] = "awaiting_approval" /\ ~cancel[r]
  /\ SetStatus(r, "failed")
  /\ approval' = [approval EXCEPT ![r] = Null]
  /\ UNCHANGED <<cancel, snapshot, verdict, checkpoint, env, queue, inv, providerVars, iam, old, unread, losses>>

\* setEnvironmentProtectionUseCase: refused while a run is running.
SetAppEnvProtected(value) ==
  /\ Idle /\ \A r \in Runs : status[r] # "running"
  /\ env.revision < MaxRevision
  /\ env' = [env EXCEPT !.protected = value, !.revision = @ + 1, !.generation = @ + 1]
  /\ UNCHANGED <<rowVars, queue, inv, providerVars, iam, old, unread, losses>>

\* writeAppEnv, without the lease.
RegistryWrite ==
  /\ env.generation < MaxGeneration
  /\ env' = [env EXCEPT !.generation = @ + 1]
  /\ UNCHANGED <<rowVars, queue, inv, providerVars, iam, old, unread, losses>>

-----------------------------------------------------------------------------
(* Zerops, time and failures                                               *)

BuildLands(r) ==
  /\ r \in requested
  /\ requested' = requested \ {r}
  /\ version' = [version EXCEPT ![r] = IF @ = "uploading" THEN "building" ELSE @]
  /\ UNCHANGED <<rowVars, env, queue, inv, live, iam, old, unread, losses>>

BuildLost(r) ==
  /\ r \in requested
  /\ requested' = requested \ {r}
  /\ UNCHANGED <<rowVars, env, queue, inv, version, live, iam, old, unread, losses>>

BuildEnds(r) ==
  /\ version[r] = "building"
  /\ \E end \in {"active", "failed"} :
       /\ version' = [version EXCEPT ![r] = end]
       /\ live' = IF end = "active" THEN r ELSE live
  /\ UNCHANGED <<rowVars, env, queue, inv, requested, iam, old, unread, losses>>

\* A request that lands, lands before the deadline of its run (75 minutes).
GrowOld(r) ==
  /\ status[r] \in Active /\ r \notin old /\ r \notin requested
  /\ old' = old \cup {r}
  /\ UNCHANGED <<rowVars, env, queue, inv, providerVars, iam, unread, losses>>

\* The process dies, the lease is lost or a write's outcome is unknown: the invocation stops; its message may come back.
LoseInvocation ==
  /\ ~Idle /\ losses < MaxLosses
  /\ losses' = losses + 1
  /\ inv' = NoInvocation
  /\ queue' \in {queue, queue \cup ({inv.message} \ {None})}
  /\ UNCHANGED <<rowVars, env, providerVars, iam, old, unread>>

\* The sender died before it sent, or the queue gave the message up.
LoseMessage(r) ==
  /\ r \in queue /\ losses < MaxLosses
  /\ losses' = losses + 1
  /\ queue' = queue \ {r}
  /\ UNCHANGED <<rowVars, env, inv, providerVars, iam, old, unread>>

-----------------------------------------------------------------------------
InvocationStep ==
  \/ MarkRunStarted \/ StartBlocked \/ MarkRunSuperseded \/ DeferDeploy
  \/ RecordRunSnapshot \/ ParkRunForApproval \/ RecordRunClassification
  \/ PublishRunSnapshot \/ PublicationLost \/ FailDeploy
  \/ ReserveVersion \/ RecordInitialRunExternalId \/ UploadFailed \/ CheckpointTriggered
  \/ SendBuild \/ BuildAnswered \/ BuildRefused
  \/ VersionActive \/ VersionFailed \/ VersionAbandoned \/ VersionPending
  \/ DeleteReserved \/ SettleUnaccepted \/ ProviderUnavailable
  \/ SchemaApplied \/ SchemaRefused \/ SchemaUnavailable
  \/ MarkRunFinished \/ MarkRunCancellationFinished \/ ObserveCancel

RunStep(r) ==
  \/ CreateRun(r) \/ ExecuteDeploy(r) \/ SkipMessage(r)
  \/ Reconcile(r) \/ SweepStaleRun(r) \/ CancelDeploy(r) \/ ApproveParkedRun(r) \/ RejectParkedRun(r)
  \/ BuildLands(r) \/ BuildLost(r) \/ BuildEnds(r) \/ GrowOld(r) \/ LoseMessage(r)

Next ==
  \/ InvocationStep
  \/ \E r \in Runs : RunStep(r)
  \/ \E value \in BOOLEAN : SetAppEnvProtected(value)
  \/ RegistryWrite \/ LoseInvocation \/ CheckpointUnread \/ AwaitUnread

Spec == Init /\ [][Next]_vars

\* The answers of Zerops and IAM that let a settlement go on.
ProviderAnswers == VersionActive \/ VersionFailed \/ VersionAbandoned \/ VersionPending \/ DeleteReserved
IamAnswers == SchemaApplied \/ SchemaRefused

\* An invocation keeps running, requests arrive or get lost, time passes.  The cron comes back every minute
\* while the lease is busy or a service does not answer: strong fairness stands for its retries.  Users,
\* builds and the queue owe nothing.
Fairness ==
  /\ WF_vars(InvocationStep) /\ SF_vars(ProviderAnswers) /\ SF_vars(IamAnswers)
  /\ SF_vars(\E r \in Runs : Reconcile(r)) /\ SF_vars(\E r \in Runs : SweepStaleRun(r))
  /\ WF_vars(\E r \in Runs : GrowOld(r)) /\ WF_vars(\E r \in Runs : BuildLands(r) \/ BuildLost(r))

FairSpec == Spec /\ Fairness

-----------------------------------------------------------------------------
(* Properties                                                              *)

\* The builds that run, or will once their request lands.
BuildsUnderWay == {r \in Runs : r \in requested \/ version[r] = "building"}

\* The runs that may fail with their build under way: past the deadline, or on an answer the deploy could not use
\* (README, section 6).
GivenUp == old \cup unread

\* The environment is never in the hands of two runs: a start is refused until every run a dead holder
\* left running is settled (db/runs.ts markRunStarted, ADR-0044 "A new run ... first settles any unfinished run").
AtMostOneRunning == \A r, s \in Runs : status[r] = "running" /\ status[s] = "running" => r = s

\* What a protected environment grants grows only by a change a human approved against exactly the access
\* in force when it is published, however long ago the approval was given and whatever was published,
\* protected or unprotected in between (ADR-0050 2, approval/publish.ts publishRunSnapshot).
NoUnapprovedWidening ==
  [][env.protected /\ Widens(env'.published, env.published)
       => approval[env'.publisher] = [candidate |-> env'.published, baseline |-> env.published]]_vars

\* A run shown as waiting has no approval that covers what it waits for (approval/api.ts toApprovalDto
\* "a waiting run's approval has lapsed").
WaitingRunNotApproved ==
  \A r \in Runs : status[r] = "awaiting_approval" => ~Approves(r, snapshot[r], verdict[r].baseline)

\* ADR-0044: "a version whose build may have been submitted is settled only by polling it, never by deletion",
\* also when the holder died between the checkpoint and the request and others settle or cancel the run: a
\* version whose request was sent is never deleted, one recorded as triggered only by the deploy that could not
\* read the row back and therefore sent nothing.
SubmittedNeverDeleted ==
  [][\A r \in Runs : version[r] # "deleted" /\ version'[r] = "deleted"
                       => r \notin requested /\ (checkpoint[r] # "triggered" \/ r \in unread' \ unread)]_vars

\* ADR-0044: "an unsettled attempt excludes competing builds"; lease expiry "never permits a second submission
\* beside it".  Only a build given up by its run may run beside another one.
NoCompetingBuilds == \A r, s \in BuildsUnderWay : r = s \/ {r, s} \cap GivenUp # {}

\* A version goes live only while its run is running: a late request, a cancellation or a settlement never
\* leaves a build that activates after its run was decided, unless its run gave it up.
ActivatesBeforeSettled ==
  [][\A r \in Runs : version[r] # "active" /\ version'[r] = "active" => status[r] = "running" \/ r \in GivenUp]_vars

\* A run succeeds only when its own version is live, its own snapshot is the published one and IAM holds its
\* schema, whoever finishes it: the deploy, the next deploy, the cron or a cancellation (which reads the
\* environment's access, not the run's).
SuccessIsConsistent ==
  [][\A r \in Runs : status[r] # "succeeded" /\ status'[r] = "succeeded"
       => /\ version[r] = "active"
          /\ env.publisher = r /\ env.published = snapshot[r]
          /\ iam = snapshot[r]]_vars

\* ADR-0050 6: "An older run therefore never deploys after a newer run ... succeeded", whatever order the queue
\* delivers in and whenever a parked run is approved; only a build its run gave up may still be under way.
OlderNeverDeploysOverNewer ==
  \A r \in Runs : NewerSucceeded(r) => status[r] # "running" /\ (r \in BuildsUnderWay => r \in GivenUp)

\* After the request is recorded the run is not started and publishes nothing any more, although its invocation
\* read the row before (db/runs.ts, the cancel_requested_at guards of markRunStarted and publishRunSnapshot).
CancelFreezes ==
  [][\A r \in Runs : cancel[r] =>
       /\ status'[r] = "running" => status[r] = "running"
       /\ env'.publisher = r => env.publisher = r]_vars

\* Every queued or running run ends or is parked, cancelled or not, though its messages are lost, its
\* holders die, Zerops and IAM refuse to answer for a while and its build never finishes.
EveryRunSettles ==
  \A r \in Runs : status[r] \in {"pending", "running"} ~> status[r] \in Terminal \cup {"awaiting_approval"}

\* run-lifecycle.ts cancelDeploy: "A live holder settles the request at its next step boundary."
\* It does not hold (README, section 6).
CancellationSettles == \A r \in Runs : cancel[r] ~> status[r] \in Terminal

\* approval/api.ts toApprovalDto: "a run that published after it ran with what it was approved for, or with no
\* widening left", so it reads as an approval that holds.  It does not hold (README,
\* section 6).
PublishedAsApproved ==
  \A r \in Runs : env.publisher = r /\ approval[r] # Null /\ status[r] # "awaiting_approval"
                    => Approves(r, snapshot[r], verdict[r].baseline) \/ ~Widens(snapshot[r], verdict[r].baseline)

\* ADR-0050 7: an approved run waits to run, is published, lapses into a new wait, is superseded or is cancelled;
\* without lost messages it does not fail before it starts.  It does not hold (README, section 6).
ApprovedRunStarts ==
  [][\A r \in Runs : status[r] = "pending" /\ approval[r] # Null /\ ~cancel[r] /\ status'[r] = "failed"
                       => NewerSucceeded(r)]_vars
=============================================================================
