# Verification of the fabrika platform

TLA+ modules for the parts of the repository where several processes, a database, a queue
and remote services change the same state and may stop, repeat or overtake each other:
deliveries, data operations and mail in the control plane (`control`), the projection of its
registry into `operations`, and the maintenance barrier and job runner of an application
(`app`, `db`). TLC checks small instances of every module; TLAPS proves safety properties of
all eight components for every value of the constants. Paths below are relative to `packages/`.

## 1. The system and its parts

| Part | State it keeps | Operations | What is hard |
|---|---|---|---|
| Deploy leases (`control/src/lease.ts`, `platform/src/deploy-locks-sql.ts`) | one row per key: holder, expiry; a local deadline per holder | acquire, renew, release, fenced writes | clocks of different hosts, statements that execute late, holders that die |
| Run lifecycle (`control/src/run-lifecycle.ts`, `db/runs.ts`, `provider-reconcile.ts`) | `runs` rows: status, cancellation, snapshot, verdict, approval, provider checkpoint | create, start, supersede, settle, finish, cancel, reconcile, sweep | crashes between any two steps, cancellations from outside the lease |
| Approval and publication (`control/src/approval/`) | `app_envs`: published snapshot, generation, protection | classify, park, approve, reject, publish, protect | a verdict about a state that is replaced before it is used |
| Zerops delivery (`provider-zerops`) | the version reserved for a run | reserve, upload, checkpoint, build, poll, cancel, delete | a build request whose outcome is unknown |
| Job queue (`platform-node/src/job-queue-postgres.ts`, `control/src/consumer.ts`) | jobs with visibility and attempts | send, claim, ack, defer, abandon | overlapping claims: the visibility timeout is shorter than a deploy, and a redelivery is acknowledged while the first handler runs |
| Catalog projection (`control/src/operations-catalog.ts`, `operations/src/catalog.ts`, `credentials.ts`) | desired and applied revision, the receiver's cursor, ingest credentials | mark, snapshot, flush, hand over, replay, reconcile | a change between a snapshot and its answer; lost answers; late requests; overlapping batches |
| Maintenance barrier (`app/src/cloudflare/maintenance.ts`) | mode and generation in R2 and in memory, the frozen record | transition, admit, commit, drain, dump, migrate, load | conditional puts that land late, evictions |
| Data operations (`control/src/data-operations.ts`) | an operation's record and steps, the pointer, the objects | maintenance, backup, migrate, restore, recover, resume | a restore stopped anywhere, requests of dead holders |
| Job runner (`app/src/jobs/runner.ts`, `db/src/job-leases.ts`, `job-wakes.ts`) | a job's lease, pending flag and wakes, the alarm | kick, wake, run, retry, reap, finish, repair | a kick that races the end of a run; a handler that outlives its lease; an alarm nobody armed |
| Mail relay (`control/src/mail-relay/`, `db/mail-messages.ts`) | a message's row and its content | post, hold, release, drop, requeue, dispatch, purge | an interrupted send; content in a row or in an object; a transport that goes; keys the provider forgets |
| Registry, IAM schema | generations, one schema per environment | writes that races compare against | as a part of the run lifecycle |
| IAM, auth, proxy | principals, sessions, codes, tokens | login, OAuth, device flow, handoff | single-use codes, rotation (not modelled) |
| Operations (`operations`) | issues, alerts, health, releases | ingest, deduplicate, notify | duplicates and retries (not modelled but for the catalog) |
| Namespaces, dev sandboxes, Cloudflare provider | their own rows, mostly under leases | republish, bind, deploy | two lease levels (not modelled) |

How they interact. A trigger inserts a run and **sends a queue message**. A consumer takes the
environment's **lease** and drives the run: it publishes the access the commit declares
(possibly after an approval), asks **Zerops** for a version and a build, writes the schema to
**IAM** and finishes the row. A cron settles what dead holders leave behind. **Data
operations** run under the same lease: they move the application's objects through their
**maintenance barriers** under rising generations and deploy to move traffic. An object's jobs
stop when its barrier restricts it and start again when it opens. Registry changes are
**projected** into Operations by whichever task gets the catalog lease. The **mail relay** has
its own queue jobs and its own cron pass.

`PROJECT.json` lists every component, modelled or not, and every hazard at its line.

## 2. Modules

| Module | Models | Relation |
|---|---|---|
| `FencedLease` | abstract promise of a lease: one owner, one actor, ownership moves while nobody acts | implemented by `DeployLease` |
| `DeployLease` | `acquireLease`, `HeldLease`, the SQL statements, clocks, crashes | |
| `RunLifecycle` | the runs of one environment from queue to settlement | relies on `DeployLease` and `ControlQueue` |
| `AtLeastOnce` | abstract promise of the queue: owed work keeps a message until it is taken over or given up | implemented by `ControlQueue` |
| `ControlQueue` | the Postgres queue and the consumer's verdicts | |
| `CatalogProjection` | Control's catalog tasks, Operations' reconcile and credentials | relies on `DeployLease` |
| `MaintenanceBarrier` | one application object, its R2 state and its invocations | |
| `DataOperations` | one environment's operations, objects and traffic | relies on `MaintenanceBarrier` and `DeployLease` |
| `JobRunner` | one job on either platform: Bun or a Durable Object | |
| `MailRelay` | one message over every kind of transport and store | |
| `MC...` | instances for TLC | extend the modules |
| `...Proofs` | theorems of `DeployLease`, `RunLifecycle`, `ControlQueue`, `CatalogProjection`, `MaintenanceBarrier`, `DataOperations`, `JobRunner`, `MailRelay` | extend the modules and TLAPS |

A definition named in a comment as "Mutant" is a plausible bug used to show that a property
can fail; no specification uses it.

### DeployLease

`row` is the row of one key in `deploy_locks`; `clock[h]` is `Date.now()` on the host of
holder `h`; `phase`, `aborted`, `deadline` and `wakeAt` are the local state of `acquireLease`
and `HeldLease`; `stmt[h][op]` is the last statement of a kind, its clock reading and its
fate. Sending a statement and executing it are separate steps, so a statement may run long
after its sender gave up, released or died. `journal` records whose fenced writes took effect.
Timers may fire late, never early. Hosts' clocks differ by at most `Skew`, and
`Skew <= Renew`, the margin of `LOCAL_TTL_MS`.

### RunLifecycle

One environment, its runs numbered in creation order. The row variables are columns of `runs`;
`env` is the row of `app_envs`; `inv` is the invocation that holds the lease, with a program
counter that stops where the code awaits its next effect; `version`, `requested` and `live`
are Zerops; `iam` is the schema IAM holds.

* `inv` is single because two holders never act at once (`DeployLease`, theorem `Exclusive`)
  and writes are fenced. `LoseInvocation` is every way a holder stops; what it leaves behind
  is its row, its version and a build request that may still land.
* A row that cannot be read stops a deploy like any error. Before the triggered checkpoint the run
  just fails. After it, `CheckpointUnread` (the checkpoint is written, the provider does not know,
  sends nothing and deletes the version) and `AwaitUnread` (the deploy fails and leaves its build
  alone) finish the run as failed and put it in `unread`. The properties about builds except the
  runs in `GivenUp`, past their deadline or in `unread` (section 6, item 16). The reads in question
  are rare, so they count as losses.
* Access is a set of permissions. `classifyAccess` is reduced to what the protocol asks of it,
  whether the candidate grants what the baseline does not; digests are equality.
* Messages come in any order and repeatedly, which is what `ControlQueue` allows.
* Cancellation is recorded between any two steps. A cancellation after the checkpoint's
  boundary does not stop the build request, as in the code.
* Time is the set `old` of runs past both the stale age and the version deadline: one flag,
  because nothing the properties tell apart happens between them.

### ControlQueue

`rows` is the jobs table, `consumer[c]` a consumer's claimed batch and where it is in the job it
handles: before the first read, before the lease, under it before the second read, running, about
to ack or to fail. A claim hides a row and counts an attempt; ack and defer act **by id**, whoever
claimed the row since. `Lapse` makes a hidden row visible at any time, since a handler may outlast
the timeout. `lease` and `status` are what the handlers read to decide whether a message is still
about anything. They differ by kind: a deploy runs a `pending` run only, so a redelivery is skipped
and acknowledged while the first handler works on the run; a namespace job resumes a namespace left
`provisioning`. A handler that finds its lease held sends a new message and acknowledges its own.
`SettleRun` is the cron, the sweep or a cancellation.

What the queue owes (`Owed`) is therefore not the end of the work but somebody who takes it over: a
run is owed while it is `pending`, and from there on `RunLifecycle` shows that it settles
(`EveryRunSettles`); a namespace is owed until an outcome is on record. `givenUp` are works one of
whose messages was dropped although they were owed, with the budget spent or by a deploy that lost
its lease before it started (section 6, item 17). The refinement maps `outstanding` to the works
some row is about and `owed` to `Owed`.

### CatalogProjection

A registry change commits, then its task marks the catalog dirty and tries to deliver a full
snapshot under the lease; a task that finds the lease taken coalesces. `requests` are on their
way to Operations or inside it, so answers can be lost and an old request can act late.
Operations' reconcile is not one step. It reads the cursor (`Reconcile`) and then runs a batch that
on Postgres is a READ COMMITTED transaction: `DisableSources` works on the rows that were enabled
when it started, `UpsertSource` inserts one source if the cursor it saw is below its revision, and
`CommitCatalog` writes the cursor and makes all of it visible; a written row is locked until then,
and a statement that needs it waits. `below` is what the statement under way saw of the cursor.
`overlapped` records that a batch was opened while another one was open. After the batch comes the
credential loop, a source at a time. Faults: an interrupted call, a lost lease, a crash
before or after the mark, a batch that fails and is rolled back, a restore of Control's database.
The content of a snapshot stands for its hash; `markAttempt` and `markFailed` write diagnostics only.

### MaintenanceBarrier

`Asked` are the requests Control may make; `r2` is the stored state, `record` the stored frozen
record, `mem` the memory of the running instance, `latePuts` and `lateRecords` the puts of the
state and of the record that an instance no longer waits for, `turn` what runs in the barrier's
turn, `client` the invocations with the state they captured. `Transition`, `PutPublished`,
`PutConflict`, `PutFailed` and `Acknowledge` are one request's steps. A dump remembers the
stretch it began in and reports one state only if it ends in the same. `faults.overtaken` says
that a request was put over a later state, `faults.unrecorded` that a restricted write has no
record or lost it to a late put: the two exceptions of section 6, items 11 and 12.
Assumptions: one instance runs at a time; Control neither dumps and loads one object under one
generation nor reuses a generation for a second mode (proved of `DataOperations`: theorem
`OneMode`); the etag of the stored state stands for its content.

### DataOperations

`ops` are the operations' records with their restores and runs, `drv` the holder that drives
them (a recovery drives the operation it resumes, so it has a stack), `obj` and `data` the
mode and the writes of each object, `deployed` where traffic goes, `serving` the pointer
Control records, `sent` requests that may still land. One action per step of `step`,
`backupStep`, `migrateStep`, `restoreStep` and `recoveryStep`, each with its failure paths.
`Plans` bounds which operations are started, in order. `Chain`, the operation a recovery is
about, is the least set closed under `recovers`. One run of an environment deploys at a time
(`NoneDeploys`, from `markRunStarted`), with the pointer it was handed when its record was created
(`PointerOf`). `Straight` says of a history that every recovery takes up the newest operation and
none resumes a recovery; `RecordedOpenServes` and `NoWriteLost` are about such histories, and what
happens in others is section 6, items 1 to 3. Assumptions: an object keeps the state of the
highest generation it was asked for, which theorem `NeverGoesBack` of the barrier shows but for
its exception (section 6, item 11); a deploy that is settled
has landed or never will; a release serves the operations; whether a clone boots is not in Control's
hands (`Booted`, `BootFails`), and a boot that fails counts as one of the bounded stops; a dump and an
import are one step, which `ConsistentDump` of the barrier justifies; the rehearsal object is left out; the
maintenance pass resumes restores, migrations and backups, as in the code.

### JobRunner

`lease`, `wakes` and `pending` are the job's rows; `run[r]` a run from its first try for the
lease to its last look at the flag; `alarm`, `alarming`, `open` the object. A statement on the
lease changes the wakes and arms the alarm in one transaction, so each is one action. Kicks are
numbered in commit order; an attempt sees the ones committed when it starts; `finished` and
`handled` are the last kick a finished run could see and the last one its writes reflect.
Times are abstract: a wake is due or not, a lease live, late or expired. A lease generation is
only compared for equality, so a new one is one no run remembers. Opening the object and arming its
alarm are two steps: `alarm` is `owed` in between, and `missed` when `setAlarm` failed, the instance
was evicted first, or an alarm was spent on a barrier that could not be read. `Repair` is the
Worker's hourly tick, which schedules the cron wake again and so arms the alarm. Left out: claim
wakes, kicks a job sends itself, framework jobs.

### MailRelay

One message: `post[p]` are the requests that may record it under one key, `row` its row,
`actor` the dispatchers and the maintenance pass. A dispatcher reads, claims, reads the content,
sends and records in separate steps and may stop before and after each. `setup` is the kind of
transport (with or without idempotency keys), the store (row or object) and the sender; it is
chosen initially and never changes. Whether Control has its transport at all, `transport`, does
change (`SwitchTransport`): without it an installation message is refused, another one is held, a
queued one waits without an attempt and a stale claim is settled as unknown. `taken`, `lapsed` and
`copies` are the provider: it took the message, it forgot the key a day later (`KeyLapses`), a
recipient got a second copy. Jobs are only counted. Posts end within the upload grace.

## 3. Runs

| Run | Bounds | Shows |
|---|---|---|
| `lease` | 2 holders, Ttl:Renew = 3:1 as in the code, Skew 1, clocks to 4, 3 writes | all lease properties and the refinement of `FencedLease` |
| `approval` | 2 runs, 2 permissions, 1 protection change, 1 registry change | no unapproved widening, frozen cancelled runs, consistent successes |
| `recovery` | 2 runs, 1 loss (a failed read included), fairness | exclusion, no competing builds, no deletion of a submitted version; every run ends or parks |
| `queue` | 2 consumers, a run and a namespace, 2 messages, 2 attempts, 1 fault, fairness | the queue implements `AtLeastOnce`; what is owed is taken over or given up |
| `catalog` | 2 tasks, 1 environment, registered, removed and registered again (3 changes), 1 fault | what is recorded as applied was delivered; no outdated source is final; active DSNs are stored |
| `catalog_replay` | 2 tasks, 1 change, 1 fault of any kind, fairness | Operations catches up or refuses the pending revision |
| `barrier` | 1 client, any mode under each of 3 generations, 2 put attempts, 2 faults, 1 data change | acknowledged modes are published and quiet; dumps are consistent |
| `data` | every pair of operations and one chain of two recoveries, 2 writes, 2 stops, fairness | in straight histories recorded open serves and no write is lost; one mode per generation; operations end unless a clone never boots |
| `jobs` | 2 runs, 1 kick, 1 fire, 1 retry, 2 faults (missed alarms included), both platforms, fairness | no kick dropped, alarm armed unless arming failed, prompt kicks, growing writes; every kick is served |
| `mail` | 2 posts, 2 dispatchers, 4 setups, 2 attempts, 1 requeue, 2 faults or transport changes | one delivery while the key is kept, truthful outcomes, own claims, content there |
| `mail_settles` | 2 posts, 2 dispatchers, 2 setups, 2 attempts, 2 faults or transport changes, fairness | every message settles or waits for a transport; content is forgotten |
| `barrier_overtaken` | 1 client, a closed object that opens and is restricted again, 2 put attempts, 4 faults | an acknowledged restriction is lost (violation; section 6, item 11) |

Why the bounds are enough to be interesting. Clocks to 4 with a TTL of 3 let a lease be
renewed, expire and be taken over while the first holder's statements are on their way. Two
runs are enough for one to block, supersede, undercut or outlive the other; two permissions
make two snapshots incomparable. Two consumers let one skip or acknowledge what another still
handles; a run and a namespace are the two ways of deciding that. Three registry changes let a change fall between a snapshot and its
answer and another one after it. Three transitions let a put of the first land after the
second was acknowledged and the third asked for. Two stops let the recovery of an operation be
interrupted too; the chain of two recoveries reaches the step that adopts an acknowledged
generation. One kick and one fire of the schedule already make two runs contend for the flag
and the lease, and the proofs cover any number. Two dispatchers with two attempts make a stale
claim overlap its successor; two posts make one of them discard its object; two transport changes
let a message wait and go on. The four setups of `mail` contain every pair of values of transport,
store and sender; the two of `mail_settles` differ in all three.

`CHECK_DEADLOCK FALSE` throughout, because each of these systems really stops once the bounded
work is done. Symmetry is used only where no liveness is checked.

### Fairness

* `RunLifecycle`: an invocation keeps running, requests arrive or get lost, time passes (weak).
  The cron comes back every minute, so its attempts on a free lease and the answers of a service
  asked again and again are strongly fair. Users, builds and the queue owe nothing.
* `ControlQueue`: consumers keep polling, handlers end (every wait of a deploy has a deadline),
  hidden rows reappear. Senders and the passes that settle runs owe nothing.
* `CatalogProjection`: tasks run to their end, Operations answers, expired leases expire, the
  cron replays every five minutes (weak); a committed change's task starts whatever the other
  tasks do (strong, since `Tasks` is finite and the platform's are not).
* `DataOperations`: the maintenance pass comes again, the holder goes on, requests arrive and
  provider runs end. Nothing makes a clone boot.
* `JobRunner`: a run goes on, time passes, the platform delivers the alarm or the timer ticks,
  maintenance ends, and the Worker's cron trigger sends the repair tick every hour
  (`provider-cloudflare/src/bounds.ts:53`), on which an object without an alarm depends. Handlers
  need not commit; kicks and crontab owe nothing.
* `MailRelay`: dispatchers and requests run, time passes, the cron pass repeats. No person acts,
  and a transport that is gone need not come back.

## 4. Proofs

**`DeployLeaseProofs`**, for any holders and any times with `Skew <= Renew < Ttl`:
`TypeCorrect`, `Exclusive`, `HeldOwnsRowAlways`, `TtlBounded`, `WritesNotInterleavedAlways`,
`LiveLeaseNotTakenEver` and the refinement `LeaseRefinement`. The invariant `LeaseInv` adds that
every deadline a holder acts on, or may yet learn from an answer, is covered by the row for one
renew period more (`Claims`), that clocks stay within `Skew`, and that a late renewal never
shortens the row (`RowOf`).

**`RunLifecycleProofs`**, for any number of runs, permissions and losses: every safety property
of the runs. The invariant `IndInv` has, beside the types and `AtMostOneRunning`, `Shape`
(which fields of `inv` are set at which program counter), `RowsOK` (what a row's status says of
its checkpoint, version and build) and `InvOK` (what the invocation has established at each
program counter); a run in `unread` had its build recorded, and a build may be under way without a
running run only for a run in `old` or `unread`. `StatusWriters`, `VersionWriters` and `EnvWriters` say which actions write a
variable, so an action property looks only at those.

**`ControlQueueProofs`**, for any consumers, works, messages, attempts and faults: the refinement
`QueueRefinement`. The invariant has, beside the types, that a claim has the id of a message that was
sent and is about the work of its row (`ClaimedIds`, `ClaimMatches`), and that a consumer about to ack
leaves its work not owed or with a message **later** than its own (`LaterSettled`): an ack deletes by id, so a consumer whose
claim lapsed may delete the row another one handles; "later" makes the chain of such deletions end.
A handler that skipped found the work taken over; one that is running moved it itself, and only a
requeue, which sends a later message, makes it owed again: so `LaterSettled` also covers a handler
whose namespace is pending again while it runs (`WillAck`).

**`MailRelayProofs`**, for any dispatchers, posts, attempts, requeues and faults: `TypeCorrect`,
`NoSecondCopy`, `RecordedOutcome`, `RecordsOwnClaim`, `ContentAvailable`, `SettledIsFinal`.
Without idempotency keys an attempt is the only one (`Sole`): a claim needs a queued row, a
queued row was never taken, and an interrupted attempt can only become `unknown`, which nobody
may requeue. With keys attempts overlap, and the count each claim raises tells them apart until
a requeue (`ClaimsCount`), and the key is kept until the message is settled, requeued or has waited
for a transport (`Lapsing`), so only then can a second send be a second copy. `Purging`, `Written` and `Named` are what `ContentKept` needs.

**`JobRunnerProofs`**, for any runs, keys, kicks, fires, retries and faults: `TypeCorrect`,
`KicksKept`, `AlarmKept`, `ServedAtOnce`, `WritesGrow`. A finish consumes only wakes it owns, and
what the holder owns was kicked before its attempt began (`OwnedSeen`), because a kick on the same
key disowns the wake. A kick is served at once because the flag is set before the lease is tried
again, cleared before the attempt reads, and taken after the lease is released (`Covered`): at
every moment some run will still try, see the kick, or find the flag. `OwnedSeen` also bounds a
wake's attempts, without which the type invariant is not inductive. An alarm is given up only by a
step that records it as missed, and every write and the repair tick arm it again.

**`MaintenanceBarrierProofs`**, for any requests, clients, put attempts and faults: `TypeCorrect`,
`AcknowledgedPublished`, `NeverGoesBack`, `QuietAfterAck`, `DumpConsistent`. R2, memory
and every put hold states Control asked for, one mode per generation (`Named`), and the turn acts on
what memory holds (`InMemory`). As long as no request was put over a later state, a put names an
expected state that is not later than its own, so when it lands R2's generation does not fall
(`Forward`); what was acknowledged then stays behind R2, and behind the memory of every instance
that loads it. For dumps: records name published restrictions (`Recorded`), a stretch lies behind the
state it is in (`Stretches`), and once data changed in a dump's stretch neither memory, nor the
record, nor a late put of the record brings that stretch back (`Broken`), because the record of the
new stretch is written before the data.

**`CatalogProjectionProofs`**, for any tasks, environments, passes, changes and faults:
`TypeCorrect`, `AppliedDelivered`, `NothingOutdated`, `DsnStored`. The receiver's cursor only rises
and every revision it took has one content (`Delivered`), whichever requests are repeated or late;
a snapshot is read after the revision it carries, so one of the desired revision shows every
marked change (`UpToDesired`); the credentials of a reconciled snapshot are stored except for the
sources its loop still has to visit (`Remaining`, `Accepted`), so all of them are when the answer
leaves, and the id of a credential is never used twice. While no two batches overlapped there is at
most one open batch (`Alone`), and what it has written, still has to insert and saw enabled adds up
to its snapshot, so a commit leaves exactly that. A restore of Control's database is one of
the steps.

**`DataOperationsProofs`**, for any plans, resolutions, arms, operations, generations, writes and
stops: `TypeCorrect`, `OneMode`, `OpenServes` and `WritesKept`. `OneMode` says that no object is
asked for a second mode under one generation. This is what the barrier's proofs assume of Control. A generation belongs to one record
(`Distinct`), and whoever takes an operation over takes a fresh one, unless nothing was asked for
under the old one (`Untouched`). So all requests under the generation of the driven operation come
from its present holder, and what it asked for together with what it is about to publish agrees
with the one mode per object that its place in the procedure stands for (`Planned`, with `Agreed`
the mode of each place). A holder's stack holds recoveries that wait in `resume` above ever older
operations (`Stacked`), so an operation is never driven twice in one stack. That the last operation
of a chain exists is shown from the well-foundedness of the numbers.

`OpenServes` (property `RecordedOpenServes`) and `WritesKept` (property `NoWriteLost`) need to know
where the writes are, which no record says. The argument is the second invariant, `Sound`, which
`StraightSound` shows of every straight history. In such a history there is one **base**, the newest
operation that is no recovery, and everything after it is a recovery of it. `Grounded` says what the
base's progress means for the data. Until a provider may have taken a restore's pointer deploy, the
serving object holds every write, and the object that traffic reaches, if it is another one, can take
none (`Steady`); the restore has frozen its original before it dumps it, and the dump and then the
clone hold every write (`Waits`). From the pointer deploy on the clone holds every write and the
original takes none until the way back is deployed, and the way back is taken only where traffic
never left the original (`Carries`). "Takes none" has to outlast its holder, so it is said of the
object's mode and of every request that may still reach it at a higher generation (`Within`). Around
it: an arm on its way rewinds only an object no write is on (`Harmless`); one run deploys at a time,
and it is the base's pointer or the one that is served anyway (`OneRun`); a record that ended open
leaves the serving object open for good and no run of the base to move it (`Finals`); the holder
drives the newest operation or the one it resumes, at the newest generation (`Driving`), and what it
relies on at each place of the procedure is about to be published or there to stay (`Placed`). The
proof has one lemma per action. Only a start adds to a history (`StepAlike`), so one that is not
straight stays so, and the invariant is shown in the form `Straight => Sound`. Without `OneRun` it is
not inductive: two runs of one environment that both deploy could undo each other's pointer, which
`markRunStarted` excludes.

Each inductive invariant was checked by TLC before it was proved. Assumptions are the named
`ASSUME`s on the constants and nothing else.

Only model-checked is liveness (`EveryRunSettles`, `EveryJobSettles`, `EventuallyInStepOrConflict`,
`OperationEnds`, `EveryKickRuns`, `EveryMessageSettles`, `ContentForgotten`), which the prover cannot
do. Every safety invariant and every action property of a passing run is a theorem.

## 5. Properties and hazards

Each property names the code or decision record it is about, and the hazards in `PROJECT.json`
name the properties that would catch them. Every property of a passing run has a mutant, under
which TLC finds the property violated. The `TypeOK` of a module is the base of its proofs and not a
property of a run.

## 6. Disagreements between the code and what is written about it

One has a run of its own; the others are stated as properties of their modules (or as a
condition in a property that holds) and are reproduced by checking that property with the bounds
given. Items 19, 20 and 22 are no disagreements: they are limits the repository states, kept here
because a property names them.

1. **A recovery of a recovery fences a stale mode** (`FrozenOriginal`, `Plans` of restore,
   recovery, recovery, resuming, 2 arms, 2 stops; `data-operations.ts:803`). A recovery copies the
   interrupted restore's mode when it starts; the restore moves on and freezes its original; a
   second recovery of the first one publishes the copied `open` on it. "From here the original never boots again" (`data-operations.ts:1045`).
2. **A recovery of a recovered backup** (`RecordedOpenServes` without `Straight`, `Plans` of backup, recovery,
   recovery, resuming). The first recovery's backup succeeded and opened the object; the second
   fences the first one's recorded `read-only` and ends as open. "it carries the mode the resumed
   operation left the object in" (`data-operations.ts:817`).
3. **Opening past an older restore** (`RecordedOpenServes` and `NoWriteLost` without `Straight`, `Plans`
   of restore, restore, recovery, resolution open; `data-operations.ts:493`). Any failed operation can be recovered, also a
   restore that a later one superseded; traffic then returns to an object that lacks the later
   writes. "keeps the object that may hold writes" (`data-operations.ts:1138`).
4. **A parked cancellation may never settle** (`CancellationSettles` under `FairSpec`, 2 runs,
   1 permission, no loss). `cancelDeploy` leaves the request to "a live holder", which may work on
   another run; no list of runs to settle contains `awaiting_approval`. Only a second cancel
   settles it.
5. **An approval that reads as holding although something else was published**
   (`PublishedAsApproved`, 2 runs, 2 permissions, 1 protection change). `toApprovalDto` derives it
   from the status; with protection switched off in between, a run publishes a widening its
   approval does not name.
6. **An approved run may be failed before it starts** (`ApprovedRunStarts`, 2 runs, 1 permission).
   `approveParkedRun` keeps the first `started_at`, so the stale sweep sees a run already too old.
7. **The catalog's repair may repeat a conflict for ever** (`EventuallyInStep` under `FairSpec`,
   1 change, an interrupted call; `repositories/catalog.ts:50`). A registration between the insert
   loop and the batch of a snapshot, and a lost answer, give one revision two contents; every
   replay conflicts until another registry change. "Scheduled repair path" (`services.ts:72`).
   `EventuallyInStepOrConflict` is what does hold.
8. **An incomplete snapshot** (`CompleteSnapshot`, 1 change, no fault;
   `db/operations-catalog.ts:97`). The same registration is counted in the revision and missing
   from its sources. "one transactionally consistent revision + complete source snapshot"
   (`db/operations-catalog.ts:94`).
9. **A stalled reconcile expires the current credential** (`ActiveDsnResolves`, 3 changes, an
   interrupted call; `repositories/sources.ts:110`). Its credential loop runs after a newer one's,
   and repeating the current credential answers success without reviving it. "Accept a caller-owned
   credential idempotently" (`credentials.ts:40`).
10. **A job is claimed beyond its attempts** (`ClaimsWithinBudget`, 1 work, 2 attempts, 1 crash;
    `job-queue-postgres.ts:97`). The claim has no condition on attempts and abandonment needs a
    handler that fails. "Claims allowed before the job is abandoned" (`:36`).
11. **An acknowledged restriction is lost** (run `barrier_overtaken`, `RestrictionHolds`;
    `maintenance.ts:418`). After a refused put the conflict read adopts R2's version, not its mode
    and generation, when that state is not later than the request. If the second put fails too, a
    late older request is judged against the old memory, and its put, naming the adopted version,
    succeeds over the later state: "adopted, never overwritten" (`:420`). With 3 faults the lost
    state was already acknowledged; with 4 an eviction follows and a write commits. "no write
    admitted under an older generation commits after a restrictive transition" (ADR 0069, line 178).
    The properties of the passing run except it with `~faults.overtaken`.
12. **A restricted write without its record** (`ConsistentDump` without `~faults.unrecorded`;
    `maintenance.ts:260`). A failed put of the record leaves `#frozenSince` set, so the retried step
    writes without one and an eviction resumes the old stretch; or a put of the record that was
    given up lands over the record of a later write. "durably before the write. A failed put
    rejects" (`:253`).
13. **A message recorded as failed that left** (`FailedNotSent` without `~Idempotent`;
    `dispatch.ts:90`). Over an idempotent transport an attempt taken and interrupted is tried again,
    and a refused later attempt ends it `failed`, "(not sent)" (`db/mail-messages.ts:5`).
14. **An outcome recorded on another claim** (`OwnClaim` without its condition;
    `db/mail-messages.ts:214`). A requeue sets the attempts back to 0, so a number is used twice.
    "its outcome is recorded against that claim" (`dispatch.ts:5`).
15. **A requeued message without content** (`ContentKept` without `requeues = 0`;
    `db/mail-messages.ts:344`). A purge deletes the object before it clears the row; a requeue in
    between leaves a queued row that names a deleted object. "a row never names a missing object,
    except one whose purge was interrupted" (`:76`).
16. **A failed read gives a build up** (`NoCompetingBuilds`, `ActivatesBeforeSettled`,
    `OlderNeverDeploysOverNewer` and `SubmittedNeverDeleted` with `old` for `GivenUp` and without
    `unread`, bounds of `recovery`; `provider-zerops/src/provider.ts:819`, `run-lifecycle.ts:943`). A
    step whose row cannot be read fails; after the build was requested the run is finished as failed
    with its build under way, and the next run may build beside it or be overtaken by it. When the
    read that ends the triggered checkpoint fails, the provider deletes a version on record as
    triggered. "an unsettled attempt excludes competing builds" (ADR 0044, line 99).
17. **A pending run whose message is gone** (`ImplementsAtLeastOnce` with `LoseLease` not counted as
    given up; `run-lifecycle.ts:633`). A deploy that loses its lease before it starts its run answers
    `running`, a normal return, and its message is acknowledged while the run is `pending`. No later
    message is about it; the stale sweep fails it. "a NORMAL return means the message is handled"
    (`consumer.ts:15`). In the same way a redelivery is acknowledged while the first handler runs
    (`run-lifecycle.ts:560`); from there on the run depends on the cron, as `bun/server.ts:77` says:
    "A redelivery while the handler still runs is harmless".
18. **Overlapping reconciles leave an outdated source** (`NoOutdatedSource` without `overlapped`;
    `repositories/catalog.ts:100`). Two batches that read the cursor before either wrote it: the
    older one waits for the newer one's row, or inserts a source before the newer one commits, and
    what it wrote stays enabled under the newer cursor. A late repetition of the current batch can
    also disable a source it then does not insert, and each retry of that revision is refused until
    another registry change. "A throw rolls the whole batch back" (`sql-postgres.ts:122`) is all the
    batch promises; D1 runs batches one after the other.
19. **A restore whose clone does not boot stays at `serve`** (`OperationEnds` without `[]AwaitsBoot`;
    `data-operations.ts:1078`). Every pass ends as interrupted. This is decided behaviour, "Traffic
    stays, nothing is rewound; an `open` recovery settles on the clone" (ADR 0070, line 406), so it
    is in the property.
20. **An open object without an alarm** (`AlarmArmed` with `missed` not excepted, 1 fault;
    `application.ts:719`, `:726`, `:813`). The barrier could not be read, `setAlarm` failed, or the
    instance was evicted between opening and arming. Its wakes then wait for a write or for the
    hourly tick: "the repair tick arms it" (`:813`).
21. **A second copy after the key lapsed** (`DeliveredOnce` as `copies = 0`, and as
    `copies = 0 \/ requeues > 0`; `mail-relay/queue.ts:65`). Providers keep an idempotency key for 24
    hours (`email/src/lettermint.ts:2`, `ahasend.ts:2`); an unknown message can be requeued as long
    as its content is kept, 30 days, and a deferred one may wait for a transport for any time. "a
    second send under the relay's key is not delivered twice" (`queue.ts:63`).
22. **A message without a transport waits** (`EveryMessageSettles` without `[]Waits`;
    `dispatch.ts:57`). Decided behaviour: "A queued message on a Control without a transport waits"
    (ADR 0019, line 245). An interrupted attempt is settled as unknown meanwhile, also over a
    transport that could send it again.

## 7. Not modelled

Dry runs, workspace lanes, the namespace republish inside a deploy, environment deletion, log
text, release projections, keys and secrets. A schema write of a lost invocation that reaches IAM
late: `iam` changes only by the holder, so `SuccessIsConsistent` is about a success its own write
precedes. The rehearsal object of a restore, retention of dumps, a release that does not serve the
operations. Claim wakes, a job's own kicks and framework jobs. The kind of a mail transport never
changes, only whether there is one; an attempt of a message ends within a day, and the retries of one
queueing (about 8.5 hours) too, so a key lapses only once the message is settled, was requeued or
waited for a transport. Pure data (comparison of contracts,
rendering of descriptors, the contract builder, query policies, parsing), user interfaces and I/O
adapters are left out for good: most of the repository is code of these kinds, without state that
several actors share, so the share of its lines these modules map is small by nature.

## 8. Plan

1. Theorems about more than one component: that `DataOperations` asks the barrier only for what
   its `Asked` allows, and that an object of `DataOperations` is a `MaintenanceBarrier`.
2. `RunLifecycle`: IAM writes in flight; the namespace lease and republish inside a deploy.
3. `OAuthCodes` (single-use codes, rotation) and `OperationsAlerts` (one notification on top of
   at-least-once calls).
4. The Cloudflare provider as a second implementation of the delivery steps.
