--------------------------- MODULE DataOperations ---------------------------
(***************************************************************************)
(* The data operations of one environment: packages/control/src/           *)
(* data-operations.ts with its records (db/data-operations.ts,             *)
(* db/restores.ts) and the objects they move (app/src/cloudflare).         *)
(*                                                                         *)
(* One holder of the environment's lease drives one operation from its     *)
(* record.  It may stop between any two steps (a crash, a lost lease, no   *)
(* answer, the pass's end); its requests may still land, and a successor   *)
(* fences them out at a higher generation.  An object keeps the state of   *)
(* the highest generation that reached it (MaintenanceBarrier), a deploy   *)
(* moves ordinary traffic, and the data of an object is how many of the    *)
(* environment's writes it holds.                                          *)
(*                                                                         *)
(* Left out: the rehearsal object, a release that does not serve the       *)
(* operations, and the part by part progress of dumps and imports.         *)
(***************************************************************************)
EXTENDS Naturals, Sequences

CONSTANTS Plans,          \* bound: the kinds of operation that are started, in order
          Resolutions,    \* the resolutions a recovery is started with
          MaxArms,        \* MAX_ARMS
          MaxOps,         \* bound: operations, the longest of the plans
          MaxGeneration,  \* bound: generations
          MaxWrites,      \* bound: writes of ordinary traffic
          MaxStops        \* bound: holders that stop before the operation ends

AllKinds == {"maintenance", "backup", "migrate", "restore", "recovery"}
ASSUME BoundsAssumption ==
  /\ Plans \subseteq UNION {[1..n -> AllKinds] : n \in 1..MaxOps}
  /\ Resolutions \subseteq {"open", "resume"} /\ MaxArms \in Nat \ {0}
  /\ {MaxOps, MaxGeneration, MaxWrites, MaxStops} \subseteq Nat

Modes == {"open", "read-only", "closed", "inspect"}
Deploys == {"list", "point", "revert", "migrate"}
Statuses == {"none", "named", "pending", "running", "succeeded", "failed", "rejected"}

VARIABLES
  ops,        \* the operations' records, oldest first, each with its restore, backup and runs
  generation, \* the last generation allocated
  serving,    \* the pointer Control records
  listed,     \* the objects Control lists
  deployed,   \* the object ordinary traffic reaches
  obj,        \* the published state of each object
  data,       \* how many writes each object holds
  total,      \* how many writes were accepted
  sentinel,   \* the restores whose sentinel their original's KV holds
  sent,       \* requests that may still reach an object
  drv,        \* the holder: the operations it drives (the last one now), where it is, what it publishes
  stops

vars == <<ops, generation, serving, listed, deployed, obj, data, total, sentinel, sent, drv, stops>>
pointer == <<serving, listed>>
world == <<deployed, obj, data, total, sentinel, sent>>

\* Object 0 is the application's first; the clone of a restore is named after its operation.
Objects == 0..MaxOps
Idle == [stack |-> <<>>, pc |-> "step", todo |-> <<>>, starter |-> FALSE]
NoRuns == [d \in Deploys |-> "none"]

Init ==
  /\ ops = <<>> /\ generation = 0 /\ serving = 0 /\ listed = {0} /\ deployed = 0
  /\ obj = [o \in Objects |-> [generation |-> 0, mode |-> "open"]]
  /\ data = [o \in Objects |-> 0] /\ total = 0 /\ sentinel = {} /\ sent = {}
  /\ drv = Idle /\ stops = 0

----------------------------------------------------------------------------
(* The records *)

Latest == ops[Len(ops)]
NoneRunning == ~(ops # <<>> /\ Latest.state = "running")

\* markRunStarted, startRun: a run starts once every earlier one of the environment is settled.
NoneDeploys == \A i \in 1..Len(ops), d \in Deploys : ops[i].runs[d] # "running"

\* Mutant: a failed way back counts as open.
ReopenedCodesRevert == {"backup_failed", "deploy_not_started", "revert_failed"}

\* The codes that leave the serving object open.
ReopenedCodes == {"backup_failed", "deploy_not_started", "list_failed", "import_failed", "point_failed",
                  "pointer_not_deployed", "bookmark_unavailable", "rewind_failed",
                  "unexpected_schema"}
\* The failures after which the clone may have been open.
CloneOpenedCodes == {"point_failed", "pointer_not_deployed"}

\* recordedMaintenance: what the newest record leaves the environment in.
RecordedMaintenance ==
  IF ops = <<>> THEN "open"
  ELSE IF Latest.state = "succeeded" THEN Latest.mode
  ELSE IF Latest.state = "failed" /\ Latest.code \in ReopenedCodes THEN "open" ELSE "unsettled"

\* create: a running record at a fresh generation, with its restore's in the same batch.
Record(kind, step, mode, recovers, resolution) ==
  [kind |-> kind, step |-> step, mode |-> mode, generation |-> generation + 1, state |-> "running",
   code |-> "none", recovers |-> recovers, resolution |-> resolution,
   original |-> serving, clone |-> Len(ops) + 1, failure |-> "none", bookmark |-> FALSE, arms |-> 0,
   backup |-> "running", dump |-> 0, runs |-> NoRuns]

\* A start takes the free lease, allocates a generation and records the operation.
Start(row, driven) ==
  /\ drv = Idle /\ generation < MaxGeneration
  /\ \E plan \in Plans : /\ Len(ops) < Len(plan) /\ plan[Len(ops) + 1] = row.kind
                         /\ \A i \in 1..Len(ops) : plan[i] = ops[i].kind
  /\ generation' = generation + 1
  /\ ops' = Append(ops, row)
  /\ drv' = IF driven THEN [Idle EXCEPT !.stack = <<Len(ops) + 1>>, !.starter = TRUE] ELSE drv
  /\ UNCHANGED <<pointer, world, stops>>

\* startMaintenance: any mode, unless an operation is running.
StartMaintenance(mode) ==
  NoneRunning /\ Start(Record("maintenance", IF mode = "open" THEN "open" ELSE "restrict", mode, 0, "none"), TRUE)

\* startBackup: only on an environment the record leaves open.
StartBackup ==
  /\ NoneRunning /\ RecordedMaintenance = "open"
  /\ Start(Record("backup", "restrict", "read-only", 0, "none"), TRUE)

\* startMigration: the same, under the lease of the run whose deploy it guards.
StartMigration ==
  /\ NoneRunning /\ NoneDeploys /\ RecordedMaintenance = "open"
  /\ Start([Record("migrate", "restrict", "read-only", 0, "none") EXCEPT !.runs["migrate"] = "pending"], TRUE)

\* startRestore: recorded only; the maintenance pass drives it.
StartRestore ==
  /\ NoneRunning /\ RecordedMaintenance = "open"
  /\ Start(Record("restore", "list", "open", 0, "none"), FALSE)

\* startRecovery: of a running operation, or past a failed one, unless another one is running.
StartRecovery(i, resolution) ==
  /\ ops[i].state = "running" \/ (ops[i].state = "failed" /\ resolution = "open")
  /\ i = Len(ops) \/ Latest.state # "running"
  /\ Start(Record("recovery", "reconcile", "closed", i, resolution), TRUE)

----------------------------------------------------------------------------
(* The holder *)

Top == drv.stack[Len(drv.stack)]
Op == ops[Top]
\* It drives an operation of that kind, at that step and place, with everything published.
At(kind, step, pc) ==
  /\ drv.stack # <<>> /\ drv.pc = pc /\ drv.todo = <<>>
  /\ Op.kind = kind /\ Op.step = step /\ Op.state = "running"

\* The record moves to row and the holder to its next step; every write is fenced on the lease.
Write(row) == ops' = [ops EXCEPT ![Top] = row]
To(pc, todo) == drv' = [drv EXCEPT !.pc = pc, !.todo = todo]
Allocate == generation < MaxGeneration /\ generation' = generation + 1

\* advance: a new step at the same generation, or at a fresh one.
Advance(row) == Write(row) /\ To("step", <<>>) /\ UNCHANGED <<generation, pointer>>
AdvanceFresh(row) ==
  /\ Allocate /\ Write([row EXCEPT !.generation = generation + 1]) /\ To("step", <<>>)
  /\ UNCHANGED pointer
\* reopen: the original or the serving object opens again at a fresh generation.
Reopen(row) == AdvanceFresh([row EXCEPT !.step = "open", !.mode = "open"])

\* finish and fail: the operation ends, and the one that resumed it goes on.
End(state, code) ==
  /\ Write([Op EXCEPT !.state = state, !.code = code])
  /\ drv' = [Idle EXCEPT !.stack = SubSeq(drv.stack, 1, Len(drv.stack) - 1)]
  /\ UNCHANGED <<generation, pointer>>

\* What a step publishes before it does its work, in order.
StepModes(row) ==
  CASE row.kind = "maintenance" -> << <<serving, row.mode>> >>
    [] row.kind \in {"backup", "migrate"} /\ row.step \in {"restrict", "migrate"} -> << <<serving, "read-only">> >>
    [] row.kind \in {"backup", "migrate"} /\ row.step = "open" -> << <<serving, "open">> >>
    [] row.kind = "recovery" /\ row.step = "restrict" -> << <<serving, "closed">> >>
    [] row.kind = "recovery" /\ row.step = "open" -> << <<serving, "open">> >>
    [] row.kind = "restore" /\ row.step = "restrict" -> << <<row.original, "read-only">> >>
    [] row.kind = "restore" /\ row.step = "import" -> << <<row.clone, "inspect">> >>
    [] row.kind = "restore" /\ row.step = "promote" -> << <<row.clone, "open">>, <<row.original, "inspect">> >>
    [] row.kind = "restore" /\ row.step = "rewind" -> << <<row.original, "inspect">> >>
    [] row.kind = "restore" /\ row.step = "open" ->
         (IF row.failure \in CloneOpenedCodes THEN << <<row.clone, "inspect">> >> ELSE <<>>)
           \o << <<row.original, "open">> >>
    [] OTHER -> <<>>

\* What a successor's fence publishes: restoreModes, or the record's target mode.
FenceModes(row) ==
  IF row.kind # "restore"
    THEN IF row.kind = "recovery" /\ row.step \in {"reconcile", "restrict"} THEN <<>>
         ELSE << <<serving, row.mode>> >>
    ELSE CASE row.step = "list" -> << <<row.original, "open">> >>
           [] row.step \in {"restrict", "backup", "verify"} -> << <<row.original, "read-only">> >>
           [] row.step = "import" -> << <<row.original, "read-only">>, <<row.clone, "inspect">> >>
           [] row.step \in {"promote", "point", "serve", "rewind", "check"} ->
                << <<row.clone, "open">>, <<row.original, "inspect">> >>
           [] row.step = "revert" -> << <<row.clone, "inspect">>, <<row.original, "inspect">> >>
           [] row.step = "open" ->
                (IF row.clone \in listed /\ row.failure \in CloneOpenedCodes
                   THEN << <<row.clone, "inspect">> >> ELSE <<>>) \o << <<row.original, "open">> >>

\* Mutant: the pass drives backups alone.
ResumeBackups ==
  /\ drv = Idle /\ ops # <<>> /\ Latest.state = "running" /\ Latest.kind = "backup"
  /\ Allocate /\ ops' = [ops EXCEPT ![Len(ops)].generation = generation + 1]
  /\ drv' = [Idle EXCEPT !.stack = <<Len(ops)>>, !.todo = FenceModes(Latest)]
  /\ UNCHANGED <<pointer, world, stops>>

\* advanceDataOperation, from the maintenance pass: a successor takes the newest running operation, at a
\* generation above every earlier one.  Maintenance and recoveries are left to an operator's recovery.
Resume ==
  /\ drv = Idle /\ ops # <<>> /\ Latest.state = "running" /\ Latest.kind \in {"restore", "migrate", "backup"}
  /\ Allocate /\ ops' = [ops EXCEPT ![Len(ops)].generation = generation + 1]
  /\ drv' = [Idle EXCEPT !.stack = <<Len(ops)>>, !.todo = FenceModes(Latest)]
  /\ UNCHANGED <<pointer, world, stops>>

\* The holder stops: nothing of its memory is left.
Stop ==
  /\ drv # Idle /\ stops < MaxStops
  /\ stops' = stops + 1 /\ drv' = Idle
  /\ UNCHANGED <<ops, generation, pointer, world>>

----------------------------------------------------------------------------
(* Requests and objects *)

\* publish: the state request at the record's generation.
Request == [kind |-> "state", object |-> drv.todo[1][1], mode |-> drv.todo[1][2],
            generation |-> Op.generation, op |-> 0]

\* opsTransitionRefused.
Refused(r) == \/ r.generation < obj[r.object].generation
              \/ r.generation = obj[r.object].generation /\ r.mode # obj[r.object].mode

Publishes == drv.stack # <<>> /\ drv.todo # <<>>
Acknowledged == obj[Request.object] = [generation |-> Request.generation, mode |-> Request.mode]

\* The request goes out, while the lease is held.
Send ==
  /\ Publishes /\ ~Acknowledged
  /\ sent' = sent \cup {Request} /\ sent' # sent
  /\ UNCHANGED <<ops, generation, pointer, deployed, obj, data, total, sentinel, drv, stops>>

\* The answer arrives: the next publication, or the step's work.
Acked ==
  /\ Publishes /\ Acknowledged
  /\ drv' = [drv EXCEPT !.todo = Tail(@)]
  /\ UNCHANGED <<ops, generation, pointer, world, stops>>

\* A refusal that names a higher generation is adopted: the record takes a fresh one, and the request
\* goes out again.
Adopt ==
  /\ Publishes /\ Request.generation < obj[Request.object].generation
  /\ Allocate /\ Write([Op EXCEPT !.generation = generation + 1])
  /\ UNCHANGED <<pointer, world, drv, stops>>

\* A state request reaches its object, now or long after its holder stopped; requests that every
\* object would refuse are forgotten.
Land(r) ==
  /\ r.kind = "state" /\ ~Refused(r)
  /\ obj' = [obj EXCEPT ![r.object] = [generation |-> r.generation, mode |-> r.mode]]
  /\ sent' = {q \in sent \ {r} : q.object = r.object => q.generation >= r.generation}
  /\ UNCHANGED <<ops, generation, pointer, deployed, data, total, sentinel, drv, stops>>

\* An arm reaches the original: only at its published generation, in inspect, and off the traffic.
LandArm(r) ==
  /\ r.kind = "arm" /\ sent' = sent \ {r}
  /\ obj[r.object] = [generation |-> r.generation, mode |-> "inspect"] /\ deployed # r.object
  /\ data' = [data EXCEPT ![r.object] = 0] /\ sentinel' = sentinel \ {r.op}
  /\ UNCHANGED <<ops, generation, pointer, deployed, obj, total, drv, stops>>

\* Ordinary traffic writes to the object it reaches, while that one is open.
ClientWrite ==
  /\ obj[deployed].mode = "open" /\ total < MaxWrites
  /\ data' = [data EXCEPT ![deployed] = @ + 1] /\ total' = total + 1
  /\ UNCHANGED <<ops, generation, pointer, deployed, obj, sentinel, sent, drv, stops>>

----------------------------------------------------------------------------
(* Deploys *)

\* An ordinary deploy, only of an open environment, writes the recorded pointer.
Deploy ==
  /\ drv = Idle /\ NoneRunning /\ NoneDeploys /\ RecordedMaintenance = "open"
  /\ deployed # serving /\ deployed' = serving
  /\ UNCHANGED <<ops, generation, pointer, obj, data, total, sentinel, sent, drv, stops>>

RunSet(i, d, status) == ops' = [ops EXCEPT ![i].runs[d] = status]

\* restoreDeploy: the run is named, then created, then handed to the provider.
RestoreDeploy(i, d) ==
  /\ \/ ops[i].runs[d] = "none" /\ RunSet(i, d, "named")
     \/ ops[i].runs[d] = "named" /\ RunSet(i, d, "pending")
     \/ ops[i].runs[d] = "pending" /\ NoneDeploys /\ RunSet(i, d, "running")
  /\ UNCHANGED <<generation, pointer, world, drv, stops>>

Ended(i, d) == ops[i].runs[d] \in {"succeeded", "failed", "rejected"}

\* The pointer a deploy was handed; a list or a migration keeps the one of its record's start.
PointerOf(i, d) == IF d = "point" THEN ops[i].clone ELSE ops[i].original

\* A deploy the provider accepted takes effect at any time before its run ends.
DeployLands(i, d) ==
  /\ ops[i].runs[d] = "running" /\ deployed' = PointerOf(i, d) /\ deployed' # deployed
  /\ UNCHANGED <<ops, generation, pointer, obj, data, total, sentinel, sent, drv, stops>>

\* The run ends, under the holder or by the sweep: no provider took it, or it succeeded or failed
\* with its pointer written or not.
RunEnds(i, d) ==
  /\ \/ ops[i].runs[d] = "pending" /\ RunSet(i, d, "rejected")
     \/ ops[i].runs[d] = "running" /\ \E s \in {"succeeded", "failed"} : RunSet(i, d, s)
  /\ UNCHANGED <<generation, pointer, world, drv, stops>>

----------------------------------------------------------------------------
(* The steps *)

\* What a chain of recoveries recovers, through every recovery it names: the least set that is closed.
Chain(i) == {n \in 1..Len(ops) :
               \A S \in SUBSET (1..Len(ops)) :
                 (i \in S /\ \A k \in S : ops[k].recovers \in S \cup {0}) => n \in S}
Recovered(i) == CHOOSE n \in Chain(i) : ops[n].recovers = 0
OpensRestore(row) == row.kind = "recovery" /\ row.step = "restrict" /\ row.resolution = "open"
                     /\ ops[Recovered(row.recovers)].kind = "restore"

\* A recorded failure goes back before the step does anything.
RecordedFailure ==
  Op.kind = "restore" /\ Op.step \in {"import", "promote", "point", "serve"} /\ Op.failure # "none"

\* A step begins with what it publishes.
BeginStep ==
  /\ drv.stack # <<>> /\ At(Op.kind, Op.step, "step")
  /\ ~RecordedFailure /\ ~OpensRestore(Op) /\ Op.step # "resume"
  /\ To("acked", StepModes(Op))
  /\ UNCHANGED <<ops, generation, pointer, world, stops>>

FailedStep ==
  /\ drv.stack # <<>> /\ At("restore", Op.step, "step") /\ RecordedFailure
  /\ IF Op.step = "serve" THEN Advance([Op EXCEPT !.step = "revert"]) ELSE Reopen(Op)
  /\ UNCHANGED <<world, stops>>

\* The first failure is recorded before anything is undone.
Abandon(code) ==
  Write([Op EXCEPT !.failure = code]) /\ To("step", <<>>) /\ UNCHANGED <<generation, pointer>>

MaintenanceStep == /\ drv.stack # <<>> /\ At("maintenance", Op.step, "acked") /\ End("succeeded", "none")
                   /\ UNCHANGED <<world, stops>>

RestrictStep(kind) == /\ At(kind, "restrict", "acked") /\ Advance([Op EXCEPT !.step = "backup"])
                      /\ UNCHANGED <<world, stops>>

\* The dump is one state of its object, which writes nothing meanwhile; or it fails.
DumpStep(kind) ==
  /\ At(kind, "backup", "acked")
  /\ \/ LET dumped == [Op EXCEPT !.dump = data[Op.original]]
        IN  IF kind = "backup" THEN Reopen(dumped) ELSE Advance([dumped EXCEPT !.step = "verify"])
     \/ Reopen([Op EXCEPT !.backup = "failed"])
  /\ UNCHANGED <<world, stops>>

\* The rehearsal passes, or fails the backup.
VerifyStep(kind) ==
  /\ At(kind, "verify", "acked")
  /\ \/ Advance([Op EXCEPT !.backup = "succeeded", !.step = IF kind = "migrate" THEN "deploy" ELSE "import"])
     \/ Reopen([Op EXCEPT !.backup = "failed"])
  /\ UNCHANGED <<world, stops>>

BackupOpened ==
  /\ At("backup", "open", "acked")
  /\ IF Op.backup = "failed" THEN End("failed", "backup_failed") ELSE AdvanceFresh([Op EXCEPT !.step = "verify"])
  /\ UNCHANGED <<world, stops>>

BackupVerified ==
  /\ At("backup", "verify", "acked")
  /\ End("succeeded", "none") \/ End("failed", "backup_failed")
  /\ UNCHANGED <<world, stops>>

\* Only the holder that started the migration has its deploy.
MigrateDeploy ==
  /\ At("migrate", "deploy", "acked") /\ drv.starter /\ Op.runs["migrate"] = "pending"
  /\ RestoreDeploy(Top, "migrate")

MigrateDeployed ==
  /\ At("migrate", "deploy", "acked") /\ Ended(Top, "migrate")
  /\ CASE Op.runs["migrate"] = "succeeded" -> Advance([Op EXCEPT !.step = "migrate"])
       [] Op.runs["migrate"] = "rejected" -> Reopen(Op)
       [] Op.runs["migrate"] = "failed" -> End("failed", "deploy_failed")
  /\ UNCHANGED <<world, stops>>

MigrateRequest ==
  /\ At("migrate", "migrate", "acked")
  /\ Reopen(Op) \/ End("failed", "migration_failed")
  /\ UNCHANGED <<world, stops>>

MigrateOpened ==
  /\ At("migrate", "open", "acked")
  /\ IF Op.backup = "failed" THEN End("failed", "backup_failed")
     ELSE IF Op.runs["migrate"] # "succeeded" THEN End("failed", "deploy_not_started")
     ELSE End("succeeded", "none")
  /\ UNCHANGED <<world, stops>>

----------------------------------------------------------------------------
(* The side restore *)

RestoreRun(step, deploy) ==
  At("restore", step, "acked") /\ ~Ended(Top, deploy) /\ RestoreDeploy(Top, deploy)

\* Mutant: the freeze goes out at the generation the fence published open at.
ListStepSameGeneration ==
  /\ At("restore", "list", "acked") /\ Op.runs["list"] = "succeeded"
  /\ Write([Op EXCEPT !.step = "restrict", !.mode = "read-only"]) /\ To("step", <<>>)
  /\ listed' = listed \cup {Op.clone} /\ UNCHANGED <<serving, generation, world, stops>>

\* The clone is listed and answers, or nothing was frozen yet.
ListStep ==
  /\ At("restore", "list", "acked") /\ Ended(Top, "list")
  /\ \/ /\ Op.runs["list"] = "succeeded" /\ Allocate
        /\ Write([Op EXCEPT !.step = "restrict", !.mode = "read-only", !.generation = generation + 1])
        /\ listed' = listed \cup {Op.clone} /\ serving' = serving /\ To("step", <<>>)
     \/ End("failed", "list_failed")
  /\ UNCHANGED <<world, stops>>

\* The clone holds the dump, or the import fails.
ImportStep ==
  /\ At("restore", "import", "acked")
  /\ \/ /\ AdvanceFresh([Op EXCEPT !.step = "promote", !.mode = "inspect"])
        /\ data' = [data EXCEPT ![Op.clone] = Op.dump]
     \/ Abandon("import_failed") /\ data' = data
  /\ UNCHANGED <<deployed, obj, total, sentinel, sent, stops>>

PromoteStep == /\ At("restore", "promote", "acked") /\ Advance([Op EXCEPT !.step = "point"])
               /\ UNCHANGED <<world, stops>>

\* Mutant: a failed deploy is taken for one that moved nothing.
PointStepAbandons ==
  /\ At("restore", "point", "acked") /\ Ended(Top, "point")
  /\ IF Op.runs["point"] # "succeeded" THEN Abandon("point_failed")
     ELSE /\ Write([Op EXCEPT !.step = "serve", !.mode = "open"]) /\ To("step", <<>>)
          /\ serving' = Op.clone /\ UNCHANGED <<listed, generation>>
  /\ UNCHANGED <<world, stops>>

\* Unless no provider accepted the deploy, the clone may serve now.
PointStep ==
  /\ At("restore", "point", "acked") /\ Ended(Top, "point")
  /\ IF Op.runs["point"] = "rejected" THEN Abandon("point_failed")
     ELSE /\ Write([Op EXCEPT !.step = "serve", !.mode = "open"]) /\ To("step", <<>>)
          /\ serving' = Op.clone /\ UNCHANGED <<listed, generation>>
  /\ UNCHANGED <<world, stops>>

\* prepare on the original: refused while traffic reaches it, else its bookmarks are recorded.
ServeStep ==
  /\ At("restore", "serve", "acked") /\ ~Op.bookmark
  /\ \/ deployed = Op.original /\ Abandon("pointer_not_deployed") /\ sentinel' = sentinel
     \/ /\ deployed # Op.original /\ sentinel' = sentinel \cup {Top}
        /\ Write([Op EXCEPT !.bookmark = TRUE]) /\ To("acked", <<>>) /\ UNCHANGED <<generation, pointer>>
     \/ deployed # Op.original /\ End("failed", "bookmark_unavailable") /\ sentinel' = sentinel
     \/ End("failed", "rewind_failed") /\ sentinel' = sentinel
  /\ UNCHANGED <<deployed, obj, data, total, sent, stops>>

\* migrate on the clone, whose bookmarks are recorded.
Boots == At("restore", "serve", "acked") /\ Op.bookmark

\* Any answer but a boot, or none: the pass is over and the restore stays at serve, for the next pass to ask
\* again.  It counts as one of the bounded stops.
BootFails == Boots /\ Stop

\* The clone booted.
Booted ==
  /\ Boots
  /\ AdvanceFresh([Op EXCEPT !.step = "rewind"])
  /\ UNCHANGED <<world, stops>>

\* A sent arm is verified first; another one is counted before it goes out.
RewindStep ==
  /\ At("restore", "rewind", "acked")
  /\ IF Op.arms > 0 /\ Top \notin sentinel THEN Advance([Op EXCEPT !.step = "check"])
     ELSE IF Op.arms = MaxArms THEN End("failed", "rewind_failed")
     ELSE Write([Op EXCEPT !.arms = @ + 1]) /\ To("arm", <<>>) /\ UNCHANGED <<generation, pointer>>
  /\ UNCHANGED <<world, stops>>

Arm ==
  /\ At("restore", "rewind", "arm")
  /\ \/ /\ sent' = sent \cup {[kind |-> "arm", object |-> Op.original, mode |-> "inspect",
                                generation |-> Op.generation, op |-> Top]}
        /\ To("acked", <<>>) /\ UNCHANGED <<ops, generation, pointer>>
     \/ End("failed", "bookmark_unavailable") /\ sent' = sent
  /\ UNCHANGED <<deployed, obj, data, total, sentinel, stops>>

CheckStep ==
  /\ At("restore", "check", "acked")
  /\ End("succeeded", "none") \/ End("failed", "unexpected_schema")
  /\ UNCHANGED <<world, stops>>

\* Traffic is back on the original, or neither object serves.
RevertStep ==
  /\ At("restore", "revert", "acked") /\ Ended(Top, "revert")
  /\ IF Op.runs["revert"] # "succeeded" THEN End("failed", "revert_failed")
     ELSE /\ Allocate /\ To("step", <<>>) /\ serving' = Op.original /\ listed' = listed
          /\ Write([Op EXCEPT !.step = "open", !.mode = "open", !.generation = generation + 1])
  /\ UNCHANGED <<world, stops>>

RestoreOpened ==
  /\ At("restore", "open", "acked")
  /\ End("failed", IF Op.backup = "failed" THEN "backup_failed" ELSE Op.failure)
  /\ UNCHANGED <<world, stops>>

----------------------------------------------------------------------------
(* The recovery *)

Reconcile == /\ At("recovery", "reconcile", "acked") /\ Advance([Op EXCEPT !.step = "restrict"])
             /\ UNCHANGED <<world, stops>>

\* The serving object is closed; it opens again, or the operation resumes.
RecoveryRestricted ==
  /\ At("recovery", "restrict", "acked")
  /\ IF Op.resolution = "open" THEN Reopen(Op)
     ELSE Advance([Op EXCEPT !.step = "resume", !.mode = ops[Op.recovers].mode])
  /\ UNCHANGED <<world, stops>>

\* The resumed operation is driven as by any successor, until it ends.
RecoveryResumes ==
  LET j == Op.recovers
  IN  /\ At("recovery", "resume", "step") /\ ops[j].state = "running"
      /\ IF ops[j].step = "reconcile"
           THEN UNCHANGED <<generation, ops>>
           ELSE Allocate /\ ops' = [ops EXCEPT ![j].generation = generation + 1]
      /\ drv' = [drv EXCEPT !.stack = Append(@, j), !.todo = FenceModes(ops[j])]
      /\ UNCHANGED <<pointer, world, stops>>

RecoveryResumed ==
  /\ At("recovery", "resume", "step")
  /\ \/ ops[Op.recovers].state = "failed" /\ End("failed", "resume_failed")
     \/ /\ ops[Op.recovers].state = "succeeded"
        /\ Write([Op EXCEPT !.mode = ops[Op.recovers].mode]) /\ To("acked", <<>>)
        /\ UNCHANGED <<generation, pointer>>
  /\ UNCHANGED <<world, stops>>

\* retireChain: every operation below that still runs fails, one write each, before the recovery ends.
RecoveryEnds ==
  /\ drv.stack # <<>> /\ Op.step \in {"open", "resume"} /\ At("recovery", Op.step, "acked")
  /\ LET running == {n \in Chain(Op.recovers) : ops[n].state = "running"}
     IN  IF running = {} THEN End("succeeded", "none")
         ELSE \E n \in running :
                /\ ops' = [ops EXCEPT ![n].state = "failed", ![n].code = "recovered"]
                /\ UNCHANGED <<drv, generation, pointer>>
  /\ UNCHANGED <<world, stops>>

\* The restore a recovery opens past, and whether its pointer deploy reached a provider.
Past == Recovered(Op.recovers)
PointAccepted(i) == ops[i].runs["point"] \in {"succeeded", "failed"}

\* recoverRestore: the clone is kept where it may hold writes, else the original.
RecoverRestore ==
  /\ drv.stack # <<>> /\ OpensRestore(Op) /\ At("recovery", "restrict", "step")
  /\ \A d \in {"point", "revert"} : ops[Past].runs[d] \notin {"pending", "running"}
  /\ IF PointAccepted(Past) /\ ops[Past].failure = "none"
       THEN To("kept", << <<ops[Past].original, "inspect">>, <<ops[Past].clone, "open">> >>)
       ELSE To("revert", <<>>)
  /\ UNCHANGED <<ops, generation, pointer, world, stops>>

\* settleRecovery: the pointer is recorded with the step that opens.
SettleRecovery(o, l) ==
  /\ Write([Op EXCEPT !.step = "open", !.mode = "open"]) /\ serving' = o /\ listed' = l
  /\ To("acked", <<>>) /\ UNCHANGED generation

KeepClone ==
  /\ At("recovery", "restrict", "kept")
  /\ IF ops[Past].bookmark \/ deployed # ops[Past].original
       THEN SettleRecovery(ops[Past].clone, listed \cup {ops[Past].clone})
       ELSE /\ Allocate /\ Write([Op EXCEPT !.generation = generation + 1]) /\ To("revert", <<>>)
            /\ UNCHANGED pointer
  /\ UNCHANGED <<world, stops>>

RevertNeeded == ops[Past].runs["revert"] # "succeeded" /\ (serving # ops[Past].original \/ PointAccepted(Past))

RecoveryReverts ==
  At("recovery", "restrict", "revert") /\ RevertNeeded /\ ~Ended(Past, "revert") /\ RestoreDeploy(Past, "revert")

RecoveryReverted ==
  /\ At("recovery", "restrict", "revert")
  /\ \/ /\ RevertNeeded /\ ops[Past].runs["revert"] \in {"failed", "rejected"}
        /\ End("failed", "revert_failed")
     \/ /\ ~RevertNeeded
        /\ To("settle", (IF ops[Past].clone \in listed THEN << <<ops[Past].clone, "inspect">> >> ELSE <<>>)
                         \o << <<ops[Past].original, "open">> >>)
        /\ UNCHANGED <<ops, generation, pointer>>
  /\ UNCHANGED <<world, stops>>

KeepOriginal == /\ At("recovery", "restrict", "settle") /\ SettleRecovery(ops[Past].original, listed)
                /\ UNCHANGED <<world, stops>>

----------------------------------------------------------------------------
HolderStep ==
  \/ BeginStep \/ FailedStep \/ MaintenanceStep
  \/ \E kind \in {"backup", "migrate", "restore"} : RestrictStep(kind) \/ DumpStep(kind)
  \/ \E kind \in {"migrate", "restore"} : VerifyStep(kind)
  \/ BackupOpened \/ BackupVerified
  \/ MigrateDeploy \/ MigrateDeployed \/ MigrateRequest \/ MigrateOpened
  \/ \E d \in {"list", "point", "revert"} : RestoreRun(d, d)
  \/ ListStep \/ ImportStep \/ PromoteStep \/ PointStep \/ ServeStep
  \/ RewindStep \/ Arm \/ CheckStep \/ RevertStep \/ RestoreOpened
  \/ Reconcile \/ RecoveryRestricted \/ RecoveryResumes \/ RecoveryResumed \/ RecoveryEnds
  \/ RecoverRestore \/ KeepClone \/ RecoveryReverts \/ RecoveryReverted \/ KeepOriginal

DriveStep == HolderStep \/ Booted \/ BootFails

StartStep ==
  \/ \E mode \in Modes : StartMaintenance(mode)
  \/ StartBackup \/ StartMigration \/ StartRestore
  \/ \E i \in 1..Len(ops), resolution \in Resolutions : StartRecovery(i, resolution)

RunStep == \E i \in 1..Len(ops), d \in Deploys : DeployLands(i, d) \/ RunEnds(i, d)

Next == \/ StartStep \/ Resume \/ Stop \/ Send \/ Acked \/ Adopt \/ DriveStep \/ RunStep
        \/ \E r \in sent : Land(r) \/ LandArm(r)
        \/ ClientWrite \/ Deploy

Spec == Init /\ [][Next]_vars

\* The maintenance pass comes again, the holder goes on while it holds the lease, requests arrive and
\* provider runs end.  Nothing makes a clone boot.
Fairness == /\ WF_vars(Resume) /\ WF_vars(Send \/ Acked \/ Adopt) /\ WF_vars(HolderStep)
            /\ WF_vars(\E r \in sent : Land(r))
            /\ WF_vars(\E i \in 1..Len(ops), d \in Deploys : RunEnds(i, d))
FairSpec == Spec /\ Fairness

----------------------------------------------------------------------------
(* Properties *)

Steps == {"reconcile", "restrict", "resume", "open", "backup", "verify", "deploy", "migrate",
          "list", "import", "promote", "point", "serve", "rewind", "check", "revert"}
Codes == ReopenedCodes \cup {"none", "deploy_failed", "migration_failed", "revert_failed", "resume_failed",
                             "recovered"}

OpRecords ==
  [kind : AllKinds, step : Steps, mode : Modes, generation : 1..MaxGeneration,
   state : {"running", "succeeded", "failed"}, code : Codes, recovers : 0..MaxOps,
   resolution : {"none", "open", "resume"}, original : Objects, clone : Objects, failure : Codes,
   bookmark : BOOLEAN, arms : 0..MaxArms, backup : {"running", "succeeded", "failed"},
   dump : 0..MaxWrites, runs : [Deploys -> Statuses]]

\* The type invariant.
TypeOK ==
  /\ ops \in Seq(OpRecords) /\ Len(ops) <= MaxOps /\ generation \in 0..MaxGeneration
  /\ serving \in Objects /\ listed \subseteq Objects /\ deployed \in Objects
  /\ obj \in [Objects -> [generation : 0..MaxGeneration, mode : Modes]]
  /\ data \in [Objects -> 0..MaxWrites] /\ total \in 0..MaxWrites /\ sentinel \subseteq 1..MaxOps
  /\ sent \subseteq [kind : {"state", "arm"}, object : Objects, mode : Modes,
                     generation : 1..MaxGeneration, op : 0..MaxOps]
  /\ drv.stack \in Seq(1..MaxOps) /\ stops \in 0..MaxStops

\* Every recovery takes up the newest operation, and none resumes a recovery.  It stays false once it is.
Straight ==
  \A i \in 1..Len(ops) : ops[i].kind = "recovery" =>
    ops[i].recovers = i - 1 /\ (ops[i].resolution = "resume" => ops[i - 1].kind # "recovery")

\* A write is accepted only by an object that holds every earlier one: whatever restore moved the
\* traffic, failed, was resumed or was opened past, no accepted write is left behind on another object.  It
\* does not hold once a recovery opens past an older restore (README, section 6).
NoWriteLost == [][Straight /\ total' # total => data[deployed] = total]_vars

\* Where the record says the environment is open, the object it names as serving is open and holds every
\* write: the next deploy sends the traffic there.  It does not hold once a recovery opens past an older
\* operation or resumes a recovery (README, section 6).
RecordedOpenServes ==
  Straight /\ RecordedMaintenance = "open" => obj[serving].mode = "open" /\ data[serving] = total

\* The holder never asks an object for a second mode under one generation, whatever it, its fence or its
\* predecessors published before: such a request is refused, and the operation fails with its objects as
\* they are.
OneModePerGeneration ==
  Publishes => ~(Request.generation = obj[Request.object].generation /\ Request.mode # obj[Request.object].mode)

\* A restore whose clone receives the traffic and has not answered that it booted.
AwaitsBoot(i) == i = Len(ops) /\ ops[i].state = "running" /\ ops[i].step = "serve" /\ ops[i].bookmark

\* An operation the maintenance pass owns ends, whichever of its steps fails and however often its holder
\* stops, as long as holders stop only finitely often and no person starts a recovery.  One wait may be endless:
\* a restore stays at serve for as long as its clone does not boot, and goes on to its end when it does.
OperationEnds ==
  \A i \in 1..MaxOps :
    (i = Len(ops) /\ ops[i].state = "running" /\ ops[i].kind \in {"restore", "migrate", "backup"})
      ~> (i # Len(ops) \/ ops[i].state # "running" \/ []AwaitsBoot(i))

\* Once the original is frozen for the pointer deploy it never serves again while the restore runs.  It does
\* not hold once a recovery of a recovery resumes the restore (README, section 6).
FrozenOriginal ==
  \A i \in 1..Len(ops) :
    ops[i].kind = "restore" /\ ops[i].state = "running" /\ ops[i].step \in {"point", "serve", "rewind", "check"}
      => obj[ops[i].original].mode # "open"
=============================================================================
