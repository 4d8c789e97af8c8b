------------------------- MODULE RunLifecycleProofs -------------------------
(***************************************************************************)
(* Proofs about RunLifecycle, for every number of runs, every set of       *)
(* permissions and every bound on registry writes, protection changes and  *)
(* losses.                                                                 *)
(*                                                                         *)
(* The properties are not inductive: whether a build may be under way, or  *)
(* a success is consistent, depends on what the row of the run recorded    *)
(* before the step that a crash may have cut off.  RowOK says what each    *)
(* row promises about its version and the environment whoever reads it,    *)
(* InvOK what the invocation may rely on at each of its steps, Shape how   *)
(* the invocation's own fields relate.                                     *)
(***************************************************************************)
EXTENDS RunLifecycle, TLAPS

\* The steps of a deploy before the provider's checkpoint is recorded.
Work == {"snapshot", "classify", "publish", "reserve", "record"}

\* What the row of run r promises to whoever takes the lease next.
RowOK(r) ==
  /\ status[r] \in {"absent", "pending", "awaiting_approval"} => checkpoint[r] = "none"
  /\ status[r] = "awaiting_approval"
       => snapshot[r] # Null /\ verdict[r] # Null /\ ~Approves(r, snapshot[r], verdict[r].baseline)
  /\ checkpoint[r] = "none" => version[r] \in {"none", "uploading"} /\ r \notin requested
  /\ checkpoint[r] = "reserved" => version[r] \in {"uploading", "deleted"} /\ r \notin requested
  /\ r \in requested => version[r] = "uploading"
  /\ checkpoint[r] # "none" => snapshot[r] # Null
  /\ status[r] = "running" /\ checkpoint[r] # "none" => env.publisher = r /\ env.published = snapshot[r]
  /\ (r \in requested \/ version[r] = "building") => status[r] = "running" \/ r \in old \/ r \in unread
  /\ r \in unread => checkpoint[r] = "triggered"
  /\ status[r] = "running" => ~NewerSucceeded(r)
RowsOK == \A r \in Runs : RowOK(r)

Shape ==
  /\ inv.pc # "idle" => inv.run \in Runs
  /\ inv.pc = "finish" => inv.outcome \in Terminal
  /\ inv.message \notin {None, inv.run} => inv.pc # "idle" /\ status[inv.message] = "pending"
  /\ inv.mode = "cancel" => inv.pc \in {"cancel", "schema", "finish"}

\* What the invocation relies on at each of its steps.
InvOK ==
  /\ inv.pc \in {"start", "restart", "supersede"} => status[inv.run] = "pending"
  /\ inv.pc \in Work => status[inv.run] = "running" /\ checkpoint[inv.run] = "none"
  /\ inv.pc \in Work \ {"snapshot"} => snapshot[inv.run] # Null
  /\ inv.pc = "publish" => ~NeedsApproval(inv.run)
  /\ inv.pc \in {"reserve", "record"} => env.publisher = inv.run /\ env.published = snapshot[inv.run]
  /\ inv.pc \in {"record", "trigger", "send"} => version[inv.run] = "uploading"
  /\ inv.pc = "send" => inv.run \notin requested /\ inv.run \notin unread
  /\ inv.pc = "trigger" => status[inv.run] = "running" /\ checkpoint[inv.run] = "reserved"
  /\ inv.pc \in {"send", "sent", "await", "schema"} => status[inv.run] = "running" /\ checkpoint[inv.run] = "triggered"
  /\ inv.pc = "settle" => status[inv.run] \in {"pending", "running"}
  /\ inv.pc \in {"cancel", "finish"} => status[inv.run] \in Active
  /\ inv.pc = "schema" => version[inv.run] = "active"
  /\ inv.pc = "finish" /\ (inv.run \in requested \/ version[inv.run] = "building")
       => inv.run \in old \/ inv.run \in unread
  /\ inv.pc = "finish" /\ inv.outcome = "succeeded"
       => /\ status[inv.run] = "running" /\ checkpoint[inv.run] = "triggered" /\ version[inv.run] = "active"
          /\ iam = snapshot[inv.run]

IndInv == TypeOK /\ Shape /\ AtMostOneRunning /\ RowsOK /\ InvOK

-----------------------------------------------------------------------------
(* What the ways an invocation goes on leave behind.                       *)

\* Nothing is owed for a released lease.
LEMMA IdleOK ==
  ASSUME inv' = NoInvocation
  PROVE  inv' \in Invocations /\ Shape' /\ InvOK'
<1>1. NoInvocation \in Invocations
  BY DEF NoInvocation, Invocations, Pcs, MaxPublicationAttempts
<1>2. inv'.pc = "idle" /\ inv'.mode = "none" /\ inv'.message = None /\ inv'.outcome = "none"
  BY DEF NoInvocation
<1>3. Shape'
  BY <1>2 DEF Shape
<1>4. InvOK'
  BY <1>2 DEF InvOK, Work
<1> QED BY <1>1, <1>3, <1>4

\* Conclude keeps the run, its message and the mode, and goes to the terminal write.
LEMMA ConcludeFields ==
  ASSUME TypeOK, NEW o \in Terminal, Conclude(o)
  PROVE  /\ inv' \in Invocations /\ inv'.pc = "finish" /\ inv'.outcome = o
         /\ inv'.run = inv.run /\ inv'.message = inv.message /\ inv'.mode = inv.mode
<1>1. inv' = [pc |-> "finish", mode |-> inv.mode, run |-> inv.run, message |-> inv.message,
              generation |-> 0, revision |-> 0, attempt |-> 0, outcome |-> o]
  BY DEF Conclude, NoInvocation
<1>2. inv' \in Invocations
  BY <1>1 DEF TypeOK, Invocations, Pcs, MaxPublicationAttempts
<1> QED BY <1>1, <1>2

\* An invocation may conclude when its run is unfinished and its build over or abandoned; a success needs
\* the run's version live and its schema in IAM.
LEMMA ConcludeOK ==
  ASSUME IndInv, NEW o \in Terminal, Conclude(o), inv.pc # "idle", status' = status,
         status[inv.run] \in Active,
         (inv.run \in requested' \/ version'[inv.run] = "building") => inv.run \in old' \/ inv.run \in unread',
         o = "succeeded" => /\ status[inv.run] = "running" /\ checkpoint'[inv.run] = "triggered"
                            /\ version'[inv.run] = "active" /\ iam' = snapshot'[inv.run]
  PROVE  inv' \in Invocations /\ Shape' /\ InvOK'
<1>1. TypeOK /\ Shape
  BY DEF IndInv
<1>2. /\ inv' \in Invocations /\ inv'.pc = "finish" /\ inv'.outcome = o
      /\ inv'.run = inv.run /\ inv'.message = inv.message /\ inv'.mode = inv.mode
  BY <1>1, ConcludeFields
<1>3. Shape'
  BY <1>1, <1>2 DEF Shape
<1>4. InvOK'
  BY <1>2 DEF InvOK, Work
<1> QED BY <1>2, <1>3, <1>4

\* Return releases the lease or goes on with the queued run, which is still pending.
LEMMA ReturnOK ==
  ASSUME IndInv, NEW settled \in BOOLEAN, Return(settled), inv.pc # "idle",
         inv.message \notin {None, inv.run} => status'[inv.message] = "pending"
  PROVE  inv' \in Invocations /\ Shape' /\ InvOK'
<1>1. CASE inv.message \in {None, inv.run}
  BY <1>1, IdleOK DEF Return
<1>2. CASE inv.message \notin {None, inv.run}
  <2>1. inv' = [pc |-> IF settled THEN "restart" ELSE "supersede", mode |-> "deploy", run |-> inv.message,
                message |-> inv.message, generation |-> 0, revision |-> 0, attempt |-> 0, outcome |-> "none"]
    BY <1>2 DEF Return, NoInvocation
  <2>2. inv.message \in Runs
    BY <1>2 DEF IndInv, TypeOK, Invocations
  <2>3. inv' \in Invocations
    BY <2>1, <2>2 DEF Invocations, Pcs, MaxPublicationAttempts
  <2>4. inv'.pc \in {"restart", "supersede"} /\ inv'.run = inv.message /\ inv'.message = inv.message
        /\ inv'.mode = "deploy"
    BY <2>1
  <2>5. Shape'
    BY <2>2, <2>4 DEF Shape
  <2>6. InvOK'
    BY <1>2, <2>4 DEF InvOK, Work
  <2> QED BY <2>3, <2>5, <2>6
<1> QED BY <1>1, <1>2

\* An invocation taken for a deploy, a settlement or a cancellation.
LEMMA InvokeFields ==
  ASSUME NEW pc \in {"start", "settle", "cancel"}, NEW mode \in {"deploy", "settle", "cancel"},
         NEW r \in Runs, NEW m \in {r, None}, Invoke(pc, mode, r, m)
  PROVE  /\ inv' \in Invocations /\ inv'.pc = pc /\ inv'.mode = mode
         /\ inv'.run = r /\ inv'.message = m
<1>1. inv' = [pc |-> pc, mode |-> mode, run |-> r, message |-> m,
              generation |-> 0, revision |-> 0, attempt |-> 0, outcome |-> "none"]
  BY DEF Invoke, NoInvocation
<1>2. inv' \in Invocations
  BY <1>1 DEF Invocations, Pcs, MaxPublicationAttempts
<1> QED BY <1>1, <1>2

\* It finds the run in a state its first step can start from.
LEMMA InvokeOK ==
  ASSUME NEW pc \in {"start", "settle", "cancel"}, NEW mode \in {"deploy", "settle", "cancel"},
         NEW r \in Runs, NEW m \in {r, None}, Invoke(pc, mode, r, m),
         mode = "cancel" => pc = "cancel",
         pc = "start" => status'[r] = "pending",
         pc = "settle" => status'[r] \in {"pending", "running"},
         pc = "cancel" => status'[r] \in Active
  PROVE  inv' \in Invocations /\ Shape' /\ InvOK'
<1>1. inv' \in Invocations /\ inv'.pc = pc /\ inv'.mode = mode /\ inv'.run = r /\ inv'.message = m
  BY InvokeFields
<1>2. Shape'
  BY <1>1 DEF Shape
<1>3. InvOK'
  BY <1>1 DEF InvOK, Work
<1> QED BY <1>1, <1>2, <1>3

\* A classification that was recorded is not an SQL NULL.
LEMMA VerdictNotNull ==
  ASSUME NEW b \in Snapshots, NEW p \in BOOLEAN
  PROVE  [baseline |-> b, protected |-> p] # Null
<1>1. [baseline |-> b, protected |-> p] \in Verdicts
  BY DEF Verdicts
<1> QED BY <1>1, NullAssumption

\* A step that changes no row, nor the environment or a version, keeps what the rows promise.
LEMMA RowFrame ==
  ASSUME IndInv, UNCHANGED <<status, snapshot, verdict, approval, checkpoint, env, version, requested, old, unread>>
  PROVE  AtMostOneRunning' /\ RowsOK'
BY DEF IndInv, AtMostOneRunning, RowsOK, RowOK, NewerSucceeded, Approves

-----------------------------------------------------------------------------
\* Taking a queued run, starting it, superseding it and deferring it keep the invariant (startRun, supersedeRun).
LEMMA StartSteps ==
  ASSUME IndInv, MarkRunStarted \/ StartBlocked \/ MarkRunSuperseded \/ DeferDeploy
  PROVE  IndInv'
<1>1. CASE MarkRunStarted
  <2>1. TypeOK'
    BY <1>1 DEF MarkRunStarted, Goto, SetStatus, providerVars, IndInv, TypeOK, Invocations, Pcs, Statuses,
      Active
  <2>2. Shape'
    BY <1>1 DEF MarkRunStarted, Goto, SetStatus, Shape, IndInv
  <2>3. InvOK'
    BY <1>1 DEF MarkRunStarted, Goto, SetStatus, Shape, IndInv, TypeOK, RowsOK, RowOK, InvOK
  <2>4. AtMostOneRunning'
    BY <1>1 DEF MarkRunStarted, SetStatus, Startable, AtMostOneRunning, OtherRunning
  <2>5. RowsOK'
    BY <1>1 DEF MarkRunStarted, SetStatus, Startable, providerVars, IndInv, RowsOK, RowOK, NewerSucceeded,
      Approves
  <2> QED BY <2>1, <2>2, <2>3, <2>4, <2>5 DEF IndInv
<1>2. CASE StartBlocked
  <2>1. inv' \in Invocations /\ Shape' /\ InvOK'
    <3>1. PICK b \in Runs \ {inv.run} :
            status[b] = "running" /\ inv' = [inv EXCEPT !.pc = "settle", !.mode = "settle", !.run = b]
      BY <1>2 DEF StartBlocked
    <3>2. /\ inv' \in Invocations /\ inv'.pc = "settle" /\ inv'.mode = "settle" /\ inv'.run = b
          /\ inv'.message = inv.message
      BY <3>1 DEF IndInv, TypeOK, Invocations, Pcs
    <3>3. inv.run \in Runs /\ status[inv.run] = "pending" /\ status' = status
      BY <1>2 DEF StartBlocked, At, IndInv, Shape, InvOK, rowVars
    <3>4. inv.message \notin {None, b} => status[inv.message] = "pending"
      BY <3>3 DEF IndInv, Shape
    <3>5. Shape'
      BY <3>1, <3>2, <3>3, <3>4 DEF Shape
    <3>6. InvOK'
      BY <3>1, <3>2, <3>3 DEF InvOK, Work
    <3> QED BY <3>2, <3>5, <3>6
  <2>2. TypeOK'
    BY <1>2, <2>1 DEF StartBlocked, rowVars, providerVars, IndInv, TypeOK
  <2>3. AtMostOneRunning' /\ RowsOK'
    BY <1>2, RowFrame DEF StartBlocked, rowVars, providerVars
  <2> QED BY <2>1, <2>2, <2>3 DEF IndInv
<1>3. CASE MarkRunSuperseded
  <2>1. inv' \in Invocations /\ Shape' /\ InvOK'
    <3>1. inv.run \in Runs /\ status[inv.run] = "pending"
      BY <1>3 DEF MarkRunSuperseded, StartRefused, At, IndInv, Shape, InvOK
    <3>2. CASE cancel[inv.run]
      <4>1. inv' = [inv EXCEPT !.pc = "cancel", !.mode = "cancel"] /\ status' = status
        BY <1>3, <3>2 DEF MarkRunSuperseded
      <4>2. inv' \in Invocations /\ inv'.pc = "cancel" /\ inv'.run = inv.run /\ inv'.message = inv.message
        BY <4>1 DEF IndInv, TypeOK, Invocations, Pcs
      <4>3. Shape'
        BY <3>1, <4>1, <4>2 DEF IndInv, Shape
      <4>4. InvOK'
        BY <3>1, <4>1, <4>2 DEF InvOK, Work, Active
      <4> QED BY <4>2, <4>3, <4>4
    <3>3. CASE ~cancel[inv.run]
      BY <1>3, <3>3, IdleOK DEF MarkRunSuperseded
    <3> QED BY <3>2, <3>3
  <2>2. TypeOK'
    BY <1>3, <2>1 DEF MarkRunSuperseded, SetStatus, providerVars, IndInv, TypeOK, Statuses, Terminal
  <2>3. AtMostOneRunning'
    BY <1>3 DEF MarkRunSuperseded, SetStatus, IndInv, TypeOK, AtMostOneRunning
  <2>4. RowsOK'
    BY <1>3 DEF MarkRunSuperseded, SetStatus, providerVars, IndInv, TypeOK, RowsOK, RowOK, NewerSucceeded,
      Approves
  <2> QED BY <2>1, <2>2, <2>3, <2>4 DEF IndInv
<1>4. CASE DeferDeploy
  <2>1. inv' \in Invocations /\ Shape' /\ InvOK'
    BY <1>4, IdleOK DEF DeferDeploy
  <2>2. TypeOK'
    BY <1>4, <2>1 DEF DeferDeploy, At, StartRefused, rowVars, providerVars, Shape, IndInv, TypeOK
  <2>3. AtMostOneRunning' /\ RowsOK'
    BY <1>4, RowFrame DEF DeferDeploy, rowVars, providerVars
  <2> QED BY <2>1, <2>2, <2>3 DEF IndInv
<1> QED BY <1>1, <1>2, <1>3, <1>4

\* So does publishing its access snapshot (approval/publish.ts).
LEMMA PublicationSteps ==
  ASSUME IndInv, RecordRunSnapshot \/ ParkRunForApproval \/ RecordRunClassification
         \/ PublishRunSnapshot \/ PublicationLost \/ FailDeploy
  PROVE  IndInv'
<1>1. CASE RecordRunSnapshot
  <2>1. TypeOK'
    BY <1>1 DEF RecordRunSnapshot, At, Goto, providerVars, Shape, IndInv, TypeOK, Invocations, Pcs
  <2>2. Shape'
    BY <1>1 DEF RecordRunSnapshot, At, Goto, Shape, IndInv
  <2>3. InvOK'
    <3>1. PICK s \in Snapshots : snapshot' = [snapshot EXCEPT ![inv.run] = s]
      BY <1>1 DEF RecordRunSnapshot
    <3>2. inv.run \in Runs /\ status[inv.run] = "running" /\ checkpoint[inv.run] = "none"
      BY <1>1 DEF RecordRunSnapshot, At, IndInv, Shape, InvOK, Work
    <3>3. snapshot'[inv.run] # Null
      BY <3>1, <3>2, NullAssumption DEF IndInv, TypeOK, Snapshots
    <3>4. inv'.pc = "classify" /\ inv'.run = inv.run /\ UNCHANGED <<status, checkpoint>>
      BY <1>1 DEF RecordRunSnapshot, Goto
    <3> QED BY <3>2, <3>3, <3>4 DEF InvOK, Work
  <2>4. AtMostOneRunning'
    BY <1>1 DEF RecordRunSnapshot, IndInv, AtMostOneRunning
  <2>5. RowsOK'
    BY <1>1 DEF RecordRunSnapshot, providerVars, IndInv, TypeOK, RowsOK, RowOK, NewerSucceeded, Approves
  <2> QED BY <2>1, <2>2, <2>3, <2>4, <2>5 DEF IndInv
<1>2. CASE ParkRunForApproval
  <2>1. inv' \in Invocations /\ Shape' /\ InvOK'
    BY <1>2, IdleOK DEF ParkRunForApproval
  <2>2. TypeOK'
    BY <1>2, <2>1 DEF ParkRunForApproval, SetStatus, RecordVerdict, providerVars, IndInv, TypeOK,
      Environments, Verdicts, Statuses, Active
  <2>3. AtMostOneRunning'
    BY <1>2 DEF ParkRunForApproval, SetStatus, IndInv, AtMostOneRunning
  <2>4. RowsOK'
    <3>1. /\ inv.run \in Runs /\ status[inv.run] = "running" /\ checkpoint[inv.run] = "none"
          /\ snapshot[inv.run] # Null /\ NeedsApproval(inv.run)
      BY <1>2 DEF ParkRunForApproval, At, IndInv, Shape, InvOK, Work
    <3>2. /\ status' = [status EXCEPT ![inv.run] = "awaiting_approval"]
          /\ verdict' = [verdict EXCEPT ![inv.run] = [baseline |-> env.published, protected |-> env.protected]]
          /\ UNCHANGED <<snapshot, approval, checkpoint, env, version, requested, old, unread>>
      BY <1>2 DEF ParkRunForApproval, SetStatus, RecordVerdict, providerVars
    <3>3. SUFFICES ASSUME NEW r \in Runs PROVE RowOK(r)'
      BY DEF RowsOK
    <3>4. RowOK(r) /\ RowOK(inv.run)
      BY <3>1 DEF IndInv, RowsOK
    <3>5. \A s \in Runs : status'[s] = "succeeded" => status[s] = "succeeded"
      BY <3>1, <3>2 DEF IndInv, TypeOK
    <3>6. CASE r = inv.run
      <4>1. verdict'[r] = [baseline |-> env.published, protected |-> env.protected]
        BY <3>1, <3>2, <3>6 DEF IndInv, TypeOK
      <4>2. env.published \in Snapshots /\ env.protected \in BOOLEAN
        BY DEF IndInv, TypeOK, Environments
      <4>3. verdict'[r] # Null /\ verdict'[r].baseline = env.published
        BY <4>1, <4>2, VerdictNotNull
      <4>4. ~(approval[r] = [candidate |-> snapshot[r], baseline |-> env.published])
        BY <3>1, <3>6 DEF NeedsApproval, Approves
      <4>5. status'[r] = "awaiting_approval"
        BY <3>1, <3>2, <3>6 DEF IndInv, TypeOK
      <4> QED BY <3>1, <3>2, <3>4, <3>6, <4>3, <4>4, <4>5 DEF RowOK, Approves
    <3>7. CASE r # inv.run
      <4>1. status'[r] = status[r] /\ verdict'[r] = verdict[r]
        BY <3>1, <3>2, <3>7 DEF IndInv, TypeOK
      <4> QED BY <3>2, <3>4, <3>5, <4>1 DEF RowOK, Approves, NewerSucceeded
    <3> QED BY <3>6, <3>7
  <2> QED BY <2>1, <2>2, <2>3, <2>4 DEF IndInv
<1>3. CASE RecordRunClassification
  <2>1. TypeOK'
    BY <1>3 DEF RecordRunClassification, RecordVerdict, providerVars, IndInv, TypeOK, Invocations,
      Environments, Verdicts, Pcs
  <2>2. Shape'
    BY <1>3 DEF RecordRunClassification, At, Shape, IndInv
  <2>3. InvOK'
    BY <1>3 DEF RecordRunClassification, At, IndInv, InvOK, Work, NeedsApproval, Approves
  <2>4. AtMostOneRunning'
    BY <1>3 DEF RecordRunClassification, IndInv, AtMostOneRunning
  <2>5. RowsOK'
    BY <1>3 DEF RecordRunClassification, At, RecordVerdict, providerVars, IndInv, TypeOK, RowsOK, RowOK,
      InvOK, Work, NewerSucceeded, Approves
  <2> QED BY <2>1, <2>2, <2>3, <2>4, <2>5 DEF IndInv
<1>4. CASE PublishRunSnapshot
  <2>1. TypeOK'
    <3>1. inv.run \in Runs /\ snapshot[inv.run] \in Snapshots /\ inv \in Invocations /\ env \in Environments
      BY <1>4 DEF PublishRunSnapshot, At, IndInv, Shape, InvOK, Work, TypeOK
    <3>2. inv' = [pc |-> "reserve", mode |-> inv.mode, run |-> inv.run, message |-> inv.message,
                  generation |-> 0, revision |-> 0, attempt |-> 0, outcome |-> inv.outcome]
      BY <1>4, <3>1 DEF PublishRunSnapshot, Invocations
    <3>3. inv' \in Invocations
      BY <3>1, <3>2 DEF Invocations, Pcs, MaxPublicationAttempts
    <3>4. env' = [published |-> snapshot[inv.run], publisher |-> inv.run, generation |-> env.generation + 1,
                  protected |-> env.protected, revision |-> env.revision]
      BY <1>4, <3>1 DEF PublishRunSnapshot, Environments
    <3>5. env' \in Environments
      BY <3>1, <3>4 DEF Environments
    <3> QED BY <1>4, <3>3, <3>5 DEF PublishRunSnapshot, IndInv, TypeOK, rowVars, providerVars
  <2>2. Shape'
    BY <1>4 DEF PublishRunSnapshot, At, rowVars, Shape, IndInv
  <2>3. InvOK'
    BY <1>4 DEF PublishRunSnapshot, At, rowVars, IndInv, InvOK, Work
  <2>4. AtMostOneRunning'
    BY <1>4 DEF PublishRunSnapshot, rowVars, IndInv, AtMostOneRunning
  <2>5. RowsOK'
    BY <1>4 DEF PublishRunSnapshot, At, rowVars, providerVars, Shape, IndInv, RowsOK, RowOK, InvOK, Work,
      NewerSucceeded, Approves, AtMostOneRunning
  <2> QED BY <2>1, <2>2, <2>3, <2>4, <2>5 DEF IndInv
<1>5. CASE PublicationLost
  <2>1. inv' \in Invocations /\ Shape' /\ InvOK'
    <3>1. /\ inv.pc = "publish" /\ inv.run \in Runs /\ status[inv.run] = "running" /\ checkpoint[inv.run] = "none"
          /\ snapshot[inv.run] # Null /\ inv.run \notin requested /\ version[inv.run] # "building"
      BY <1>5 DEF PublicationLost, At, IndInv, Shape, InvOK, Work, RowsOK, RowOK
    <3>2. UNCHANGED <<status, checkpoint, snapshot, version, requested, old, unread>>
      BY <1>5 DEF PublicationLost, rowVars, providerVars
    <3>3. CASE inv.attempt + 1 = MaxPublicationAttempts
      <4>1. Conclude("failed")
        BY <1>5, <3>3 DEF PublicationLost
      <4> QED BY <3>1, <3>2, <4>1, ConcludeOK DEF Terminal, Active
    <3>4. CASE inv.attempt + 1 # MaxPublicationAttempts
      <4>1. inv' = [inv EXCEPT !.pc = "classify", !.generation = 0, !.revision = 0, !.attempt = @ + 1]
        BY <1>5, <3>4 DEF PublicationLost
      <4>2. inv' = [pc |-> "classify", mode |-> inv.mode, run |-> inv.run, message |-> inv.message,
                    generation |-> 0, revision |-> 0, attempt |-> inv.attempt + 1, outcome |-> inv.outcome]
        BY <4>1 DEF IndInv, TypeOK, Invocations
      <4>3. inv.attempt \in 0..2 /\ inv.attempt + 1 \in 0..2
        BY <3>4 DEF IndInv, TypeOK, Invocations, MaxPublicationAttempts
      <4>4. inv' \in Invocations
        BY <4>2, <4>3 DEF IndInv, TypeOK, Invocations, Pcs, MaxPublicationAttempts
      <4>5. Shape'
        BY <3>1, <3>2, <4>2 DEF IndInv, Shape
      <4>6. InvOK'
        BY <3>1, <3>2, <4>2 DEF InvOK, Work
      <4> QED BY <4>4, <4>5, <4>6
    <3> QED BY <3>3, <3>4
  <2>2. TypeOK'
    BY <1>5, <2>1 DEF PublicationLost, rowVars, providerVars, IndInv, TypeOK
  <2>3. AtMostOneRunning' /\ RowsOK'
    BY <1>5, RowFrame DEF PublicationLost, rowVars, providerVars
  <2> QED BY <2>1, <2>2, <2>3 DEF IndInv
<1>6. CASE FailDeploy
  <2>1. inv' \in Invocations /\ Shape' /\ InvOK'
    BY <1>6, ConcludeOK DEF FailDeploy, rowVars, providerVars, IndInv, Shape, InvOK, Work, RowsOK, RowOK,
      Terminal, Active
  <2>2. TypeOK'
    BY <1>6, <2>1 DEF FailDeploy, rowVars, providerVars, IndInv, TypeOK
  <2>3. AtMostOneRunning' /\ RowsOK'
    BY <1>6, RowFrame DEF FailDeploy, Conclude, rowVars, providerVars
  <2> QED BY <2>1, <2>2, <2>3 DEF IndInv
<1> QED BY <1>1, <1>2, <1>3, <1>4, <1>5, <1>6

\* So do the provider steps up to the build request.
LEMMA TriggerSteps ==
  ASSUME IndInv, ReserveVersion \/ RecordInitialRunExternalId \/ UploadFailed \/ CheckpointTriggered
         \/ SendBuild \/ BuildAnswered \/ BuildRefused
  PROVE  IndInv'
<1>1. CASE ReserveVersion
  <2>1. TypeOK'
    BY <1>1 DEF ReserveVersion, Goto, rowVars, IndInv, TypeOK, Invocations, VersionStates, Pcs
  <2>2. Shape'
    BY <1>1 DEF ReserveVersion, At, Goto, rowVars, Shape, IndInv
  <2>3. InvOK'
    BY <1>1 DEF ReserveVersion, At, Goto, rowVars, Shape, IndInv, TypeOK, InvOK, Work
  <2>4. AtMostOneRunning'
    BY <1>1 DEF ReserveVersion, rowVars, IndInv, AtMostOneRunning
  <2>5. RowsOK'
    BY <1>1 DEF ReserveVersion, rowVars, IndInv, RowsOK, RowOK, NewerSucceeded, Approves
  <2> QED BY <2>1, <2>2, <2>3, <2>4, <2>5 DEF IndInv
<1>2. CASE RecordInitialRunExternalId
  <2>1. TypeOK'
    BY <1>2 DEF RecordInitialRunExternalId, Goto, providerVars, IndInv, TypeOK, Invocations, Pcs
  <2>2. Shape'
    BY <1>2 DEF RecordInitialRunExternalId, At, Goto, Shape, IndInv
  <2>3. InvOK'
    BY <1>2 DEF RecordInitialRunExternalId, At, Goto, providerVars, Shape, IndInv, TypeOK, InvOK, Work
  <2>4. AtMostOneRunning'
    BY <1>2 DEF RecordInitialRunExternalId, IndInv, AtMostOneRunning
  <2>5. RowsOK'
    BY <1>2 DEF RecordInitialRunExternalId, At, providerVars, IndInv, RowsOK, RowOK, InvOK, Work,
      NewerSucceeded, Approves
  <2> QED BY <2>1, <2>2, <2>3, <2>4, <2>5 DEF IndInv
<1>3. CASE UploadFailed
  <2>1. inv' \in Invocations /\ Shape' /\ InvOK'
    BY <1>3, ConcludeOK DEF UploadFailed, At, rowVars, IndInv, InvOK, RowsOK, RowOK, Terminal, Active,
      TypeOK
  <2>2. TypeOK'
    BY <1>3, <2>1 DEF UploadFailed, rowVars, IndInv, TypeOK, VersionStates
  <2>3. AtMostOneRunning'
    BY <1>3 DEF UploadFailed, rowVars, IndInv, AtMostOneRunning
  <2>4. RowsOK'
    BY <1>3 DEF UploadFailed, At, rowVars, IndInv, TypeOK, RowsOK, RowOK, InvOK, NewerSucceeded, Approves
  <2> QED BY <2>1, <2>2, <2>3, <2>4 DEF IndInv
<1>4. CASE CheckpointTriggered
  <2>1. TypeOK'
    BY <1>4 DEF CheckpointTriggered, Goto, providerVars, IndInv, TypeOK, Invocations, Pcs
  <2>2. Shape'
    BY <1>4 DEF CheckpointTriggered, At, Goto, Shape, IndInv
  <2>3. InvOK'
    BY <1>4 DEF CheckpointTriggered, At, Goto, providerVars, Shape, IndInv, TypeOK, RowsOK, RowOK, InvOK,
      Work
  <2>4. AtMostOneRunning'
    BY <1>4 DEF CheckpointTriggered, IndInv, AtMostOneRunning
  <2>5. RowsOK'
    BY <1>4 DEF CheckpointTriggered, At, providerVars, IndInv, RowsOK, RowOK, InvOK, NewerSucceeded,
      Approves
  <2> QED BY <2>1, <2>2, <2>3, <2>4, <2>5 DEF IndInv
<1>5. CASE SendBuild
  <2>1. TypeOK'
    BY <1>5 DEF SendBuild, At, Goto, rowVars, Shape, IndInv, TypeOK, Invocations, Pcs
  <2>2. Shape'
    BY <1>5 DEF SendBuild, At, Goto, rowVars, Shape, IndInv
  <2>3. InvOK'
    BY <1>5 DEF SendBuild, At, Goto, rowVars, IndInv, InvOK, Work
  <2>4. AtMostOneRunning'
    BY <1>5 DEF SendBuild, rowVars, IndInv, AtMostOneRunning
  <2>5. RowsOK'
    BY <1>5 DEF SendBuild, At, rowVars, IndInv, RowsOK, RowOK, InvOK, NewerSucceeded, Approves
  <2> QED BY <2>1, <2>2, <2>3, <2>4, <2>5 DEF IndInv
<1>6. CASE BuildAnswered
  <2>1. TypeOK'
    BY <1>6 DEF BuildAnswered, Goto, rowVars, providerVars, IndInv, TypeOK, Invocations, Pcs
  <2>2. Shape'
    BY <1>6 DEF BuildAnswered, At, Goto, rowVars, Shape, IndInv
  <2>3. InvOK'
    BY <1>6 DEF BuildAnswered, At, Goto, rowVars, IndInv, InvOK, Work
  <2>4. AtMostOneRunning' /\ RowsOK'
    BY <1>6, RowFrame DEF BuildAnswered, rowVars, providerVars
  <2> QED BY <2>1, <2>2, <2>3, <2>4 DEF IndInv
<1>7. CASE BuildRefused
  <2>1. inv' \in Invocations /\ Shape' /\ InvOK'
    BY <1>7, ConcludeOK DEF BuildRefused, At, rowVars, IndInv, InvOK, RowsOK, RowOK, Terminal, Active,
      TypeOK
  <2>2. TypeOK'
    BY <1>7, <2>1 DEF BuildRefused, rowVars, IndInv, TypeOK
  <2>3. AtMostOneRunning'
    BY <1>7 DEF BuildRefused, rowVars, IndInv, AtMostOneRunning
  <2>4. RowsOK'
    BY <1>7 DEF BuildRefused, rowVars, IndInv, RowsOK, RowOK, NewerSucceeded, Approves
  <2> QED BY <2>1, <2>2, <2>3, <2>4 DEF IndInv
<1> QED BY <1>1, <1>2, <1>3, <1>4, <1>5, <1>6, <1>7

\* So does settling a version, whoever polls it.
LEMMA SettleSteps ==
  ASSUME IndInv, VersionActive \/ VersionFailed \/ VersionAbandoned \/ VersionPending
         \/ DeleteReserved \/ SettleUnaccepted \/ ProviderUnavailable
  PROVE  IndInv'
<1>1. CASE VersionActive
  <2>1. TypeOK'
    BY <1>1 DEF VersionActive, Goto, rowVars, providerVars, IndInv, TypeOK, Invocations, Pcs
  <2>2. Shape'
    BY <1>1 DEF VersionActive, At, Goto, Polling, rowVars, Shape, IndInv
  <2>3. InvOK'
    BY <1>1 DEF VersionActive, At, Goto, Polling, rowVars, providerVars, Shape, IndInv, Active, RowsOK,
      RowOK, InvOK, Work
  <2>4. AtMostOneRunning' /\ RowsOK'
    BY <1>1, RowFrame DEF VersionActive, rowVars, providerVars
  <2> QED BY <2>1, <2>2, <2>3, <2>4 DEF IndInv
<1>2. CASE VersionFailed
  <2>1. inv' \in Invocations /\ Shape' /\ InvOK'
    BY <1>2, ConcludeOK DEF VersionFailed, At, Polling, rowVars, providerVars, IndInv, Shape, InvOK,
      RowsOK, RowOK, Terminal, Active
  <2>2. TypeOK'
    BY <1>2, <2>1 DEF VersionFailed, rowVars, providerVars, IndInv, TypeOK
  <2>3. AtMostOneRunning' /\ RowsOK'
    BY <1>2, RowFrame DEF VersionFailed, rowVars, providerVars
  <2> QED BY <2>1, <2>2, <2>3 DEF IndInv
<1>3. CASE VersionAbandoned
  <2>1. inv' \in Invocations /\ Shape' /\ InvOK'
    BY <1>3, ConcludeOK DEF VersionAbandoned, At, Polling, rowVars, IndInv, InvOK, Terminal, Active
  <2>2. TypeOK'
    BY <1>3, <2>1 DEF VersionAbandoned, CancelBuild, rowVars, IndInv, TypeOK, VersionStates
  <2>3. AtMostOneRunning'
    BY <1>3 DEF VersionAbandoned, rowVars, IndInv, AtMostOneRunning
  <2>4. RowsOK'
    BY <1>3 DEF VersionAbandoned, CancelBuild, rowVars, IndInv, TypeOK, RowsOK, RowOK, NewerSucceeded,
      Approves
  <2> QED BY <2>1, <2>2, <2>3, <2>4 DEF IndInv
<1>4. CASE VersionPending
  <2>1. inv' \in Invocations /\ Shape' /\ InvOK'
    BY <1>4, ReturnOK DEF VersionPending, Polling, rowVars, IndInv, Shape
  <2>2. TypeOK'
    BY <1>4, <2>1 DEF VersionPending, CancelBuild, rowVars, providerVars, IndInv, TypeOK, VersionStates
  <2>3. AtMostOneRunning'
    BY <1>4 DEF VersionPending, rowVars, IndInv, AtMostOneRunning
  <2>4. RowsOK'
    BY <1>4 DEF VersionPending, CancelBuild, rowVars, providerVars, IndInv, TypeOK, RowsOK, RowOK,
      NewerSucceeded, Approves
  <2> QED BY <2>1, <2>2, <2>3, <2>4 DEF IndInv
<1>5. CASE DeleteReserved
  <2>1. inv' \in Invocations /\ Shape' /\ InvOK'
    BY <1>5, ConcludeOK DEF DeleteReserved, rowVars, IndInv, Shape, InvOK, RowsOK, RowOK, Terminal, Active
  <2>2. TypeOK'
    BY <1>5, <2>1 DEF DeleteReserved, rowVars, IndInv, TypeOK, VersionStates
  <2>3. AtMostOneRunning'
    BY <1>5 DEF DeleteReserved, rowVars, IndInv, AtMostOneRunning
  <2>4. RowsOK'
    BY <1>5 DEF DeleteReserved, rowVars, IndInv, RowsOK, RowOK, NewerSucceeded, Approves
  <2> QED BY <2>1, <2>2, <2>3, <2>4 DEF IndInv
<1>6. CASE SettleUnaccepted
  <2>1. inv' \in Invocations /\ Shape' /\ InvOK'
    BY <1>6, ConcludeOK DEF SettleUnaccepted, rowVars, providerVars, IndInv, Shape, InvOK, RowsOK, RowOK,
      Terminal, Active
  <2>2. TypeOK'
    BY <1>6, <2>1 DEF SettleUnaccepted, rowVars, providerVars, IndInv, TypeOK
  <2>3. AtMostOneRunning' /\ RowsOK'
    BY <1>6, RowFrame DEF SettleUnaccepted, rowVars, providerVars
  <2> QED BY <2>1, <2>2, <2>3 DEF IndInv
<1>7. CASE ProviderUnavailable
  <2>1. inv' \in Invocations /\ Shape' /\ InvOK'
    BY <1>7, ReturnOK DEF ProviderUnavailable, rowVars, IndInv, Shape
  <2>2. TypeOK'
    BY <1>7, <2>1 DEF ProviderUnavailable, rowVars, providerVars, IndInv, TypeOK
  <2>3. AtMostOneRunning' /\ RowsOK'
    BY <1>7, RowFrame DEF ProviderUnavailable, rowVars, providerVars
  <2> QED BY <2>1, <2>2, <2>3 DEF IndInv
<1> QED BY <1>1, <1>2, <1>3, <1>4, <1>5, <1>6, <1>7

\* So do the schema write, the terminal writes and the turn to a cancellation.
LEMMA FinishSteps ==
  ASSUME IndInv, SchemaApplied \/ SchemaRefused \/ SchemaUnavailable
         \/ MarkRunFinished \/ MarkRunCancellationFinished \/ ObserveCancel
  PROVE  IndInv'
<1>1. CASE SchemaApplied
  <2>1. inv' \in Invocations /\ Shape' /\ InvOK'
    BY <1>1, ConcludeOK DEF SchemaApplied, At, rowVars, providerVars, IndInv, Shape, InvOK, RowsOK, RowOK,
      Terminal, Active
  <2>2. TypeOK'
    <3>1. inv.run \in Runs /\ checkpoint[inv.run] # "none"
      BY <1>1 DEF SchemaApplied, At, IndInv, Shape, InvOK
    <3>2. snapshot[inv.run] \in Snapshots /\ env.published \in Snapshots
      BY <3>1 DEF IndInv, TypeOK, RowsOK, RowOK, Environments
    <3>3. iam' \in Snapshots
      BY <1>1, <3>2 DEF SchemaApplied
    <3> QED BY <1>1, <2>1, <3>3 DEF SchemaApplied, rowVars, providerVars, IndInv, TypeOK
  <2>3. AtMostOneRunning' /\ RowsOK'
    BY <1>1, RowFrame DEF SchemaApplied, rowVars, providerVars
  <2> QED BY <2>1, <2>2, <2>3 DEF IndInv
<1>2. CASE SchemaRefused
  <2>1. inv' \in Invocations /\ Shape' /\ InvOK'
    BY <1>2, ConcludeOK DEF SchemaRefused, At, rowVars, providerVars, IndInv, InvOK, RowsOK, RowOK,
      Terminal, Active, TypeOK
  <2>2. TypeOK'
    BY <1>2, <2>1 DEF SchemaRefused, rowVars, providerVars, IndInv, TypeOK
  <2>3. AtMostOneRunning' /\ RowsOK'
    BY <1>2, RowFrame DEF SchemaRefused, rowVars, providerVars
  <2> QED BY <2>1, <2>2, <2>3 DEF IndInv
<1>3. CASE SchemaUnavailable
  <2>1. inv' \in Invocations /\ Shape' /\ InvOK'
    <3>1. inv.pc = "schema" /\ inv.run \in Runs /\ status[inv.run] = "running" /\ version[inv.run] = "active"
      BY <1>3 DEF SchemaUnavailable, At, IndInv, Shape, InvOK
    <3>2. inv.run \notin requested
      BY <3>1 DEF IndInv, RowsOK, RowOK
    <3>3. UNCHANGED <<status, version, requested, old, unread>>
      BY <1>3 DEF SchemaUnavailable, rowVars, providerVars
    <3>4. CASE inv.mode = "deploy"
      <4>1. Conclude("failed")
        BY <1>3, <3>4 DEF SchemaUnavailable
      <4> QED BY <3>1, <3>2, <3>3, <4>1, ConcludeOK DEF Terminal, Active
    <3>5. CASE inv.mode # "deploy"
      <4>1. Return(FALSE)
        BY <1>3, <3>5 DEF SchemaUnavailable
      <4>2. inv.message \notin {None, inv.run} => status'[inv.message] = "pending"
        BY <3>3 DEF IndInv, Shape
      <4> QED BY <3>1, <4>1, <4>2, ReturnOK
    <3> QED BY <3>4, <3>5
  <2>2. TypeOK'
    BY <1>3, <2>1 DEF SchemaUnavailable, rowVars, providerVars, IndInv, TypeOK
  <2>3. AtMostOneRunning' /\ RowsOK'
    BY <1>3, RowFrame DEF SchemaUnavailable, rowVars, providerVars
  <2> QED BY <2>1, <2>2, <2>3 DEF IndInv
<1>4. CASE MarkRunFinished
  <2>1. inv' \in Invocations /\ Shape' /\ InvOK'
    <3>1. Return(TRUE) /\ inv.pc = "finish" /\ inv.run \in Runs /\ status' = [status EXCEPT ![inv.run] = inv.outcome]
      BY <1>4 DEF MarkRunFinished, At, SetStatus, IndInv, Shape
    <3>2. inv.message \notin {None, inv.run} => status'[inv.message] = "pending"
      BY <3>1 DEF IndInv, Shape, TypeOK, Invocations
    <3> QED BY <3>1, <3>2, ReturnOK
  <2>2. TypeOK'
    BY <1>4, <2>1 DEF MarkRunFinished, At, SetStatus, providerVars, Shape, IndInv, TypeOK, Statuses
  <2>3. AtMostOneRunning'
    BY <1>4 DEF MarkRunFinished, At, SetStatus, Shape, IndInv, Terminal, AtMostOneRunning
  <2>4. RowsOK'
    BY <1>4 DEF MarkRunFinished, At, SetStatus, providerVars, Shape, IndInv, Terminal, RowsOK, RowOK,
      InvOK, NewerSucceeded, Approves, AtMostOneRunning
  <2> QED BY <2>1, <2>2, <2>3, <2>4 DEF IndInv
<1>5. CASE MarkRunCancellationFinished
  <2>1. inv' \in Invocations /\ Shape' /\ InvOK'
    <3>1. Return(TRUE) /\ inv.pc = "finish" /\ inv.run \in Runs /\ status' = [status EXCEPT ![inv.run] = inv.outcome]
      BY <1>5 DEF MarkRunCancellationFinished, At, SetStatus, IndInv, Shape
    <3>2. inv.message \notin {None, inv.run} => status'[inv.message] = "pending"
      BY <3>1 DEF IndInv, Shape, TypeOK, Invocations
    <3> QED BY <3>1, <3>2, ReturnOK
  <2>2. TypeOK'
    BY <1>5, <2>1 DEF MarkRunCancellationFinished, At, SetStatus, providerVars, Shape, IndInv, TypeOK,
      Statuses
  <2>3. AtMostOneRunning'
    BY <1>5 DEF MarkRunCancellationFinished, SetStatus, IndInv, TypeOK, Invocations, Terminal,
      AtMostOneRunning
  <2>4. RowsOK'
    BY <1>5 DEF MarkRunCancellationFinished, At, SetStatus, providerVars, Shape, IndInv, TypeOK, Terminal,
      RowsOK, RowOK, InvOK, NewerSucceeded, Approves, AtMostOneRunning
  <2> QED BY <2>1, <2>2, <2>3, <2>4 DEF IndInv
<1>6. CASE ObserveCancel
  <2>1. inv' \in Invocations /\ Shape' /\ InvOK'
    <3>1. inv' = [pc |-> "cancel", mode |-> "cancel", run |-> inv.run, message |-> inv.message,
                  generation |-> 0, revision |-> 0, attempt |-> 0, outcome |-> "none"]
      BY <1>6 DEF ObserveCancel, NoInvocation
    <3>2. inv' \in Invocations
      BY <3>1 DEF IndInv, TypeOK, Invocations, Pcs, MaxPublicationAttempts
    <3>3. inv.run \in Runs /\ inv.pc # "idle" /\ status[inv.run] \in Active /\ status' = status
      BY <1>6 DEF ObserveCancel, IndInv, Shape, InvOK, Work, Active, rowVars
    <3>4. Shape'
      BY <3>1, <3>3 DEF IndInv, Shape
    <3>5. InvOK'
      BY <3>1, <3>3 DEF InvOK, Work
    <3> QED BY <3>2, <3>4, <3>5
  <2>2. TypeOK'
    BY <1>6, <2>1 DEF ObserveCancel, rowVars, providerVars, IndInv, TypeOK
  <2>3. AtMostOneRunning' /\ RowsOK'
    BY <1>6, RowFrame DEF ObserveCancel, Permitted, rowVars, providerVars
  <2> QED BY <2>1, <2>2, <2>3 DEF IndInv
<1> QED BY <1>1, <1>2, <1>3, <1>4, <1>5, <1>6

\* So do the queue, the cron, the users, Zerops and time, for any run.
LEMMA RunSteps ==
  ASSUME IndInv, NEW r \in Runs, RunStep(r)
  PROVE  IndInv'
<1>1. CASE CreateRun(r)
  <2>1. TypeOK'
    BY <1>1 DEF CreateRun, SetStatus, providerVars, IndInv, TypeOK, Statuses, Active
  <2>2. Shape'
    BY <1>1 DEF CreateRun, SetStatus, Shape, IndInv
  <2>3. InvOK'
    BY <1>1 DEF CreateRun, SetStatus, providerVars, IndInv, Active, InvOK, NeedsApproval, Approves
  <2>4. AtMostOneRunning'
    BY <1>1 DEF CreateRun, SetStatus, IndInv, AtMostOneRunning
  <2>5. RowsOK'
    BY <1>1 DEF CreateRun, SetStatus, providerVars, IndInv, RowsOK, RowOK, NewerSucceeded, Approves
  <2> QED BY <2>1, <2>2, <2>3, <2>4, <2>5 DEF IndInv
<1>2. CASE ExecuteDeploy(r)
  <2>1. inv' \in Invocations /\ Shape' /\ InvOK'
    <3>1. status'[r] = "pending"
      BY <1>2 DEF ExecuteDeploy, rowVars
    <3>2. CASE cancel[r]
      BY <1>2, <3>1, <3>2, InvokeOK DEF ExecuteDeploy, Active
    <3>3. CASE ~cancel[r]
      BY <1>2, <3>1, <3>3, InvokeOK DEF ExecuteDeploy
    <3> QED BY <3>2, <3>3
  <2>2. TypeOK'
    BY <1>2, <2>1 DEF ExecuteDeploy, rowVars, providerVars, IndInv, TypeOK
  <2>3. AtMostOneRunning' /\ RowsOK'
    BY <1>2, RowFrame DEF ExecuteDeploy, rowVars, providerVars
  <2> QED BY <2>1, <2>2, <2>3 DEF IndInv
<1>3. CASE SkipMessage(r)
  <2>1. TypeOK'
    BY <1>3 DEF SkipMessage, rowVars, providerVars, IndInv, TypeOK
  <2>2. Shape'
    BY <1>3 DEF SkipMessage, rowVars, Shape, IndInv
  <2>3. InvOK'
    BY <1>3 DEF SkipMessage, rowVars, providerVars, IndInv, InvOK, NeedsApproval, Approves
  <2>4. AtMostOneRunning' /\ RowsOK'
    BY <1>3, RowFrame DEF SkipMessage, rowVars, providerVars
  <2> QED BY <2>1, <2>2, <2>3, <2>4 DEF IndInv
<1>4. CASE Reconcile(r)
  <2>1. inv' \in Invocations /\ Shape' /\ InvOK'
    BY <1>4, InvokeOK DEF Reconcile, rowVars
  <2>2. TypeOK'
    BY <1>4, <2>1 DEF Reconcile, rowVars, providerVars, IndInv, TypeOK
  <2>3. AtMostOneRunning' /\ RowsOK'
    BY <1>4, RowFrame DEF Reconcile, rowVars, providerVars
  <2> QED BY <2>1, <2>2, <2>3 DEF IndInv
<1>5. CASE SweepStaleRun(r)
  <2>1. TypeOK'
    BY <1>5 DEF SweepStaleRun, SetStatus, providerVars, IndInv, TypeOK, Statuses, Terminal
  <2>2. Shape'
    BY <1>5 DEF SweepStaleRun, Idle, Shape, IndInv
  <2>3. InvOK'
    BY <1>5 DEF SweepStaleRun, Idle, InvOK, Work
  <2>4. AtMostOneRunning'
    BY <1>5 DEF SweepStaleRun, SetStatus, IndInv, AtMostOneRunning
  <2>5. RowsOK'
    BY <1>5 DEF SweepStaleRun, SetStatus, providerVars, IndInv, RowsOK, RowOK, NewerSucceeded, Approves
  <2> QED BY <2>1, <2>2, <2>3, <2>4, <2>5 DEF IndInv
<1>6. CASE CancelDeploy(r)
  <2>1. inv' \in Invocations /\ Shape' /\ InvOK'
    <3>1. status'[r] \in Active
      BY <1>6 DEF CancelDeploy
    <3>2. CASE Idle
      BY <1>6, <3>1, <3>2, InvokeOK DEF CancelDeploy
    <3>3. CASE ~Idle
      <4>1. UNCHANGED <<inv, status, snapshot, approval, checkpoint, env, version, requested, iam, old, unread>>
        BY <1>6, <3>3 DEF CancelDeploy, providerVars
      <4> QED BY <4>1 DEF IndInv, TypeOK, Shape, InvOK, NeedsApproval, Approves
    <3> QED BY <3>2, <3>3
  <2>2. TypeOK'
    BY <1>6, <2>1 DEF CancelDeploy, providerVars, IndInv, TypeOK
  <2>3. AtMostOneRunning' /\ RowsOK'
    BY <1>6, RowFrame DEF CancelDeploy, Invoke, Idle, providerVars
  <2> QED BY <2>1, <2>2, <2>3 DEF IndInv
<1>7. CASE ApproveParkedRun(r)
  <2>1. TypeOK'
    <3>1. snapshot[r] \in Snapshots /\ verdict[r].baseline \in Snapshots
      BY <1>7 DEF ApproveParkedRun, IndInv, TypeOK, RowsOK, RowOK, Verdicts
    <3>2. [candidate |-> snapshot[r], baseline |-> verdict[r].baseline] \in Approvals
      BY <3>1 DEF Approvals
    <3> QED BY <1>7, <3>2 DEF ApproveParkedRun, SetStatus, IndInv, TypeOK, Statuses, Active, providerVars
  <2>2. Shape'
    BY <1>7 DEF ApproveParkedRun, SetStatus, Shape, IndInv
  <2>3. InvOK'
    BY <1>7 DEF ApproveParkedRun, Idle, InvOK, Work
  <2>4. AtMostOneRunning'
    BY <1>7 DEF ApproveParkedRun, SetStatus, IndInv, AtMostOneRunning
  <2>5. RowsOK'
    BY <1>7 DEF ApproveParkedRun, SetStatus, providerVars, IndInv, TypeOK, RowsOK, RowOK, NewerSucceeded,
      Approves
  <2> QED BY <2>1, <2>2, <2>3, <2>4, <2>5 DEF IndInv
<1>8. CASE RejectParkedRun(r)
  <2>1. TypeOK'
    BY <1>8 DEF RejectParkedRun, SetStatus, providerVars, IndInv, TypeOK, Statuses, Terminal
  <2>2. Shape'
    BY <1>8 DEF RejectParkedRun, SetStatus, Shape, IndInv
  <2>3. InvOK'
    BY <1>8 DEF RejectParkedRun, Idle, InvOK, Work
  <2>4. AtMostOneRunning'
    BY <1>8 DEF RejectParkedRun, SetStatus, IndInv, AtMostOneRunning
  <2>5. RowsOK'
    BY <1>8 DEF RejectParkedRun, SetStatus, providerVars, IndInv, TypeOK, RowsOK, RowOK, NewerSucceeded,
      Approves
  <2> QED BY <2>1, <2>2, <2>3, <2>4, <2>5 DEF IndInv
<1>9. CASE BuildLands(r)
  <2>1. TypeOK'
    BY <1>9 DEF BuildLands, rowVars, IndInv, TypeOK, VersionStates
  <2>2. Shape'
    BY <1>9 DEF BuildLands, rowVars, Shape, IndInv
  <2>3. InvOK'
    BY <1>9 DEF BuildLands, rowVars, IndInv, TypeOK, RowsOK, RowOK, InvOK, Work, NeedsApproval, Approves
  <2>4. AtMostOneRunning'
    BY <1>9 DEF BuildLands, rowVars, IndInv, AtMostOneRunning
  <2>5. RowsOK'
    BY <1>9 DEF BuildLands, rowVars, IndInv, RowsOK, RowOK, NewerSucceeded, Approves
  <2> QED BY <2>1, <2>2, <2>3, <2>4, <2>5 DEF IndInv
<1>10. CASE BuildLost(r)
  <2>1. TypeOK'
    BY <1>10 DEF BuildLost, rowVars, IndInv, TypeOK
  <2>2. Shape'
    BY <1>10 DEF BuildLost, rowVars, Shape, IndInv
  <2>3. InvOK'
    BY <1>10 DEF BuildLost, rowVars, IndInv, InvOK, NeedsApproval, Approves
  <2>4. AtMostOneRunning'
    BY <1>10 DEF BuildLost, rowVars, IndInv, AtMostOneRunning
  <2>5. RowsOK'
    BY <1>10 DEF BuildLost, rowVars, IndInv, RowsOK, RowOK, NewerSucceeded, Approves
  <2> QED BY <2>1, <2>2, <2>3, <2>4, <2>5 DEF IndInv
<1>11. CASE BuildEnds(r)
  <2>1. TypeOK'
    BY <1>11 DEF BuildEnds, rowVars, IndInv, TypeOK, VersionStates
  <2>2. Shape'
    BY <1>11 DEF BuildEnds, rowVars, Shape, IndInv
  <2>3. InvOK'
    BY <1>11 DEF BuildEnds, rowVars, IndInv, InvOK, NeedsApproval, Approves
  <2>4. AtMostOneRunning'
    BY <1>11 DEF BuildEnds, rowVars, IndInv, AtMostOneRunning
  <2>5. RowsOK'
    BY <1>11 DEF BuildEnds, rowVars, IndInv, RowsOK, RowOK, NewerSucceeded, Approves
  <2> QED BY <2>1, <2>2, <2>3, <2>4, <2>5 DEF IndInv
<1>12. CASE GrowOld(r)
  <2>1. TypeOK'
    BY <1>12 DEF GrowOld, rowVars, providerVars, IndInv, TypeOK
  <2>2. Shape'
    BY <1>12 DEF GrowOld, rowVars, Shape, IndInv
  <2>3. InvOK'
    BY <1>12 DEF GrowOld, rowVars, providerVars, IndInv, InvOK, NeedsApproval, Approves
  <2>4. AtMostOneRunning'
    BY <1>12 DEF GrowOld, rowVars, IndInv, AtMostOneRunning
  <2>5. RowsOK'
    BY <1>12 DEF GrowOld, rowVars, providerVars, IndInv, RowsOK, RowOK, NewerSucceeded, Approves
  <2> QED BY <2>1, <2>2, <2>3, <2>4, <2>5 DEF IndInv
<1>13. CASE LoseMessage(r)
  <2>1. TypeOK'
    BY <1>13 DEF LoseMessage, rowVars, providerVars, IndInv, TypeOK
  <2>2. Shape'
    BY <1>13 DEF LoseMessage, rowVars, Shape, IndInv
  <2>3. InvOK'
    BY <1>13 DEF LoseMessage, rowVars, providerVars, IndInv, InvOK, NeedsApproval, Approves
  <2>4. AtMostOneRunning' /\ RowsOK'
    BY <1>13, RowFrame DEF LoseMessage, rowVars, providerVars
  <2> QED BY <2>1, <2>2, <2>3, <2>4 DEF IndInv
<1> QED BY <1>1, <1>2, <1>3, <1>4, <1>5, <1>6, <1>7, <1>8, <1>9, <1>10, <1>11, <1>12, <1>13 DEF RunStep

\* So do protection changes, registry writes and the loss of an invocation.
LEMMA EnvSteps ==
  ASSUME IndInv, NEW value \in BOOLEAN, SetAppEnvProtected(value) \/ RegistryWrite
         \/ LoseInvocation
  PROVE  IndInv'
<1>1. CASE SetAppEnvProtected(value)
  <2>1. TypeOK'
    <3>1. env \in Environments
      BY DEF IndInv, TypeOK
    <3>2. env' = [published |-> env.published, publisher |-> env.publisher, generation |-> env.generation + 1,
                  protected |-> value, revision |-> env.revision + 1]
      BY <1>1, <3>1 DEF SetAppEnvProtected, Environments
    <3>3. env' \in Environments
      BY <3>1, <3>2 DEF Environments
    <3> QED BY <1>1, <3>3 DEF SetAppEnvProtected, IndInv, TypeOK, rowVars, providerVars
  <2>2. Shape'
    BY <1>1 DEF SetAppEnvProtected, Idle, Shape, IndInv
  <2>3. InvOK'
    BY <1>1 DEF SetAppEnvProtected, Idle, InvOK, Work
  <2>4. AtMostOneRunning'
    BY <1>1 DEF SetAppEnvProtected, rowVars, AtMostOneRunning
  <2>5. RowsOK'
    BY <1>1 DEF SetAppEnvProtected, rowVars, providerVars, IndInv, RowsOK, RowOK, Approves
  <2> QED BY <2>1, <2>2, <2>3, <2>4, <2>5 DEF IndInv
<1>2. CASE RegistryWrite
  <2>1. TypeOK'
    BY <1>2 DEF RegistryWrite, rowVars, providerVars, IndInv, TypeOK, Environments
  <2>2. Shape'
    BY <1>2 DEF RegistryWrite, rowVars, Shape, IndInv
  <2>3. InvOK'
    BY <1>2 DEF RegistryWrite, rowVars, providerVars, IndInv, InvOK, NeedsApproval, Approves
  <2>4. AtMostOneRunning'
    BY <1>2 DEF RegistryWrite, rowVars, IndInv, AtMostOneRunning
  <2>5. RowsOK'
    BY <1>2 DEF RegistryWrite, rowVars, providerVars, IndInv, RowsOK, RowOK, NewerSucceeded, Approves
  <2> QED BY <2>1, <2>2, <2>3, <2>4, <2>5 DEF IndInv
<1>3. CASE LoseInvocation
  <2>1. inv' \in Invocations /\ Shape' /\ InvOK'
    BY <1>3, IdleOK DEF LoseInvocation
  <2>2. TypeOK'
    <3>1. queue' \subseteq Runs
      <4>1. {inv.message} \ {None} \subseteq Runs
        BY DEF IndInv, TypeOK, Invocations
      <4> QED BY <1>3, <4>1 DEF LoseInvocation, IndInv, TypeOK
    <3> QED BY <1>3, <2>1, <3>1 DEF LoseInvocation, IndInv, TypeOK, rowVars, providerVars
  <2>3. AtMostOneRunning' /\ RowsOK'
    BY <1>3, RowFrame DEF LoseInvocation, Idle, rowVars, providerVars
  <2> QED BY <2>1, <2>2, <2>3 DEF IndInv
<1> QED BY <1>1, <1>2, <1>3

\* So do the failures after the triggered checkpoint, which leave the run's build alone.
LEMMA UnreadSteps ==
  ASSUME IndInv, CheckpointUnread \/ AwaitUnread
  PROVE  IndInv'
<1>1. CASE CheckpointUnread
  <2>1. /\ inv.pc = "send" /\ inv.run \in Runs /\ status[inv.run] = "running" /\ checkpoint[inv.run] = "triggered"
        /\ inv.run \notin requested /\ version[inv.run] = "uploading"
    BY <1>1 DEF CheckpointUnread, At, IndInv, Shape, InvOK
  <2>2. inv' \in Invocations /\ Shape' /\ InvOK'
    BY <1>1, <2>1, ConcludeOK DEF CheckpointUnread, rowVars, Terminal, Active
  <2>3. TypeOK'
    BY <1>1, <2>1, <2>2 DEF CheckpointUnread, rowVars, IndInv, TypeOK, VersionStates
  <2>4. AtMostOneRunning'
    BY <1>1 DEF CheckpointUnread, rowVars, IndInv, AtMostOneRunning
  <2>5. RowsOK'
    BY <1>1, <2>1 DEF CheckpointUnread, rowVars, IndInv, TypeOK, RowsOK, RowOK, NewerSucceeded, Approves
  <2> QED BY <2>2, <2>3, <2>4, <2>5 DEF IndInv
<1>2. CASE AwaitUnread
  <2>1. inv.pc = "await" /\ inv.run \in Runs /\ status[inv.run] = "running" /\ checkpoint[inv.run] = "triggered"
    BY <1>2 DEF AwaitUnread, At, IndInv, Shape, InvOK
  <2>2. inv' \in Invocations /\ Shape' /\ InvOK'
    BY <1>2, <2>1, ConcludeOK DEF AwaitUnread, rowVars, providerVars, Terminal, Active
  <2>3. TypeOK'
    BY <1>2, <2>1, <2>2 DEF AwaitUnread, rowVars, providerVars, IndInv, TypeOK
  <2>4. AtMostOneRunning'
    BY <1>2 DEF AwaitUnread, rowVars, IndInv, AtMostOneRunning
  <2>5. RowsOK'
    BY <1>2, <2>1 DEF AwaitUnread, rowVars, providerVars, IndInv, RowsOK, RowOK, NewerSucceeded, Approves
  <2> QED BY <2>2, <2>3, <2>4, <2>5 DEF IndInv
<1> QED BY <1>1, <1>2

-----------------------------------------------------------------------------
\* The invariant holds initially.
LEMMA InvInit == Init => IndInv
<1> SUFFICES ASSUME Init PROVE IndInv
  OBVIOUS
<1>1. TypeOK
  <2>1. env \in Environments
    BY RegisteredAssumption DEF Init, Environments, Snapshots
  <2>2. inv \in Invocations
    BY DEF Init, NoInvocation, Invocations, Pcs, MaxPublicationAttempts
  <2> QED BY <2>1, <2>2 DEF Init, TypeOK, Statuses, VersionStates, Snapshots
<1>2. Shape
  BY DEF Init, Shape, NoInvocation
<1>3. AtMostOneRunning
  BY DEF Init, AtMostOneRunning
<1>4. RowsOK
  BY DEF Init, RowsOK, RowOK
<1>5. InvOK
  BY DEF Init, InvOK, Work, NoInvocation
<1> QED BY <1>1, <1>2, <1>3, <1>4, <1>5 DEF IndInv

\* Every step keeps it.
LEMMA InvStep == IndInv /\ [Next]_vars => IndInv'
<1> SUFFICES ASSUME IndInv, [Next]_vars PROVE IndInv'
  OBVIOUS
<1>1. CASE InvocationStep
  BY <1>1, StartSteps, PublicationSteps, TriggerSteps, SettleSteps, FinishSteps DEF InvocationStep
<1>2. ASSUME NEW r \in Runs, RunStep(r) PROVE IndInv'
  BY <1>2, RunSteps
<1>3. ASSUME NEW value \in BOOLEAN, SetAppEnvProtected(value) PROVE IndInv'
  BY <1>3, EnvSteps
<1>4. CASE RegistryWrite \/ LoseInvocation
  BY <1>4, EnvSteps
<1>5. CASE CheckpointUnread \/ AwaitUnread
  BY <1>5, UnreadSteps
<1>6. CASE UNCHANGED vars
  BY <1>6 DEF vars, rowVars, providerVars, IndInv, TypeOK, Shape, AtMostOneRunning, RowsOK, RowOK, InvOK,
    NewerSucceeded, NeedsApproval, Approves
<1> QED BY <1>1, <1>2, <1>3, <1>4, <1>5, <1>6 DEF Next

\* Every reachable state of the environment's runs satisfies the invariant.
THEOREM Invariance == Spec => []IndInv
BY InvInit, InvStep, PTL DEF Spec

-----------------------------------------------------------------------------
(* The state properties follow from the invariant.                         *)

\* The rows, the invocation and the provider's state always have their types.
THEOREM TypeCorrect == Spec => []TypeOK
BY Invariance, PTL DEF IndInv

\* However invocations die and messages are redelivered, no two runs of the environment are running.
THEOREM OneRunning == Spec => []AtMostOneRunning
BY Invariance, PTL DEF IndInv

\* No run waits for an approval it already has.
THEOREM WaitingNotApproved == Spec => []WaitingRunNotApproved
<1>1. IndInv => WaitingRunNotApproved
  BY DEF IndInv, RowsOK, RowOK, WaitingRunNotApproved
<1> QED BY <1>1, Invariance, PTL

\* Two builds are under way together only if the run of one gave it up: at its deadline, or on a failed read.
THEOREM BuildsDoNotCompete == Spec => []NoCompetingBuilds
<1>1. IndInv => NoCompetingBuilds
  BY DEF IndInv, RowsOK, RowOK, NoCompetingBuilds, BuildsUnderWay, GivenUp
<1> QED BY <1>1, Invariance, PTL

\* Once a newer run succeeded no older one is running, nor builds unless it gave its build up.
THEOREM OlderNeverDeploys == Spec => []OlderNeverDeploysOverNewer
<1>1. IndInv => OlderNeverDeploysOverNewer
  BY DEF IndInv, RowsOK, RowOK, OlderNeverDeploysOverNewer, BuildsUnderWay, GivenUp
<1> QED BY <1>1, Invariance, PTL

-----------------------------------------------------------------------------
(* The action properties: which steps write a field, and what the          *)
(* invariant says when they do.                                            *)

\* The steps that may change a run's status.
LEMMA StatusWriters ==
  ASSUME [Next]_vars
  PROVE  \/ UNCHANGED status \/ MarkRunStarted \/ MarkRunSuperseded \/ ParkRunForApproval \/ MarkRunFinished \/ MarkRunCancellationFinished
         \/ \E r \in Runs : CreateRun(r) \/ SweepStaleRun(r) \/ ApproveParkedRun(r) \/ RejectParkedRun(r)
<1>1. CASE InvocationStep
  BY <1>1 DEF InvocationStep, StartBlocked, DeferDeploy, RecordRunSnapshot, RecordRunClassification,
    PublishRunSnapshot, PublicationLost, FailDeploy, ReserveVersion, RecordInitialRunExternalId,
    UploadFailed, CheckpointTriggered, SendBuild, BuildAnswered, BuildRefused, VersionActive,
    VersionFailed, VersionAbandoned, VersionPending, DeleteReserved, SettleUnaccepted,
    ProviderUnavailable, SchemaApplied, SchemaRefused, SchemaUnavailable, ObserveCancel, rowVars
<1>2. CASE \E r \in Runs : RunStep(r)
  BY <1>2 DEF RunStep, ExecuteDeploy, SkipMessage, Reconcile, CancelDeploy, BuildLands, BuildLost,
    BuildEnds, GrowOld, LoseMessage, rowVars
<1>3. CASE \/ \E value \in BOOLEAN : SetAppEnvProtected(value)
           \/ RegistryWrite \/ LoseInvocation \/ CheckpointUnread \/ AwaitUnread \/ UNCHANGED vars
  BY <1>3 DEF SetAppEnvProtected, RegistryWrite, LoseInvocation, CheckpointUnread, AwaitUnread, rowVars, vars
<1> QED BY <1>1, <1>2, <1>3 DEF Next

\* The steps that may change a version.
LEMMA VersionWriters ==
  ASSUME [Next]_vars
  PROVE  \/ UNCHANGED version \/ ReserveVersion \/ UploadFailed \/ CheckpointUnread \/ VersionAbandoned \/ VersionPending \/ DeleteReserved
         \/ \E r \in Runs : BuildLands(r) \/ BuildEnds(r)
<1>1. CASE InvocationStep
  BY <1>1 DEF InvocationStep, MarkRunStarted, StartBlocked, MarkRunSuperseded, DeferDeploy,
    RecordRunSnapshot, ParkRunForApproval, RecordRunClassification, PublishRunSnapshot, PublicationLost,
    FailDeploy, RecordInitialRunExternalId, CheckpointTriggered, SendBuild, BuildAnswered, BuildRefused,
    VersionActive, VersionFailed, SettleUnaccepted, ProviderUnavailable, SchemaApplied, SchemaRefused,
    SchemaUnavailable, MarkRunFinished, MarkRunCancellationFinished, ObserveCancel, providerVars
<1>2. CASE \E r \in Runs : RunStep(r)
  BY <1>2 DEF RunStep, CreateRun, ExecuteDeploy, SkipMessage, Reconcile, SweepStaleRun, CancelDeploy,
    ApproveParkedRun, RejectParkedRun, BuildLost, GrowOld, LoseMessage, providerVars
<1>3. CASE \/ \E value \in BOOLEAN : SetAppEnvProtected(value)
           \/ RegistryWrite \/ LoseInvocation \/ CheckpointUnread \/ AwaitUnread \/ UNCHANGED vars
  BY <1>3 DEF SetAppEnvProtected, RegistryWrite, LoseInvocation, AwaitUnread, providerVars, vars
<1> QED BY <1>1, <1>2, <1>3 DEF Next

\* The steps that may change the environment's row.
LEMMA EnvWriters ==
  ASSUME [Next]_vars
  PROVE  \/ UNCHANGED env \/ PublishRunSnapshot
         \/ \E value \in BOOLEAN : SetAppEnvProtected(value)
         \/ RegistryWrite
<1>1. CASE InvocationStep
  BY <1>1 DEF InvocationStep, MarkRunStarted, StartBlocked, MarkRunSuperseded, DeferDeploy,
    RecordRunSnapshot, ParkRunForApproval, RecordRunClassification, PublicationLost, FailDeploy,
    ReserveVersion, RecordInitialRunExternalId, UploadFailed, CheckpointTriggered, SendBuild,
    BuildAnswered, BuildRefused, VersionActive, VersionFailed, VersionAbandoned, VersionPending,
    DeleteReserved, SettleUnaccepted, ProviderUnavailable, SchemaApplied, SchemaRefused,
    SchemaUnavailable, MarkRunFinished, MarkRunCancellationFinished, ObserveCancel
<1>2. CASE \E r \in Runs : RunStep(r)
  BY <1>2 DEF RunStep, CreateRun, ExecuteDeploy, SkipMessage, Reconcile, SweepStaleRun, CancelDeploy,
    ApproveParkedRun, RejectParkedRun, BuildLands, BuildLost, BuildEnds, GrowOld, LoseMessage
<1>3. CASE \/ \E value \in BOOLEAN : SetAppEnvProtected(value)
           \/ RegistryWrite \/ LoseInvocation \/ CheckpointUnread \/ AwaitUnread \/ UNCHANGED vars
  BY <1>3 DEF LoseInvocation, CheckpointUnread, AwaitUnread, vars
<1> QED BY <1>1, <1>2, <1>3 DEF Next

\* The published access of a protected environment grows only by a change approved against exactly what is
\* in force when publishRunSnapshot's compare-and-swap succeeds.
THEOREM NoUnapprovedWideningEver == Spec => NoUnapprovedWidening
<1> DEFINE Step == env.protected /\ Widens(env'.published, env.published)
                     => approval[env'.publisher] = [candidate |-> env'.published, baseline |-> env.published]
<1>1. ASSUME IndInv, [Next]_vars PROVE Step
  <2>1. env.published \in Snapshots /\ env \in Environments
    BY <1>1 DEF IndInv, TypeOK, Environments
  <2>2. CASE env'.published = env.published
    BY <2>2 DEF Widens
  <2>3. CASE PublishRunSnapshot
    <3>1. env'.published = snapshot[inv.run] /\ env'.publisher = inv.run
      BY <2>1, <2>3 DEF PublishRunSnapshot, Environments
    <3>2. ~NeedsApproval(inv.run)
      BY <1>1, <2>3 DEF PublishRunSnapshot, At, IndInv, InvOK
    <3> QED BY <3>1, <3>2 DEF NeedsApproval, Approves
  <2>4. CASE (\E value \in BOOLEAN : SetAppEnvProtected(value)) \/ RegistryWrite
    <3>1. env'.published = env.published
      BY <2>1, <2>4 DEF SetAppEnvProtected, RegistryWrite, Environments
    <3> QED BY <2>2, <3>1
  <2> QED BY <1>1, <2>2, <2>3, <2>4, EnvWriters
<1>2. [Next]_vars /\ IndInv => [Step]_vars
  BY <1>1
<1> QED BY <1>2, Invariance, PTL DEF Spec, NoUnapprovedWidening

\* A version whose build was requested is never deleted: the deletions find the checkpoint reserved, and a
\* reserved run has no request on its way, or follow the failed read that kept the request from being sent.
THEOREM SubmittedNeverDeletedEver == Spec => SubmittedNeverDeleted
<1> DEFINE Step == \A r \in Runs : version[r] # "deleted" /\ version'[r] = "deleted"
                                     => r \notin requested /\ (checkpoint[r] # "triggered" \/ r \in unread' \ unread)
<1>1. ASSUME IndInv, [Next]_vars PROVE Step
  <2> SUFFICES ASSUME NEW r \in Runs, version[r] # "deleted", version'[r] = "deleted"
               PROVE  r \notin requested /\ (checkpoint[r] # "triggered" \/ r \in unread' \ unread)
    OBVIOUS
  <2>1. version \in [Runs -> VersionStates] /\ RowOK(r)
    BY <1>1 DEF IndInv, TypeOK, RowsOK
  <2>2. CASE UploadFailed \/ DeleteReserved
    <3>1. r = inv.run /\ checkpoint[inv.run] = "reserved"
      BY <1>1, <2>1, <2>2 DEF UploadFailed, DeleteReserved, At, IndInv, InvOK
    <3> QED BY <2>1, <3>1 DEF RowOK
  <2>3. CASE CheckpointUnread
    <3>1. r = inv.run /\ r \notin requested /\ r \notin unread
      BY <1>1, <2>1, <2>3 DEF CheckpointUnread, At, IndInv, InvOK
    <3> QED BY <2>3, <3>1 DEF CheckpointUnread
  <2>4. ~(ReserveVersion \/ VersionAbandoned \/ VersionPending)
    BY <2>1 DEF ReserveVersion, VersionAbandoned, VersionPending, CancelBuild, providerVars
  <2>5. \A s \in Runs : ~(BuildLands(s) \/ BuildEnds(s))
    BY <2>1 DEF BuildLands, BuildEnds
  <2> QED BY <1>1, <2>2, <2>3, <2>4, <2>5, VersionWriters
<1>2. [Next]_vars /\ IndInv => [Step]_vars
  BY <1>1
<1> QED BY <1>2, Invariance, PTL DEF Spec, SubmittedNeverDeleted

\* A version goes live only while its run is running, or after its run gave it up.
THEOREM ActivatesBeforeSettledEver == Spec => ActivatesBeforeSettled
<1> DEFINE Step == \A r \in Runs : version[r] # "active" /\ version'[r] = "active"
                                     => status[r] = "running" \/ r \in GivenUp
<1>1. ASSUME IndInv, [Next]_vars PROVE Step
  <2> SUFFICES ASSUME NEW r \in Runs, version[r] # "active", version'[r] = "active"
               PROVE  status[r] = "running" \/ r \in GivenUp
    OBVIOUS
  <2>1. version \in [Runs -> VersionStates] /\ RowOK(r)
    BY <1>1 DEF IndInv, TypeOK, RowsOK
  <2>2. ASSUME NEW s \in Runs, BuildEnds(s) PROVE version[r] = "building"
    BY <2>1, <2>2 DEF BuildEnds
  <2>3. ~(ReserveVersion \/ UploadFailed \/ CheckpointUnread \/ DeleteReserved \/ VersionAbandoned \/ VersionPending)
    BY <2>1 DEF ReserveVersion, UploadFailed, CheckpointUnread, DeleteReserved, VersionAbandoned, VersionPending,
      CancelBuild, providerVars
  <2>4. \A s \in Runs : ~BuildLands(s)
    BY <2>1 DEF BuildLands
  <2>5. version[r] = "building"
    BY <1>1, <2>2, <2>3, <2>4, VersionWriters
  <2> QED BY <2>1, <2>5 DEF RowOK, GivenUp
<1>2. [Next]_vars /\ IndInv => [Step]_vars
  BY <1>1
<1> QED BY <1>2, Invariance, PTL DEF Spec, ActivatesBeforeSettled

\* A run succeeds only with its own version live, its own snapshot published and its schema in IAM, whoever
\* writes the success.
THEOREM SuccessIsConsistentEver == Spec => SuccessIsConsistent
<1> DEFINE Step == \A r \in Runs : status[r] # "succeeded" /\ status'[r] = "succeeded"
                     => /\ version[r] = "active"
                        /\ env.publisher = r /\ env.published = snapshot[r]
                        /\ iam = snapshot[r]
<1>1. ASSUME IndInv, [Next]_vars PROVE Step
  <2> SUFFICES ASSUME NEW r \in Runs, status[r] # "succeeded", status'[r] = "succeeded"
               PROVE  /\ version[r] = "active"
                      /\ env.publisher = r /\ env.published = snapshot[r]
                      /\ iam = snapshot[r]
    OBVIOUS
  <2>1. status \in [Runs -> Statuses] /\ RowOK(r)
    BY <1>1 DEF IndInv, TypeOK, RowsOK
  <2>2. CASE MarkRunFinished \/ MarkRunCancellationFinished
    <3>1. r = inv.run /\ inv.pc = "finish" /\ inv.outcome = "succeeded"
      BY <2>1, <2>2 DEF MarkRunFinished, MarkRunCancellationFinished, At, SetStatus
    <3> QED BY <1>1, <2>1, <3>1 DEF IndInv, InvOK, RowOK
  <2>3. ~(MarkRunStarted \/ MarkRunSuperseded \/ ParkRunForApproval)
    BY <2>1 DEF MarkRunStarted, MarkRunSuperseded, ParkRunForApproval, SetStatus
  <2>4. \A s \in Runs : ~(CreateRun(s) \/ SweepStaleRun(s) \/ ApproveParkedRun(s) \/ RejectParkedRun(s))
    BY <2>1 DEF CreateRun, SweepStaleRun, ApproveParkedRun, RejectParkedRun, SetStatus
  <2> QED BY <1>1, <2>2, <2>3, <2>4, StatusWriters
<1>2. [Next]_vars /\ IndInv => [Step]_vars
  BY <1>1
<1> QED BY <1>2, Invariance, PTL DEF Spec, SuccessIsConsistent

\* Once its cancellation is recorded a run is not started and publishes nothing any more.
THEOREM CancelFreezesEver == Spec => CancelFreezes
<1> DEFINE Step == \A r \in Runs : cancel[r] =>
                     /\ status'[r] = "running" => status[r] = "running"
                     /\ env'.publisher = r => env.publisher = r
<1>1. ASSUME IndInv, [Next]_vars PROVE Step
  <2> SUFFICES ASSUME NEW r \in Runs, cancel[r]
               PROVE  /\ status'[r] = "running" => status[r] = "running"
                      /\ env'.publisher = r => env.publisher = r
    OBVIOUS
  <2>1. status \in [Runs -> Statuses] /\ env \in Environments /\ Shape
    BY <1>1 DEF IndInv, TypeOK
  <2>2. ASSUME status'[r] = "running", status[r] # "running" PROVE FALSE
    <3>1. ~MarkRunStarted
      BY <2>1, <2>2 DEF MarkRunStarted, Startable, SetStatus
    <3>2. ~(MarkRunFinished \/ MarkRunCancellationFinished)
      BY <2>1, <2>2 DEF MarkRunFinished, MarkRunCancellationFinished, At, SetStatus, Shape, Terminal
    <3>3. ~(MarkRunSuperseded \/ ParkRunForApproval)
      BY <2>1, <2>2 DEF MarkRunSuperseded, ParkRunForApproval, SetStatus
    <3>4. \A s \in Runs : ~(CreateRun(s) \/ SweepStaleRun(s) \/ ApproveParkedRun(s) \/ RejectParkedRun(s))
      BY <2>1, <2>2 DEF CreateRun, SweepStaleRun, ApproveParkedRun, RejectParkedRun, SetStatus
    <3> QED BY <1>1, <2>2, <3>1, <3>2, <3>3, <3>4, StatusWriters
  <2>3. ASSUME env'.publisher = r PROVE env.publisher = r
    <3>1. ~PublishRunSnapshot
      BY <2>1, <2>3 DEF PublishRunSnapshot, Publishable, Environments
    <3>2. CASE (\E value \in BOOLEAN : SetAppEnvProtected(value)) \/ RegistryWrite
      BY <2>1, <2>3, <3>2 DEF SetAppEnvProtected, RegistryWrite, Environments
    <3> QED BY <1>1, <2>3, <3>1, <3>2, EnvWriters
  <2> QED BY <2>2, <2>3
<1>2. [Next]_vars /\ IndInv => [Step]_vars
  BY <1>1
<1> QED BY <1>2, Invariance, PTL DEF Spec, CancelFreezes
=============================================================================
