---------------------- MODULE CatalogProjectionProofs ----------------------
(***************************************************************************)
(* The catalog projection for any tasks, environments, pass limits and     *)
(* faults, a restore of Control's database included.                       *)
(*                                                                         *)
(* The cursor of Operations only rises, and takes one content per          *)
(* revision; so what it confirmed once stays behind it (Delivered).  A     *)
(* snapshot is read after its revision, so one of the desired revision     *)
(* shows every change that was marked (UpToDesired).  A credential is      *)
(* stored before the answer leaves (Accepted), and ids are never reused.   *)
(***************************************************************************)
EXTENDS CatalogProjection, TLAPS

\* What Operations confirmed to a task, and the requests whose snapshot the cursor took.
Confirmed == {t \in Tasks : task[t].pc = "answered" /\ task[t].outcome = "ok"}
Taken == {r \in requests : r.stage = "reconciled"}

\* A revision with its content lies behind the cursor of Operations.
Behind(revision, content) ==
  revision <= cursor.revision /\ (revision = cursor.revision => content = cursor.content)

\* Only sources of the snapshot are left to write or accept, and were written.
Remaining == \A r \in requests : /\ r.left \subseteq Present(r.content) /\ r.written \subseteq Present(r.content)
                                 /\ r.stage = "sent" => r.below

\* While batches never overlapped, the sources are the cursor's, and the open batch is above the cursor, has
\* seen every enabled source and skips none of its own.
Alone ==
  ~overlapped =>
    /\ sources = Shown(cursor.content)
    /\ \A q, r \in Open : q = r
    /\ \A r \in Open : /\ r.revision > cursor.revision /\ r.below /\ r.seen = Present(sources)
                       /\ r.stage = "batch" => Present(r.content) \subseteq r.written \cup r.left

Delivered ==
  /\ Behind(applied, appliedContent) /\ Behind(saved.applied, saved.appliedContent)
  /\ \A r \in Taken : Behind(r.revision, r.content)
  /\ \A t \in Confirmed : Behind(task[t].revision, task[t].content)

\* A snapshot of the desired revision has nothing outdated once every change is marked.
UpTo(revision, content) ==
  /\ revision <= desired
  /\ revision = desired /\ unmarked = 0 => \A e \in Envs : content[e] \in {Absent, Snapshot[e]}

UpToDesired ==
  ~lostMark => /\ UpTo(cursor.revision, cursor.content)
               /\ \A r \in requests : UpTo(r.revision, r.content)
               /\ \A t \in Tasks : UpTo(task[t].revision, task[t].content)

\* The credentials of a snapshot are stored, except for the sources still left.
StoredBut(content, left) == \A e \in Present(content) \ left : Pair(content, e) \in known

Accepted ==
  /\ \A p \in known : p[2] # 0
  /\ \A r \in Taken : StoredBut(r.content, r.left)
  /\ \A t \in Confirmed : StoredBut(task[t].content, {})
  /\ \A e \in saved.active : <<e, saved.credential[e]>> \in known

IInv == TypeOK /\ Remaining /\ Alone /\ Delivered /\ UpToDesired /\ Accepted /\ ActiveDsnStored

----------------------------------------------------------------------------
(* Types *)

TaskStates == [pc : Pcs, revision : Nat, content : Contents, outcome : Outcomes,
               remote : Nat, passes : Nat, handoffs : Nat]

\* The fixed values have their types.
LEMMA Values ==
  /\ Nothing \in Contents /\ \A e \in Envs : Nothing[e] = Absent
  /\ Idle \in TaskStates /\ Idle.pc = "idle" /\ Idle.revision = 0 /\ Idle.content = Nothing
BY DEF Nothing, Contents, Idle, TaskStates, Pcs, Outcomes

\* A snapshot has an entry for each environment.
LEMMA SnapshotShape ==
  ASSUME TypeOK
  PROVE  Snapshot \in Contents
BY DEF TypeOK, Snapshot, Contents, Entries

\* The entry of a present source.
LEMMA EntryShape ==
  ASSUME NEW content \in Contents, NEW e \in Present(content)
  PROVE  e \in Envs /\ content[e] \in Entries /\ content[e].credential \in Nat \ {0}
BY DEF Contents, Present, Entries

\* What an answer does to the tasks: one that still waits for the request gets the outcome.
LEMMA RespondShape ==
  ASSUME TypeOK, NEW r \in requests, NEW outcome \in Outcomes, NEW remote \in Nat,
         Respond(r, outcome, remote)
  PROVE  /\ task' \in [Tasks -> TaskStates]
         /\ \A t \in Tasks : \/ task'[t] = task[t]
                             \/ /\ task'[t].revision = r.revision /\ task'[t].content = r.content
                                /\ task'[t].pc = "answered" /\ task'[t].outcome = outcome
                                /\ task[t].revision = r.revision /\ task[t].content = r.content
<1>1. task \in [Tasks -> TaskStates] /\ r.by \in Tasks
  BY DEF TypeOK, TaskStates, Requests
<1>2. CASE task' = task
  BY <1>1, <1>2
<1>3. CASE task' # task
  <2>1. /\ task[r.by].revision = r.revision /\ task[r.by].content = r.content
        /\ task' = [task EXCEPT ![r.by].pc = "answered", ![r.by].outcome = outcome,
                                ![r.by].remote = remote]
    BY <1>3 DEF Respond
  <2>2. "answered" \in Pcs
    BY DEF Pcs
  <2>3. /\ task'[r.by] = [task[r.by] EXCEPT !.pc = "answered", !.outcome = outcome, !.remote = remote]
        /\ \A t \in Tasks : t # r.by => task'[t] = task[t]
    BY <1>1, <2>1
  <2>4. task'[r.by] \in TaskStates
    <3>1. task[r.by] \in TaskStates
      BY <1>1
    <3> QED BY <2>2, <2>3, <3>1 DEF TaskStates
  <2>5. task' \in [Tasks -> TaskStates]
    BY <1>1, <2>1, <2>3, <2>4
  <2>6. /\ task'[r.by].revision = r.revision /\ task'[r.by].content = r.content
        /\ task'[r.by].pc = "answered" /\ task'[r.by].outcome = outcome
    BY <1>1, <2>1, <2>3 DEF TaskStates
  <2> QED BY <2>1, <2>3, <2>5, <2>6
<1> QED BY <1>2, <1>3

\* A task that ends, or goes on to its next pass, has no snapshot; other steps of it keep theirs.
LEMMA SyncShape ==
  ASSUME TypeOK, NEW t \in Tasks,
         ProjectChange(t) \/ EnsurePending(t) \/ Sync(t) \/ Interrupt(t) \/ Crash(t)
  PROVE  /\ task' \in [Tasks -> TaskStates]
         /\ \A u \in Tasks : u # t => task'[u] = task[u]
         /\ task'[t].pc # "answered"
         /\ \/ task'[t].revision = task[t].revision /\ task'[t].content = task[t].content
            \/ task'[t].revision = 0 /\ task'[t].content = Nothing
            \/ SendCatalog(t) /\ task'[t].revision = desired /\ task'[t].content = Snapshot
<1>1. task \in [Tasks -> TaskStates] /\ task[t] \in TaskStates
  BY DEF TypeOK, TaskStates
<1>2. ASSUME NEW pc \in Pcs \ {"answered"}, Goto(t, pc)
      PROVE  /\ task' \in [Tasks -> TaskStates]
             /\ \A u \in Tasks : u # t => task'[u] = task[u]
             /\ task'[t].pc # "answered"
             /\ task'[t].revision = task[t].revision /\ task'[t].content = task[t].content
  <2>1. task'[t] = [task[t] EXCEPT !.pc = pc] /\ \A u \in Tasks : u # t => task'[u] = task[u]
    BY <1>1, <1>2 DEF Goto
  <2>2. task'[t] \in TaskStates
    BY <1>1, <2>1 DEF TaskStates
  <2> QED BY <1>1, <1>2, <2>1, <2>2 DEF Goto, TaskStates
<1>3. ASSUME task' = [task EXCEPT ![t] = Idle]
      PROVE  /\ task' \in [Tasks -> TaskStates]
             /\ \A u \in Tasks : u # t => task'[u] = task[u]
             /\ task'[t].pc # "answered"
             /\ task'[t].revision = 0 /\ task'[t].content = Nothing
  BY <1>1, <1>3, Values
<1>4. ASSUME NextPass(t)
      PROVE  /\ task' \in [Tasks -> TaskStates]
             /\ \A u \in Tasks : u # t => task'[u] = task[u]
             /\ task'[t].pc # "answered"
             /\ task'[t].revision = 0 /\ task'[t].content = Nothing
  <2>1. /\ task'[t] = [Idle EXCEPT !.pc = "read", !.passes = task[t].passes + 1,
                                   !.handoffs = task[t].handoffs]
        /\ \A u \in Tasks : u # t => task'[u] = task[u]
    BY <1>1, <1>4 DEF NextPass
  <2>2. task[t].passes \in Nat /\ task[t].handoffs \in Nat
    BY <1>1 DEF TaskStates
  <2>3. task'[t] \in TaskStates /\ task'[t].pc = "read" /\ task'[t].revision = 0
        /\ task'[t].content = Nothing
    <3>1. task[t].passes + 1 \in Nat /\ "read" \in Pcs
      BY <2>2 DEF Pcs
    <3> QED BY <2>1, <2>2, <3>1, Values DEF TaskStates
  <2> QED BY <1>1, <1>4, <2>1, <2>3 DEF NextPass
<1>5. CASE ProjectChange(t) \/ EnsurePending(t) \/ ConfigureIngest(t)
  BY <1>2, <1>5 DEF ProjectChange, EnsurePending, ConfigureIngest, Pcs
<1>6. CASE Coalesce(t) \/ GiveUpPasses(t) \/ FailSync(t) \/ Interrupt(t) \/ Crash(t)
  BY <1>3, <1>6 DEF Coalesce, GiveUpPasses, FailSync, Interrupt, Crash
<1>7. CASE MarkApplied(t) \/ AdvancePast(t)
  BY <1>4, <1>7 DEF MarkApplied, AdvancePast
<1>8. CASE AcquireLease(t) \/ UpToDate(t)
  <2>1. PICK pc \in {"read", "handoff"} : task' = [task EXCEPT ![t].pc = pc, ![t].passes = 0]
    BY <1>8 DEF AcquireLease, UpToDate
  <2>2. task'[t] = [task[t] EXCEPT !.pc = pc, !.passes = 0] /\ \A u \in Tasks : u # t => task'[u] = task[u]
    BY <1>1, <2>1
  <2>3. /\ task'[t] \in TaskStates /\ task'[t].pc = pc
        /\ task'[t].revision = task[t].revision /\ task'[t].content = task[t].content
    BY <1>1, <2>1, <2>2 DEF TaskStates, Pcs
  <2> QED BY <1>1, <2>1, <2>2, <2>3
<1>9. CASE SendCatalog(t)
  <2>1. task' = [task EXCEPT ![t].pc = "sent", ![t].revision = desired, ![t].content = Snapshot]
    BY <1>9 DEF SendCatalog
  <2>2. /\ task'[t] = [task[t] EXCEPT !.pc = "sent", !.revision = desired, !.content = Snapshot]
        /\ \A u \in Tasks : u # t => task'[u] = task[u]
    BY <1>1, <2>1
  <2>3. /\ task'[t] \in TaskStates /\ task'[t].pc = "sent"
        /\ task'[t].revision = desired /\ task'[t].content = Snapshot
    BY <1>1, <2>2, SnapshotShape DEF TypeOK, TaskStates, Pcs
  <2> QED BY <1>1, <1>9, <2>1, <2>2, <2>3
<1>10. CASE Handoff(t)
  <2>1. CASE task' = [task EXCEPT ![t] = Idle]
    BY <1>3, <2>1
  <2>2. CASE task' = [task EXCEPT ![t].pc = "flush", ![t].handoffs = @ + 1]
    <3>1. /\ task'[t] = [task[t] EXCEPT !.pc = "flush", !.handoffs = @ + 1]
          /\ \A u \in Tasks : u # t => task'[u] = task[u]
      BY <1>1, <2>2
    <3>2. /\ task'[t] \in TaskStates /\ task'[t].pc = "flush"
          /\ task'[t].revision = task[t].revision /\ task'[t].content = task[t].content
      <4>1. task[t].handoffs + 1 \in Nat /\ "flush" \in Pcs
        BY <1>1 DEF TaskStates, Pcs
      <4> QED BY <1>1, <3>1, <4>1 DEF TaskStates
    <3> QED BY <1>1, <2>2, <3>1, <3>2
  <2> QED BY <1>10, <2>1, <2>2 DEF Handoff
<1> QED BY <1>5, <1>6, <1>7, <1>8, <1>9, <1>10 DEF Sync

\* What a request became: the same snapshot, at a stage whose promises hold.
Successor(r, q) ==
  /\ q \in Requests /\ q.revision = r.revision /\ q.content = r.content /\ q.stage # "sent"
  /\ q.left \subseteq Present(q.content) /\ q.written \subseteq Present(q.content)
  /\ q.stage = "reconciled" => Behind(r.revision, r.content)' /\ StoredBut(r.content, q.left)'

\* What a task became that was answered.
AnsweredBy(r, t) ==
  /\ task'[t].revision = r.revision /\ task'[t].content = r.content
  /\ task[t].revision = r.revision /\ task[t].content = r.content
  /\ task'[t].outcome = "ok" => Behind(r.revision, r.content)' /\ StoredBut(r.content, {})'

\* An answer that is not positive promises nothing.
LEMMA RefusedShape ==
  ASSUME TypeOK, NEW r \in requests, NEW outcome \in {"stale", "error"}, NEW remote \in Nat,
         Respond(r, outcome, remote)
  PROVE  task' \in [Tasks -> TaskStates] /\ \A t \in Tasks : task'[t] = task[t] \/ AnsweredBy(r, t)
<1>1. outcome \in Outcomes /\ outcome # "ok"
  BY DEF Outcomes
<1> QED BY <1>1, RespondShape DEF AnsweredBy

\* A request whose snapshot the cursor has is answered, or goes on to its credentials.
LEMMA AcceptingShape ==
  ASSUME TypeOK, Remaining, NEW r \in requests, Accepting(r), Behind(r.revision, r.content)'
  PROVE  /\ task' \in [Tasks -> TaskStates] /\ \A t \in Tasks : task'[t] = task[t] \/ AnsweredBy(r, t)
         /\ \A q \in requests' : q \in requests \/ (Successor(r, q) /\ q.stage = "reconciled")
         /\ r \in requests' => r.stage = "reconciled"
<1>1. r \in Requests /\ r.content \in Contents /\ task \in [Tasks -> TaskStates] /\ "ok" \in Outcomes /\ 0 \in Nat
  BY DEF TypeOK, Requests, TaskStates, Outcomes
<1>2. CASE Present(r.content) = {}
  <2>1. requests' = requests \ {r} /\ Respond(r, "ok", 0)
    BY <1>2 DEF Accepting
  <2>2. StoredBut(r.content, {})'
    BY <1>2 DEF StoredBut
  <2> QED BY <1>1, <2>1, <2>2, RespondShape DEF AnsweredBy
<1>3. CASE Present(r.content) # {}
  <2> DEFINE q == [r EXCEPT !.stage = "reconciled", !.left = Present(r.content), !.seen = {}, !.written = {},
                            !.below = TRUE]
  <2>1. requests' = (requests \ {r}) \cup {q} /\ task' = task
    BY <1>3 DEF Accepting
  <2>2. /\ q \in Requests /\ q.revision = r.revision /\ q.content = r.content /\ q.stage = "reconciled"
        /\ q.left = Present(q.content) /\ q.left = Present(r.content) /\ q.written = {}
    BY <1>1 DEF Requests, Present
  <2>3. StoredBut(r.content, q.left)'
    BY <2>2 DEF StoredBut
  <2> HIDE DEF q
  <2>4. Successor(r, q)
    BY <2>2, <2>3 DEF Successor
  <2> QED BY <1>1, <2>1, <2>2, <2>4
<1> QED BY <1>2, <1>3

\* The cursor decides without moving.
LEMMA DecidedShape ==
  ASSUME TypeOK, Remaining, NEW r \in requests, Decided(r), cursor' = cursor
  PROVE  /\ task' \in [Tasks -> TaskStates] /\ \A t \in Tasks : task'[t] = task[t] \/ AnsweredBy(r, t)
         /\ \A q \in requests' : q \in requests \/ (Successor(r, q) /\ q.stage = "reconciled")
         /\ r \in requests' => r.stage = "reconciled"
         /\ r.revision <= cursor.revision
<1>1. r.revision \in Nat /\ cursor.revision \in Nat
  BY DEF TypeOK, Requests
<1>2. CASE requests' = requests \ {r} /\ r.revision < cursor.revision /\ Respond(r, "stale", cursor.revision)
  BY <1>1, <1>2, RefusedShape
<1>3. CASE requests' = requests \ {r} /\ r.revision = cursor.revision /\ Respond(r, "error", 0)
  BY <1>1, <1>3, RefusedShape
<1>4. CASE r.revision = cursor.revision /\ r.content = cursor.content /\ Accepting(r)
  <2>1. Behind(r.revision, r.content)'
    BY <1>1, <1>4 DEF Behind
  <2> QED BY <1>1, <1>4, <2>1, AcceptingShape
<1> QED BY <1>2, <1>3, <1>4 DEF Decided

\* A step of a batch before its commit.
BatchStep(r) == \/ Reconcile(r) /\ ~Decided(r)
                \/ DisableSources(r)
                \/ \E e \in Envs : UpsertSource(r, e)

\* The batch goes on with the same snapshot, and compares with the cursor again.
LEMMA BatchShape ==
  ASSUME TypeOK, Remaining, NEW r \in requests, BatchStep(r)
  PROVE  /\ UNCHANGED <<unmarked, control, lease, task, cursor, sources, known, live, history>>
         /\ \E q \in Requests :
              /\ requests' = (requests \ {r}) \cup {q} /\ Successor(r, q) /\ q.stage \in {"begun", "batch"}
              /\ \/ /\ Reconcile(r) /\ r.revision > cursor.revision /\ q.stage = "begun"
                    /\ q.seen = Present(sources) /\ q.below = r.below
                    /\ r.stage = "sent" /\ overlapped' = (overlapped \/ Open # {})
                 \/ /\ r \in Open /\ q.stage = "batch" /\ q.seen = r.seen /\ q.below = Below(r)
                    /\ overlapped' = overlapped
                    /\ \/ r.stage = "begun" /\ q.left = Present(r.content)
                       \/ r.stage = "batch" /\ q.written \cup q.left = r.written \cup r.left
                       \/ r.stage = "batch" /\ ~Below(r)
<1>1. /\ r \in Requests /\ r.content \in Contents /\ Below(r) \in BOOLEAN
      /\ r.left \subseteq Present(r.content) /\ r.written \subseteq Present(r.content)
  BY DEF TypeOK, Requests, Below, Remaining
<1>2. CASE Reconcile(r) /\ ~Decided(r)
  <2> DEFINE q == [r EXCEPT !.stage = "begun", !.seen = Present(sources)]
  <2>1. /\ requests' = (requests \ {r}) \cup {q} /\ r.stage = "sent" /\ r.revision > cursor.revision
        /\ overlapped' = (overlapped \/ Open # {})
        /\ UNCHANGED <<unmarked, control, lease, task, cursor, sources, known, live, history>>
    BY <1>2 DEF Reconcile
  <2>2. /\ q \in Requests /\ q.revision = r.revision /\ q.content = r.content /\ q.stage = "begun"
        /\ q.seen = Present(sources) /\ q.below = r.below /\ q.left = r.left /\ q.written = r.written
    BY <1>1 DEF Requests, Present
  <2> HIDE DEF q
  <2>3. Successor(r, q)
    BY <1>1, <2>2 DEF Successor
  <2> QED BY <1>2, <2>1, <2>2, <2>3
<1>3. CASE DisableSources(r)
  <2> DEFINE q == [r EXCEPT !.stage = "batch", !.left = Present(r.content), !.below = Below(r)]
  <2>1. /\ requests' = (requests \ {r}) \cup {q} /\ r.stage = "begun" /\ overlapped' = overlapped
        /\ UNCHANGED <<unmarked, control, lease, task, cursor, sources, known, live, history>>
    BY <1>3 DEF DisableSources, operations
  <2>2. /\ q \in Requests /\ q.revision = r.revision /\ q.content = r.content /\ q.stage = "batch"
        /\ q.seen = r.seen /\ q.below = Below(r) /\ q.left = Present(r.content) /\ q.written = r.written
    BY <1>1 DEF Requests, Present
  <2> HIDE DEF q
  <2>3. Successor(r, q)
    BY <1>1, <2>2 DEF Successor
  <2> QED BY <2>1, <2>2, <2>3 DEF Open
<1>4. ASSUME NEW e \in Envs, UpsertSource(r, e)
      PROVE  /\ UNCHANGED <<unmarked, control, lease, task, operations, history>>
             /\ r.stage = "batch"
             /\ \E q \in Requests :
                  /\ requests' = (requests \ {r}) \cup {q} /\ Successor(r, q) /\ q.stage = "batch"
                  /\ q.seen = r.seen /\ q.below = Below(r)
                  /\ q.written \cup q.left = r.written \cup r.left \/ ~Below(r)
  <2>1. r.stage = "batch" /\ e \in r.left /\ UNCHANGED <<unmarked, control, lease, task, operations, history>>
    BY <1>4 DEF UpsertSource
  <2>2. CASE requests' = (requests \ {r}) \cup
               {[r EXCEPT !.left = @ \ {e}, !.written = @ \cup {e}, !.below = Below(r)]}
    <3> DEFINE q == [r EXCEPT !.left = @ \ {e}, !.written = @ \cup {e}, !.below = Below(r)]
    <3>1. requests' = (requests \ {r}) \cup {q}
      BY <2>2
    <3>2. /\ q \in Requests /\ q.revision = r.revision /\ q.content = r.content /\ q.stage = r.stage
          /\ q.seen = r.seen /\ q.below = Below(r) /\ q.left = r.left \ {e} /\ q.written = r.written \cup {e}
      BY <1>1 DEF Requests
    <3> HIDE DEF q
    <3>3. Successor(r, q)
      BY <1>1, <2>1, <3>2 DEF Successor
    <3>4. q.written \cup q.left = r.written \cup r.left
      BY <2>1, <3>2
    <3> QED BY <2>1, <3>1, <3>2, <3>3, <3>4
  <2>3. CASE ~Below(r) /\ requests' = (requests \ {r}) \cup {[r EXCEPT !.left = @ \ {e}, !.below = FALSE]}
    <3> DEFINE q == [r EXCEPT !.left = @ \ {e}, !.below = FALSE]
    <3>1. requests' = (requests \ {r}) \cup {q}
      BY <2>3
    <3>2. /\ q \in Requests /\ q.revision = r.revision /\ q.content = r.content /\ q.stage = r.stage
          /\ q.seen = r.seen /\ q.below = FALSE /\ q.left = r.left \ {e} /\ q.written = r.written
      BY <1>1 DEF Requests
    <3> HIDE DEF q
    <3>3. Successor(r, q)
      BY <1>1, <2>1, <3>2 DEF Successor
    <3>4. q.below = Below(r)
      BY <1>1, <2>3, <3>2
    <3> QED BY <2>1, <2>3, <3>1, <3>2, <3>3, <3>4
  <2> QED BY <1>4, <2>2, <2>3 DEF UpsertSource
<1>5. CASE \E e \in Envs : UpsertSource(r, e)
  <2>1. PICK e \in Envs : UpsertSource(r, e)
    BY <1>5
  <2>2. PICK q \in Requests :
          /\ requests' = (requests \ {r}) \cup {q} /\ Successor(r, q) /\ q.stage = "batch"
          /\ q.seen = r.seen /\ q.below = Below(r)
          /\ q.written \cup q.left = r.written \cup r.left \/ ~Below(r)
    BY <1>4, <2>1
  <2>3. UNCHANGED <<unmarked, control, lease, task, cursor, sources, overlapped, known, live, history>>
        /\ r.stage = "batch"
    BY <1>4, <2>1 DEF operations
  <2> QED BY <2>2, <2>3 DEF Open
<1> QED BY <1>2, <1>3, <1>5 DEF BatchStep

\* The steps of Operations for a request.
OpsStep(r) == Handle(r) \/ BatchFails(r)

\* What serving a request does: the cursor stays or rises to the request, and a positive answer, or a
\* request that goes on to its credentials, finds its revision behind the cursor and its credentials stored.
LEMMA ServeShape ==
  ASSUME TypeOK, Remaining, Delivered, Accepted, NEW r \in requests, OpsStep(r)
  PROVE  /\ UNCHANGED <<unmarked, control, lease, saved, changes, lostMark>> /\ faults' \in Nat
         /\ requests' \subseteq Requests /\ task' \in [Tasks -> TaskStates]
         /\ sources' \in [Envs -> Origins \cup {Absent}] /\ overlapped' \in BOOLEAN
         /\ known \subseteq known' /\ known' \subseteq Envs \X Nat /\ live' \subseteq known'
         /\ \A p \in known' : p[2] # 0
         /\ \/ cursor' = cursor
            \/ cursor' = [revision |-> r.revision, content |-> r.content] /\ r.revision > cursor.revision
         /\ \A q \in requests' : q \in requests \/ Successor(r, q)
         /\ \A t \in Tasks : task'[t] = task[t] \/ AnsweredBy(r, t)
<1>1. /\ r \in Requests /\ r.content \in Contents /\ r.revision \in Nat
      /\ cursor.revision \in Nat /\ cursor.content \in Contents
      /\ cursor = [revision |-> cursor.revision, content |-> cursor.content]
  BY DEF TypeOK, Requests
<1>2. /\ task \in [Tasks -> TaskStates] /\ requests \subseteq Requests
      /\ known \subseteq Envs \X Nat /\ live \subseteq known /\ faults \in Nat
      /\ sources \in [Envs -> Origins \cup {Absent}] /\ overlapped \in BOOLEAN
  BY DEF TypeOK, TaskStates
<1>3. {"ok", "stale", "error"} \subseteq Outcomes /\ 0 \in Nat
  BY DEF Outcomes
<1>4. \A p \in known : p[2] # 0
  BY DEF Accepted
<1>5. CASE BatchStep(r)
  <2>1. /\ UNCHANGED <<unmarked, control, lease, task, cursor, sources, known, live, history>>
        /\ overlapped' \in BOOLEAN
        /\ \E q \in Requests : requests' = (requests \ {r}) \cup {q} /\ Successor(r, q)
    BY <1>2, <1>5, BatchShape
  <2> QED BY <1>2, <1>4, <2>1 DEF history
<1>7. CASE Reconcile(r) /\ Decided(r)
  <2>1. UNCHANGED <<unmarked, control, lease, cursor, sources, known, live, history>> /\ overlapped' \in BOOLEAN
    BY <1>2, <1>7 DEF Reconcile
  <2>2. /\ task' \in [Tasks -> TaskStates] /\ \A t \in Tasks : task'[t] = task[t] \/ AnsweredBy(r, t)
        /\ \A q \in requests' : q \in requests \/ Successor(r, q)
    BY <1>7, <2>1, DecidedShape
  <2>3. requests' \subseteq Requests
    BY <1>2, <2>2 DEF Successor
  <2> QED BY <1>2, <1>4, <2>1, <2>2, <2>3 DEF history
<1>8. CASE CommitCatalog(r)
  <2>1. UNCHANGED <<unmarked, control, lease, overlapped, known, live, history>>
    BY <1>8 DEF CommitCatalog
  <2>2. sources' \in [Envs -> Origins \cup {Absent}]
    <3>1. \A e \in r.written : r.content[e].origin \in Origins
      BY <1>1, EntryShape DEF Remaining, Entries
    <3> QED BY <1>2, <1>8, <3>1 DEF CommitCatalog
  <2>3. CASE r.revision > cursor.revision /\ cursor' = [revision |-> r.revision, content |-> r.content] /\ Accepting(r)
    <3>1. Behind(r.revision, r.content)'
      BY <1>1, <2>3 DEF Behind
    <3>2. /\ task' \in [Tasks -> TaskStates] /\ \A t \in Tasks : task'[t] = task[t] \/ AnsweredBy(r, t)
          /\ \A q \in requests' : q \in requests \/ Successor(r, q)
      BY <2>3, <3>1, AcceptingShape
    <3>3. requests' \subseteq Requests
      BY <1>2, <3>2 DEF Successor
    <3> QED BY <1>2, <1>4, <2>1, <2>2, <2>3, <3>2, <3>3 DEF history
  <2>4. CASE Decided(r) /\ cursor' = cursor
    <3>1. /\ task' \in [Tasks -> TaskStates] /\ \A t \in Tasks : task'[t] = task[t] \/ AnsweredBy(r, t)
          /\ \A q \in requests' : q \in requests \/ Successor(r, q)
      BY <2>4, DecidedShape
    <3>2. requests' \subseteq Requests
      BY <1>2, <3>1 DEF Successor
    <3> QED BY <1>2, <1>4, <2>1, <2>2, <2>4, <3>1, <3>2 DEF history
  <2> QED BY <1>8, <2>3, <2>4 DEF CommitCatalog
<1>9. CASE BatchFails(r)
  <2>1. /\ faults' = faults + 1 /\ requests' = requests \ {r} /\ Respond(r, "error", 0)
        /\ UNCHANGED <<unmarked, control, lease, operations, saved, changes, lostMark>>
    BY <1>9, Zenon DEF BatchFails, Fault
  <2>2. task' \in [Tasks -> TaskStates] /\ \A t \in Tasks : task'[t] = task[t] \/ AnsweredBy(r, t)
    BY <1>3, <2>1, RefusedShape
  <2> QED BY <1>2, <1>4, <2>1, <2>2 DEF operations
<1>10. ASSUME NEW e \in Envs, AcceptCredential(r, e)
       PROVE  /\ UNCHANGED <<unmarked, control, lease, saved, changes, lostMark>> /\ faults' \in Nat
              /\ requests' \subseteq Requests /\ task' \in [Tasks -> TaskStates]
              /\ sources' \in [Envs -> Origins \cup {Absent}] /\ overlapped' \in BOOLEAN
              /\ known \subseteq known' /\ known' \subseteq Envs \X Nat /\ live' \subseteq known'
              /\ \A p \in known' : p[2] # 0
              /\ cursor' = cursor
              /\ \A q \in requests' : q \in requests \/ Successor(r, q)
              /\ \A t \in Tasks : task'[t] = task[t] \/ AnsweredBy(r, t)
  <2> DEFINE c == Pair(r.content, e)
  <2>1. /\ UNCHANGED <<unmarked, control, lease, cursor, sources, overlapped, history>>
        /\ r.stage = "reconciled" /\ e \in r.left
    BY <1>10 DEF AcceptCredential
  <2>2. /\ r \in Taken /\ e \in Present(r.content)
        /\ r.left \subseteq Present(r.content) /\ r.written \subseteq Present(r.content)
    BY <2>1 DEF Taken, Remaining
  <2>3. c \in Envs \X Nat /\ c[2] # 0
    BY <1>1, <2>2, EntryShape DEF Pair
  <2>4. Behind(r.revision, r.content)'
    BY <2>1, <2>2 DEF Delivered, Behind
  <2>5. StoredBut(r.content, r.left)
    BY <2>2 DEF Accepted
  <2>6. UNCHANGED <<unmarked, control, lease, saved, changes, lostMark, faults, sources, overlapped, cursor>>
    BY <2>1 DEF history
  <2>7. CASE sources[e] = Absent
    <3>1. requests' = requests \ {r} /\ Respond(r, "error", 0) /\ UNCHANGED <<known, live>>
      BY <1>10, <2>7 DEF AcceptCredential
    <3>2. task' \in [Tasks -> TaskStates] /\ \A t \in Tasks : task'[t] = task[t] \/ AnsweredBy(r, t)
      BY <1>3, <3>1, RefusedShape
    <3> QED BY <1>2, <1>4, <2>6, <3>1, <3>2
  <2>8. CASE sources[e] # Absent
    <3>1. known' = known \cup {c} /\ live' = {d \in live : d[1] # e \/ d = c} \cup ({c} \ known)
      BY <1>10, <2>8 DEF AcceptCredential
    <3>2. /\ known \subseteq known' /\ known' \subseteq Envs \X Nat /\ live' \subseteq known'
          /\ \A p \in known' : p[2] # 0
      BY <1>2, <1>4, <2>3, <3>1
    <3>3. StoredBut(r.content, r.left \ {e})'
      BY <2>5, <3>1 DEF StoredBut
    <3>4. CASE r.left = {e}
      <4>1. requests' = requests \ {r} /\ Respond(r, "ok", 0)
        BY <1>10, <2>8, <3>4 DEF AcceptCredential
      <4>2. StoredBut(r.content, {})'
        BY <3>3, <3>4 DEF StoredBut
      <4>3. task' \in [Tasks -> TaskStates] /\ \A t \in Tasks : task'[t] = task[t] \/ AnsweredBy(r, t)
        BY <1>3, <2>4, <4>1, <4>2, RespondShape DEF AnsweredBy
      <4> QED BY <1>2, <2>6, <3>2, <4>1, <4>3
    <3>5. CASE r.left # {e}
      <4> DEFINE q == [r EXCEPT !.left = @ \ {e}]
      <4>1. requests' = (requests \ {r}) \cup {q} /\ task' = task
        BY <1>10, <2>8, <3>5 DEF AcceptCredential
      <4>2. /\ q \in Requests /\ q.revision = r.revision /\ q.content = r.content
            /\ q.left = r.left \ {e} /\ q.written = r.written /\ q.stage = "reconciled"
        BY <1>1, <2>1, <2>2 DEF Requests
      <4>3. StoredBut(r.content, q.left)'
        BY <3>3, <4>2 DEF StoredBut
      <4> HIDE DEF q
      <4>4. Successor(r, q)
        BY <2>2, <2>4, <4>2, <4>3 DEF Successor
      <4> QED BY <1>2, <2>6, <3>2, <4>1, <4>2, <4>4
    <3> QED BY <3>4, <3>5
  <2> QED BY <2>7, <2>8
<1> QED BY <1>5, <1>7, <1>8, <1>9, <1>10 DEF OpsStep, Handle, BatchStep

\* Every step keeps the types.
LEMMA TypeStep ==
  ASSUME TypeOK, Remaining, Delivered, Accepted, [Next]_vars
  PROVE  TypeOK'
<1>1. task \in [Tasks -> TaskStates]
  BY DEF TypeOK, TaskStates
<1>2. ASSUME NEW e \in Envs, NEW v \in Origins \cup {Absent}, ChangeRegistry(e, v) PROVE TypeOK'
  BY <1>2 DEF ChangeRegistry, TypeOK, operations
<1>3. CASE ProjectCoalesced
  BY <1>3 DEF ProjectCoalesced, MarkDirty, TypeOK, operations, history
<1>4. CASE LoseMark
  <2>1. unmarked' \in Nat /\ faults' \in Nat /\ lostMark' \in BOOLEAN
    <3>1. faults' = faults + 1 /\ unmarked > 0 /\ unmarked' = unmarked - 1 /\ lostMark' = TRUE
      BY <1>4, Zenon DEF LoseMark, Fault
    <3> QED BY <3>1 DEF TypeOK
  <2> QED BY <1>4, <2>1 DEF LoseMark, TypeOK, operations, control
<1>5. ASSUME NEW t \in Tasks, ProjectChange(t) \/ EnsurePending(t) \/ Sync(t) \/ Interrupt(t) \/ Crash(t)
      PROVE  TypeOK'
  <2>1. task' \in [Tasks -> TaskStates]
    BY <1>5, SyncShape
  <2>2. CASE ProjectChange(t) \/ EnsurePending(t)
    BY <2>1, <2>2 DEF ProjectChange, EnsurePending, MarkDirty, TypeOK, TaskStates, operations, history
  <2>3. CASE Coalesce(t) \/ Handoff(t) \/ AcquireLease(t) \/ UpToDate(t) \/ GiveUpPasses(t) \/ FailSync(t)
    BY <2>1, <2>3 DEF Coalesce, Handoff, AcquireLease, UpToDate, GiveUpPasses, FailSync, ReleaseLease,
                      TypeOK, TaskStates, operations, history, control
  <2>4. CASE Interrupt(t) \/ Crash(t)
    BY <2>1, <2>4 DEF Interrupt, Crash, Fault, ReleaseLease, TypeOK, TaskStates, operations, control
  <2>5. CASE ConfigureIngest(t)
    <3>1. issued' \in [Envs -> Nat] /\ credential' \in [Envs -> Nat]
      BY <2>5 DEF ConfigureIngest, TypeOK
    <3> QED BY <2>1, <2>5, <3>1 DEF ConfigureIngest, TypeOK, TaskStates, operations, history
  <2>6. CASE SendCatalog(t)
    <3>1. [by |-> t, revision |-> desired, content |-> Snapshot, stage |-> "sent", left |-> {},
           seen |-> {}, written |-> {}, below |-> TRUE] \in Requests
      BY SnapshotShape DEF TypeOK, Requests
    <3> QED BY <2>1, <2>6, <3>1 DEF SendCatalog, TypeOK, TaskStates, operations, history, control
  <2>7. CASE MarkApplied(t)
    <3>1. task[t].revision \in Nat /\ task[t].content \in Contents
      BY <1>1 DEF TaskStates
    <3> QED BY <2>1, <2>7, <3>1 DEF MarkApplied, TypeOK, TaskStates, Present, operations, history
  <2>8. CASE AdvancePast(t)
    <3>1. task[t].remote \in Nat
      BY <1>1 DEF TaskStates
    <3> QED BY <2>1, <2>8, <3>1 DEF AdvancePast, TypeOK, TaskStates, operations, history
  <2> QED BY <1>5, <2>2, <2>3, <2>4, <2>5, <2>6, <2>7, <2>8 DEF Sync
<1>6. ASSUME NEW t \in Tasks, LoseLease(t) PROVE TypeOK'
  <2>1. lease' \in Tasks \cup {NoTask, DeadTask} /\ faults' \in Nat
    <3>1. faults' = faults + 1 /\ lease' = NoTask
      BY <1>6, Zenon DEF LoseLease, Fault
    <3> QED BY <3>1 DEF TypeOK
  <2> QED BY <1>6, <2>1 DEF LoseLease, TypeOK, operations, control
<1>7. CASE \E r \in requests : OpsStep(r)
  <2>1. PICK r \in requests : OpsStep(r)
    BY <1>7
  <2>2. r.revision \in Nat /\ r.content \in Contents
    BY DEF TypeOK, Requests
  <2>3. cursor' \in [revision : Nat, content : Contents]
    <3>1. CASE cursor' = cursor
      BY <3>1 DEF TypeOK
    <3>2. CASE cursor' = [revision |-> r.revision, content |-> r.content]
      BY <2>2, <3>2
    <3> QED BY <2>1, <3>1, <3>2, ServeShape
  <2>4. /\ UNCHANGED <<unmarked, control, lease, saved, changes, lostMark>> /\ faults' \in Nat
        /\ requests' \subseteq Requests /\ task' \in [Tasks -> TaskStates]
        /\ sources' \in [Envs -> Origins \cup {Absent}] /\ overlapped' \in BOOLEAN
        /\ known' \subseteq Envs \X Nat /\ live' \subseteq known'
    BY <2>1, ServeShape
  <2> QED BY <2>3, <2>4 DEF TypeOK, TaskStates, control
<1>8. CASE Expire
  BY <1>8 DEF Expire, TypeOK, operations, history, control
<1>9. CASE Backup
  <2>1. saved' \in [registry : [Envs -> Origins \cup {Absent}], credential : [Envs -> Nat],
                    active : SUBSET Envs, desired : Nat, applied : Nat, appliedContent : Contents]
    BY <1>9 DEF Backup, TypeOK
  <2> QED BY <1>9, <2>1 DEF Backup, TypeOK, operations, control
<1>10. CASE Restore
  <2>1. task' \in [Tasks -> TaskStates]
    BY <1>10, Values DEF Restore
  <2> QED BY <1>10, <2>1 DEF Restore, Fault, TypeOK, TaskStates, operations
<1>11. CASE UNCHANGED vars
  BY <1>11 DEF vars, TypeOK, operations, history, control
<1> QED BY <1>2, <1>3, <1>4, <1>5, <1>6, <1>7, <1>8, <1>9, <1>10, <1>11 DEF Next, Serve, OpsStep

----------------------------------------------------------------------------
(* What a step does to requests, tasks and cursor *)

\* The steps of one task.
TaskStep(t) == ProjectChange(t) \/ EnsurePending(t) \/ Sync(t) \/ Interrupt(t) \/ Crash(t)

\* The steps that touch neither tasks, requests nor Operations.
Elsewhere == \/ \E e \in Envs, v \in Origins \cup {Absent} : ChangeRegistry(e, v)
             \/ ProjectCoalesced \/ LoseMark \/ Expire \/ Backup \/ UNCHANGED vars
             \/ \E t \in Tasks : LoseLease(t)

\* A step is one of a task, of Operations, a restore, or elsewhere.
LEMMA Kinds ==
  ASSUME [Next]_vars
  PROVE  Elsewhere \/ Restore \/ (\E r \in requests : OpsStep(r)) \/ \E t \in Tasks : TaskStep(t)
BY DEF Next, Elsewhere, TaskStep, Serve, OpsStep

\* What the steps elsewhere leave alone.
LEMMA ElsewhereShape ==
  ASSUME Elsewhere
  PROVE  UNCHANGED <<task, requests, operations, applied, appliedContent>>
<1>1. CASE \E e \in Envs, v \in Origins \cup {Absent} : ChangeRegistry(e, v)
  BY <1>1 DEF ChangeRegistry
<1>2. CASE ProjectCoalesced
  BY <1>2 DEF ProjectCoalesced
<1>3. CASE LoseMark
  BY <1>3, Zenon DEF LoseMark, control
<1>4. CASE Expire \/ Backup \/ UNCHANGED vars
  BY <1>4 DEF Expire, Backup, control, vars
<1>5. CASE \E t \in Tasks : LoseLease(t)
  BY <1>5, Zenon DEF LoseLease, control
<1> QED BY <1>1, <1>2, <1>3, <1>4, <1>5 DEF Elsewhere

\* What the steps of a task leave alone.
LEMMA TaskStepShape ==
  ASSUME NEW t \in Tasks, TaskStep(t)
  PROVE  /\ UNCHANGED <<operations, saved>>
         /\ requests' = requests \/ SendCatalog(t)
         /\ UNCHANGED <<applied, appliedContent>> \/ MarkApplied(t)
<1>1. CASE ProjectChange(t) \/ EnsurePending(t)
  BY <1>1 DEF ProjectChange, EnsurePending, history
<1>2. CASE Interrupt(t) \/ Crash(t)
  BY <1>2 DEF Interrupt, Crash, control
<1>3. CASE Sync(t)
  BY <1>3 DEF Sync, AcquireLease, Coalesce, UpToDate, GiveUpPasses, ConfigureIngest, SendCatalog, MarkApplied,
              AdvancePast, FailSync, Handoff, control, history
<1> QED BY <1>1, <1>2, <1>3 DEF TaskStep

\* Every request was there, was just sent, or goes on with the snapshot that the cursor took.
LEMMA RequestsStep ==
  ASSUME TypeOK, Remaining, Delivered, Accepted, [Next]_vars, NEW q \in requests'
  PROVE  \/ q \in requests
         \/ q.revision = desired /\ q.content = Snapshot /\ q.stage = "sent"
            /\ q.left = {} /\ q.written = {} /\ q.below /\ \E t \in Tasks : SendCatalog(t)
         \/ /\ \E r \in requests : q.revision = r.revision /\ q.content = r.content
            /\ q.stage # "sent" /\ q.left \subseteq Present(q.content) /\ q.written \subseteq Present(q.content)
            /\ q.stage = "reconciled" => Behind(q.revision, q.content)' /\ StoredBut(q.content, q.left)'
<1>1. CASE Elsewhere \/ Restore
  BY <1>1, ElsewhereShape DEF Restore
<1>2. ASSUME NEW t \in Tasks, TaskStep(t), q \notin requests
      PROVE  /\ q.revision = desired /\ q.content = Snapshot /\ q.stage = "sent" /\ SendCatalog(t)
             /\ q.left = {} /\ q.written = {} /\ q.below
  <2>1. SendCatalog(t)
    BY <1>2, TaskStepShape
  <2>2. requests' = requests \cup
          {[by |-> t, revision |-> desired, content |-> Snapshot, stage |-> "sent", left |-> {},
            seen |-> {}, written |-> {}, below |-> TRUE]}
    BY <2>1 DEF SendCatalog
  <2> QED BY <1>2, <2>1, <2>2
<1>3. ASSUME \E r \in requests : OpsStep(r), q \notin requests
      PROVE  /\ \E r \in requests : q.revision = r.revision /\ q.content = r.content
             /\ q.stage # "sent" /\ q.left \subseteq Present(q.content) /\ q.written \subseteq Present(q.content)
             /\ q.stage = "reconciled" => Behind(q.revision, q.content)' /\ StoredBut(q.content, q.left)'
  <2>1. PICK r \in requests : OpsStep(r)
    BY <1>3
  <2>2. Successor(r, q)
    BY <1>3, <2>1, ServeShape
  <2> QED BY <2>2 DEF Successor, Behind, StoredBut
<1> QED BY <1>1, <1>2, <1>3, Kinds

\* Every task stands still, drops its snapshot, keeps it, takes a new one, or is answered.
LEMMA TasksStep ==
  ASSUME TypeOK, Remaining, Delivered, Accepted, [Next]_vars, NEW t \in Tasks
  PROVE  \/ task'[t] = task[t]
         \/ /\ task'[t].pc # "answered"
            /\ \/ task'[t].revision = task[t].revision /\ task'[t].content = task[t].content
               \/ task'[t].revision = 0 /\ task'[t].content = Nothing
               \/ SendCatalog(t) /\ task'[t].revision = desired /\ task'[t].content = Snapshot
         \/ /\ task'[t].revision = task[t].revision /\ task'[t].content = task[t].content
            /\ task'[t].outcome = "ok" => /\ Behind(task[t].revision, task[t].content)'
                                          /\ StoredBut(task[t].content, {})'
<1>1. CASE Elsewhere
  BY <1>1, ElsewhereShape
<1>2. CASE Restore
  <2>1. task'[t] = Idle
    BY <1>2 DEF Restore
  <2> QED BY <2>1, Values
<1>3. ASSUME NEW u \in Tasks, TaskStep(u)
      PROVE  \/ task'[t] = task[t]
             \/ /\ task'[t].pc # "answered"
                /\ \/ task'[t].revision = task[t].revision /\ task'[t].content = task[t].content
                   \/ task'[t].revision = 0 /\ task'[t].content = Nothing
                   \/ SendCatalog(t) /\ task'[t].revision = desired /\ task'[t].content = Snapshot
  BY <1>3, SyncShape DEF TaskStep
<1>4. CASE \E r \in requests : OpsStep(r)
  <2>1. PICK r \in requests : OpsStep(r)
    BY <1>4
  <2>2. task'[t] = task[t] \/ AnsweredBy(r, t)
    BY <2>1, ServeShape
  <2> QED BY <2>2 DEF AnsweredBy, Behind, StoredBut
<1> QED BY <1>1, <1>2, <1>3, <1>4, Kinds

\* The cursor stays or rises, to a request.
LEMMA CursorStep ==
  ASSUME TypeOK, Remaining, Delivered, Accepted, [Next]_vars
  PROVE  \/ cursor' = cursor
         \/ \E r \in requests : /\ cursor' = [revision |-> r.revision, content |-> r.content]
                                /\ r.revision > cursor.revision
<1>1. CASE Elsewhere \/ Restore
  BY <1>1, ElsewhereShape DEF Restore, operations
<1>2. CASE \E t \in Tasks : TaskStep(t)
  BY <1>2, TaskStepShape DEF operations
<1>3. CASE \E r \in requests : OpsStep(r)
  BY <1>3, ServeShape
<1> QED BY <1>1, <1>2, <1>3, Kinds

\* Stored credentials stay, and a credential has an id.
LEMMA KnownStep ==
  ASSUME TypeOK, Remaining, Delivered, Accepted, [Next]_vars
  PROVE  known \subseteq known' /\ \A p \in known' : p[2] # 0
<1>1. CASE Elsewhere \/ Restore
  BY <1>1, ElsewhereShape DEF Restore, operations, Accepted
<1>2. CASE \E t \in Tasks : TaskStep(t)
  BY <1>2, TaskStepShape DEF operations, Accepted
<1>3. CASE \E r \in requests : OpsStep(r)
  BY <1>3, ServeShape
<1> QED BY <1>1, <1>2, <1>3, Kinds

----------------------------------------------------------------------------
(* Delivery *)

\* Only sources of a snapshot are left to accept.
LEMMA RemainingStep ==
  ASSUME TypeOK, Remaining, Delivered, Accepted, [Next]_vars
  PROVE  Remaining'
<1> SUFFICES ASSUME NEW q \in requests'
             PROVE  /\ q.left \subseteq Present(q.content) /\ q.written \subseteq Present(q.content)
                    /\ q.stage = "sent" => q.below
  BY DEF Remaining, Present
<1> QED BY RequestsStep DEF Remaining

\* What is behind the cursor stays behind it.
LEMMA BehindStays ==
  ASSUME TypeOK, Remaining, Delivered, Accepted, [Next]_vars,
         NEW revision \in Nat, NEW content, Behind(revision, content)
  PROVE  Behind(revision, content)'
<1>1. cursor.revision \in Nat
  BY DEF TypeOK
<1>2. CASE cursor' = cursor
  BY <1>2 DEF Behind
<1>3. ASSUME NEW r \in requests, cursor' = [revision |-> r.revision, content |-> r.content],
             r.revision > cursor.revision
      PROVE  Behind(revision, content)'
  BY <1>1, <1>3 DEF Behind, TypeOK, Requests
<1> QED BY <1>2, <1>3, CursorStep

\* Every step keeps behind the cursor what Operations confirmed, and what Control recorded of it.
LEMMA DeliveredStep ==
  ASSUME TypeOK, Remaining, Delivered, Accepted, [Next]_vars
  PROVE  Delivered'
<1>1. /\ applied \in Nat /\ saved.applied \in Nat /\ \A r \in requests : r.revision \in Nat
      /\ \A t \in Tasks : task[t].revision \in Nat
  BY DEF TypeOK, Requests
<1>2. /\ Behind(applied, appliedContent) /\ Behind(saved.applied, saved.appliedContent)
      /\ \A r \in Taken : Behind(r.revision, r.content)
      /\ \A t \in Confirmed : Behind(task[t].revision, task[t].content)
  BY DEF Delivered
<1>3. ASSUME NEW n \in Nat, NEW c, Behind(n, c)
      PROVE  n <= cursor'.revision /\ (n = cursor'.revision => c = cursor'.content)
  BY <1>3, BehindStays DEF Behind
<1>4. \A r \in Taken' : Behind(r.revision, r.content)'
  <2> SUFFICES ASSUME NEW r \in Taken' PROVE Behind(r.revision, r.content)'
    OBVIOUS
  <2>1. r \in requests' /\ r.stage = "reconciled"
    BY DEF Taken
  <2>2. CASE r \in requests
    <3>1. Behind(r.revision, r.content)
      BY <1>2, <2>1, <2>2 DEF Taken
    <3> QED BY <1>1, <2>2, <3>1, BehindStays
  <2> QED BY <2>1, <2>2, RequestsStep
<1>5. ASSUME NEW t \in Confirmed' PROVE Behind(task[t].revision, task[t].content)'
  <2>1. t \in Tasks /\ task'[t].pc = "answered" /\ task'[t].outcome = "ok"
    BY <1>5 DEF Confirmed
  <2>2. CASE task'[t] = task[t]
    <3>1. Behind(task[t].revision, task[t].content)
      BY <1>2, <2>1, <2>2 DEF Confirmed
    <3>2. /\ task[t].revision <= cursor'.revision
          /\ task[t].revision = cursor'.revision => task[t].content = cursor'.content
      BY <1>1, <1>3, <2>1, <3>1
    <3> QED BY <2>2, <3>2 DEF Behind
  <2>3. CASE task'[t] # task[t]
    <3>1. task'[t].revision = task[t].revision /\ task'[t].content = task[t].content
          /\ Behind(task[t].revision, task[t].content)'
      BY <2>1, <2>3, TasksStep
    <3> QED BY <3>1
  <2> QED BY <2>2, <2>3
<1>6. ASSUME Behind(applied, appliedContent)', Behind(saved.applied, saved.appliedContent)' PROVE Delivered'
  BY <1>4, <1>5, <1>6 DEF Delivered
<1>7. saved' = saved => Behind(saved.applied, saved.appliedContent)'
  BY <1>1, <1>2, <1>3 DEF Behind
<1>8. UNCHANGED <<applied, appliedContent>> => Behind(applied, appliedContent)'
  BY <1>1, <1>2, <1>3 DEF Behind
<1>9. CASE Elsewhere
  <2>1. UNCHANGED <<applied, appliedContent>>
    BY <1>9, ElsewhereShape
  <2>2. saved' = saved \/ Backup
    BY <1>9, Zenon DEF Elsewhere, ChangeRegistry, ProjectCoalesced, LoseMark, Expire, LoseLease, vars, history
  <2>3. Backup => saved'.applied = applied /\ saved'.appliedContent = appliedContent
    BY DEF Backup
  <2>4. Backup => Behind(saved.applied, saved.appliedContent)'
    BY <1>8, <2>1, <2>3 DEF Behind
  <2> QED BY <1>6, <1>7, <1>8, <2>1, <2>2, <2>4
<1>10. CASE Restore
  <2>1. saved' = saved /\ applied' = saved.applied /\ appliedContent' = saved.appliedContent
    BY <1>10 DEF Restore
  <2>2. Behind(applied, appliedContent)'
    BY <1>7, <2>1 DEF Behind
  <2> QED BY <1>6, <1>7, <2>1, <2>2
<1>11. CASE \E r \in requests : OpsStep(r)
  <2>1. UNCHANGED <<applied, appliedContent, saved>>
    BY <1>11, ServeShape DEF control
  <2> QED BY <1>6, <1>7, <1>8, <2>1
<1>12. ASSUME NEW t \in Tasks, TaskStep(t) PROVE Delivered'
  <2>1. saved' = saved /\ (UNCHANGED <<applied, appliedContent>> \/ MarkApplied(t))
    BY <1>12, TaskStepShape
  <2>2. ASSUME MarkApplied(t) PROVE Behind(applied, appliedContent)'
    <3>1. /\ applied' = IF applied < task[t].revision THEN task[t].revision ELSE applied
          /\ appliedContent' = IF applied <= task[t].revision THEN task[t].content ELSE appliedContent
          /\ t \in Confirmed
      BY <2>2 DEF MarkApplied, Confirmed
    <3>2. /\ task[t].revision <= cursor'.revision
          /\ task[t].revision = cursor'.revision => task[t].content = cursor'.content
      BY <1>1, <1>2, <1>3, <3>1
    <3>3. applied <= cursor'.revision /\ (applied = cursor'.revision => appliedContent = cursor'.content)
      BY <1>1, <1>2, <1>3
    <3> QED BY <1>1, <3>1, <3>2, <3>3 DEF Behind
  <2> QED BY <1>6, <1>7, <1>8, <2>1, <2>2
<1> QED BY <1>9, <1>10, <1>11, <1>12, Kinds

----------------------------------------------------------------------------
(* Snapshots *)

\* A snapshot that is up to the desired revision stays so, or is overtaken by it.
LEMMA UpToStays ==
  ASSUME TypeOK, Remaining, Delivered, Accepted, [Next]_vars, ~lostMark', NEW n \in Nat, NEW c, UpTo(n, c)
  PROVE  UpTo(n, c)'
<1>1. desired \in Nat /\ unmarked \in Nat
  BY DEF TypeOK
<1>2. n <= desired /\ (n = desired /\ unmarked = 0 => \A e \in Envs : c[e] \in {Absent, Snapshot[e]})
  BY DEF UpTo
<1>3. ASSUME UNCHANGED <<registry, credential, desired, unmarked>> PROVE UpTo(n, c)'
  <2>1. Snapshot' = Snapshot
    BY <1>3 DEF Snapshot
  <2> QED BY <1>2, <1>3, <2>1 DEF UpTo
<1>4. ASSUME desired' \in Nat, n < desired' PROVE UpTo(n, c)'
  BY <1>4 DEF UpTo
<1>5. ASSUME NEW e \in Envs, NEW v \in Origins \cup {Absent}, ChangeRegistry(e, v) PROVE UpTo(n, c)'
  <2>1. desired' = desired /\ unmarked' = unmarked + 1
    BY <1>5 DEF ChangeRegistry
  <2>2. unmarked' # 0
    BY <1>1, <2>1
  <2> QED BY <1>2, <2>1, <2>2 DEF UpTo
<1>6. CASE ProjectCoalesced \/ \E t \in Tasks : ProjectChange(t)
  <2>1. desired' = desired + 1
    BY <1>6 DEF ProjectCoalesced, ProjectChange, MarkDirty
  <2> QED BY <1>1, <1>2, <1>4, <2>1
<1>7. ASSUME NEW t \in Tasks, EnsurePending(t) PROVE UpTo(n, c)'
  <2>1. UNCHANGED <<registry, credential, unmarked>> /\ (desired' = desired \/ desired' = desired + 1)
    BY <1>7 DEF EnsurePending
  <2> QED BY <1>1, <1>2, <1>3, <1>4, <2>1
<1>8. ASSUME NEW t \in Tasks, AdvancePast(t) PROVE UpTo(n, c)'
  <2>1. task[t].remote \in Nat
    BY DEF TypeOK
  <2>2. /\ UNCHANGED <<registry, credential, unmarked>>
        /\ desired' = IF desired <= task[t].remote THEN task[t].remote + 1 ELSE desired
    BY <1>8 DEF AdvancePast
  <2> QED BY <1>1, <1>2, <1>3, <1>4, <2>1, <2>2
<1>9. ASSUME NEW t \in Tasks, ConfigureIngest(t) PROVE UpTo(n, c)'
  <2>1. /\ UNCHANGED <<registry, desired, unmarked>>
        /\ credential' = [e \in Envs |-> IF registry[e] # Absent /\ credential[e] = 0
                                           THEN issued[e] + 1 ELSE credential[e]]
    BY <1>9 DEF ConfigureIngest
  <2>2. \A e \in Envs : Snapshot[e] # Absent => Snapshot'[e] = Snapshot[e]
    BY <2>1 DEF Snapshot
  <2>3. \A e \in Envs : c[e] \in {Absent, Snapshot[e]} => c[e] \in {Absent, Snapshot'[e]}
    BY <2>2
  <2> QED BY <1>2, <2>1, <2>3 DEF UpTo
<1>10. CASE Expire \/ Backup \/ UNCHANGED vars \/ \E t \in Tasks : LoseLease(t)
  BY <1>3, <1>10, Zenon DEF Expire, Backup, LoseLease, control, vars
<1>11. CASE \E r \in requests : OpsStep(r)
  BY <1>3, <1>11, ServeShape DEF control
<1>12. ASSUME NEW t \in Tasks, Interrupt(t) \/ Crash(t) PROVE UpTo(n, c)'
  BY <1>3, <1>12 DEF Interrupt, Crash, control
<1>13. ASSUME NEW t \in Tasks, Sync(t), ~AdvancePast(t), ~ConfigureIngest(t) PROVE UpTo(n, c)'
  BY <1>3, <1>13 DEF Sync, AcquireLease, Coalesce, UpToDate, GiveUpPasses, SendCatalog, MarkApplied, FailSync,
                     Handoff, control
<1>14. ~LoseMark /\ ~Restore
  BY Zenon DEF LoseMark, Restore
<1> QED BY <1>5, <1>6, <1>7, <1>8, <1>9, <1>10, <1>11, <1>12, <1>13, <1>14 DEF Next, Serve, OpsStep

\* Once a mark was lost, or Control restored, it is on record.
LEMMA LostStays ==
  ASSUME TypeOK, Remaining, Delivered, Accepted, [Next]_vars, ~lostMark'
  PROVE  ~lostMark
<1>1. CASE Elsewhere
  BY <1>1, Zenon DEF Elsewhere, ChangeRegistry, ProjectCoalesced, LoseMark, Expire, Backup, LoseLease, vars, history
<1>2. CASE Restore
  BY <1>2, Zenon DEF Restore
<1>3. CASE \E r \in requests : OpsStep(r)
  BY <1>3, ServeShape
<1>4. ASSUME NEW t \in Tasks, TaskStep(t) PROVE ~lostMark
  <2>1. CASE ProjectChange(t) \/ EnsurePending(t) \/ Interrupt(t) \/ Crash(t)
    BY <2>1 DEF ProjectChange, EnsurePending, Interrupt, Crash, history
  <2>2. CASE Sync(t)
    BY <2>2 DEF Sync, AcquireLease, Coalesce, UpToDate, GiveUpPasses, ConfigureIngest, SendCatalog, MarkApplied,
                AdvancePast, FailSync, Handoff, history
  <2> QED BY <1>4, <2>1, <2>2 DEF TaskStep
<1> QED BY <1>1, <1>2, <1>3, <1>4, Kinds

\* A new snapshot is of the desired revision, and empty ones are up to any.
LEMMA UpToNow ==
  ASSUME TypeOK
  PROVE  UpTo(desired, Snapshot) /\ UpTo(0, Nothing)
BY Values DEF UpTo, TypeOK

\* Every step keeps the snapshots on their way, and the one Operations took, up to the desired revision.
LEMMA UpToDesiredStep ==
  ASSUME TypeOK, Remaining, Delivered, Accepted, UpToDesired, [Next]_vars
  PROVE  UpToDesired'
<1> SUFFICES ASSUME ~lostMark'
             PROVE  /\ UpTo(cursor.revision, cursor.content)'
                    /\ \A r \in requests' : UpTo(r.revision, r.content)'
                    /\ \A t \in Tasks : UpTo(task[t].revision, task[t].content)'
  BY DEF UpToDesired
<1>1. /\ UpTo(cursor.revision, cursor.content)
      /\ \A r \in requests : UpTo(r.revision, r.content)
      /\ \A t \in Tasks : UpTo(task[t].revision, task[t].content)
  BY LostStays DEF UpToDesired
<1>2. /\ cursor.revision \in Nat /\ \A r \in requests : r.revision \in Nat
      /\ \A t \in Tasks : task[t].revision \in Nat /\ desired \in Nat /\ 0 \in Nat
  BY DEF TypeOK, Requests
<1> DEFINE Holds(n, c) == /\ n <= desired'
                          /\ n = desired' /\ unmarked' = 0 => \A e \in Envs : c[e] \in {Absent, Snapshot'[e]}
<1>3. ASSUME NEW n \in Nat, NEW c, UpTo(n, c) PROVE Holds(n, c)
  BY <1>3, UpToStays DEF UpTo
<1>4. Holds(cursor.revision, cursor.content) /\ \A r \in requests : Holds(r.revision, r.content)
  BY <1>1, <1>2, <1>3
<1>5. /\ \A t \in Tasks : Holds(task[t].revision, task[t].content)
      /\ (\E t \in Tasks : SendCatalog(t)) => Holds(desired, Snapshot)
      /\ Holds(0, Nothing)
  <2>1. (\E t \in Tasks : SendCatalog(t)) => desired \in Nat
    BY DEF TypeOK
  <2> QED BY <1>1, <1>2, <1>3, <2>1, UpToNow
<1>6. UpTo(cursor.revision, cursor.content)'
  <2>1. Holds(cursor'.revision, cursor'.content)
    BY <1>4, CursorStep
  <2> QED BY <2>1 DEF UpTo
<1>7. ASSUME NEW q \in requests' PROVE UpTo(q.revision, q.content)'
  <2>1. Holds(q.revision, q.content)
    BY <1>4, <1>5, RequestsStep
  <2> QED BY <2>1 DEF UpTo
<1>8. ASSUME NEW t \in Tasks PROVE UpTo(task[t].revision, task[t].content)'
  <2>1. Holds(task'[t].revision, task'[t].content)
    BY <1>5, TasksStep
  <2> QED BY <2>1 DEF UpTo
<1> QED BY <1>6, <1>7, <1>8

----------------------------------------------------------------------------
(* Credentials *)

\* Every step keeps stored what was accepted.
LEMMA AcceptedStep ==
  ASSUME TypeOK, Remaining, Delivered, Accepted, ActiveDsnStored, [Next]_vars
  PROVE  Accepted'
<1>1. known \subseteq known' /\ \A p \in known' : p[2] # 0
  BY KnownStep
<1>2. ASSUME NEW q \in Taken' PROVE StoredBut(q.content, q.left)'
  <2>1. q \in requests' /\ q.stage = "reconciled"
    BY <1>2 DEF Taken
  <2>2. CASE q \in requests
    <3>1. StoredBut(q.content, q.left)
      BY <2>1, <2>2 DEF Accepted, Taken
    <3> QED BY <1>1, <3>1 DEF StoredBut
  <2> QED BY <2>1, <2>2, RequestsStep
<1>3. ASSUME NEW t \in Confirmed' PROVE StoredBut(task[t].content, {})'
  <2>1. t \in Tasks /\ task'[t].pc = "answered" /\ task'[t].outcome = "ok"
    BY <1>3 DEF Confirmed
  <2>2. CASE task'[t] = task[t]
    <3>1. StoredBut(task[t].content, {})
      BY <2>1, <2>2 DEF Accepted, Confirmed
    <3> QED BY <1>1, <2>2, <3>1 DEF StoredBut
  <2>3. CASE task'[t] # task[t]
    BY <2>1, <2>3, TasksStep
  <2> QED BY <2>2, <2>3
<1>4. \A e \in saved'.active : <<e, saved'.credential[e]>> \in known'
  <2>1. CASE saved' = saved
    BY <1>1, <2>1 DEF Accepted
  <2>2. CASE Backup
    <3>1. saved'.active = active /\ saved'.credential = credential
      BY <2>2 DEF Backup
    <3> QED BY <1>1, <3>1 DEF ActiveDsnStored
  <2>3. saved' = saved \/ Backup
    <3>1. CASE Elsewhere
      BY <3>1, Zenon DEF Elsewhere, ChangeRegistry, ProjectCoalesced, LoseMark, Expire, LoseLease, vars, history
    <3>2. CASE Restore
      BY <3>2 DEF Restore
    <3>3. CASE \E r \in requests : OpsStep(r)
      BY <3>3, ServeShape
    <3>4. CASE \E t \in Tasks : TaskStep(t)
      BY <3>4, TaskStepShape
    <3> QED BY <3>1, <3>2, <3>3, <3>4, Kinds
  <2> QED BY <2>1, <2>2, <2>3
<1> QED BY <1>1, <1>2, <1>3, <1>4 DEF Accepted

\* Every step keeps the DSN that deploys get stored at Operations.
LEMMA ActiveStep ==
  ASSUME TypeOK, Remaining, Delivered, Accepted, ActiveDsnStored, [Next]_vars
  PROVE  ActiveDsnStored'
<1> USE DEF ActiveDsnStored
<1>1. known \subseteq known'
  BY KnownStep
<1>2. CASE UNCHANGED <<active, credential>>
  BY <1>1, <1>2
<1>3. ASSUME NEW e \in Envs, NEW v \in Origins \cup {Absent}, ChangeRegistry(e, v) PROVE ActiveDsnStored'
  <2>1. CASE v = Absent
    <3>1. active' = active \ {e} /\ credential' = [credential EXCEPT ![e] = 0]
      BY <1>3, <2>1 DEF ChangeRegistry
    <3>2. \A f \in active' : f \in active /\ credential'[f] = credential[f]
      BY <3>1 DEF TypeOK
    <3> QED BY <1>1, <3>2
  <2>2. CASE v # Absent
    BY <1>2, <1>3, <2>2 DEF ChangeRegistry
  <2> QED BY <2>1, <2>2
<1>4. ASSUME NEW t \in Tasks, ConfigureIngest(t) PROVE ActiveDsnStored'
  <2>1. /\ active' = active
        /\ credential' = [e \in Envs |-> IF registry[e] # Absent /\ credential[e] = 0
                                           THEN issued[e] + 1 ELSE credential[e]]
    BY <1>4 DEF ConfigureIngest
  <2>2. \A e \in active : e \in Envs /\ credential[e] # 0
    <3> SUFFICES ASSUME NEW e \in active PROVE credential[e] # 0
      BY DEF TypeOK
    <3>1. <<e, credential[e]>> \in known
      OBVIOUS
    <3>2. <<e, credential[e]>>[2] # 0
      BY <3>1 DEF Accepted
    <3> QED BY <3>2
  <2>3. \A e \in active : credential'[e] = credential[e]
    BY <2>1, <2>2
  <2> QED BY <1>1, <2>1, <2>3
<1>5. ASSUME NEW t \in Tasks, MarkApplied(t) PROVE ActiveDsnStored'
  <2>1. /\ credential' = credential /\ t \in Confirmed
        /\ active' = active \cup {e \in Present(task[t].content) :
                                    credential[e] = task[t].content[e].credential}
    BY <1>5 DEF MarkApplied, Confirmed
  <2>2. \A e \in Present(task[t].content) : Pair(task[t].content, e) \in known
    BY <2>1 DEF Accepted, StoredBut
  <2> QED BY <1>1, <2>1, <2>2 DEF Pair
<1>6. CASE Restore
  <2>1. active' = saved.active /\ credential' = saved.credential
    BY <1>6 DEF Restore
  <2> QED BY <1>1, <2>1 DEF Accepted
<1>7. CASE \E r \in requests : OpsStep(r)
  <2>1. UNCHANGED <<active, credential>>
    BY <1>7, ServeShape DEF control
  <2> QED BY <1>2, <2>1
<1>8. CASE ProjectCoalesced \/ LoseMark \/ Expire \/ Backup \/ UNCHANGED vars \/ \E t \in Tasks : LoseLease(t)
  <2>1. UNCHANGED <<active, credential>>
    BY <1>8, Zenon DEF ProjectCoalesced, LoseMark, Expire, Backup, LoseLease, control, vars
  <2> QED BY <1>2, <2>1
<1>9. ASSUME NEW t \in Tasks, TaskStep(t), ~MarkApplied(t), ~ConfigureIngest(t) PROVE ActiveDsnStored'
  <2>1. CASE ProjectChange(t) \/ EnsurePending(t) \/ Interrupt(t) \/ Crash(t)
    BY <1>2, <2>1 DEF ProjectChange, EnsurePending, Interrupt, Crash, control
  <2>2. CASE Sync(t)
    BY <1>2, <1>9, <2>2 DEF Sync, AcquireLease, Coalesce, UpToDate, GiveUpPasses, SendCatalog, AdvancePast, FailSync,
                            Handoff, control
  <2> QED BY <1>9, <2>1, <2>2 DEF TaskStep
<1> QED BY <1>3, <1>4, <1>5, <1>6, <1>7, <1>8, <1>9, Kinds DEF Elsewhere

----------------------------------------------------------------------------
(* Sources *)

\* Requests that are not in a batch come and go beside the one that is.
LEMMA AloneFrame ==
  ASSUME Alone, UNCHANGED <<cursor, sources, overlapped>>, \A q \in Open' : q \in Open
  PROVE  Alone'
BY DEF Alone

\* Every step keeps the sources equal to the cursor's content while batches do not overlap.
LEMMA AloneStep ==
  ASSUME TypeOK, Remaining, Delivered, Accepted, Alone, [Next]_vars
  PROVE  Alone'
<1>1. CASE Elsewhere
  BY <1>1, ElsewhereShape, AloneFrame DEF operations, Open
<1>2. CASE Restore
  BY <1>2, AloneFrame DEF Restore, operations, Open
<1>3. ASSUME NEW t \in Tasks, TaskStep(t) PROVE Alone'
  <2>1. UNCHANGED <<cursor, sources, overlapped>>
    BY <1>3, TaskStepShape DEF operations
  <2>2. ASSUME NEW q \in requests', q.stage \in {"begun", "batch"} PROVE q \in requests
    <3>1. requests' = requests \/ SendCatalog(t)
      BY <1>3, TaskStepShape
    <3> QED BY <2>2, <3>1 DEF SendCatalog
  <2> QED BY <2>1, <2>2, AloneFrame DEF Open
<1>4. ASSUME NEW r \in requests, OpsStep(r) PROVE Alone'
  <2>1. CASE BatchStep(r)
    <3>1. UNCHANGED <<cursor, sources>>
      BY <2>1, BatchShape
    <3>2. PICK q \in Requests :
              /\ requests' = (requests \ {r}) \cup {q} /\ Successor(r, q) /\ q.stage \in {"begun", "batch"}
              /\ \/ /\ Reconcile(r) /\ r.revision > cursor.revision /\ q.stage = "begun"
                    /\ q.seen = Present(sources) /\ q.below = r.below
                    /\ r.stage = "sent" /\ overlapped' = (overlapped \/ Open # {})
                 \/ /\ r \in Open /\ q.stage = "batch" /\ q.seen = r.seen /\ q.below = Below(r)
                    /\ overlapped' = overlapped
                    /\ \/ r.stage = "begun" /\ q.left = Present(r.content)
                       \/ r.stage = "batch" /\ q.written \cup q.left = r.written \cup r.left
                       \/ r.stage = "batch" /\ ~Below(r)
      BY <2>1, BatchShape
    <3>3. Open' \subseteq (Open \ {r}) \cup {q}
      BY <3>2 DEF Open
    <3>4. q.revision = r.revision /\ q.content = r.content
      BY <3>2 DEF Successor
    <3>5. SUFFICES ASSUME ~overlapped'
                   PROVE  /\ Open' \subseteq {q} /\ sources = Shown(cursor.content)
                          /\ q.revision > cursor.revision /\ q.below /\ q.seen = Present(sources)
                          /\ q.stage = "batch" => Present(q.content) \subseteq q.written \cup q.left
      BY <3>1 DEF Alone
    <3>6. CASE r.stage = "sent"
      <4>1. ~overlapped /\ Open = {} /\ r.revision > cursor.revision /\ q.stage = "begun"
            /\ q.seen = Present(sources) /\ q.below = r.below
        BY <3>2, <3>5, <3>6 DEF Open
      <4>2. r.below
        BY <3>6 DEF Remaining
      <4> QED BY <3>3, <3>4, <4>1, <4>2 DEF Alone
    <3>7. CASE r.stage # "sent"
      <4>1. /\ ~overlapped /\ r \in Open /\ q.stage = "batch" /\ q.seen = r.seen /\ q.below = Below(r)
            /\ \/ r.stage = "begun" /\ q.left = Present(r.content)
               \/ r.stage = "batch" /\ q.written \cup q.left = r.written \cup r.left
               \/ r.stage = "batch" /\ ~Below(r)
        BY <3>2, <3>5, <3>7
      <4>2. /\ Open = {r} /\ r.revision > cursor.revision /\ r.seen = Present(sources)
            /\ sources = Shown(cursor.content)
            /\ r.stage = "batch" => Present(r.content) \subseteq r.written \cup r.left
        BY <4>1 DEF Alone
      <4> QED BY <3>3, <3>4, <4>1, <4>2 DEF Below
    <3> QED BY <3>6, <3>7
  <2>2. CASE Reconcile(r) /\ Decided(r)
    <3>1. UNCHANGED <<cursor, sources>> /\ r.stage = "sent"
      BY <2>2 DEF Reconcile
    <3>2. \A q \in requests' : q \in requests \/ q.stage = "reconciled"
      BY <2>2, <3>1, DecidedShape
    <3>3. r.revision <= cursor.revision
      BY <2>2, <3>1, DecidedShape
    <3>4. overlapped' = overlapped
      BY <2>2, <3>3 DEF Reconcile, TypeOK, Requests
    <3> QED BY <3>1, <3>2, <3>4, AloneFrame DEF Open
  <2>3. CASE CommitCatalog(r)
    <3>1. r \in Open /\ r.stage = "batch" /\ r.left = {} /\ overlapped' = overlapped
      BY <2>3 DEF CommitCatalog, Open
    <3>2. SUFFICES ASSUME ~overlapped PROVE Open' = {} /\ sources' = Shown(cursor'.content)
      BY <3>1 DEF Alone
    <3>3. /\ Open = {r} /\ r.revision > cursor.revision /\ r.seen = Present(sources)
          /\ Present(r.content) \subseteq r.written /\ r.written \subseteq Present(r.content)
      BY <3>1, <3>2 DEF Alone, Remaining
    <3>4. r.revision \in Nat /\ cursor.revision \in Nat
      BY DEF TypeOK, Requests
    <3>5. cursor' = [revision |-> r.revision, content |-> r.content] /\ Accepting(r)
      BY <2>3, <3>3, <3>4 DEF CommitCatalog, Decided
    <3>6. Behind(r.revision, r.content)'
      BY <3>4, <3>5 DEF Behind
    <3>7. /\ \A q \in requests' : q \in requests \/ q.stage = "reconciled"
          /\ r \in requests' => r.stage = "reconciled"
      BY <3>5, <3>6, AcceptingShape
    <3>8. Open' = {}
      BY <3>1, <3>3, <3>7 DEF Open
    <3>9. sources' = Shown(r.content)
      <4>1. sources' = [e \in Envs |-> IF e \in r.written THEN r.content[e].origin
                                       ELSE IF e \in r.seen THEN Absent ELSE sources[e]]
        BY <2>3 DEF CommitCatalog
      <4> QED BY <3>3, <4>1 DEF Shown, Present
    <3> QED BY <3>5, <3>8, <3>9
  <2>4. CASE BatchFails(r)
    <3>1. requests' = requests \ {r} /\ UNCHANGED <<cursor, sources, overlapped>>
      BY <2>4, Zenon DEF BatchFails, operations
    <3> QED BY <3>1, AloneFrame DEF Open
  <2>5. ASSUME NEW e \in Envs, AcceptCredential(r, e) PROVE Alone'
    <3>1. UNCHANGED <<cursor, sources, overlapped>> /\ r.stage = "reconciled"
      BY <2>5 DEF AcceptCredential
    <3>2. \A q \in requests' : q \in requests \/ q.stage = "reconciled"
      BY <2>5, <3>1 DEF AcceptCredential, TypeOK, Requests
    <3> QED BY <3>1, <3>2, AloneFrame DEF Open
  <2> QED BY <1>4, <2>1, <2>2, <2>3, <2>4, <2>5 DEF OpsStep, Handle, BatchStep
<1> QED BY <1>1, <1>2, <1>3, <1>4, Kinds

----------------------------------------------------------------------------
(* Theorems *)

\* The start.
LEMMA InitIInv ==
  ASSUME Init
  PROVE  IInv
<1>1. TypeOK
  <2>1. Nothing \in [Envs -> Origins \cup {Absent}]
    BY DEF Nothing
  <2> QED BY <2>1, Values DEF Init, TypeOK, TaskStates
<1>2. Remaining /\ Accepted /\ ActiveDsnStored /\ Delivered
  BY Values DEF Init, Remaining, Accepted, ActiveDsnStored, Delivered, Taken, Confirmed, Behind
<1>3. UpToDesired
  BY <1>1, UpToNow, Values DEF Init, UpToDesired
<1>4. Alone
  BY Values DEF Init, Alone, Open, Shown, Nothing
<1> QED BY <1>1, <1>2, <1>3, <1>4 DEF IInv

\* The inductive invariant holds in every reachable state.
LEMMA Always == Spec => []IInv
<1>1. IInv /\ [Next]_vars => IInv'
  BY TypeStep, RemainingStep, DeliveredStep, UpToDesiredStep, AcceptedStep, ActiveStep, AloneStep DEF IInv
<1> QED BY <1>1, InitIInv, PTL DEF Spec

\* The registry, the tasks, the requests and the catalog of Operations keep their types.
THEOREM TypeCorrect == Spec => []TypeOK
BY Always, PTL DEF IInv

\* What Control records as applied Operations has taken, however requests are repeated, late or lost, and
\* after a restore of Control's database.
THEOREM AppliedDelivered == Spec => []AppliedIsDelivered
<1>1. IInv => AppliedIsDelivered
  BY DEF IInv, AppliedIsDelivered, Delivered, Behind, UpToDesired, UpTo
<1> QED BY <1>1, Always, PTL

\* When nothing is pending, the snapshot Operations took last has nothing outdated, and unless two of its batches
\* overlapped the enabled sources are exactly the ones that snapshot asks for.
THEOREM NothingOutdated == Spec => []NoOutdatedSource
<1>1. ASSUME IInv PROVE NoOutdatedSource
  <2> SUFFICES ASSUME ~lostMark, desired = applied, unmarked = 0
               PROVE  /\ \A e \in Envs : cursor.content[e] \in {Absent, Snapshot[e]}
                      /\ sources = Shown(cursor.content) \/ overlapped
    BY DEF NoOutdatedSource, Quiet
  <2>1. cursor.revision = desired
    BY <1>1 DEF IInv, Delivered, Behind, UpToDesired, UpTo, TypeOK
  <2> QED BY <1>1, <2>1 DEF IInv, UpToDesired, UpTo, Alone
<1> QED BY <1>1, Always, PTL

\* The DSN of an environment carries a credential that Operations stored for it.
THEOREM DsnStored == Spec => []ActiveDsnStored
BY Always, PTL DEF IInv
=============================================================================
