------------------------- MODULE MaintenanceBarrier -------------------------
(***************************************************************************)
(* The maintenance barrier of an application object: packages/app/src/     *)
(* cloudflare/maintenance.ts, with the ops requests that run in its turn   *)
(* (ops.ts, export.ts, import.ts, restore.ts).                             *)
(*                                                                         *)
(* Control moves the object between modes under rising generations.  The   *)
(* state lives in R2, written by conditional puts, and in the memory of    *)
(* the one running instance; an eviction loses the memory, and a put that  *)
(* was under way may still land later.  Requests of Control may be         *)
(* repeated and may arrive late.  The etag of the stored state is a hash   *)
(* of its content and stands for it.                                       *)
(*                                                                         *)
(* Reads are left out: no mode makes them write.  The database is two      *)
(* counters, of data changes and of applied migrations.                    *)
(***************************************************************************)
EXTENDS Naturals

CONSTANTS Clients,         \* ordinary invocations that write (request, webhook, kick, job)
          PutAttempts,     \* PUT_ATTEMPTS
          Asked,           \* bound: the transitions Control may ask for
          MaxData,         \* bound: data changes
          MaxFaults        \* bound: evictions and failed puts

Modes == {"open", "read-only", "closed", "inspect"}
RankOf(mode) == CASE mode = "open" -> 0 [] mode = "read-only" -> 1
                  [] mode = "closed" -> 2 [] mode = "inspect" -> 3

ASSUME AskedAssumption == Asked \subseteq [generation : Nat \ {0}, mode : Modes]
ASSUME BoundsAssumption == PutAttempts \in Nat \ {0} /\ MaxData \in Nat /\ MaxFaults \in Nat

VARIABLES
  issued,   \* the transitions Control has asked for
  acked,    \* the transitions some instance acknowledged
  r2,       \* the stored maintenance state
  record,   \* the stored frozen record
  latePuts, \* state puts whose instance does not wait for them any more
  lateRecords, \* the same of the frozen record
  up,       \* an instance is running
  mem,      \* its memory: mode, generation, what it believes R2 holds, frozenSince (0: null)
  turn,     \* what runs in the barrier's turn
  client,   \* the captured state of each invocation, and whether it is admitted
  db,       \* data changes and migrations
  commits,  \* data changes made by ordinary invocations
  dump,     \* what the consistent dump's first begin recorded
  importing,\* the object holds an import marker
  faults    \* how many; history: a data step wrote while a record of an earlier stretch could be
            \* resumed, a request older than the stored state was put

vars == <<issued, acked, r2, record, latePuts, lateRecords, up, mem, turn, client, db, commits,
          dump, importing, faults>>

States == [generation : Nat, mode : Modes]
\* Before the first publication the object is open.
Unpublished == [generation |-> 0, mode |-> "open"]
Free == [kind |-> "free"]
Out == [phase |-> "out", captured |-> Unpublished]
NoDump == [since |-> 0, migrations |-> 0, data |-> 0, generation |-> 0]

\* The constructor on a stored state and a frozen record.
Loaded(state, since) ==
  [mode |-> state.mode, generation |-> state.generation, stored |-> state, since |-> since]

Init ==
  /\ issued = {} /\ acked = {} /\ r2 = Unpublished /\ record = [generation |-> 0, since |-> 0]
  /\ latePuts = {} /\ lateRecords = {} /\ up = TRUE /\ mem = Loaded(Unpublished, 0) /\ turn = Free
  /\ client = [c \in Clients |-> Out]
  /\ db = [data |-> 0, migrations |-> 0] /\ commits = 0
  /\ dump = NoDump /\ importing = FALSE
  /\ faults = [count |-> 0, unrecorded |-> FALSE, overtaken |-> FALSE]

\* Mutant: a request of an earlier generation is accepted.
RefusedModeOnly(current, request) ==
  current # Unpublished /\ request.generation = current.generation /\ request.mode # current.mode

\* opsTransitionRefused: a lower generation, or the same one with another mode.
Refused(current, request) ==
  current # Unpublished /\ \/ request.generation < current.generation
                           \/ request.generation = current.generation /\ request.mode # current.mode

Current == [generation |-> mem.generation, mode |-> mem.mode]
IsPublished == mem.stored # Unpublished /\ mem.stored = Current

\* The turn is taken only by a running instance, one step at a time.
InTurn == up /\ turn = Free

\* An eviction, or a failed put of the state or of the record.
Fault == faults.count < MaxFaults /\ faults' = [faults EXCEPT !.count = @ + 1]

\* putFrozen: the record is stored, or the put fails and may still land.
PutRecord(new) ==
  \/ record' = new /\ UNCHANGED <<lateRecords, faults>>
  \/ lateRecords' = lateRecords \cup {new} /\ record' = record /\ Fault

----------------------------------------------------------------------------
(* Transitions *)

\* Control allocates a generation above every earlier one.
Issue(request) ==
  /\ \A r \in issued : r.generation < request.generation
  /\ issued' = issued \cup {request}
  /\ UNCHANGED <<acked, r2, record, latePuts, lateRecords, up, mem, turn, client, db, commits,
                 dump, importing, faults>>

\* A restricting transition takes effect in memory before anything is awaited.
Switched(request) ==
  IF RankOf(request.mode) > RankOf(mem.mode)
    THEN [mem EXCEPT !.mode = request.mode, !.generation = request.generation]
    ELSE mem

\* The request is judged against memory, which may be older than what R2 was found to hold.
Overtaken(request) ==
  mem.generation <= request.generation /\ request.generation < mem.stored.generation

\* The state request: stale and frozen ones change nothing; a retry of what is published only drains.
Transition(request) ==
  /\ InTurn /\ ~Refused(Current, request)
  /\ ~(mem.mode = "inspect" /\ request.mode # "inspect" /\ importing)
  /\ IF mem.generation = request.generation /\ IsPublished
       THEN turn' = [kind |-> "drain", request |-> request] /\ mem' = mem
       ELSE /\ turn' = [kind |-> "put", request |-> request, attempt |-> 1]
            /\ mem' = Switched(request)
  /\ faults' = [faults EXCEPT !.overtaken = @ \/ Overtaken(request)]
  /\ UNCHANGED <<issued, acked, r2, record, latePuts, lateRecords, up, client, db, commits, dump,
                 importing>>

\* The condition of the put: R2 still holds what the instance believes it holds.
PutMatches == r2 = mem.stored

\* The conditional put succeeds: an opening transition switches memory only now.
PutPublished ==
  /\ turn.kind = "put" /\ PutMatches
  /\ r2' = turn.request
  /\ mem' = [mem EXCEPT !.mode = turn.request.mode, !.generation = turn.request.generation,
                        !.stored = turn.request]
  /\ turn' = [kind |-> "froze", request |-> turn.request]
  /\ UNCHANGED <<issued, acked, record, latePuts, lateRecords, up, client, db, commits, dump,
                 importing, faults>>

\* The put is refused and R2 read again: a later state is adopted, an earlier one is put over.
PutConflict ==
  /\ turn.kind = "put" /\ ~PutMatches
  /\ IF Refused(r2, turn.request)
       THEN /\ mem' = Loaded(r2, IF r2.mode = "open" THEN 0 ELSE r2.generation)
            /\ turn' = Free
       ELSE /\ mem' = [mem EXCEPT !.stored = r2]
            /\ turn' = IF turn.attempt < PutAttempts
                         THEN [turn EXCEPT !.attempt = @ + 1] ELSE Free
  /\ UNCHANGED <<issued, acked, r2, record, latePuts, lateRecords, up, client, db, commits, dump,
                 importing, faults>>

\* The put throws: memory keeps a restriction that R2 lacks, and the put may have landed or land later.
PutFailed ==
  /\ turn.kind = "put" /\ Fault
  /\ latePuts' = latePuts \cup {[expected |-> mem.stored, request |-> turn.request]}
  /\ turn' = Free
  /\ UNCHANGED <<issued, acked, r2, record, lateRecords, up, mem, client, db, commits, dump,
                 importing>>

\* Mutant: the put names no version.
LandLatePutUnconditional(put) ==
  /\ latePuts' = latePuts \ {put} /\ r2' = put.request
  /\ UNCHANGED <<issued, acked, record, lateRecords, up, mem, turn, client, db, commits, dump,
                 importing, faults>>

\* A put nobody waits for lands, or is refused.
LandLatePut(put) ==
  /\ latePuts' = latePuts \ {put}
  /\ r2' = IF r2 = put.expected THEN put.request ELSE r2
  /\ UNCHANGED <<issued, acked, record, lateRecords, up, mem, turn, client, db, commits, dump,
                 importing, faults>>

\* #froze: open ends the stretch, another mode keeps it or starts it; a failed put of the record is
\* swallowed.
Froze ==
  LET since == IF mem.since = 0 THEN turn.request.generation ELSE mem.since
  IN  /\ turn.kind = "froze"
      /\ IF turn.request.mode = "open"
           THEN mem' = [mem EXCEPT !.since = 0] /\ UNCHANGED <<record, lateRecords, faults>>
           ELSE /\ mem' = [mem EXCEPT !.since = since]
                /\ PutRecord([generation |-> turn.request.generation, since |-> since])
      /\ turn' = [kind |-> "drain", request |-> turn.request]
      /\ UNCHANGED <<issued, acked, r2, latePuts, up, client, db, commits, dump, importing>>

\* A put of the record that nobody waits for lands: it names no version.
LandLateRecord(late) ==
  /\ lateRecords' = lateRecords \ {late} /\ record' = late
  /\ UNCHANGED <<issued, acked, r2, latePuts, up, mem, turn, client, db, commits, dump, importing,
                 faults>>

\* The drain ends with every forbidden invocation, or at its bound; the transition is acknowledged.
Acknowledge ==
  /\ turn.kind = "drain"
  /\ acked' = acked \cup {turn.request} /\ turn' = Free
  /\ UNCHANGED <<issued, r2, record, latePuts, lateRecords, up, mem, client, db, commits, dump,
                 importing, faults>>

----------------------------------------------------------------------------
(* The instance *)

\* The platform drops the instance; a put under way may still land.
Evict ==
  /\ up /\ Fault
  /\ up' = FALSE /\ turn' = Free
  /\ latePuts' = IF turn.kind = "put"
                   THEN latePuts \cup {[expected |-> mem.stored, request |-> turn.request]}
                   ELSE latePuts
  /\ client' = [c \in Clients |-> Out]
  /\ UNCHANGED <<issued, acked, r2, record, lateRecords, mem, db, commits, dump, importing>>

\* Mutant: the record is trusted whichever generation it was written at.
FrozenOnLoadAnyGeneration ==
  IF r2.mode = "open" THEN 0
  ELSE IF record.generation # 0 THEN record.since ELSE r2.generation

\* frozenOnLoad: the record's stretch if it was written at the stored generation, else a new one.
FrozenOnLoad ==
  IF r2.mode = "open" THEN 0
  ELSE IF record.generation = r2.generation THEN record.since ELSE r2.generation

\* The cold start.
Load ==
  /\ ~up /\ up' = TRUE
  /\ mem' = Loaded(r2, FrozenOnLoad)
  /\ UNCHANGED <<issued, acked, r2, record, latePuts, lateRecords, turn, client, db, commits,
                 dump, importing, faults>>

----------------------------------------------------------------------------
(* Ordinary invocations *)

\* event(): an arriving invocation captures the generation and mode.
Arrive(c) ==
  /\ up /\ client[c].phase = "out"
  /\ client' = [client EXCEPT ![c] = [phase |-> "arrived", captured |-> Current]]
  /\ UNCHANGED <<issued, acked, r2, record, latePuts, lateRecords, up, mem, turn, db, commits,
                 dump, importing, faults>>

\* admit: only while open, and only at the captured generation; otherwise it is refused.
Admit(c) ==
  /\ up /\ client[c].phase = "arrived"
  /\ client' = IF mem.mode = "open" /\ mem.generation = client[c].captured.generation
                 THEN [client EXCEPT ![c].phase = "running"] ELSE [client EXCEPT ![c] = Out]
  /\ UNCHANGED <<issued, acked, r2, record, latePuts, lateRecords, up, mem, turn, db, commits,
                 dump, importing, faults>>

\* writable: captured open, open now, and no transition in between.
Writable(c) == client[c].captured.mode = "open" /\ mem.mode = "open"
               /\ mem.generation = client[c].captured.generation

\* A write commits, as often as the invocation likes.
Commit(c) ==
  /\ up /\ client[c].phase = "running" /\ Writable(c)
  /\ db.data < MaxData
  /\ db' = [db EXCEPT !.data = @ + 1] /\ commits' = commits + 1
  /\ UNCHANGED <<issued, acked, r2, record, latePuts, lateRecords, up, mem, turn, client, dump,
                 importing, faults>>

\* The invocation settles.
Release(c) ==
  /\ client[c].phase = "running"
  /\ client' = [client EXCEPT ![c] = Out]
  /\ UNCHANGED <<issued, acked, r2, record, latePuts, lateRecords, up, mem, turn, db, commits,
                 dump, importing, faults>>

----------------------------------------------------------------------------
(* Steps of data operations, each in the turn and under the published generation *)

\* migrate, in every mode but inspect: it changes data and ledger inside a stretch.
Migrate ==
  /\ InTurn /\ IsPublished /\ mem.mode # "inspect"
  /\ db.data < MaxData
  /\ db' = [data |-> db.data + 1, migrations |-> db.migrations + 1]
  /\ UNCHANGED <<issued, acked, r2, record, latePuts, lateRecords, up, mem, turn, client, commits,
                 dump, importing, faults>>

\* restrictedWrite: the stretch starts again, durably, before the step writes; a failed put ends it.
RestrictedWrite ==
  IF mem.since = mem.generation
    THEN UNCHANGED <<mem, record, lateRecords, faults>> /\ turn' = [kind |-> "write"]
    ELSE /\ mem' = [mem EXCEPT !.since = mem.generation]
         /\ PutRecord([generation |-> mem.generation, since |-> mem.generation])
         /\ turn' = IF faults' = faults THEN [kind |-> "write"] ELSE turn

\* An import step or a restore's arm reaches an object in inspect.  Control never dumps and loads one
\* object under one generation: the steps of an operation carry its generations.
DataStep ==
  /\ InTurn /\ IsPublished /\ mem.mode = "inspect"
  /\ dump.generation # mem.generation /\ db.data < MaxData
  /\ RestrictedWrite
  /\ UNCHANGED <<issued, acked, r2, latePuts, up, client, db, commits, dump, importing>>

\* The stored record, or one that may still land over it, names an earlier stretch for the generation.
Unrecorded ==
  \E known \in lateRecords \cup {record} : known.generation = mem.generation /\ known.since # mem.since

\* The step writes; an import's begin sets the marker and its end removes it.
DataWrite ==
  /\ turn.kind = "write"
  /\ db' = [db EXCEPT !.data = @ + 1]
  /\ importing' \in BOOLEAN
  /\ turn' = Free /\ faults' = [faults EXCEPT !.unrecorded = @ \/ Unrecorded]
  /\ UNCHANGED <<issued, acked, r2, record, latePuts, lateRecords, up, mem, client, commits, dump>>

\* A consistent dump's step is admitted: published, not open, and no import under way.
DumpAdmitted == InTurn /\ IsPublished /\ mem.mode # "open" /\ mem.since # 0 /\ ~importing

\* The first begin of a dump records the stretch and the ledger it saw.
BeginDump ==
  /\ DumpAdmitted /\ dump = NoDump
  /\ dump' = [since |-> mem.since, migrations |-> db.migrations, data |-> db.data,
              generation |-> mem.generation]
  /\ UNCHANGED <<issued, acked, r2, record, latePuts, lateRecords, up, mem, turn, client, db,
                 commits, importing, faults>>

\* The dump ends, complete or given up.
EndDump ==
  /\ dump # NoDump /\ dump' = NoDump
  /\ UNCHANGED <<issued, acked, r2, record, latePuts, lateRecords, up, mem, turn, client, db,
                 commits, importing, faults>>

----------------------------------------------------------------------------
Next == \/ \E request \in Asked : Issue(request)
        \/ \E request \in issued : Transition(request)
        \/ PutPublished \/ PutConflict \/ PutFailed \/ Froze \/ Acknowledge
        \/ \E put \in latePuts : LandLatePut(put)
        \/ \E late \in lateRecords : LandLateRecord(late)
        \/ Evict \/ Load
        \/ \E c \in Clients : Arrive(c) \/ Admit(c) \/ Commit(c) \/ Release(c)
        \/ Migrate \/ DataStep \/ DataWrite \/ BeginDump \/ EndDump

Spec == Init /\ [][Next]_vars

----------------------------------------------------------------------------
(* Properties *)

Turns == {Free, [kind |-> "write"]}
         \cup [kind : {"put"}, request : States, attempt : 1..PutAttempts]
         \cup [kind : {"froze", "drain"}, request : States]

\* The type invariant.
TypeOK ==
  /\ issued \subseteq States /\ acked \subseteq States /\ r2 \in States
  /\ record \in [generation : Nat, since : Nat]
  /\ latePuts \subseteq [expected : States, request : States]
  /\ lateRecords \subseteq [generation : Nat, since : Nat]
  /\ up \in BOOLEAN
  /\ mem \in [mode : Modes, generation : Nat, stored : States, since : Nat]
  /\ turn \in Turns
  /\ client \in [Clients -> [phase : {"out", "arrived", "running"}, captured : States]]
  /\ db \in [data : Nat, migrations : Nat] /\ commits \in Nat
  /\ dump \in [since : Nat, migrations : Nat, data : Nat, generation : Nat]
  /\ importing \in BOOLEAN /\ faults \in [count : Nat, unrecorded : BOOLEAN, overtaken : BOOLEAN]

\* Every restriction Control has the acknowledgement of was followed by a later open it asked for.
RestrictionsLifted ==
  \A a \in acked : a.mode # "open" =>
    \E r \in issued : r.mode = "open" /\ r.generation > a.generation

\* Once Control has the acknowledgement of a restriction, no ordinary invocation commits a write until
\* Control asks for a later open: evictions, late puts and invocations of before included, unless a
\* request was put over a later state.
AcknowledgedIsQuiet == [][commits' # commits /\ ~faults.overtaken => RestrictionsLifted]_vars

\* The same without exception, as ADR-0069 says it: "no write admitted under an older generation commits
\* after a restrictive transition".  It does not hold (README, section 6).
RestrictionHolds == [][commits' # commits => RestrictionsLifted]_vars

\* The published generation never goes back, whichever put of a replaced instance lands late, unless a
\* request was put over a later state.
PublishedNeverGoesBack == [][~faults.overtaken => r2'.generation >= r2.generation]_vars

\* An acknowledged state is never lost: what R2 holds is at least as late, unless a request was put over a
\* later state.
AcknowledgedIsPublished ==
  ~faults.overtaken => \A a \in acked : /\ a.generation <= r2.generation
                                        /\ a.generation = r2.generation => a = r2

\* While a dump's stretch and ledger are the recorded ones, no data changed since its begin: what its
\* steps read is one state, across evictions, transitions within the stretch and failed or late puts, other
\* than those of the two exceptions in faults.
ConsistentDump ==
  ( /\ ~faults.unrecorded /\ ~faults.overtaken /\ dump # NoDump /\ DumpAdmitted
    /\ mem.since = dump.since /\ db.migrations = dump.migrations )
  => db.data = dump.data
=============================================================================
