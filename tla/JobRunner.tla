----------------------------- MODULE JobRunner -----------------------------
(***************************************************************************)
(* One job of an application: its lease, pending flag and durable wakes    *)
(* (packages/db/src/job-leases.ts, job-wakes.ts), the runs of it           *)
(* (packages/app/src/jobs/runner.ts) and what starts them: a site's kick,  *)
(* and the object's alarm (app/src/cloudflare/application.ts) or, on Bun,  *)
(* the wake timer and crontab.                                             *)
(*                                                                         *)
(* A statement on the lease changes the wakes and arms the alarm in the    *)
(* same transaction, so each is one action; everything a run does between  *)
(* two statements interleaves with the other runs.  Kicks are numbered in  *)
(* the order their sites commit, and an attempt sees the ones committed    *)
(* when it starts.  Times are abstract: a wake is due or not yet, a lease  *)
(* live, past its attempt's deadline, or expired.                          *)
(***************************************************************************)
EXTENDS Naturals

CONSTANTS Runners,        \* runs that may be under way at once
          Keys,           \* dedupe keys of kick wakes: the second a kick is due
          Retries,        \* the job's declared retries
          MaxKicks,       \* bound: kicks
          MaxFires,       \* bound: times the schedule is due
          MaxFaults,      \* bound: crashes, stalls, stops, missed alarms and maintenance
          MaxGeneration   \* bound: lease generations the runs remember at once

ASSUME ConstantsAssumption ==
  /\ {Retries, MaxKicks, MaxFires, MaxFaults, MaxGeneration} \subseteq Nat
  /\ "cron" \notin Keys

VARIABLES
  lease,     \* the lease's row: the generation that holds it (0: free) and its time
  wakes,     \* the pending wakes
  pending,   \* the shared pending flag
  run,       \* the runs under way
  committed, \* kicks whose site committed
  urgent,    \* the last of them sent without a due time
  finished,  \* the last kick a finished run's attempt could see
  handled,   \* the last kick the job's committed writes reflect
  alarm,     \* the object's alarm: set, none, owed by the request that opened it, or missed while open
  alarming,  \* an alarm event is being handled, or will be again
  open,      \* the object admits work
  clean,     \* no attempt failed and no fault happened
  faults, fires,
  cloudflare \* the platform: a Durable Object with its alarm, or Bun with its timer and crontab

store == <<lease, wakes, pending>>
progress == <<committed, urgent, finished, handled>>
object == <<alarm, alarming, open>>
bounds == <<clean, faults, fires, cloudflare>>
vars == <<lease, wakes, pending, run, committed, urgent, finished, handled,
          alarm, alarming, open, clean, faults, fires, cloudflare>>

Idle == [pc |-> "idle", goal |-> "first", by |-> "kick", generation |-> 0, seen |-> 0, attempt |-> 0,
         durable |-> FALSE, outcome |-> "none"]
Alarm(is) == IF is THEN "set" ELSE "none"
Wake(key, due) == [key |-> key, due |-> due, attempt |-> 0, owned |-> FALSE, newest |-> 0]

\* The startup repair has registered the job and, for the alarm, its cron wake.
Init ==
  /\ lease = [holder |-> 0, time |-> "live"]
  /\ cloudflare \in BOOLEAN
  /\ wakes = IF cloudflare THEN {Wake("cron", FALSE)} ELSE {}
  /\ pending = FALSE /\ run = [r \in Runners |-> Idle]
  /\ committed = 0 /\ urgent = 0 /\ finished = 0 /\ handled = 0
  /\ alarm = Alarm(cloudflare) /\ alarming = FALSE /\ open = TRUE
  /\ clean = TRUE /\ faults = 0 /\ fires = 0

----------------------------------------------------------------------------
(* The lease and the wakes *)

Free == lease.holder = 0
Expired == lease.time = "expired"
Holds(r) == lease.holder = run[r].generation

\* projectWakes: the alarm is armed while a wake is pending or a lease held, and deleted otherwise.
Projected(l, w) == cloudflare /\ (w # {} \/ l.holder # 0)
Change(l, w) == lease' = l /\ wakes' = w /\ alarm' = Alarm(Projected(l, w))

\* SQL_OWN and SQL_DISOWN: a taken lease owns the wakes due at its start and no other.
Owned(w) == {[x EXCEPT !.owned = x.due] : x \in w}
Disowned(w) == {[x EXCEPT !.owned = FALSE] : x \in w}

\* A generation is only ever compared for equality: a new one is one nobody remembers.
Unused == 1..MaxGeneration \ {run[r].generation : r \in Runners}
Taken == [holder |-> CHOOSE g \in Unused : \A n \in Unused : g <= n, time |-> "live"]
Released == [lease EXCEPT !.holder = 0, !.time = "live"]

\* SQL_SCHEDULE: a key already pending keeps one row, the earlier due time, and leaves its owner.
Scheduled(key, due, kick) ==
  LET same == {x \in wakes : x.key = key}
  IN  IF same = {} THEN wakes \cup {[Wake(key, due) EXCEPT !.newest = kick]}
      ELSE (wakes \ same) \cup {[x EXCEPT !.due = @ \/ due, !.owned = FALSE, !.newest = kick] : x \in same}

\* Mutant: a finish consumes every due wake.
CompletedDue == {x \in wakes : ~x.due}
                \cup {Wake("cron", FALSE) : x \in {y \in wakes : y.due /\ y.key = "cron"}}

\* A finish's wakes: consumed, with the cron wake at its next fire, or moved to a later time.
Completed == {x \in wakes : ~x.owned}
             \cup {Wake("cron", FALSE) : x \in {y \in wakes : y.owned /\ y.key = "cron"}}
Retried == {IF x.owned THEN [x EXCEPT !.due = FALSE, !.attempt = @ + 1] ELSE x : x \in wakes}

\* ownedByHolder: the run that holds the lease owns every due wake.
OwnedByHolder == ~Free /\ \A x \in wakes : x.due => x.owned

\* reapCrashed: an expired holder's lease is freed and its wakes owned by none.
ReapedLease == IF Expired THEN Released ELSE lease
ReapedWakes == IF Expired THEN Disowned(wakes) ELSE wakes

Reap ==
  /\ open /\ Expired /\ Change(Released, Disowned(wakes))
  /\ UNCHANGED <<pending, run, progress, alarming, open, bounds>>

----------------------------------------------------------------------------
(* What starts a run *)

Ready(r) == run[r].pc = "idle"
Step(r, pc) == run' = [run EXCEPT ![r].pc = pc]
Try(r, by) == run' = [run EXCEPT ![r] = [Idle EXCEPT !.pc = "try", !.by = by]]

\* A site commits its row and the kick's wake together, then sends the kick.
Kick(r, key) ==
  /\ open /\ Ready(r) /\ committed < MaxKicks
  /\ committed' = committed + 1 /\ urgent' = committed + 1
  /\ Change(lease, Scheduled(key, TRUE, committed + 1))
  /\ Try(r, "kick")
  /\ UNCHANGED <<pending, finished, handled, alarming, open, bounds>>

\* A kick with a due time is only its wake.
KickAt(key) ==
  /\ open /\ committed < MaxKicks
  /\ committed' = committed + 1
  /\ Change(lease, Scheduled(key, FALSE, committed + 1))
  /\ UNCHANGED <<pending, run, urgent, finished, handled, alarming, open, bounds>>

\* Time reaches a wake; an untried cron wake's is one fire of the schedule.
NewFire(x) == x.key = "cron" /\ x.attempt = 0
BecomesDue(x) ==
  /\ ~x.due /\ (NewFire(x) => fires < MaxFires)
  /\ wakes' = (wakes \ {x}) \cup {[x EXCEPT !.due = TRUE]}
  /\ fires' = IF NewFire(x) THEN fires + 1 ELSE fires
  /\ UNCHANGED <<lease, pending, run, progress, object, clean, faults, cloudflare>>

\* Bun: crontab starts `fabrika job run`.
Crontab(r) ==
  /\ ~cloudflare /\ Ready(r) /\ fires < MaxFires
  /\ fires' = fires + 1 /\ Try(r, "job")
  /\ UNCHANGED <<store, progress, object, clean, faults, cloudflare>>

\* Bun: the wake timer reaps, then kicks the job for a due wake its holder does not own.
WakeTimer(r) ==
  /\ ~cloudflare /\ Ready(r)
  /\ \E x \in wakes : x.due
  /\ Expired \/ ~OwnedByHolder
  /\ Change(ReapedLease, ReapedWakes) /\ Try(r, "kick")
  /\ UNCHANGED <<pending, progress, alarming, open, bounds>>

\* Cloudflare: the alarm is due at the next wake of a free job, or at a held lease's expiry.
AlarmDue == IF Free THEN \E x \in wakes : x.due ELSE Expired
AlarmFires ==
  /\ alarm = "set" /\ ~alarming /\ AlarmDue
  /\ alarm' = "none" /\ alarming' = TRUE
  /\ UNCHANGED <<store, run, progress, open, bounds>>

\* Outside open it runs nothing and arms nothing.
AlarmRefused ==
  /\ alarming /\ ~open /\ alarming' = FALSE
  /\ UNCHANGED <<store, run, progress, alarm, open, bounds>>

\* The alarm's transaction: a crashed holder is reaped, the lease taken for a due wake or the flag left
\* for its holder, and the alarm armed again.
AlarmTake(r) ==
  /\ alarming /\ open /\ alarming' = FALSE
  /\ LET due == \E x \in wakes : x.due
         takes == due /\ (Free \/ Expired)
     IN  /\ takes => Ready(r) /\ Unused # {}
         /\ IF takes THEN Change(Taken, Owned(ReapedWakes)) ELSE Change(ReapedLease, ReapedWakes)
         /\ run' = IF takes THEN [run EXCEPT ![r] = [Idle EXCEPT !.pc = "clear", !.by = "alarm",
                                                                 !.generation = Taken.holder]] ELSE run
         /\ pending' = (pending \/ (due /\ ~takes /\ ~OwnedByHolder))
  /\ UNCHANGED <<progress, open, bounds>>

\* Mutant: a cron wake that is pending is not written again.
RepairAbsent ==
  /\ cloudflare /\ open /\ \A x \in wakes : x.key # "cron"
  /\ Change(lease, wakes \cup {Wake("cron", FALSE)})
  /\ UNCHANGED <<pending, run, progress, alarming, open, bounds>>

\* Cloudflare: the repair of the hourly tick and of an instance's first open event.  Beside Reap, it schedules
\* the job's cron wake, where a pending one keeps its row and its owner; the write arms the alarm.
Repair ==
  /\ cloudflare /\ open
  /\ Change(lease, IF \E x \in wakes : x.key = "cron" THEN wakes ELSE wakes \cup {Wake("cron", FALSE)})
  /\ UNCHANGED <<pending, run, progress, alarming, open, bounds>>

----------------------------------------------------------------------------
(* One run *)

\* Mutant: a kick that left the flag does not try the lease again.
MarkPendingOnly(r) ==
  /\ run[r].pc = "mark"
  /\ pending' = TRUE /\ run' = [run EXCEPT ![r] = Idle]
  /\ UNCHANGED <<lease, wakes, progress, object, bounds>>

\* handOver: the flag is left to the run holding the lease, and the lease tried once more.
MarkPending(r) ==
  /\ run[r].pc = "mark"
  /\ pending' = TRUE /\ run' = [run EXCEPT ![r].pc = "try", ![r].goal = "handover"]
  /\ UNCHANGED <<lease, wakes, progress, object, bounds>>

\* A run of crontab first reaps a crashed holder.
Available(r) == Free \/ (Expired /\ run[r].by = "job")

\* register, for a run of crontab surveil, and acquire or tryAcquire of a free lease.
Acquire(r) ==
  /\ run[r].pc = "try" /\ Available(r)
  /\ Unused # {}
  /\ Change(Taken, Owned(ReapedWakes))
  /\ run' = [run EXCEPT ![r].pc = "clear", ![r].generation = Taken.holder]
  /\ UNCHANGED <<pending, progress, alarming, open, bounds>>

\* A held lease: a kick and a follow-up hand over, once; a run of crontab does not start.
Skipped(r) ==
  /\ run[r].pc = "try" /\ ~Available(r)
  /\ run' = [run EXCEPT ![r] = IF @.goal = "handover" \/ (@.goal = "first" /\ @.by = "job")
                                 THEN Idle ELSE [@ EXCEPT !.pc = "mark"]]
  /\ UNCHANGED <<store, progress, object, bounds>>

\* The run covers every kick before it: the flag is cleared before the attempt reads.
ClearPending(r) ==
  /\ run[r].pc = "clear" /\ pending' = FALSE /\ Step(r, "attempt")
  /\ UNCHANGED <<lease, wakes, progress, object, bounds>>

\* A run of the alarm that owns wakes retries durably and counts on their attempts.
OwnAttempts(r) == {x.attempt : x \in {y \in wakes : y.owned /\ run[r].by = "alarm"}}
FirstAttempt(r) == IF OwnAttempts(r) = {} THEN 1
                   ELSE (CHOOSE m \in OwnAttempts(r) : \A n \in OwnAttempts(r) : n <= m) + 1

\* attemptOnce: the handler starts, under the run's fence.
Attempt(r) ==
  /\ run[r].pc = "attempt"
  /\ run' = [run EXCEPT ![r] = [@ EXCEPT !.pc = "work", !.seen = committed,
                                 !.durable = run[r].attempt = 0 /\ OwnAttempts(r) # {},
                                 !.attempt = IF run[r].attempt = 0 THEN FirstAttempt(r) ELSE run[r].attempt]]
  /\ UNCHANGED <<store, progress, object, bounds>>

\* Mutant: only the attempt's own process fences its writes.
HandlerCommitEnded(r) ==
  /\ run[r].pc = "work" /\ handled' = run[r].seen
  /\ UNCHANGED <<store, run, committed, urgent, finished, object, bounds>>

\* fencedTransaction: a write of the handler commits while its attempt has not ended (refuseEnded), holds
\* the lease and is within its deadline.
HandlerCommit(r) ==
  /\ run[r].pc = "work" /\ Holds(r) /\ lease.time = "live"
  /\ handled' = run[r].seen
  /\ UNCHANGED <<store, run, committed, urgent, finished, object, bounds>>

\* The attempt ends: its handler answered, failed or timed out; cancelInFlight refuses its further writes.
Outcome(r, outcome) ==
  /\ run[r].pc = "work"
  /\ run' = [run EXCEPT ![r].pc = "ended", ![r].outcome = outcome]
  /\ clean' = (clean /\ outcome = "ok")
  /\ UNCHANGED <<store, progress, object, faults, fires, cloudflare>>

Again(r) == run[r].outcome = "failed" /\ run[r].attempt <= Retries

\* An inline retry renews the lease under a new generation, unless it expired.
Renew(r) ==
  /\ run[r].pc = "ended" /\ Again(r) /\ ~run[r].durable
  /\ IF Holds(r) /\ ~Expired
       THEN /\ Unused # {} /\ Change(Taken, wakes)
            /\ run' = [run EXCEPT ![r].pc = "attempt", ![r].attempt = @ + 1, ![r].generation = Taken.holder]
       ELSE run' = [run EXCEPT ![r] = Idle] /\ UNCHANGED <<lease, wakes, alarm>>
  /\ UNCHANGED <<pending, progress, alarming, open, bounds>>

\* finish: if the fence still holds, the lease is freed and the owned wakes consumed or retried.
Finish(r) ==
  /\ run[r].pc = "ended" /\ (run[r].durable \/ ~Again(r))
  /\ IF Holds(r)
       THEN /\ Change(Released, Disowned(IF Again(r) THEN Retried ELSE Completed))
            /\ finished' = IF Again(r) \/ run[r].seen < finished THEN finished ELSE run[r].seen
            /\ run' = [run EXCEPT ![r] =
                 IF @.outcome = "ok" THEN [Idle EXCEPT !.pc = "after", !.by = run[r].by] ELSE Idle]
       ELSE run' = [run EXCEPT ![r] = Idle] /\ UNCHANGED <<lease, wakes, alarm, finished>>
  /\ UNCHANGED <<pending, committed, urgent, handled, alarming, open, bounds>>

\* runJob: a flag set meanwhile, taken by one run, is one more run.
TakePending(r) ==
  /\ run[r].pc = "after"
  /\ pending' = FALSE
  /\ run' = [run EXCEPT ![r] =
       IF pending THEN [Idle EXCEPT !.pc = "try", !.goal = "again", !.by = run[r].by] ELSE Idle]
  /\ UNCHANGED <<lease, wakes, progress, object, bounds>>

----------------------------------------------------------------------------
(* Faults *)

Fault == faults < MaxFaults /\ faults' = faults + 1 /\ clean' = FALSE /\ UNCHANGED <<fires, cloudflare>>

\* The run's process dies, its segment ends, or the lease store fails it: the lease stays held.
Crash(r) ==
  /\ ~Ready(r) /\ Fault
  /\ run' = [run EXCEPT ![r] = Idle]
  /\ UNCHANGED <<store, progress, object>>

\* The process shuts down: the run finishes as stopped, and its wakes stay.
Stopped(r) ==
  /\ run[r].pc \in {"attempt", "work"} /\ Fault
  /\ run' = [run EXCEPT ![r] = Idle]
  /\ IF Holds(r) THEN Change(Released, Disowned(wakes)) ELSE UNCHANGED <<lease, wakes, alarm>>
  /\ UNCHANGED <<pending, progress, alarming, open>>

\* The attempt's deadline passes, then the lease's expiry: always once no run holds it, else by a stall.
Held == \E r \in Runners : ~Ready(r) /\ Holds(r)
LeaseTime ==
  /\ ~Free /\ ~Expired
  /\ lease' = [lease EXCEPT !.time = IF @ = "live" THEN "late" ELSE "expired"]
  /\ IF Held THEN Fault ELSE UNCHANGED bounds
  /\ UNCHANGED <<wakes, pending, run, progress, object>>

\* A maintenance transition stops every run; their lease writes are refused.
Restrict ==
  /\ cloudflare /\ open /\ Fault
  /\ open' = FALSE /\ run' = [r \in Runners |-> Idle]
  /\ alarm' = Alarm(alarm = "set")
  /\ UNCHANGED <<store, progress, alarming>>

\* Mutant: opening leaves the alarm as it is.
ReopenUnarmed ==
  /\ ~open /\ open' = TRUE
  /\ UNCHANGED <<store, run, progress, alarm, alarming, bounds>>

\* A transition opens the object.  An alarm outside open armed nothing, so its request owes one.
Reopen ==
  /\ ~open /\ open' = TRUE
  /\ alarm' = IF alarm = "set" THEN "set" ELSE "owed"
  /\ UNCHANGED <<store, run, progress, alarming, bounds>>

\* reopened, after the transition is published: the alarm is set.
ArmReopened ==
  /\ open /\ alarm = "owed" /\ alarm' = "set"
  /\ UNCHANGED <<store, run, progress, alarming, open, bounds>>

\* It is not: setAlarm fails, the instance is evicted before it, or the request that opened the object had
\* first seen it open.
ArmMissed ==
  /\ open /\ alarm = "owed" /\ Fault /\ alarm' = "missed"
  /\ UNCHANGED <<store, run, progress, alarming, open>>

\* The alarm of an open object fails.  Where the barrier could not be read nothing is armed, and an error after
\* that arms it again, unless setAlarm fails too.
AlarmFails ==
  /\ alarming /\ open /\ Fault /\ alarming' = FALSE
  /\ alarm' \in {"set", IF alarm = "set" THEN "set" ELSE "missed"}
  /\ UNCHANGED <<store, run, progress, open>>

----------------------------------------------------------------------------
RunStep(r) ==
  \/ MarkPending(r) \/ Acquire(r) \/ Skipped(r) \/ ClearPending(r) \/ Attempt(r)
  \/ \E outcome \in {"ok", "failed", "final"} : Outcome(r, outcome)
  \/ Renew(r) \/ Finish(r) \/ TakePending(r)

Next ==
  \/ \E r \in Runners : \/ RunStep(r) \/ HandlerCommit(r) \/ Crontab(r) \/ WakeTimer(r)
                         \/ AlarmTake(r) \/ Crash(r) \/ Stopped(r)
  \/ \E r \in Runners, key \in Keys : Kick(r, key)
  \/ \E key \in Keys : KickAt(key)
  \/ \E x \in wakes : BecomesDue(x)
  \/ Reap \/ Repair \/ AlarmFires \/ AlarmRefused \/ AlarmFails \/ LeaseTime
  \/ Restrict \/ Reopen \/ ArmReopened \/ ArmMissed

Spec == Init /\ [][Next]_vars

\* A run goes on, time passes, the platform delivers the alarm or the timer ticks, maintenance ends, and the
\* Worker's cron trigger sends the repair tick every hour.
Fairness ==
  /\ \A r \in Runners : WF_vars(RunStep(r))
  /\ WF_vars(\E r \in Runners : WakeTimer(r) \/ AlarmTake(r))
  /\ WF_vars(AlarmFires) /\ WF_vars(AlarmRefused) /\ WF_vars(Reopen) /\ WF_vars(ArmReopened)
  /\ WF_vars(Reap) /\ WF_vars(Repair)
  /\ WF_vars(LeaseTime /\ ~Held)
  /\ WF_vars(\E x \in wakes : BecomesDue(x))
FairSpec == Spec /\ Fairness

----------------------------------------------------------------------------
(* Properties *)

Alarms == {"set", "none", "owed", "missed"}
Leases == [holder : 0..MaxGeneration, time : {"live", "late", "expired"}]
Wakes == [key : Keys \cup {"cron"}, due : BOOLEAN, attempt : 0..Retries, owned : BOOLEAN, newest : 0..MaxKicks]
Runs == [pc : {"idle", "try", "mark", "clear", "attempt", "work", "ended", "after"},
         goal : {"first", "again", "handover"}, by : {"kick", "job", "alarm"},
         generation : 0..MaxGeneration, seen : 0..MaxKicks, attempt : 0..(Retries + 1),
         durable : BOOLEAN, outcome : {"none", "ok", "failed", "final"}]

\* The type invariant.
TypeOK ==
  /\ lease \in Leases
  /\ wakes \subseteq Wakes /\ run \in [Runners -> Runs]
  /\ pending \in BOOLEAN /\ alarm \in Alarms /\ alarming \in BOOLEAN /\ open \in BOOLEAN
  /\ clean \in BOOLEAN /\ cloudflare \in BOOLEAN
  /\ committed \in 0..MaxKicks /\ urgent \in 0..MaxKicks /\ finished \in 0..MaxKicks /\ handled \in 0..MaxKicks
  /\ faults \in 0..MaxFaults /\ fires \in 0..MaxFires

\* No kick is dropped: until a run whose attempt began after its site's commit is done with it, succeeded
\* or past its retries, a wake for it or a later kick is pending, whatever merged, crashed or expired.
NoKickDropped ==
  committed > finished => \E x \in wakes : x.newest >= committed

\* A kick sent at once is served at once: when nothing failed and no run is under way, a run that began
\* after it has finished, without help of the schedule, the timer or the alarm.
PromptKick == clean /\ (\A r \in Runners : Ready(r)) => finished >= urgent

\* What the job wrote never goes back: a handler that outlived its attempt or its lease, and saw less than
\* a later one, commits nothing after it.
HandledGrows == [][handled' >= handled]_vars

\* An open object with a pending wake or a held lease has its alarm set, being handled or about to be set by the
\* request that opened it, whatever runs, kicks, reaps, alarms and maintenance interleave.  What is left without
\* one was missed: the barrier could not be read, setAlarm failed or nobody was left to call it.  Such an object
\* waits for its next write, or the repair tick.
AlarmArmed == cloudflare /\ open /\ (wakes # {} \/ ~Free) => alarm # "none" \/ alarming

\* Every kick is served: a run that began after its commit finishes with it, whatever finitely many
\* crashes, stalls, stops, missed alarms and maintenance happen.  Where the alarm was missed it is served after
\* the hourly tick.
EveryKickRuns == \A k \in 1..MaxKicks : committed >= k ~> finished >= k
=============================================================================
