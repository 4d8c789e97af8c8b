---------------------------- MODULE DeployLease ----------------------------
(***************************************************************************)
(* One key of the lease table: packages/control/src/lease.ts (acquireLease,*)
(* HeldLease and its renewal loop) over packages/platform/src/             *)
(* deploy-locks-sql.ts (the three guarded statements).                     *)
(*                                                                         *)
(* Every acquireLease() call draws a fresh uuid, so a holder is used once. *)
(* A holder reads the clock of its own host; the statement it sends carries*)
(* that reading and may execute at any later moment, also after the holder *)
(* gave up, released or died.  A call may throw whether or not its         *)
(* statement takes effect, then or later.  Timers fire late, never early.  *)
(***************************************************************************)
EXTENDS Integers, Sequences

CONSTANTS Holders,    \* uuids drawn by acquireLease
          NoHolder,   \* the row does not exist
          Ttl,        \* LEASE_TTL_MS
          Renew,      \* LEASE_RENEW_MS
          Skew,       \* the largest difference between the clocks of two hosts
          MaxClock,   \* bound: clocks stop here
          MaxWrites   \* bound: fenced writes that take effect

ASSUME HoldersAssumption == NoHolder \notin Holders
ASSUME TimesAssumption == Ttl \in Nat /\ Renew \in Nat /\ Skew \in Nat /\ Renew < Ttl
\* The safety margin of lease.ts is one renew period; clocks must agree to within it.
ASSUME SkewAssumption == Skew <= Renew
ASSUME BoundsAssumption == MaxClock \in Nat /\ MaxWrites \in Nat

\* Mutant: no safety margin.
LocalTtlWithoutMargin == Ttl
\* const LOCAL_TTL_MS = LEASE_TTL_MS - LEASE_RENEW_MS
LocalTtl == Ttl - Renew

Ops == {"acquire", "renew", "release", "write"}
StatementStates == {"none", "sent", "ok", "refused"}
Phases == {"idle", "acquiring", "holding", "gone"}

VARIABLES
  row,       \* the row of the key in deploy_locks: holder and expires_at
  clock,     \* clock[h]: Date.now() on the host of h
  phase,     \* phase[h]: where the invocation using uuid h stands
  aborted,   \* aborted[h]: HeldLease.signal.aborted
  deadline,  \* deadline[h]: HeldLease.deadline
  wakeAt,    \* wakeAt[h]: when the renewal loop's wait may end
  stmt,      \* stmt[h][op]: the last statement of that kind and its fate
  journal    \* holders whose fenced writes took effect, in order

vars == <<row, clock, phase, aborted, deadline, wakeAt, stmt, journal>>

NoRow == [holder |-> NoHolder, expires |-> 0]
NoStatement == [state |-> "none", at |-> 0]

TypeOK ==
  /\ row \in [holder : Holders \cup {NoHolder}, expires : Nat]
  /\ clock \in [Holders -> Nat]
  /\ phase \in [Holders -> Phases]
  /\ aborted \in [Holders -> BOOLEAN]
  /\ deadline \in [Holders -> Nat]
  /\ wakeAt \in [Holders -> Nat]
  /\ stmt \in [Holders -> [Ops -> [state : StatementStates, at : Nat]]]
  /\ journal \in Seq(Holders)

Init ==
  /\ row = NoRow
  /\ clock = [h \in Holders |-> 0]
  /\ phase = [h \in Holders |-> "idle"]
  /\ aborted = [h \in Holders |-> FALSE]
  /\ deadline = [h \in Holders |-> 0]
  /\ wakeAt = [h \in Holders |-> 0]
  /\ stmt = [h \in Holders |-> [op \in Ops |-> NoStatement]]
  /\ journal = <<>>

\* assertHeld() would not throw: the lease was taken, not abandoned, and the local deadline lies ahead.
Held(h) == phase[h] = "holding" /\ ~aborted[h] /\ clock[h] < deadline[h]

Send(h, op) == stmt' = [stmt EXCEPT ![h][op] = [state |-> "sent", at |-> clock[h]]]
Consume(h, op) == stmt' = [stmt EXCEPT ![h][op] = NoStatement]

\* The signal aborts, once and for all: the deadline and the timer no longer matter.
Abandon(h) ==
  /\ aborted' = [aborted EXCEPT ![h] = TRUE]
  /\ deadline' = [deadline EXCEPT ![h] = 0]
  /\ wakeAt' = [wakeAt EXCEPT ![h] = 0]

-----------------------------------------------------------------------------
(* Time.  Hosts' clocks advance independently, never more than Skew apart.  *)

Tick(h) ==
  /\ clock[h] < MaxClock
  /\ \A g \in Holders : clock[h] + 1 - clock[g] <= Skew
  /\ clock' = [clock EXCEPT ![h] = @ + 1]
  /\ UNCHANGED <<row, phase, aborted, deadline, wakeAt, stmt, journal>>

-----------------------------------------------------------------------------
(* acquireLease                                                            *)

\* acquiredAt is read and the upsert is bound in one synchronous stretch.
AcquireLease(h) ==
  /\ phase[h] = "idle"
  /\ phase' = [phase EXCEPT ![h] = "acquiring"]
  /\ Send(h, "acquire")
  /\ UNCHANGED <<row, clock, aborted, deadline, wakeAt, journal>>

\* The upsert changed a row: construct HeldLease, whose deadline counts from acquiredAt.
AcquireGranted(h) ==
  /\ phase[h] = "acquiring"
  /\ stmt[h]["acquire"].state = "ok"
  /\ phase' = [phase EXCEPT ![h] = "holding"]
  /\ deadline' = [deadline EXCEPT ![h] = stmt[h]["acquire"].at + LocalTtl]
  /\ wakeAt' = [wakeAt EXCEPT ![h] = clock[h] + Renew]
  /\ Consume(h, "acquire")
  /\ UNCHANGED <<row, clock, aborted, journal>>

\* Nothing changed (acquireLease returns null), or the call threw whatever became of the statement.
AcquireFailed(h) ==
  /\ phase[h] = "acquiring"
  /\ phase' = [phase EXCEPT ![h] = "gone"]
  /\ UNCHANGED <<row, clock, aborted, deadline, wakeAt, stmt, journal>>

-----------------------------------------------------------------------------
(* HeldLease.renewLoop                                                     *)

\* The wait ended: start a renewal, unless the local deadline has passed.
RenewStart(h) ==
  /\ phase[h] = "holding" /\ ~aborted[h]
  /\ stmt[h]["renew"].state = "none"
  /\ clock[h] >= wakeAt[h]
  /\ IF clock[h] >= deadline[h]
       THEN Abandon(h) /\ UNCHANGED stmt
       ELSE Send(h, "renew") /\ UNCHANGED <<aborted, deadline, wakeAt>>
  /\ UNCHANGED <<row, clock, phase, journal>>

\* The renewal was confirmed first: the deadline counts from when it was started.
RenewConfirmed(h) ==
  /\ phase[h] = "holding" /\ ~aborted[h]
  /\ stmt[h]["renew"].state = "ok"
  /\ deadline' = [deadline EXCEPT ![h] = stmt[h]["renew"].at + LocalTtl]
  /\ wakeAt' = [wakeAt EXCEPT ![h] = clock[h] + Renew]
  /\ Consume(h, "renew")
  /\ UNCHANGED <<row, clock, phase, aborted, journal>>

\* The renewal was refused, the call threw, or the deadline won the race against its answer.
RenewLost(h) ==
  /\ phase[h] = "holding" /\ ~aborted[h]
  /\ stmt[h]["renew"].state # "none"
  /\ Abandon(h)
  /\ UNCHANGED <<row, clock, phase, stmt, journal>>

-----------------------------------------------------------------------------
(* Acting under the lease                                                  *)

\* fence(): the holder's write carries its uuid and clock; past the deadline the lease is abandoned.
FencedWrite(h) ==
  /\ phase[h] = "holding" /\ ~aborted[h]
  /\ stmt[h]["write"].state = "none"
  /\ IF clock[h] >= deadline[h]
       THEN Abandon(h) /\ UNCHANGED stmt
       ELSE Send(h, "write") /\ UNCHANGED <<aborted, deadline, wakeAt>>
  /\ UNCHANGED <<row, clock, phase, journal>>

WriteConfirmed(h) ==
  /\ phase[h] = "holding"
  /\ stmt[h]["write"].state = "ok"
  /\ Consume(h, "write")
  /\ UNCHANGED <<row, clock, phase, aborted, deadline, wakeAt, journal>>

\* assertWritten: a write that changed nothing, or that threw with its outcome unknown, abandons the lease.
WriteFailed(h) ==
  /\ phase[h] = "holding" /\ ~aborted[h]
  /\ stmt[h]["write"].state # "none"
  /\ Abandon(h)
  /\ UNCHANGED <<row, clock, phase, stmt, journal>>

\* release(): stop acting and the renewal loop, then send the delete; a renewal may still be in flight.
Release(h) ==
  /\ phase[h] = "holding"
  /\ Abandon(h)
  /\ phase' = [phase EXCEPT ![h] = "gone"]
  /\ Send(h, "release")
  /\ UNCHANGED <<row, clock, journal>>

\* The process dies; what it sent may still execute.
Crash(h) ==
  /\ phase[h] \in {"acquiring", "holding"}
  /\ phase' = [phase EXCEPT ![h] = "gone"]
  /\ Abandon(h)
  /\ UNCHANGED <<row, clock, stmt, journal>>

-----------------------------------------------------------------------------
(* The store executes a statement that was sent.                           *)

\* The caller learns whether a row changed; of an executed statement only a grant's reading matters later.
Answer(h, op, changed) ==
  stmt' = [stmt EXCEPT ![h][op] = [state |-> IF changed THEN "ok" ELSE "refused",
                                   at |-> IF changed /\ op \in {"acquire", "renew"} THEN stmt[h][op].at ELSE 0]]

\* Mutant: the upsert does not look at expires_at.
AcquireGuardUnchecked(h) == row.holder # h

\* INSERT ... ON CONFLICT DO UPDATE ... WHERE expires_at <= now
AcquireGuard(h) == row = NoRow \/ row.expires <= stmt[h]["acquire"].at

ExecuteAcquire(h) ==
  /\ stmt[h]["acquire"].state = "sent"
  /\ Answer(h, "acquire", AcquireGuard(h))
  /\ row' = IF AcquireGuard(h)
              THEN [holder |-> h, expires |-> stmt[h]["acquire"].at + Ttl] ELSE row
  /\ UNCHANGED <<clock, phase, aborted, deadline, wakeAt, journal>>

\* UPDATE ... WHERE holder = h AND expires_at > now
OwnedAt(h, at) == row.holder = h /\ row.expires > at

\* Mutant: a renewal prolongs the expiry instead of counting from its reading.
ExecuteRenewProlonging(h) ==
  /\ stmt[h]["renew"].state = "sent"
  /\ Answer(h, "renew", OwnedAt(h, stmt[h]["renew"].at))
  /\ row' = IF OwnedAt(h, stmt[h]["renew"].at) THEN [row EXCEPT !.expires = @ + Ttl] ELSE row
  /\ UNCHANGED <<clock, phase, aborted, deadline, wakeAt, journal>>

ExecuteRenew(h) ==
  /\ stmt[h]["renew"].state = "sent"
  /\ Answer(h, "renew", OwnedAt(h, stmt[h]["renew"].at))
  /\ row' = IF OwnedAt(h, stmt[h]["renew"].at)
              THEN [row EXCEPT !.expires = stmt[h]["renew"].at + Ttl] ELSE row
  /\ UNCHANGED <<clock, phase, aborted, deadline, wakeAt, journal>>

\* Mutant: the delete does not name the holder.
ExecuteReleaseUnchecked(h) ==
  /\ stmt[h]["release"].state = "sent"
  /\ Answer(h, "release", row # NoRow)
  /\ row' = NoRow
  /\ UNCHANGED <<clock, phase, aborted, deadline, wakeAt, journal>>

\* DELETE ... WHERE holder = h
ExecuteRelease(h) ==
  /\ stmt[h]["release"].state = "sent"
  /\ Answer(h, "release", row.holder = h)
  /\ row' = IF row.holder = h THEN NoRow ELSE row
  /\ UNCHANGED <<clock, phase, aborted, deadline, wakeAt, journal>>

\* Mutant: the write is not fenced.
ExecuteWriteUnfenced(h) ==
  /\ stmt[h]["write"].state = "sent"
  /\ Len(journal) < MaxWrites
  /\ Answer(h, "write", TRUE)
  /\ journal' = Append(journal, h)
  /\ UNCHANGED <<row, clock, phase, aborted, deadline, wakeAt>>

\* mutateRun: the write applies only while deploy_locks names this holder and is not past its reading.
ExecuteWrite(h) ==
  /\ stmt[h]["write"].state = "sent"
  /\ Len(journal) < MaxWrites
  /\ Answer(h, "write", OwnedAt(h, stmt[h]["write"].at))
  /\ journal' = IF OwnedAt(h, stmt[h]["write"].at) THEN Append(journal, h) ELSE journal
  /\ UNCHANGED <<row, clock, phase, aborted, deadline, wakeAt>>

-----------------------------------------------------------------------------
Step(h) ==
  \/ Tick(h)
  \/ AcquireLease(h) \/ AcquireGranted(h) \/ AcquireFailed(h)
  \/ RenewStart(h) \/ RenewConfirmed(h) \/ RenewLost(h)
  \/ FencedWrite(h) \/ WriteConfirmed(h) \/ WriteFailed(h) \/ Release(h) \/ Crash(h)
  \/ ExecuteAcquire(h) \/ ExecuteRenew(h) \/ ExecuteRelease(h) \/ ExecuteWrite(h)

Next == \E h \in Holders : Step(h)

Spec == Init /\ [][Next]_vars

-----------------------------------------------------------------------------
(* Properties                                                              *)

\* Two invocations never act on one key at once (lease.ts:49 "so a holder stops before a takeover
\* can start"), whatever is delayed, lost or crashed, while clocks agree to within a renew period.
MutualExclusion == \A h, g \in Holders : Held(h) /\ Held(g) => h = g

\* Whoever may act is the holder the row names, with a full renew period left before a takeover:
\* its fenced writes are refused only if it is about to learn that the lease is lost.
HeldOwnsRow ==
  \A h \in Holders : Held(h) => row.holder = h /\ row.expires >= deadline[h] + Renew

\* HOLDER-CHECKED (deploy-locks-sql.ts:15): late writes of a superseded holder never land among those
\* of its successors, so the writes of one holder form one uninterrupted block.
WritesNotInterleaved ==
  \A i, j, k \in DOMAIN journal :
    i < j /\ j < k /\ journal[i] = journal[k] => journal[j] = journal[i]

\* TTL-BOUNDED (deploy-locks-sql.ts:13, lease.ts:4): whatever was delayed, nobody waits longer than one
\* TTL, plus the clock difference, for a key whose holder died.
DeadHolderBlocksAtMostTtl ==
  \A h \in Holders : row # NoRow => row.expires <= clock[h] + Ttl + Skew

\* A live lease changes hands only through its own holder's release: a late acquire, renewal or
\* release of anyone else leaves the row alone until every clock is within Skew of its expiry.
LiveLeaseNotTaken ==
  [][row' # row /\ row # NoRow /\ row'.holder # row.holder
       => \/ row' = NoRow /\ phase[row.holder] = "gone" /\ aborted[row.holder]
          \/ \A h \in Holders : clock[h] + Skew >= row.expires]_vars

\* The lease implements the clockless promise of FencedLease.
Abstract == INSTANCE FencedLease WITH owner <- row.holder, active <- {h \in Holders : Held(h)}
ImplementsFencedLease == Abstract!AbsSpec
=============================================================================
