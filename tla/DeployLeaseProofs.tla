------------------------- MODULE DeployLeaseProofs -------------------------
(***************************************************************************)
(* Proofs about DeployLease, for every number of holders, every TTL and    *)
(* renew period, and every clock difference up to the renew period.        *)
(*                                                                         *)
(* MutualExclusion is not inductive: nothing in it says what the row holds *)
(* while an answer is on its way.  LeaseInv adds that every deadline a     *)
(* holder acts on, or may yet learn, is covered by the row for one renew   *)
(* period more (Claims), that clocks stay close, and that a late renewal   *)
(* never shortens the row (RowOf).                                         *)
(***************************************************************************)
EXTENDS DeployLease, TLAPS

Statements == [Holders -> [Ops -> [state : StatementStates, at : Nat]]]
\* Statements stay well typed whichever way one of them changes.
LEMMA StatementTypes ==
  ASSUME TypeOK, NEW h \in Holders, NEW op \in Ops
  PROVE  /\ stmt[h][op].at \in Nat
         /\ stmt[h][op].state \in StatementStates
         /\ clock[h] \in Nat
         /\ Send(h, op) => stmt' \in Statements
         /\ Consume(h, op) => stmt' \in Statements
         /\ \A c \in BOOLEAN : Answer(h, op, c) => stmt' \in Statements
<1>1. /\ stmt[h][op].at \in Nat
      /\ stmt[h][op].state \in StatementStates
      /\ clock[h] \in Nat
  BY DEF TypeOK
<1>2. ASSUME NEW v \in [state : StatementStates, at : Nat],
             stmt' = [stmt EXCEPT ![h][op] = v]
      PROVE  stmt' \in Statements
  BY <1>2 DEF TypeOK, Statements
<1>3. Send(h, op) => stmt' \in Statements
  BY <1>1, <1>2 DEF Send, StatementStates
<1>4. Consume(h, op) => stmt' \in Statements
  BY <1>2 DEF Consume, NoStatement, StatementStates
<1>5. \A c \in BOOLEAN : Answer(h, op, c) => stmt' \in Statements
  BY <1>1, <1>2 DEF Answer, StatementStates
<1> QED BY <1>1, <1>3, <1>4, <1>5

\* Abandoning a lease keeps its local state well typed.
LEMMA AbandonTypes ==
  ASSUME TypeOK, NEW h \in Holders, Abandon(h)
  PROVE  /\ aborted' \in [Holders -> BOOLEAN]
         /\ deadline' \in [Holders -> Nat]
         /\ wakeAt' \in [Holders -> Nat]
BY DEF TypeOK, Abandon

\* The initial state is well typed.
LEMMA TypeInit == Init => TypeOK
BY HoldersAssumption DEF Init, TypeOK, NoRow, NoStatement, Ops, StatementStates, Phases

\* Every step of lease.ts and of the lock table keeps the state well typed.
LEMMA TypeStep == TypeOK /\ [Next]_vars => TypeOK'
<1> SUFFICES ASSUME TypeOK, [Next]_vars PROVE TypeOK'
  OBVIOUS
<1> USE DEF Statements
<1>0. "acquire" \in Ops /\ "renew" \in Ops /\ "release" \in Ops /\ "write" \in Ops
  BY DEF Ops
<1>1. CASE UNCHANGED vars
  BY <1>1 DEF vars, TypeOK
<1>2. ASSUME NEW h \in Holders, Tick(h) PROVE TypeOK'
  BY <1>2 DEF Tick, TypeOK
<1>3. ASSUME NEW h \in Holders, AcquireLease(h) PROVE TypeOK'
  BY <1>0, <1>3, StatementTypes DEF AcquireLease, TypeOK, Phases
<1>4. ASSUME NEW h \in Holders, AcquireGranted(h) PROVE TypeOK'
  <2>1. stmt[h]["acquire"].at + LocalTtl \in Nat /\ clock[h] + Renew \in Nat
    BY <1>0, StatementTypes, TimesAssumption DEF LocalTtl
  <2>2. deadline' \in [Holders -> Nat] /\ wakeAt' \in [Holders -> Nat]
    BY <1>4, <2>1 DEF AcquireGranted, TypeOK
  <2> QED BY <1>0, <1>4, <2>2, StatementTypes DEF AcquireGranted, TypeOK, Phases
<1>5. ASSUME NEW h \in Holders, AcquireFailed(h) PROVE TypeOK'
  BY <1>5 DEF AcquireFailed, TypeOK, Phases
<1>6. ASSUME NEW h \in Holders, RenewStart(h) PROVE TypeOK'
  BY <1>0, <1>6, StatementTypes, AbandonTypes DEF RenewStart, TypeOK
<1>7. ASSUME NEW h \in Holders, RenewConfirmed(h) PROVE TypeOK'
  <2>1. stmt[h]["renew"].at + LocalTtl \in Nat /\ clock[h] + Renew \in Nat
    BY <1>0, StatementTypes, TimesAssumption DEF LocalTtl
  <2>2. deadline' \in [Holders -> Nat] /\ wakeAt' \in [Holders -> Nat]
    BY <1>7, <2>1 DEF RenewConfirmed, TypeOK
  <2> QED BY <1>0, <1>7, <2>2, StatementTypes DEF RenewConfirmed, TypeOK
<1>8. ASSUME NEW h \in Holders, RenewLost(h) PROVE TypeOK'
  BY <1>8, AbandonTypes DEF RenewLost, TypeOK
<1>9. ASSUME NEW h \in Holders, FencedWrite(h) PROVE TypeOK'
  BY <1>0, <1>9, StatementTypes, AbandonTypes DEF FencedWrite, TypeOK
<1>10. ASSUME NEW h \in Holders, WriteConfirmed(h) PROVE TypeOK'
  BY <1>0, <1>10, StatementTypes DEF WriteConfirmed, TypeOK
<1>11. ASSUME NEW h \in Holders, WriteFailed(h) PROVE TypeOK'
  BY <1>11, AbandonTypes DEF WriteFailed, TypeOK
<1>12. ASSUME NEW h \in Holders, Release(h) PROVE TypeOK'
  BY <1>0, <1>12, StatementTypes, AbandonTypes DEF Release, TypeOK, Phases
<1>13. ASSUME NEW h \in Holders, Crash(h) PROVE TypeOK'
  BY <1>13, AbandonTypes DEF Crash, TypeOK, Phases
<1>14. ASSUME NEW h \in Holders, ExecuteAcquire(h) PROVE TypeOK'
  <2>1. stmt[h]["acquire"].at + Ttl \in Nat
    BY <1>0, StatementTypes, TimesAssumption
  <2>2. row' \in [holder : Holders \cup {NoHolder}, expires : Nat]
    BY <1>14, <2>1 DEF ExecuteAcquire, TypeOK
  <2>3. stmt' \in Statements
    <3>1. AcquireGuard(h) \in BOOLEAN
      BY DEF AcquireGuard
    <3> QED BY <1>0, <1>14, <3>1, StatementTypes DEF ExecuteAcquire
  <2> QED BY <1>14, <2>2, <2>3 DEF ExecuteAcquire, TypeOK
<1>15. ASSUME NEW h \in Holders, ExecuteRenew(h) PROVE TypeOK'
  <2>1. stmt[h]["renew"].at + Ttl \in Nat
    BY <1>0, StatementTypes, TimesAssumption
  <2>2. row' \in [holder : Holders \cup {NoHolder}, expires : Nat]
    BY <1>15, <2>1 DEF ExecuteRenew, TypeOK
  <2>3. stmt' \in Statements
    <3>1. OwnedAt(h, stmt[h]["renew"].at) \in BOOLEAN
      BY DEF OwnedAt
    <3> QED BY <1>0, <1>15, <3>1, StatementTypes DEF ExecuteRenew
  <2> QED BY <1>15, <2>2, <2>3 DEF ExecuteRenew, TypeOK
<1>16. ASSUME NEW h \in Holders, ExecuteRelease(h) PROVE TypeOK'
  BY <1>0, <1>16, StatementTypes DEF ExecuteRelease, TypeOK, NoRow
<1>17. ASSUME NEW h \in Holders, ExecuteWrite(h) PROVE TypeOK'
  <2>1. OwnedAt(h, stmt[h]["write"].at) \in BOOLEAN
    BY DEF OwnedAt
  <2>2. journal' \in Seq(Holders)
    BY <1>17 DEF ExecuteWrite, TypeOK
  <2> QED BY <1>0, <1>17, <2>1, <2>2, StatementTypes DEF ExecuteWrite, TypeOK
<1> QED
  BY <1>1, <1>2, <1>3, <1>4, <1>5, <1>6, <1>7, <1>8, <1>9, <1>10, <1>11, <1>12,
     <1>13, <1>14, <1>15, <1>16, <1>17 DEF Next, Step

\* The lease's state is well typed in every behaviour of lease.ts over deploy-locks-sql.ts.
THEOREM TypeCorrect == Spec => []TypeOK
BY TypeInit, TypeStep, PTL DEF Spec


-----------------------------------------------------------------------------
\* h's reading of the clock lies before the deadline c only while the row is h's for one more renew period.
RowCovers(h, c) == clock[h] < c => row.holder = h /\ row.expires >= c + Renew

ClocksClose == \A h, g \in Holders : clock[h] - clock[g] <= Skew

\* What the statements of h and its phase say of one another.
Bookkeeping(h) ==
  /\ \A op \in Ops : stmt[h][op].at <= clock[h]
  /\ phase[h] = "idle" => stmt[h]["acquire"].state = "none" /\ stmt[h]["renew"].state = "none"
  /\ phase[h] = "holding" => stmt[h]["acquire"].state = "none"
  /\ stmt[h]["acquire"].state # "none" => stmt[h]["renew"].state = "none"
  /\ stmt[h]["release"].state # "none" => phase[h] = "gone" /\ aborted[h]

\* h was granted the lease at some time: its one acquire statement has been executed.
Granted(h) == phase[h] # "idle" /\ stmt[h]["acquire"].state # "sent"

\* Every deadline h acts on, or may come to act on with an answer that is on its way, is covered.
Claims(h) ==
  /\ phase[h] = "holding" /\ ~aborted[h] => RowCovers(h, deadline[h])
  /\ phase[h] = "acquiring" /\ stmt[h]["acquire"].state = "ok"
       => RowCovers(h, stmt[h]["acquire"].at + LocalTtl)
  /\ phase[h] = "holding" /\ ~aborted[h] /\ stmt[h]["renew"].state = "ok"
       => RowCovers(h, stmt[h]["renew"].at + LocalTtl)

\* The row expires within a TTL of its holder's clock, and a renewal in flight never shortens it.
RowOf(h) ==
  row.holder = h => /\ Granted(h)
                    /\ row.expires <= clock[h] + Ttl
                    /\ stmt[h]["renew"].state = "sent" => row.expires <= stmt[h]["renew"].at + Ttl

NoRowIsNoRow == row.holder = NoHolder => row = NoRow

LeaseInv ==
  /\ TypeOK
  /\ ClocksClose
  /\ NoRowIsNoRow
  /\ \A h \in Holders : Bookkeeping(h) /\ Claims(h) /\ RowOf(h)

\* What replacing one statement leaves alone.
LEMMA StatementUpdate ==
  ASSUME TypeOK, NEW h \in Holders, NEW op \in Ops, NEW v,
         stmt' = [stmt EXCEPT ![h][op] = v]
  PROVE  /\ stmt'[h][op] = v
         /\ \A g \in Holders, o \in Ops : g # h \/ o # op => stmt'[g][o] = stmt[g][o]
BY DEF TypeOK

\* What sending a statement leaves alone.
LEMMA SendUpdate ==
  ASSUME TypeOK, NEW h \in Holders, NEW op \in Ops, Send(h, op)
  PROVE  /\ stmt'[h][op] = [state |-> "sent", at |-> clock[h]]
         /\ \A g \in Holders, o \in Ops : g # h \/ o # op => stmt'[g][o] = stmt[g][o]
BY DEF TypeOK, Send

\* What executing a statement tells its caller, and what it leaves alone.
LEMMA AnswerUpdate ==
  ASSUME TypeOK, NEW h \in Holders, NEW op \in Ops, NEW c, Answer(h, op, c)
  PROVE  /\ c => stmt'[h][op].state = "ok"
         /\ ~c => stmt'[h][op].state = "refused" /\ stmt'[h][op].at = 0
         /\ c /\ op \in {"acquire", "renew"} => stmt'[h][op].at = stmt[h][op].at
         /\ op \notin {"acquire", "renew"} => stmt'[h][op].at = 0
         /\ \A g \in Holders, o \in Ops : g # h \/ o # op => stmt'[g][o] = stmt[g][o]
<1> DEFINE v == [state |-> IF c THEN "ok" ELSE "refused",
                 at |-> IF c /\ op \in {"acquire", "renew"} THEN stmt[h][op].at ELSE 0]
<1>1. stmt' = [stmt EXCEPT ![h][op] = v]
  BY DEF Answer
<1>2. /\ stmt'[h][op] = v
      /\ \A g \in Holders, o \in Ops : g # h \/ o # op => stmt'[g][o] = stmt[g][o]
  <2> HIDE DEF v
  <2> QED BY <1>1 DEF TypeOK
<1>3. v.state = IF c THEN "ok" ELSE "refused"
  OBVIOUS
<1>4. v.at = IF c /\ op \in {"acquire", "renew"} THEN stmt[h][op].at ELSE 0
  OBVIOUS
<1> HIDE DEF v
<1>5. /\ c => v.state = "ok"
      /\ ~c => v.state = "refused" /\ v.at = 0
  BY <1>3, <1>4
<1>6. /\ c /\ op \in {"acquire", "renew"} => v.at = stmt[h][op].at
      /\ op \notin {"acquire", "renew"} => v.at = 0
  BY <1>4, Zenon
<1> QED BY <1>2, <1>5, <1>6

\* LeaseInv is preserved by every step.
LEMMA LeaseStep == LeaseInv /\ [Next]_vars => LeaseInv'
<1> SUFFICES ASSUME LeaseInv, [Next]_vars PROVE LeaseInv'
  OBVIOUS
<1>0. "acquire" \in Ops /\ "renew" \in Ops /\ "release" \in Ops /\ "write" \in Ops
  BY DEF Ops
<1>t. TypeOK /\ TypeOK'
  BY TypeStep DEF LeaseInv
<1>c. /\ Ttl \in Nat /\ Renew \in Nat /\ Skew \in Nat /\ Renew < Ttl /\ Skew <= Renew
      /\ LocalTtl \in Nat /\ LocalTtl + Renew = Ttl
  BY TimesAssumption, SkewAssumption DEF LocalTtl
<1>n. /\ \A g \in Holders : clock[g] \in Nat /\ deadline[g] \in Nat
      /\ \A g \in Holders, o \in Ops : stmt[g][o].at \in Nat
      /\ row.expires \in Nat
  BY <1>t DEF TypeOK
<1>p. /\ \A g \in Holders : clock'[g] \in Nat /\ deadline'[g] \in Nat
      /\ \A g \in Holders, o \in Ops : stmt'[g][o].at \in Nat
      /\ row'.expires \in Nat
  BY <1>t DEF TypeOK
<1>1. CASE UNCHANGED vars
  BY <1>1, <1>t DEF vars, LeaseInv, ClocksClose, NoRowIsNoRow, Bookkeeping, Claims, RowOf, RowCovers, Granted, NoRow
<1>2. ASSUME NEW h \in Holders, Tick(h) PROVE LeaseInv'
  <2>1. /\ clock'[h] = clock[h] + 1
        /\ \A g \in Holders : g # h => clock'[g] = clock[g]
        /\ \A g \in Holders : clock[g] <= clock'[g]
    <3>1. clock' = [clock EXCEPT ![h] = clock[h] + 1] /\ clock \in [Holders -> Nat]
      BY <1>2, <1>t DEF Tick, TypeOK
    <3> QED BY <3>1, <1>n
  <2>2. ClocksClose'
    <3> SUFFICES ASSUME NEW a \in Holders, NEW b \in Holders PROVE clock'[a] - clock'[b] <= Skew
      BY DEF ClocksClose
    <3>1. clock[a] - clock[b] <= Skew /\ clock[h] + 1 - clock[b] <= Skew
      BY <1>2 DEF Tick, LeaseInv, ClocksClose
    <3> QED BY <2>1, <3>1, <1>n, <1>c
  <2>3. NoRowIsNoRow'
    BY <1>2 DEF Tick, NoRowIsNoRow, LeaseInv, NoRow
  <2>4. ASSUME NEW g \in Holders PROVE Bookkeeping(g)'
    BY <1>2, <2>1, <1>n, <1>p DEF Tick, Bookkeeping, LeaseInv
  <2>5. ASSUME NEW g \in Holders PROVE Claims(g)'
    BY <1>0, <1>2, <2>1, <1>n, <1>p, <1>c DEF Tick, Claims, RowCovers, LeaseInv
  <2>6. ASSUME NEW g \in Holders PROVE RowOf(g)'
    BY <1>0, <1>2, <2>1, <1>n, <1>p, <1>c DEF Tick, RowOf, Granted, LeaseInv
  <2> QED BY <1>t, <2>2, <2>3, <2>4, <2>5, <2>6 DEF LeaseInv
<1>3. ASSUME NEW h \in Holders, AcquireLease(h) PROVE LeaseInv'
  <2>1. /\ row' = row /\ clock' = clock
        /\ \A g \in Holders : g # h => phase'[g] = phase[g] /\ aborted'[g] = aborted[g] /\ deadline'[g] = deadline[g]
    BY <1>3, <1>t DEF AcquireLease, Abandon, TypeOK
  <2>2. /\ phase[h] = "idle" /\ phase'[h] = "acquiring" /\ aborted'[h] = aborted[h] /\ deadline'[h] = deadline[h]
    BY <1>3, <1>t DEF AcquireLease, Abandon, TypeOK
  <2>3. /\ stmt'[h]["acquire"] = [state |-> "sent", at |-> clock[h]]
        /\ \A g \in Holders, o \in Ops : g # h \/ o # "acquire" => stmt'[g][o] = stmt[g][o]
    BY <1>3, <1>0, <1>t, SendUpdate DEF AcquireLease
  <2>4. ASSUME NEW g \in Holders PROVE Bookkeeping(g)'
    BY <1>0, <1>n, <2>1, <2>2, <2>3 DEF LeaseInv, Bookkeeping
  <2>5. ASSUME NEW g \in Holders PROVE Claims(g)'
    BY <1>0, <1>n, <1>c, <2>1, <2>2, <2>3 DEF LeaseInv, Bookkeeping, Claims, RowCovers
  <2>6. ASSUME NEW g \in Holders PROVE RowOf(g)'
    BY <1>0, <1>n, <1>c, <2>1, <2>2, <2>3 DEF LeaseInv, RowOf, Granted, Bookkeeping
  <2> QED BY <1>t, <2>1, <2>4, <2>5, <2>6 DEF LeaseInv, ClocksClose, NoRowIsNoRow
<1>4. ASSUME NEW h \in Holders, AcquireGranted(h) PROVE LeaseInv'
  <2>1. /\ row' = row /\ clock' = clock
        /\ \A g \in Holders : g # h => phase'[g] = phase[g] /\ aborted'[g] = aborted[g] /\ deadline'[g] = deadline[g]
    BY <1>4, <1>t DEF AcquireGranted, Abandon, TypeOK
  <2>2. /\ phase[h] = "acquiring" /\ stmt[h]["acquire"].state = "ok" /\ phase'[h] = "holding" /\ aborted'[h] = aborted[h]
        /\ deadline'[h] = stmt[h]["acquire"].at + LocalTtl
    BY <1>4, <1>t DEF AcquireGranted, Abandon, TypeOK
  <2>3. /\ stmt'[h]["acquire"] = NoStatement
        /\ \A g \in Holders, o \in Ops : g # h \/ o # "acquire" => stmt'[g][o] = stmt[g][o]
    BY <1>4, <1>0, <1>t, StatementUpdate DEF AcquireGranted, Consume
  <2>4. ASSUME NEW g \in Holders PROVE Bookkeeping(g)'
    BY <1>0, <1>n, <2>1, <2>2, <2>3 DEF LeaseInv, Bookkeeping, NoStatement
  <2>5. ASSUME NEW g \in Holders PROVE Claims(g)'
    BY <1>0, <1>n, <1>c, <2>1, <2>2, <2>3 DEF LeaseInv, Bookkeeping, Claims, RowCovers, NoStatement
  <2>6. ASSUME NEW g \in Holders PROVE RowOf(g)'
    BY <1>0, <1>n, <1>c, <2>1, <2>2, <2>3 DEF LeaseInv, RowOf, Granted, Bookkeeping, NoStatement
  <2> QED BY <1>t, <2>1, <2>4, <2>5, <2>6 DEF LeaseInv, ClocksClose, NoRowIsNoRow
<1>5. ASSUME NEW h \in Holders, AcquireFailed(h) PROVE LeaseInv'
  <2>1. /\ row' = row /\ clock' = clock
        /\ \A g \in Holders : g # h => phase'[g] = phase[g] /\ aborted'[g] = aborted[g] /\ deadline'[g] = deadline[g]
    BY <1>5, <1>t DEF AcquireFailed, Abandon, TypeOK
  <2>2. /\ phase[h] = "acquiring" /\ phase'[h] = "gone" /\ aborted'[h] = aborted[h]
    BY <1>5, <1>t DEF AcquireFailed, Abandon, TypeOK
  <2>3. stmt' = stmt
    BY <1>5 DEF AcquireFailed
  <2>4. ASSUME NEW g \in Holders PROVE Bookkeeping(g)'
    BY <1>0, <1>n, <2>1, <2>2, <2>3 DEF LeaseInv, Bookkeeping
  <2>5. ASSUME NEW g \in Holders PROVE Claims(g)'
    BY <1>0, <1>n, <1>c, <2>1, <2>2, <2>3 DEF LeaseInv, Bookkeeping, Claims, RowCovers
  <2>6. ASSUME NEW g \in Holders PROVE RowOf(g)'
    BY <1>0, <1>n, <1>c, <2>1, <2>2, <2>3 DEF LeaseInv, RowOf, Granted, Bookkeeping
  <2> QED BY <1>t, <2>1, <2>4, <2>5, <2>6 DEF LeaseInv, ClocksClose, NoRowIsNoRow
<1>6. ASSUME NEW h \in Holders, RenewConfirmed(h) PROVE LeaseInv'
  <2>1. /\ row' = row /\ clock' = clock
        /\ \A g \in Holders : g # h => phase'[g] = phase[g] /\ aborted'[g] = aborted[g] /\ deadline'[g] = deadline[g]
    BY <1>6, <1>t DEF RenewConfirmed, Abandon, TypeOK
  <2>2. /\ phase[h] = "holding" /\ ~aborted[h] /\ stmt[h]["renew"].state = "ok" /\ phase'[h] = "holding" /\ aborted'[h] = aborted[h]
        /\ deadline'[h] = stmt[h]["renew"].at + LocalTtl
    BY <1>6, <1>t DEF RenewConfirmed, Abandon, TypeOK
  <2>3. /\ stmt'[h]["renew"] = NoStatement
        /\ \A g \in Holders, o \in Ops : g # h \/ o # "renew" => stmt'[g][o] = stmt[g][o]
    BY <1>6, <1>0, <1>t, StatementUpdate DEF RenewConfirmed, Consume
  <2>4. ASSUME NEW g \in Holders PROVE Bookkeeping(g)'
    BY <1>0, <1>n, <2>1, <2>2, <2>3 DEF LeaseInv, Bookkeeping, NoStatement
  <2>5. ASSUME NEW g \in Holders PROVE Claims(g)'
    BY <1>0, <1>n, <1>c, <2>1, <2>2, <2>3 DEF LeaseInv, Bookkeeping, Claims, RowCovers, NoStatement
  <2>6. ASSUME NEW g \in Holders PROVE RowOf(g)'
    BY <1>0, <1>n, <1>c, <2>1, <2>2, <2>3 DEF LeaseInv, RowOf, Granted, Bookkeeping, NoStatement
  <2> QED BY <1>t, <2>1, <2>4, <2>5, <2>6 DEF LeaseInv, ClocksClose, NoRowIsNoRow
<1>7. ASSUME NEW h \in Holders, RenewLost(h) PROVE LeaseInv'
  <2>1. /\ row' = row /\ clock' = clock
        /\ \A g \in Holders : g # h => phase'[g] = phase[g] /\ aborted'[g] = aborted[g] /\ deadline'[g] = deadline[g]
    BY <1>7, <1>t DEF RenewLost, Abandon, TypeOK
  <2>2. /\ phase[h] = "holding" /\ phase'[h] = "holding" /\ aborted'[h]
    BY <1>7, <1>t DEF RenewLost, Abandon, TypeOK
  <2>3. stmt' = stmt
    BY <1>7 DEF RenewLost
  <2>4. ASSUME NEW g \in Holders PROVE Bookkeeping(g)'
    BY <1>0, <1>n, <2>1, <2>2, <2>3 DEF LeaseInv, Bookkeeping
  <2>5. ASSUME NEW g \in Holders PROVE Claims(g)'
    BY <1>0, <1>n, <1>c, <2>1, <2>2, <2>3 DEF LeaseInv, Bookkeeping, Claims, RowCovers
  <2>6. ASSUME NEW g \in Holders PROVE RowOf(g)'
    BY <1>0, <1>n, <1>c, <2>1, <2>2, <2>3 DEF LeaseInv, RowOf, Granted, Bookkeeping
  <2> QED BY <1>t, <2>1, <2>4, <2>5, <2>6 DEF LeaseInv, ClocksClose, NoRowIsNoRow
<1>8. ASSUME NEW h \in Holders, WriteConfirmed(h) PROVE LeaseInv'
  <2>1. /\ row' = row /\ clock' = clock
        /\ \A g \in Holders : g # h => phase'[g] = phase[g] /\ aborted'[g] = aborted[g] /\ deadline'[g] = deadline[g]
    BY <1>8, <1>t DEF WriteConfirmed, Abandon, TypeOK
  <2>2. /\ phase[h] = "holding" /\ phase'[h] = "holding" /\ aborted'[h] = aborted[h] /\ deadline'[h] = deadline[h]
    BY <1>8, <1>t DEF WriteConfirmed, Abandon, TypeOK
  <2>3. /\ stmt'[h]["write"] = NoStatement
        /\ \A g \in Holders, o \in Ops : g # h \/ o # "write" => stmt'[g][o] = stmt[g][o]
    BY <1>8, <1>0, <1>t, StatementUpdate DEF WriteConfirmed, Consume
  <2>4. ASSUME NEW g \in Holders PROVE Bookkeeping(g)'
    BY <1>0, <1>n, <2>1, <2>2, <2>3 DEF LeaseInv, Bookkeeping, NoStatement
  <2>5. ASSUME NEW g \in Holders PROVE Claims(g)'
    BY <1>0, <1>n, <1>c, <2>1, <2>2, <2>3 DEF LeaseInv, Bookkeeping, Claims, RowCovers, NoStatement
  <2>6. ASSUME NEW g \in Holders PROVE RowOf(g)'
    BY <1>0, <1>n, <1>c, <2>1, <2>2, <2>3 DEF LeaseInv, RowOf, Granted, Bookkeeping, NoStatement
  <2> QED BY <1>t, <2>1, <2>4, <2>5, <2>6 DEF LeaseInv, ClocksClose, NoRowIsNoRow
<1>9. ASSUME NEW h \in Holders, WriteFailed(h) PROVE LeaseInv'
  <2>1. /\ row' = row /\ clock' = clock
        /\ \A g \in Holders : g # h => phase'[g] = phase[g] /\ aborted'[g] = aborted[g] /\ deadline'[g] = deadline[g]
    BY <1>9, <1>t DEF WriteFailed, Abandon, TypeOK
  <2>2. /\ phase[h] = "holding" /\ phase'[h] = "holding" /\ aborted'[h]
    BY <1>9, <1>t DEF WriteFailed, Abandon, TypeOK
  <2>3. stmt' = stmt
    BY <1>9 DEF WriteFailed
  <2>4. ASSUME NEW g \in Holders PROVE Bookkeeping(g)'
    BY <1>0, <1>n, <2>1, <2>2, <2>3 DEF LeaseInv, Bookkeeping
  <2>5. ASSUME NEW g \in Holders PROVE Claims(g)'
    BY <1>0, <1>n, <1>c, <2>1, <2>2, <2>3 DEF LeaseInv, Bookkeeping, Claims, RowCovers
  <2>6. ASSUME NEW g \in Holders PROVE RowOf(g)'
    BY <1>0, <1>n, <1>c, <2>1, <2>2, <2>3 DEF LeaseInv, RowOf, Granted, Bookkeeping
  <2> QED BY <1>t, <2>1, <2>4, <2>5, <2>6 DEF LeaseInv, ClocksClose, NoRowIsNoRow
<1>10. ASSUME NEW h \in Holders, Release(h) PROVE LeaseInv'
  <2>1. /\ row' = row /\ clock' = clock
        /\ \A g \in Holders : g # h => phase'[g] = phase[g] /\ aborted'[g] = aborted[g] /\ deadline'[g] = deadline[g]
    BY <1>10, <1>t DEF Release, Abandon, TypeOK
  <2>2. /\ phase[h] = "holding" /\ phase'[h] = "gone" /\ aborted'[h]
    BY <1>10, <1>t DEF Release, Abandon, TypeOK
  <2>3. /\ stmt'[h]["release"] = [state |-> "sent", at |-> clock[h]]
        /\ \A g \in Holders, o \in Ops : g # h \/ o # "release" => stmt'[g][o] = stmt[g][o]
    BY <1>10, <1>0, <1>t, SendUpdate DEF Release
  <2>4. ASSUME NEW g \in Holders PROVE Bookkeeping(g)'
    BY <1>0, <1>n, <2>1, <2>2, <2>3 DEF LeaseInv, Bookkeeping
  <2>5. ASSUME NEW g \in Holders PROVE Claims(g)'
    BY <1>0, <1>n, <1>c, <2>1, <2>2, <2>3 DEF LeaseInv, Bookkeeping, Claims, RowCovers
  <2>6. ASSUME NEW g \in Holders PROVE RowOf(g)'
    BY <1>0, <1>n, <1>c, <2>1, <2>2, <2>3 DEF LeaseInv, RowOf, Granted, Bookkeeping
  <2> QED BY <1>t, <2>1, <2>4, <2>5, <2>6 DEF LeaseInv, ClocksClose, NoRowIsNoRow
<1>11. ASSUME NEW h \in Holders, Crash(h) PROVE LeaseInv'
  <2>1. /\ row' = row /\ clock' = clock
        /\ \A g \in Holders : g # h => phase'[g] = phase[g] /\ aborted'[g] = aborted[g] /\ deadline'[g] = deadline[g]
    BY <1>11, <1>t DEF Crash, Abandon, TypeOK
  <2>2. /\ phase[h] \in {"acquiring", "holding"} /\ phase'[h] = "gone"
    BY <1>11, <1>t DEF Crash, Abandon, TypeOK
  <2>3. stmt' = stmt
    BY <1>11 DEF Crash
  <2>4. ASSUME NEW g \in Holders PROVE Bookkeeping(g)'
    BY <1>0, <1>n, <2>1, <2>2, <2>3 DEF LeaseInv, Bookkeeping
  <2>5. ASSUME NEW g \in Holders PROVE Claims(g)'
    BY <1>0, <1>n, <1>c, <2>1, <2>2, <2>3 DEF LeaseInv, Bookkeeping, Claims, RowCovers
  <2>6. ASSUME NEW g \in Holders PROVE RowOf(g)'
    BY <1>0, <1>n, <1>c, <2>1, <2>2, <2>3 DEF LeaseInv, RowOf, Granted, Bookkeeping
  <2> QED BY <1>t, <2>1, <2>4, <2>5, <2>6 DEF LeaseInv, ClocksClose, NoRowIsNoRow
<1>12. ASSUME NEW h \in Holders, RenewStart(h) PROVE LeaseInv'
  <2>1. /\ row' = row /\ clock' = clock /\ phase' = phase
        /\ phase[h] = "holding" /\ ~aborted[h]
        /\ stmt[h]["renew"].state = "none"
    BY <1>12 DEF RenewStart
  <2>2. /\ \A g \in Holders : g # h => aborted'[g] = aborted[g] /\ deadline'[g] = deadline[g]
        /\ \/ aborted'[h]
           \/ aborted'[h] = aborted[h] /\ deadline'[h] = deadline[h]
    BY <1>12, <1>t DEF RenewStart, Abandon, TypeOK
  <2>3. /\ \/ stmt'[h]["renew"] = stmt[h]["renew"]
           \/ stmt'[h]["renew"] = [state |-> "sent", at |-> clock[h]]
        /\ \A g \in Holders, o \in Ops : g # h \/ o # "renew" => stmt'[g][o] = stmt[g][o]
    BY <1>12, <1>0, <1>t, SendUpdate DEF RenewStart
  <2>4. ASSUME NEW g \in Holders PROVE Bookkeeping(g)'
    BY <1>0, <1>n, <2>1, <2>2, <2>3 DEF LeaseInv, Bookkeeping
  <2>5. ASSUME NEW g \in Holders PROVE Claims(g)'
    BY <1>0, <1>n, <1>c, <2>1, <2>2, <2>3 DEF LeaseInv, Bookkeeping, Claims, RowCovers
  <2>6. ASSUME NEW g \in Holders PROVE RowOf(g)'
    BY <1>0, <1>n, <1>c, <2>1, <2>2, <2>3 DEF LeaseInv, RowOf, Granted, Bookkeeping
  <2> QED BY <1>t, <2>1, <2>4, <2>5, <2>6 DEF LeaseInv, ClocksClose, NoRowIsNoRow
<1>13. ASSUME NEW h \in Holders, FencedWrite(h) PROVE LeaseInv'
  <2>1. /\ row' = row /\ clock' = clock /\ phase' = phase
        /\ phase[h] = "holding" /\ ~aborted[h]
        /\ stmt[h]["write"].state = "none"
    BY <1>13 DEF FencedWrite
  <2>2. /\ \A g \in Holders : g # h => aborted'[g] = aborted[g] /\ deadline'[g] = deadline[g]
        /\ \/ aborted'[h]
           \/ aborted'[h] = aborted[h] /\ deadline'[h] = deadline[h]
    BY <1>13, <1>t DEF FencedWrite, Abandon, TypeOK
  <2>3. /\ \/ stmt'[h]["write"] = stmt[h]["write"]
           \/ stmt'[h]["write"] = [state |-> "sent", at |-> clock[h]]
        /\ \A g \in Holders, o \in Ops : g # h \/ o # "write" => stmt'[g][o] = stmt[g][o]
    BY <1>13, <1>0, <1>t, SendUpdate DEF FencedWrite
  <2>4. ASSUME NEW g \in Holders PROVE Bookkeeping(g)'
    BY <1>0, <1>n, <2>1, <2>2, <2>3 DEF LeaseInv, Bookkeeping
  <2>5. ASSUME NEW g \in Holders PROVE Claims(g)'
    BY <1>0, <1>n, <1>c, <2>1, <2>2, <2>3 DEF LeaseInv, Bookkeeping, Claims, RowCovers
  <2>6. ASSUME NEW g \in Holders PROVE RowOf(g)'
    BY <1>0, <1>n, <1>c, <2>1, <2>2, <2>3 DEF LeaseInv, RowOf, Granted, Bookkeeping
  <2> QED BY <1>t, <2>1, <2>4, <2>5, <2>6 DEF LeaseInv, ClocksClose, NoRowIsNoRow
<1>14. ASSUME NEW h \in Holders, ExecuteAcquire(h) PROVE LeaseInv'
  <2> DEFINE s == stmt[h]["acquire"]
  <2>1. /\ clock' = clock /\ phase' = phase /\ aborted' = aborted /\ deadline' = deadline
        /\ s.state = "sent"
        /\ phase[h] # "idle"
    BY <1>14 DEF ExecuteAcquire, LeaseInv, Bookkeeping
  <2>2. CASE ~AcquireGuard(h)
    <3>1. row' = row
      BY <1>14, <2>2 DEF ExecuteAcquire
    <3>2. /\ stmt'[h]["acquire"].state = "refused" /\ stmt'[h]["acquire"].at = 0
          /\ \A g \in Holders, o \in Ops : g # h \/ o # "acquire" => stmt'[g][o] = stmt[g][o]
      <4>1. Answer(h, "acquire", AcquireGuard(h))
        BY <1>14 DEF ExecuteAcquire
      <4> QED BY <1>0, <1>t, <2>2, <4>1, AnswerUpdate
    <3>4. ASSUME NEW g \in Holders PROVE Bookkeeping(g)'
      BY <1>0, <1>n, <2>1, <3>1, <3>2 DEF LeaseInv, Bookkeeping
    <3>5. ASSUME NEW g \in Holders PROVE Claims(g)'
      BY <1>0, <1>n, <1>c, <2>1, <3>1, <3>2 DEF LeaseInv, Bookkeeping, Claims, RowCovers
    <3>6. ASSUME NEW g \in Holders PROVE RowOf(g)'
      BY <1>0, <1>n, <1>c, <2>1, <3>1, <3>2 DEF LeaseInv, RowOf, Granted, Bookkeeping
    <3> QED BY <1>t, <2>1, <3>1, <3>4, <3>5, <3>6 DEF LeaseInv, ClocksClose, NoRowIsNoRow
  <2>3. CASE AcquireGuard(h)
    <3>1. row'.holder = h /\ row'.expires = s.at + Ttl
      BY <1>14, <2>3 DEF ExecuteAcquire
    <3>2. /\ stmt'[h]["acquire"].state = "ok" /\ stmt'[h]["acquire"].at = s.at
          /\ \A g \in Holders, o \in Ops : g # h \/ o # "acquire" => stmt'[g][o] = stmt[g][o]
      <4>1. Answer(h, "acquire", AcquireGuard(h))
        BY <1>14 DEF ExecuteAcquire
      <4> QED BY <1>0, <1>t, <2>3, <4>1, AnswerUpdate
    <3>3. ASSUME NEW g \in Holders, NEW c \in Nat, RowCovers(g, c) PROVE ~(clock[g] < c)
      <4> SUFFICES ASSUME clock[g] < c PROVE FALSE
        OBVIOUS
      <4>1. row.holder = g /\ row.expires >= c + Renew
        BY <3>3 DEF RowCovers
      <4>2. row # NoRow
        BY <4>1, HoldersAssumption DEF NoRow
      <4>3. row.expires <= s.at
        BY <2>3, <4>2 DEF AcquireGuard
      <4>4. s.at <= clock[h] /\ clock[h] - clock[g] <= Skew
        BY <1>0 DEF LeaseInv, Bookkeeping, ClocksClose
      <4> QED BY <1>0, <1>n, <1>c, <4>1, <4>3, <4>4
    <3>4. ASSUME NEW g \in Holders PROVE Bookkeeping(g)'
      BY <1>0, <1>n, <2>1, <3>2 DEF LeaseInv, Bookkeeping
    <3>5. ASSUME NEW g \in Holders PROVE Claims(g)'
      <4>1. CASE g # h
        <5>1. Claims(g) /\ stmt'[g]["acquire"] = stmt[g]["acquire"] /\ stmt'[g]["renew"] = stmt[g]["renew"]
          BY <1>0, <3>2, <4>1 DEF LeaseInv
        <5>2. /\ deadline[g] \in Nat /\ stmt[g]["acquire"].at + LocalTtl \in Nat
              /\ stmt[g]["renew"].at + LocalTtl \in Nat
          BY <1>0, <1>n, <1>c
        <5> QED BY <2>1, <3>3, <5>1, <5>2 DEF Claims, RowCovers
      <4>2. CASE g = h
        <5>1. phase[h] # "holding"
          BY <2>1 DEF LeaseInv, Bookkeeping
        <5>2. RowCovers(h, s.at + LocalTtl)'
          BY <1>0, <1>n, <1>c, <2>1, <3>1, <3>2 DEF RowCovers
        <5> QED BY <2>1, <3>2, <4>2, <5>1, <5>2 DEF Claims, RowCovers
      <4> QED BY <4>1, <4>2
    <3>6. ASSUME NEW g \in Holders PROVE RowOf(g)'
      <4>1. s.at <= clock[h] /\ stmt'[h]["renew"].state = "none"
        BY <1>0, <2>1, <3>2 DEF LeaseInv, Bookkeeping
      <4> QED BY <1>0, <1>n, <1>c, <2>1, <3>1, <3>2, <4>1 DEF RowOf, Granted
    <3>7. ClocksClose' /\ NoRowIsNoRow'
      BY <2>1, <3>1, HoldersAssumption DEF LeaseInv, ClocksClose, NoRowIsNoRow
    <3> QED BY <1>t, <3>4, <3>5, <3>6, <3>7 DEF LeaseInv
  <2> QED BY <2>2, <2>3
<1>15. ASSUME NEW h \in Holders, ExecuteRenew(h) PROVE LeaseInv'
  <2> DEFINE s == stmt[h]["renew"]
  <2>1. /\ clock' = clock /\ phase' = phase /\ aborted' = aborted /\ deadline' = deadline
        /\ s.state = "sent"
        /\ phase[h] # "idle" /\ stmt[h]["acquire"].state = "none"
    BY <1>15 DEF ExecuteRenew, LeaseInv, Bookkeeping
  <2>2. CASE ~OwnedAt(h, s.at)
    <3>1. row' = row
      BY <1>15, <2>2 DEF ExecuteRenew
    <3>2. /\ stmt'[h]["renew"].state = "refused" /\ stmt'[h]["renew"].at = 0
          /\ \A g \in Holders, o \in Ops : g # h \/ o # "renew" => stmt'[g][o] = stmt[g][o]
      <4>1. Answer(h, "renew", OwnedAt(h, s.at))
        BY <1>15 DEF ExecuteRenew
      <4> QED BY <1>0, <1>t, <2>2, <4>1, AnswerUpdate
    <3>4. ASSUME NEW g \in Holders PROVE Bookkeeping(g)'
      BY <1>0, <1>n, <2>1, <3>1, <3>2 DEF LeaseInv, Bookkeeping
    <3>5. ASSUME NEW g \in Holders PROVE Claims(g)'
      BY <1>0, <1>n, <1>c, <2>1, <3>1, <3>2 DEF LeaseInv, Bookkeeping, Claims, RowCovers
    <3>6. ASSUME NEW g \in Holders PROVE RowOf(g)'
      BY <1>0, <1>n, <1>c, <2>1, <3>1, <3>2 DEF LeaseInv, RowOf, Granted, Bookkeeping
    <3> QED BY <1>t, <2>1, <3>1, <3>4, <3>5, <3>6 DEF LeaseInv, ClocksClose, NoRowIsNoRow
  <2>3. CASE OwnedAt(h, s.at)
    <3>1. row.holder = h /\ row'.holder = h /\ row'.expires = s.at + Ttl
      BY <1>15, <1>t, <2>3 DEF ExecuteRenew, OwnedAt, TypeOK
    <3>2. /\ stmt'[h]["renew"].state = "ok" /\ stmt'[h]["renew"].at = s.at
          /\ \A g \in Holders, o \in Ops : g # h \/ o # "renew" => stmt'[g][o] = stmt[g][o]
      <4>1. Answer(h, "renew", OwnedAt(h, s.at))
        BY <1>15 DEF ExecuteRenew
      <4> QED BY <1>0, <1>t, <2>3, <4>1, AnswerUpdate
    <3>3. row.expires <= row'.expires /\ s.at <= clock[h]
      BY <1>0, <2>1, <3>1 DEF LeaseInv, RowOf, Bookkeeping
    <3>4. ASSUME NEW g \in Holders PROVE Bookkeeping(g)'
      BY <1>0, <1>n, <2>1, <3>2 DEF LeaseInv, Bookkeeping
    <3>5. ASSUME NEW g \in Holders PROVE Claims(g)'
      <4>1. CASE g # h
        BY <1>0, <1>n, <1>c, <2>1, <3>1, <3>2, <4>1 DEF LeaseInv, Claims, RowCovers
      <4>2. CASE g = h
        BY <1>0, <1>n, <1>p, <1>c, <2>1, <3>1, <3>2, <3>3, <4>2 DEF LeaseInv, Claims, RowCovers
      <4> QED BY <4>1, <4>2
    <3>6. ASSUME NEW g \in Holders PROVE RowOf(g)'
      BY <1>0, <1>n, <1>c, <2>1, <3>1, <3>2, <3>3 DEF LeaseInv, RowOf, Granted
    <3>7. ClocksClose' /\ NoRowIsNoRow'
      BY <2>1, <3>1, HoldersAssumption DEF LeaseInv, ClocksClose, NoRowIsNoRow
    <3> QED BY <1>t, <3>4, <3>5, <3>6, <3>7 DEF LeaseInv
  <2> QED BY <2>2, <2>3
<1>16. ASSUME NEW h \in Holders, ExecuteRelease(h) PROVE LeaseInv'
  <2>1. /\ clock' = clock /\ phase' = phase /\ aborted' = aborted /\ deadline' = deadline
        /\ phase[h] = "gone" /\ aborted[h]
        /\ row' = IF row.holder = h THEN NoRow ELSE row
    BY <1>16 DEF ExecuteRelease, LeaseInv, Bookkeeping
  <2>2. /\ stmt'[h]["release"].at = 0
        /\ \A g \in Holders, o \in Ops : g # h \/ o # "release" => stmt'[g][o] = stmt[g][o]
    <3>1. Answer(h, "release", row.holder = h)
      BY <1>16 DEF ExecuteRelease
    <3> QED BY <1>0, <1>t, <3>1, AnswerUpdate
  <2>3. (row'.holder = NoHolder /\ row.holder = h) \/ row' = row
    BY <2>1 DEF NoRow
  <2>4. ASSUME NEW g \in Holders PROVE Bookkeeping(g)'
    BY <1>0, <1>n, <2>1, <2>2 DEF LeaseInv, Bookkeeping
  <2>5. ASSUME NEW g \in Holders PROVE Claims(g)'
    BY <1>0, <1>n, <1>c, <2>1, <2>2, <2>3 DEF LeaseInv, Claims, RowCovers
  <2>6. ASSUME NEW g \in Holders PROVE RowOf(g)'
    BY <1>0, <1>n, <1>c, <2>1, <2>2, <2>3, HoldersAssumption DEF LeaseInv, RowOf, Granted
  <2>7. ClocksClose' /\ NoRowIsNoRow'
    BY <2>1 DEF LeaseInv, ClocksClose, NoRowIsNoRow
  <2> QED BY <1>t, <2>4, <2>5, <2>6, <2>7 DEF LeaseInv
<1>17. ASSUME NEW h \in Holders, ExecuteWrite(h) PROVE LeaseInv'
  <2>1. row' = row /\ clock' = clock /\ phase' = phase /\ aborted' = aborted /\ deadline' = deadline
    BY <1>17 DEF ExecuteWrite
  <2>2. Answer(h, "write", OwnedAt(h, stmt[h]["write"].at))
    BY <1>17 DEF ExecuteWrite
  <2>3. /\ stmt'[h]["write"].at = 0
        /\ \A g \in Holders, o \in Ops : g # h \/ o # "write" => stmt'[g][o] = stmt[g][o]
    BY <1>0, <1>t, <2>2, AnswerUpdate
  <2>4. ASSUME NEW g \in Holders PROVE Bookkeeping(g)'
    BY <1>0, <1>n, <2>1, <2>3 DEF LeaseInv, Bookkeeping
  <2>5. ASSUME NEW g \in Holders PROVE Claims(g)'
    BY <1>0, <1>n, <1>c, <2>1, <2>3 DEF LeaseInv, Claims, RowCovers
  <2>6. ASSUME NEW g \in Holders PROVE RowOf(g)'
    BY <1>0, <1>n, <1>c, <2>1, <2>3 DEF LeaseInv, RowOf, Granted
  <2> QED BY <1>t, <2>1, <2>4, <2>5, <2>6 DEF LeaseInv, ClocksClose, NoRowIsNoRow
<1> QED
  BY <1>1, <1>2, <1>3, <1>4, <1>5, <1>6, <1>7, <1>8, <1>9, <1>10, <1>11, <1>12, <1>13,
     <1>14, <1>15, <1>16, <1>17 DEF Next, Step

\* LeaseInv holds initially.
LEMMA LeaseInit == Init => LeaseInv
<1> SUFFICES ASSUME Init PROVE LeaseInv
  OBVIOUS
<1>1. TypeOK
  BY TypeInit
<1>2. row.holder = NoHolder /\ row = NoRow
  BY DEF Init, NoRow
<1>3. \A h \in Holders : clock[h] = 0 /\ phase[h] = "idle"
  BY DEF Init
<1>4. \A h \in Holders, op \in Ops : stmt[h][op].state = "none" /\ stmt[h][op].at = 0
  BY DEF Init, NoStatement
<1>5. ClocksClose /\ NoRowIsNoRow
  BY <1>2, <1>3, TimesAssumption DEF ClocksClose, NoRowIsNoRow
<1>6. \A h \in Holders : Bookkeeping(h) /\ Claims(h) /\ RowOf(h)
  <2>1. "acquire" \in Ops /\ "renew" \in Ops /\ "release" \in Ops
    BY DEF Ops
  <2>2. ASSUME NEW h \in Holders PROVE Bookkeeping(h)
    BY <1>3, <1>4, <2>1 DEF Bookkeeping
  <2>3. ASSUME NEW h \in Holders PROVE Claims(h) /\ RowOf(h)
    BY <1>2, <1>3, HoldersAssumption DEF Claims, RowOf
  <2> QED BY <2>2, <2>3
<1> QED BY <1>1, <1>5, <1>6 DEF LeaseInv

\* LeaseInv is an invariant of the lease.
LEMMA LeaseInvariant == Spec => []LeaseInv
BY LeaseInit, LeaseStep, PTL DEF Spec

\* HeldOwnsRow: whoever passes assertHeld() is the holder the row names, with a renew period to spare.
THEOREM HeldOwnsRowAlways == Spec => []HeldOwnsRow
<1>1. LeaseInv => HeldOwnsRow
  BY DEF LeaseInv, Claims, RowCovers, HeldOwnsRow, Held
<1> QED BY <1>1, LeaseInvariant, PTL

\* MutualExclusion: no two invocations pass assertHeld() on one key at once.
THEOREM Exclusive == Spec => []MutualExclusion
<1>1. HeldOwnsRow => MutualExclusion
  BY DEF HeldOwnsRow, MutualExclusion
<1> QED BY <1>1, HeldOwnsRowAlways, PTL

\* DeadHolderBlocksAtMostTtl: nobody waits longer than a TTL and the clock difference for a dead holder.
THEOREM TtlBounded == Spec => []DeadHolderBlocksAtMostTtl
<1>1. LeaseInv => DeadHolderBlocksAtMostTtl
  <2> SUFFICES ASSUME LeaseInv, NEW h \in Holders, row # NoRow
               PROVE  row.expires <= clock[h] + Ttl + Skew
    BY DEF DeadHolderBlocksAtMostTtl
  <2>1. row.holder \in Holders
    BY DEF LeaseInv, NoRowIsNoRow, TypeOK
  <2>2. row.expires <= clock[row.holder] + Ttl /\ clock[row.holder] - clock[h] <= Skew
    BY <2>1 DEF LeaseInv, RowOf, ClocksClose
  <2>3. row.expires \in Nat /\ clock[h] \in Nat /\ clock[row.holder] \in Nat
    BY <2>1 DEF LeaseInv, TypeOK
  <2> QED BY <2>2, <2>3, TimesAssumption
<1> QED BY <1>1, LeaseInvariant, PTL

-----------------------------------------------------------------------------
\* Every writer had been granted the lease, and the current holder's first write ended all others'.
JournalInv ==
  /\ \A i \in 1..Len(journal) : Granted(journal[i])
  /\ \A i, j \in 1..Len(journal) : i < j /\ journal[i] = row.holder => journal[j] = row.holder
  /\ \A i, j, k \in 1..Len(journal) :
       i < j /\ j < k /\ journal[i] = journal[k] => journal[j] = journal[i]

\* A uuid is granted at most once: once its acquire has executed, it never acquires again.
LEMMA GrantedForGood ==
  ASSUME TypeOK, [Next]_vars, NEW h \in Holders, Granted(h)
  PROVE  Granted(h)'
<1>1. CASE UNCHANGED vars
  BY <1>1 DEF vars, Granted
<1>2. ASSUME NEW g \in Holders, Step(g) PROVE Granted(h)'
  <2>1. "acquire" \in Ops /\ "renew" \in Ops /\ "release" \in Ops /\ "write" \in Ops
    BY DEF Ops
  <2>2. phase'[h] # "idle"
    BY <1>2 DEF Step, Tick, AcquireLease, AcquireGranted, AcquireFailed, RenewStart, RenewConfirmed,
      RenewLost, FencedWrite, WriteConfirmed, WriteFailed, Release, Crash, ExecuteAcquire, ExecuteRenew,
      ExecuteRelease, ExecuteWrite, Granted, TypeOK
  <2>3. stmt'[h]["acquire"].state # "sent"
    <3>1. CASE Tick(g) \/ AcquireFailed(g) \/ RenewLost(g) \/ WriteFailed(g) \/ Crash(g)
      BY <3>1 DEF Tick, AcquireFailed, RenewLost, WriteFailed, Crash, Granted
    <3>2. CASE AcquireLease(g)
      <4>1. g # h /\ Send(g, "acquire")
        BY <3>2 DEF AcquireLease, Granted
      <4>2. \A a \in Holders, o \in Ops : a # g \/ o # "acquire" => stmt'[a][o] = stmt[a][o]
        BY <2>1, <4>1, SendUpdate
      <4> QED BY <2>1, <4>1, <4>2 DEF Granted
    <3>3. CASE AcquireGranted(g)
      <4>1. stmt' = [stmt EXCEPT ![g]["acquire"] = NoStatement]
        BY <3>3 DEF AcquireGranted, Consume
      <4> QED BY <2>1, <4>1, StatementUpdate DEF Granted, NoStatement
    <3>4. CASE RenewStart(g) \/ FencedWrite(g) \/ Release(g)
      <4>1. stmt' = stmt \/ Send(g, "renew") \/ Send(g, "write") \/ Send(g, "release")
        BY <3>4 DEF RenewStart, FencedWrite, Release
      <4>2. ASSUME NEW op \in Ops, op # "acquire", Send(g, op)
            PROVE  stmt'[h]["acquire"] = stmt[h]["acquire"]
        <5>1. \A a \in Holders, o \in Ops : a # g \/ o # op => stmt'[a][o] = stmt[a][o]
          BY <4>2, SendUpdate
        <5> QED BY <2>1, <4>2, <5>1
      <4> QED BY <2>1, <4>1, <4>2 DEF Granted
    <3>5. CASE RenewConfirmed(g) \/ WriteConfirmed(g)
      BY <2>1, <3>5, StatementUpdate DEF RenewConfirmed, WriteConfirmed, Consume, Granted
    <3>6. CASE ExecuteAcquire(g)
      <4>1. Answer(g, "acquire", AcquireGuard(g))
        BY <3>6 DEF ExecuteAcquire
      <4>2. stmt'[g]["acquire"].state \in {"ok", "refused"}
        BY <2>1, <4>1, AnswerUpdate
      <4> QED BY <2>1, <4>1, <4>2, AnswerUpdate DEF Granted
    <3>7. CASE ExecuteRenew(g)
      <4>1. Answer(g, "renew", OwnedAt(g, stmt[g]["renew"].at))
        BY <3>7 DEF ExecuteRenew
      <4> QED BY <2>1, <4>1, AnswerUpdate DEF Granted
    <3>8. CASE ExecuteRelease(g)
      <4>1. Answer(g, "release", row.holder = g)
        BY <3>8 DEF ExecuteRelease
      <4> QED BY <2>1, <4>1, AnswerUpdate DEF Granted
    <3>9. CASE ExecuteWrite(g)
      <4>1. Answer(g, "write", OwnedAt(g, stmt[g]["write"].at))
        BY <3>9 DEF ExecuteWrite
      <4> QED BY <2>1, <4>1, AnswerUpdate DEF Granted
    <3> QED BY <1>2, <3>1, <3>2, <3>3, <3>4, <3>5, <3>6, <3>7, <3>8, <3>9 DEF Step
  <2> QED BY <2>2, <2>3 DEF Granted
<1> QED BY <1>1, <1>2 DEF Next

\* How a step can change who owns the row and who has written.
LEMMA OwnershipStep ==
  ASSUME LeaseInv, [Next]_vars
  PROVE  \/ row'.holder = row.holder /\ journal' = journal
         \/ \E h \in Holders : /\ ExecuteAcquire(h) /\ AcquireGuard(h)
                               /\ row'.holder = h /\ journal' = journal
         \/ \E h \in Holders : /\ ExecuteRelease(h) /\ row.holder = h
                               /\ row'.holder = NoHolder /\ journal' = journal
         \/ \E h \in Holders : /\ ExecuteWrite(h) /\ row.holder = h
                               /\ row' = row /\ journal' = Append(journal, h)
<1>1. CASE UNCHANGED vars
  BY <1>1 DEF vars
<1>2. ASSUME NEW h \in Holders, Step(h),
             ~ExecuteAcquire(h), ~ExecuteRenew(h), ~ExecuteRelease(h), ~ExecuteWrite(h)
      PROVE  row' = row /\ journal' = journal
  BY <1>2 DEF Step, Tick, AcquireLease, AcquireGranted, AcquireFailed, RenewStart, RenewConfirmed,
    RenewLost, FencedWrite, WriteConfirmed, WriteFailed, Release, Crash
<1>3. ASSUME NEW h \in Holders, ExecuteAcquire(h)
      PROVE  journal' = journal /\ (row' = row \/ (AcquireGuard(h) /\ row'.holder = h))
  <2>1. CASE AcquireGuard(h)
    BY <1>3, <2>1 DEF ExecuteAcquire
  <2>2. CASE ~AcquireGuard(h)
    <3>1. row' = row /\ journal' = journal
      BY <1>3, <2>2 DEF ExecuteAcquire
    <3> QED BY <3>1
  <2> QED BY <2>1, <2>2
<1>4. ASSUME NEW h \in Holders, ExecuteRenew(h)
      PROVE  journal' = journal /\ row'.holder = row.holder
  BY <1>4 DEF ExecuteRenew, LeaseInv, TypeOK
<1>5. ASSUME NEW h \in Holders, ExecuteRelease(h)
      PROVE  journal' = journal /\ (row' = row \/ (row.holder = h /\ row'.holder = NoHolder))
  <2>1. CASE row.holder = h
    BY <1>5, <2>1 DEF ExecuteRelease, NoRow
  <2>2. CASE row.holder # h
    <3>1. row' = row /\ journal' = journal
      BY <1>5, <2>2 DEF ExecuteRelease
    <3> QED BY <3>1
  <2> QED BY <2>1, <2>2
<1>6. ASSUME NEW h \in Holders, ExecuteWrite(h)
      PROVE  row' = row /\ (journal' = journal \/ (row.holder = h /\ journal' = Append(journal, h)))
  <2>1. CASE OwnedAt(h, stmt[h]["write"].at)
    BY <1>6, <2>1 DEF ExecuteWrite, OwnedAt
  <2>2. CASE ~OwnedAt(h, stmt[h]["write"].at)
    <3>1. row' = row /\ journal' = journal
      BY <1>6, <2>2 DEF ExecuteWrite
    <3> QED BY <3>1
  <2> QED BY <2>1, <2>2
<1> QED BY <1>1, <1>2, <1>3, <1>4, <1>5, <1>6 DEF Next

\* The order of writes is preserved by every step.
LEMMA JournalStep == LeaseInv /\ JournalInv /\ [Next]_vars => JournalInv'
<1> SUFFICES ASSUME LeaseInv, JournalInv, [Next]_vars PROVE JournalInv'
  OBVIOUS
<1>1. journal \in Seq(Holders) /\ \A i \in 1..Len(journal) : journal[i] \in Holders
  BY DEF LeaseInv, TypeOK
<1>2. \A h \in Holders : Granted(h) => Granted(h)'
  BY GrantedForGood DEF LeaseInv
<1>3. CASE row'.holder = row.holder /\ journal' = journal
  BY <1>1, <1>2, <1>3 DEF JournalInv
<1>4. ASSUME NEW h \in Holders, ExecuteAcquire(h), row'.holder = h, journal' = journal
      PROVE  JournalInv'
  <2>1. \A i \in 1..Len(journal) : journal[i] # h
    BY <1>4 DEF ExecuteAcquire, JournalInv, Granted
  <2> QED BY <1>1, <1>2, <1>4, <2>1 DEF JournalInv
<1>5. CASE row'.holder = NoHolder /\ journal' = journal
  BY <1>1, <1>2, <1>5, HoldersAssumption DEF JournalInv
<1>6. ASSUME NEW h \in Holders, row.holder = h, row' = row, journal' = Append(journal, h)
      PROVE  JournalInv'
  <2>1. /\ Len(journal') = Len(journal) + 1 /\ Len(journal) \in Nat
        /\ journal'[Len(journal) + 1] = h
        /\ \A i \in 1..Len(journal) : journal'[i] = journal[i]
    BY <1>1, <1>6
  <2>2. Granted(h)'
    BY <1>2, <1>6 DEF LeaseInv, RowOf
  <2>3. ASSUME NEW i \in 1..Len(journal') PROVE Granted(journal[i])' 
    BY <1>1, <1>2, <2>1, <2>2 DEF JournalInv
  <2>4. ASSUME NEW i \in 1..Len(journal'), NEW j \in 1..Len(journal'), i < j, journal'[i] = row'.holder
        PROVE  journal'[j] = row'.holder
    BY <1>6, <2>1, <2>4 DEF JournalInv
  <2>5. ASSUME NEW i \in 1..Len(journal'), NEW j \in 1..Len(journal'), NEW k \in 1..Len(journal'),
               i < j, j < k, journal'[i] = journal'[k]
        PROVE  journal'[j] = journal'[i]
    BY <1>6, <2>1, <2>5 DEF JournalInv
  <2> QED BY <2>3, <2>4, <2>5 DEF JournalInv
<1> QED BY <1>3, <1>4, <1>5, <1>6, OwnershipStep

\* WritesNotInterleaved: fenced writes of one holder never interleave with those of another.
THEOREM WritesNotInterleavedAlways == Spec => []WritesNotInterleaved
<1>1. Init => JournalInv
  BY DEF Init, JournalInv
<1>2. TypeOK /\ JournalInv => WritesNotInterleaved
  <2> SUFFICES ASSUME TypeOK, JournalInv PROVE WritesNotInterleaved
    OBVIOUS
  <2>1. DOMAIN journal = 1..Len(journal)
    BY DEF TypeOK
  <2> QED BY <2>1 DEF JournalInv, WritesNotInterleaved
<1> QED BY <1>1, <1>2, JournalStep, LeaseInvariant, TypeCorrect, PTL DEF Spec

\* ImplementsFencedLease: the lease with its clocks, delays and lost answers implements FencedLease.
THEOREM LeaseRefinement == Spec => ImplementsFencedLease
<1>1. Init => Abstract!AbsInit
  BY DEF Init, NoRow, Held, Abstract!AbsInit
<1>2. ASSUME LeaseInv, LeaseInv', [Next]_vars
      PROVE  [Abstract!AbsNext]_(Abstract!absVars)
  <2> DEFINE active == {h \in Holders : Held(h)}
  <2>1. \A h \in Holders : Held(h) => row.holder = h
    BY <1>2 DEF LeaseInv, Claims, RowCovers, Held
  <2>2. \A h \in Holders : Held(h)' => row'.holder = h
    BY <1>2 DEF LeaseInv, Claims, RowCovers, Held
  <2>3. CASE row'.holder = row.holder
    <3>1. CASE active' = {}
      BY <2>3, <3>1 DEF Abstract!AbsNext, Abstract!Deactivate
    <3>2. CASE active' # {}
      <4>1. PICK h \in Holders : Held(h)'
        BY <3>2
      <4>2. row.holder = h /\ active' = {h}
        BY <2>2, <2>3, <4>1
      <4> QED BY <2>3, <4>2 DEF Abstract!AbsNext, Abstract!Activate
    <3> QED BY <3>1, <3>2
  <2>4. ASSUME NEW h \in Holders, ExecuteAcquire(h), AcquireGuard(h), row'.holder = h
        PROVE  Abstract!AbsNext
    <3>1. ASSUME NEW g \in Holders, Held(g) PROVE FALSE
      <4>1. row.holder = g /\ row.expires >= deadline[g] + Renew /\ clock[g] < deadline[g]
        BY <1>2, <3>1 DEF LeaseInv, Claims, RowCovers, Held
      <4>2. row.expires <= stmt[h]["acquire"].at
        BY <2>4, <4>1, HoldersAssumption DEF AcquireGuard, NoRow
      <4>3. "acquire" \in Ops
        BY DEF Ops
      <4>4. stmt[h]["acquire"].at <= clock[h] /\ clock[h] - clock[g] <= Skew
        BY <1>2, <4>3 DEF LeaseInv, Bookkeeping, ClocksClose
      <4>5. /\ row.expires \in Nat /\ deadline[g] \in Nat /\ clock[g] \in Nat /\ clock[h] \in Nat
            /\ stmt[h]["acquire"].at \in Nat
        BY <1>2, <4>3 DEF LeaseInv, TypeOK
      <4> QED BY <4>1, <4>2, <4>4, <4>5, TimesAssumption, SkewAssumption
    <3>2. \A g \in Holders : Held(g)' = Held(g)
      BY <2>4 DEF ExecuteAcquire, Held
    <3>3. active = {} /\ active' = {}
      BY <3>1, <3>2
    <3> QED BY <2>4, <3>3 DEF Abstract!AbsNext, Abstract!Grant
  <2>5. ASSUME NEW h \in Holders, ExecuteRelease(h), row.holder = h, row'.holder = NoHolder
        PROVE  Abstract!AbsNext
    <3>1. ~Held(h)
      BY <1>2, <2>5 DEF ExecuteRelease, LeaseInv, Bookkeeping, Held
    <3>2. active = {}
      BY <2>1, <2>5, <3>1
    <3>3. \A g \in Holders : Held(g)' = Held(g)
      BY <2>5 DEF ExecuteRelease, Held
    <3>4. active' = {}
      BY <3>2, <3>3
    <3> QED BY <2>5, <3>2, <3>4 DEF Abstract!AbsNext, Abstract!Free
  <2> QED BY <1>2, <2>3, <2>4, <2>5, OwnershipStep DEF Abstract!absVars
<1> QED BY <1>1, <1>2, LeaseInvariant, PTL DEF Spec, ImplementsFencedLease, Abstract!AbsSpec

\* LiveLeaseNotTaken: a live lease changes hands only through its own holder's release.
THEOREM LiveLeaseNotTakenEver == Spec => LiveLeaseNotTaken
<1>1. ASSUME LeaseInv, [Next]_vars
      PROVE  [row' # row /\ row # NoRow /\ row'.holder # row.holder
                => \/ row' = NoRow /\ phase[row.holder] = "gone" /\ aborted[row.holder]
                   \/ \A h \in Holders : clock[h] + Skew >= row.expires]_vars
  <2> SUFFICES ASSUME row # NoRow, row'.holder # row.holder
               PROVE  \/ row' = NoRow /\ phase[row.holder] = "gone" /\ aborted[row.holder]
                      \/ \A h \in Holders : clock[h] + Skew >= row.expires
    OBVIOUS
  <2>1. ASSUME NEW h \in Holders, ExecuteAcquire(h), AcquireGuard(h), NEW g \in Holders
        PROVE  clock[g] + Skew >= row.expires
    <3>1. "acquire" \in Ops
      BY DEF Ops
    <3>2. row.expires <= stmt[h]["acquire"].at
      BY <2>1 DEF AcquireGuard
    <3>3. stmt[h]["acquire"].at <= clock[h] /\ clock[h] - clock[g] <= Skew
      BY <1>1, <3>1 DEF LeaseInv, Bookkeeping, ClocksClose
    <3>4. /\ row.expires \in Nat /\ clock[g] \in Nat /\ clock[h] \in Nat
          /\ stmt[h]["acquire"].at \in Nat
      BY <1>1, <3>1 DEF LeaseInv, TypeOK
    <3> QED BY <3>2, <3>3, <3>4, TimesAssumption
  <2>2. ASSUME NEW h \in Holders, ExecuteRelease(h), row.holder = h
        PROVE  row' = NoRow /\ phase[row.holder] = "gone" /\ aborted[row.holder]
    BY <1>1, <2>2 DEF ExecuteRelease, LeaseInv, Bookkeeping
  <2> QED BY <1>1, <2>1, <2>2, OwnershipStep
<1> QED BY <1>1, LeaseInvariant, PTL DEF Spec, LiveLeaseNotTaken
====
