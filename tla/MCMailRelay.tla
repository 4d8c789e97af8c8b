---------------------------- MODULE MCMailRelay ----------------------------
(* MailRelay for TLC. *)
EXTENDS MailRelay, TLC

\* For safety: every pair of transport, store and kind of sender occurs.
SafetySetups == {[idempotent |-> i, objects |-> o, installation |-> i # o] : i, o \in BOOLEAN}

\* For liveness: a Worker's applications over a transport without keys, and the installation's mail over Postgres
\* and an idempotent one.
SomeSetups == {[idempotent |-> b, objects |-> ~b, installation |-> b] : b \in BOOLEAN}

Symmetry == Permutations(Consumers) \cup Permutations(Posts)
=============================================================================
