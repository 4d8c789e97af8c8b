--------------------------- MODULE MCDeployLease ---------------------------
(* DeployLease on a small instance: LEASE_TTL_MS : LEASE_RENEW_MS is 3 : 1, as in lease.ts.  *)
EXTENDS DeployLease, TLC

Symmetry == Permutations(Holders)
=============================================================================
