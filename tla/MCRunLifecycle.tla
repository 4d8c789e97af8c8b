-------------------------- MODULE MCRunLifecycle --------------------------
(* RunLifecycle on small instances: two runs are enough for one to block, supersede, undercut or outlive   *)
(* the other; without permissions (Perms = {}) only recovery, cancellation and ordering are left.          *)
EXTENDS RunLifecycle, TLC

\* Permissions are interchangeable.
Symmetry == Permutations(Perms)
=============================================================================
