CONSTANTS
  h1 = h1
  h2 = h2
  Holders = {h1, h2}
  NoHolder = NoHolder
  Ttl = 3
  Renew = 1
  Skew = 1
  MaxClock = 4
  MaxWrites = 3
SPECIFICATION Spec
CHECK_DEADLOCK FALSE
SYMMETRY Symmetry
INVARIANTS MutualExclusion WritesNotInterleaved DeadHolderBlocksAtMostTtl
PROPERTIES LiveLeaseNotTaken ImplementsFencedLease
