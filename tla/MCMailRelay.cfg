CONSTANTS
  Consumers = {c1, c2}
  Maintenance = maintenance
  Posts = {p1, p2}
  NoPost = NoPost
  Setups <- SafetySetups
  MaxAttempts = 2
  MaxJobs = 2
  MaxRequeues = 1
  MaxSwitches = 2
  MaxFaults = 2
SPECIFICATION Spec
INVARIANTS DeliveredOnce FailedNotSent OwnClaim ContentKept
PROPERTIES SettledStays
SYMMETRY Symmetry
CHECK_DEADLOCK FALSE
