CONSTANTS
  Consumers = {c1, c2}
  Maintenance = maintenance
  Posts = {p1, p2}
  NoPost = NoPost
  Setups <- SomeSetups
  MaxAttempts = 2
  MaxJobs = 1
  MaxRequeues = 0
  MaxSwitches = 2
  MaxFaults = 2
SPECIFICATION FairSpec
PROPERTIES EveryMessageSettles ContentForgotten
CHECK_DEADLOCK FALSE
