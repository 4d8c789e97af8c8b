CONSTANTS
  c1 = c1
  c2 = c2
  NoConsumer = NoConsumer
  run = run
  namespace = namespace
  Consumers = {c1, c2}
  Works = {run, namespace}
  Deploys = {run}
  MaxAttempts = 2
  BatchSize = 1
  MaxJobs = 2
  MaxFaults = 1
SPECIFICATION FairSpec
CHECK_DEADLOCK FALSE
PROPERTIES ImplementsAtLeastOnce EveryJobSettles
