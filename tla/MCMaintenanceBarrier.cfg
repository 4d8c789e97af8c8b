CONSTANTS
  c1 = c1
  Clients = {c1}
  PutAttempts = 2
  Asked <- AnyThree
  MaxData = 1
  MaxFaults = 2
SPECIFICATION Spec
CHECK_DEADLOCK FALSE
INVARIANTS AcknowledgedIsPublished ConsistentDump
PROPERTIES AcknowledgedIsQuiet
