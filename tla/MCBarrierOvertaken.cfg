CONSTANTS
  c1 = c1
  Clients = {c1}
  PutAttempts = 2
  Asked <- ReopenedRestricted
  MaxData = 1
  MaxFaults = 4
SPECIFICATION Spec
CHECK_DEADLOCK FALSE
PROPERTY RestrictionHolds
