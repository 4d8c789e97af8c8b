CONSTANTS
  N = 2
  Perms = {}
  Null = Null
  Registered = {FALSE}
  MaxGeneration = 0
  MaxRevision = 0
  MaxLosses = 1
SPECIFICATION FairSpec
CHECK_DEADLOCK FALSE
INVARIANTS AtMostOneRunning NoCompetingBuilds OlderNeverDeploysOverNewer
PROPERTIES SubmittedNeverDeleted ActivatesBeforeSettled EveryRunSettles
