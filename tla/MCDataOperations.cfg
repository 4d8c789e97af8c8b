CONSTANTS
  Plans <- AllPlans
  Resolutions = {"open", "resume"}
  MaxArms = 1
  MaxOps = 3
  MaxGeneration = 16
  MaxWrites = 2
  MaxStops = 2
SPECIFICATION FairSpec
CHECK_DEADLOCK FALSE
INVARIANTS RecordedOpenServes OneModePerGeneration
PROPERTIES NoWriteLost OperationEnds
