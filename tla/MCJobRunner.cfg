CONSTANTS
  Runners = {r1, r2}
  Keys = {k1}
  Retries = 1
  MaxKicks = 1
  MaxFires = 1
  MaxFaults = 2
  MaxGeneration = 4
SPECIFICATION FairSpec
CHECK_DEADLOCK FALSE
INVARIANTS NoKickDropped AlarmArmed PromptKick
PROPERTIES HandledGrows EveryKickRuns
