CONSTANTS
  t1 = t1
  t2 = t2
  e1 = e1
  o1 = o1
  Tasks = {t1, t2}
  NoTask = NoTask
  DeadTask = DeadTask
  Envs = {e1}
  Origins = {o1}
  Absent = Absent
  MaxPasses = 2
  MaxHandoffs = 1
  Faults = {"interrupt", "lease lost", "crash", "crash before mark"}
  MaxChanges = 3
  MaxFaults = 1
  MaxIdleRevision = 2
SPECIFICATION Spec
CHECK_DEADLOCK FALSE
SYMMETRY Symmetry
INVARIANTS AppliedIsDelivered NoOutdatedSource ActiveDsnStored
