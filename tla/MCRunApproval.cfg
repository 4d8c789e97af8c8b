CONSTANTS
  p = p
  q = q
  N = 2
  Perms = {p, q}
  Null = Null
  Registered = {TRUE}
  MaxGeneration = 1
  MaxRevision = 1
  MaxLosses = 0
SPECIFICATION Spec
CHECK_DEADLOCK FALSE
SYMMETRY Symmetry
PROPERTIES NoUnapprovedWidening CancelFreezes SuccessIsConsistent
