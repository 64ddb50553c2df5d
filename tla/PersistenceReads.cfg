SPECIFICATION Spec
CONSTANTS
  Sessions = {s1}
  Keys = {k1, k2}
  Patient = {k2}
  NULL = NULL
  MaxRequests = 3
  MaxWrites = 2
INVARIANTS
  
  UsedOnce
  MutatesAfterProbe
CHECK_DEADLOCK FALSE
