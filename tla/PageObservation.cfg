SPECIFICATION Spec
CONSTANTS
  s1 = s1
  s2 = s2
  o1 = o1
  o2 = o2
  NULL = NULL
  Sessions <- TwoSessions
  Observers <- TwoObservers
  MaxVisits = 2
CHECK_DEADLOCK FALSE
SYMMETRY MCSymmetry
INVARIANTS
  KeptMeansPassed
PROPERTY KeptForGood
