SPECIFICATION Spec
CONSTANTS
  w1 = w1
  w2 = w2
  t1 = t1
  t2 = t2
  t3 = t3
  NULL = NULL
  Workers <- MCWorkers
  Setups <- SmallSetups
  Expected <- TwoExpected
  MaxDisturbances = 2
VIEW Relevant
CHECK_DEADLOCK FALSE
INVARIANTS
  GenuineRunsDoNotConflict
  NextTestFindsItsSlot
  OutcomeIsTheRunners
  FinalizeBeforeSeal
  StopLeavesNothingOpen
PROPERTIES ImplementsSupervision
