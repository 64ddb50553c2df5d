SPECIFICATION FairSpec
CONSTANTS
  s1 = s1
  s2 = s2
  w1 = w1
  w2 = w2
  t1 = t1
  t2 = t2
  t3 = t3
  passed = passed
  failed = failed
  NULL = NULL
  Sessions <- TwoSessions
  Workers <- TwoWorkers
  Tests <- AllTests
  Expected <- MCExpected
  RawTwins <- Twins
  Observed <- Twins
  Outcomes <- MCOutcomes
  ProxyWired = TRUE
  MaxWaiters = 1
INVARIANTS
  SlotIsTheOpenSession
  HandedOutOnlyWhenReady
  EndedLeavesNothing
  DeadOpenLeavesNothing
PROPERTIES
  IrrevocableProp
  NoRequestHangs
  ViewIsOfReadySession
CHECK_DEADLOCK FALSE
