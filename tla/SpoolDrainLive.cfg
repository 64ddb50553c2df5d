SPECIFICATION FairSpec
CONSTANTS
  w1 = w1
  w2 = w2
  t1 = t1
  t2 = t2
  t3 = t3
  NULL = NULL
  Workers <- MCWorkers
  Setups <- BothSetups
  Expected <- TwoExpected
  MaxDisturbances = 1
CHECK_DEADLOCK FALSE
PROPERTY RunIsSealed
