SPECIFICATION Spec
CONSTANTS
  s1 = s1
  e1 = e1
  e2 = e2
  NULL = NULL
  Sessions <- OneSession
  Exchanges <- TwoExchanges
  MaxIntervals = 2
  MaxCloses = 2
SYMMETRY MCSymmetry
CHECK_DEADLOCK FALSE
INVARIANTS
  ContextPrecedesEvidence
  RequestsWithinOwnIntervals
  
  ExchangesOfPassedOnly
