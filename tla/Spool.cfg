SPECIFICATION FairSpoolSpec
CONSTANTS
  MaxLines = 2
  Chunks = {1, 2, 3}
CHECK_DEADLOCK FALSE
INVARIANTS
  NothingSkipped
  EventsOnce
PROPERTY EveryLineDelivered
