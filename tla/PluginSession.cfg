SPECIFICATION FairSpec
CONSTANTS
  MaxDiscovers = 2
  MaxFrames = 4
CHECK_DEADLOCK FALSE
INVARIANTS
  HonestPluginsPass
PROPERTIES
  ImplementsCalls
  KilledAnswersNothing
  EveryUseEnds
