SPECIFICATION FairSpec
CONSTANTS
  Silent = silent
  Messages <- AllMessages
  MaxPresses = 3
  Defaults <- FactoryDefaults
  FirstRecord <- EveryFormat
  Own = "own"
  Broadcast = "all"
  Depth = 2
  MaxFaults = 2
  MaxResets = 1
INVARIANTS
  LightTellsTheTruth
  NoCommandStranded
  InForceIsStored
PROPERTIES
  StoredWhole
  GoodRecordSurvives
  HeardIsApplied
CHECK_DEADLOCK FALSE
