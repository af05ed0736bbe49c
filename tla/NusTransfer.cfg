SPECIFICATION FairSpec
CONSTANTS
  Backlog <- OneEach
  MaxBatch = 1
  MaxFaults = 2
  MaxPresses = 2
INVARIANTS
  DroppedWereReceived
  NotSentTwice
  SendConfirmsItself
  CleanBetweenConnections
  StopIsFinal
PROPERTIES
  StartHonoured
  EverythingIsReadOut
CHECK_DEADLOCK FALSE
