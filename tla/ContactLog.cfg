SPECIFICATION Spec
CONSTANTS
  RingCount = 4
  FlushThreshold = 3
  BlockContacts = 2
  FlashBlocks = 2
  BufferContacts = 2
  DataLevels <- Levels
  CountMax = 4
  Scanner = scanner
  Flusher = flusher
  Transfer = transfer
  System = system
  MaxContacts = 7
  MaxFaults = 1
  MaxExports = 1
INVARIANTS
  LogOrdered
  CopiedContactsStay
  FlushOnItsWay
  LevelFollowsContacts
PROPERTIES
  ContactsLeaveRightly
