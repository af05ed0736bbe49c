SPECIFICATION Spec
CONSTANTS
  RingCount = 4
  FlushThreshold = 3
  BlockContacts = 2
  FlashBlocks = 2
  BufferContacts = 2
  DataLevels <- Levels
  CountMax = 4
  Scanner = scanner
  Flusher = flusher
  Transfer = transfer
  System = system
  MaxContacts = 6
  MaxFaults = 0
  MaxExports = 0
INVARIANTS
  LevelAsDocumented
