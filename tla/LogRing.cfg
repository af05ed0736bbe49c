SPECIFICATION FairSpec
CONSTANTS
  RingCount = 4
  FlushThreshold = 3
  FlushBatch = 2
  FlashBlocks = 2
  BufferEntries = 3
  Pushers = {p1, p2}
  Flusher = flusher
  Transfer = transfer
  MaxEntries = 7
  MaxFaults = 2
  MaxExports = 2
INVARIANTS
  LogOrdered
  CopiedEntriesStay
PROPERTIES
  EntriesLeaveRightly
  DueFlushHappens
