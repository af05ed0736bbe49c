SPECIFICATION Spec
CONSTANTS
  BlockCount = 3
  Capacity = 2
  FlushBatch = 2
  EraseMayStop = FALSE
  NoBlock = NoBlock
  NoMeta = NoMeta
  MaxVersion = 2
  MaxSeq = 6
  MaxFaults = 2
  MaxResets = 3
INVARIANTS
  IInv
  CommittedBlocksPresent
  QueueIntact
  BootKeepsOwnData
  BoundedReplay
PROPERTIES
  ImplementsDurableQueue
