SPECIFICATION Spec
CONSTANTS
  BlockCount = 2
  Capacity = 2
  FlushBatch = 0
  EraseMayStop = FALSE
  NoBlock = NoBlock
  NoMeta = NoMeta
  MaxVersion = 1
  MaxSeq = 2
  MaxFaults = 0
  MaxResets = 1
INVARIANT
  BootKeepsOwnData
