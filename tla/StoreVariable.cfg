SPECIFICATION Spec
CONSTANTS
  BlockCount = 3
  Capacity = 2
  FlushBatch = 0
  EraseMayStop = TRUE
  NoBlock = NoBlock
  NoMeta = NoMeta
  MaxVersion = 1
  MaxSeq = 4
  MaxFaults = 2
  MaxResets = 2
INVARIANTS
  CountExact
