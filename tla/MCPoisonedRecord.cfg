SPECIFICATION FairSpec
CONSTANTS
  Producer = {p1}
  Consumer = {c1}
  NumQueues = 1
  PoolSize = 1
  Streams <- PoisonedBlocks
  MaxBlocks = 2
  MaxRecords = 2
  MaxCalls = 1
  None = None
  NullPtr = NullPtr
CHECK_DEADLOCK FALSE
PROPERTIES
  CallReturns
