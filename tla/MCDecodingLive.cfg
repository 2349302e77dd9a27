SPECIFICATION FairSpec
CONSTANTS
  Producer = {p1, p2}
  Consumer = {c1, c2}
  NumQueues = 2
  PoolSize = 1
  Streams <- LiveBlocks
  MaxBlocks = 2
  MaxRecords = 2
  MaxCalls = 2
  None = None
  NullPtr = NullPtr
CHECK_DEADLOCK FALSE
PROPERTIES
  CallReturns
  ImplementsManager
