SPECIFICATION Spec
CONSTANTS
  Producer = {p1, p2}
  Consumer = {c1, c2}
  NumQueues = 2
  PoolSize = 2
  Streams <- AllEndings
  MaxBlocks = 2
  MaxRecords = 2
  MaxCalls = 2
  None = None
  NullPtr = NullPtr
SYMMETRY Symmetry
CHECK_DEADLOCK FALSE
INVARIANTS
  EverythingAccounted
  DatablockOrder
PROPERTIES
  ImplementsDelivery
