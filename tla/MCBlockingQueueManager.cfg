SPECIFICATION Spec
CONSTANTS
  Producer = {p1, p2}
  Consumer = {c1, c2, c3}
  NumQueues = 2
  PoolSize = 1
  Element = {e}
  MaxElements = 1
  None = None
  NullPtr = NullPtr
SYMMETRY Symmetry
INVARIANTS
  Ownership
  FreeRecordsAreEmpty
  NoLostWakeup
  ProducersHaveOwnQueue
