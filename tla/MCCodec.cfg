SPECIFICATION ClientSpec
CONSTANTS
  Numbers = {0, 1, 2}
  Totals = {1, 2, 3, 6}
  PoolNumbers = {3}
  Kinds = {"string", "unsigned"}
  ReleasedKinds = {"string"}
  MaxSetUps = 2
  MaxCalls = 2
  MaxValues = 1
  MaxDecoders = 2
  NoQueues = NoQueues
  CommandLines <- Lines
CHECK_DEADLOCK FALSE
INVARIANTS
  NoValueIsHandedOutTwice
  ReleasedValuesReturn
  
PROPERTIES
  ThreadsFit
  QueuesAreSharedOut
