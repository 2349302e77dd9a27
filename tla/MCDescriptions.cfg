SPECIFICATION Spec
CONSTANTS
  ByteBits = 4
  SizeLimit = 32
  Repetitions = 3
  Upper <- UpperName
  Configurations <- AllConfigurations
  Retries <- AllRetries
  MaxLoads = 2
CHECK_DEADLOCK FALSE
INVARIANTS
  WellFormedIsLoaded
  OnlyOwnDescription
  MandatoryAgrees
  ElementFound
  SourcesResolve
