SPECIFICATION Spec
CONSTANTS
  Inputs <- AllInputs
  Garbage <- Bits
  Trailer <- Behind
INVARIANTS
  ExtendedElementsAreThere
  RoundTrip
CHECK_DEADLOCK FALSE
