SPECIFICATION Spec
CONSTANTS
  ByteBits = 4
  IntBytes = 4
  LongBytes = 5
  DecimalRadix = 3
  OctalRadix = 2
  Denominator = 2
  IcaoAlphabet <- Alphabet
  Records <- AllRecords
CHECK_DEADLOCK FALSE
INVARIANTS
  ValueFitsType
  WrongValueIsReported
  SameLsb
  RoundTrip
  RangeVerdictsAgree
