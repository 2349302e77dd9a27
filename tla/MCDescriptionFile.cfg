SPECIFICATION Spec
CONSTANTS
  UnsignedMax = 199
  IntegerMax = 99
  FloatDigits = 5
  ShortMax = 15
  Spelling <- MCSpelling
  Documents <- AllTexts
CHECK_DEADLOCK FALSE
INVARIANTS
  ParsesExactlyJson
  ValueIsAsWritten
  DescriptionIsAsMeant
