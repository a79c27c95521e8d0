SPECIFICATION Spec
CONSTANTS
  Text <- MCText
  Reads <- MCReads
  Values <- MCValues
  Calls <- RootFloatCalls
  Spelling <- MCSpelling
  Numeral <- MCNumeral
  Characters <- MCCharacters
INVARIANT
  AcceptedFloatIsInRange
CHECK_DEADLOCK FALSE
