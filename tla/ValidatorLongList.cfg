SPECIFICATION Spec
CONSTANTS
  Text <- MCText
  Reads <- MCReads
  Values <- MCValues
  Calls <- RootListCalls
  Spelling <- MCSpelling
  Numeral <- MCNumeral
  Characters <- MCCharacters
INVARIANT
  OverlongListIsReported
CHECK_DEADLOCK FALSE
