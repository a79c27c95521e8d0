SPECIFICATION Spec
CONSTANTS
  Text <- MCText
  Reads <- MCReads
  Values <- MCValues
  Calls <- MCCalls
  Spelling <- MCSpelling
  Numeral <- MCNumeral
  Characters <- MCCharacters
INVARIANTS
  TypeOK
  ExpectNeverPanics
  PathMirrorsStack
  RecursionIsBounded
  AcceptsExactlyConforming
  AcceptedOutputIsStrict
  IssuesAddressPayload
  NoIssueTwice
PROPERTY
  Termination
CHECK_DEADLOCK FALSE
