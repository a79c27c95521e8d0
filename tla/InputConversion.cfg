SPECIFICATION Spec
CONSTANTS
  Text <- MCText
  Reads <- MCReads
  Heap <- MCHeap
  Payloads <- MCPayloads
  Modes = {"auto", "json", "ruby"}
  Lossy <- MCLossy
  I64 <- MCI64
  NativeDepth = 3
  Rank <- MCRank
INVARIANTS
  TypeOK
  PathMirrorsStack
  OutcomeIsMeaning
  JsonAgreesWithRuby
PROPERTY
  Termination
CHECK_DEADLOCK FALSE
