SPECIFICATION Spec
CONSTANTS
  Text <- MCText
  Reads <- MCReads
  Heap <- MCHeap
  Payloads <- MCPayloads
  Modes = {"auto", "json", "ruby"}
  Lossy <- MCLossy
  I64 <- MCI64
  NativeDepth = 3
  Rank <- MCRank
INVARIANT
  TextsAreUtf8
CHECK_DEADLOCK FALSE
