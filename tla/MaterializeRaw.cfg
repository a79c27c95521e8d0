SPECIFICATION MSpec
CONSTANTS
  Text <- MCText
  Reads <- MCReads
  Nul <- MCNul
  Depth = 3
  Values <- MCValues
  Calls <- MCCalls
INVARIANT
  AttributesAreRaw
CHECK_DEADLOCK FALSE
