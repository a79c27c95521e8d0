SPECIFICATION MSpec
CONSTANTS
  Text <- MCText
  Reads <- MCReads
  Nul <- MCNul
  Depth = 3
  Values <- MCValues
  Calls <- OptionalCalls
INVARIANT
  GuardsEndWithCall
CHECK_DEADLOCK FALSE
