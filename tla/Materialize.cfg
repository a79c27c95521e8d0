SPECIFICATION MSpec
CONSTANTS
  Text <- MCText
  Reads <- MCReads
  Nul <- MCNul
  Depth = 3
  Values <- MCValues
  Calls <- MCCalls
INVARIANTS
  FieldsReachInstance
  AttributesHoldPayload
  DeepFreezeIsDeep
CHECK_DEADLOCK FALSE
