SPECIFICATION Spec
CONSTANTS
  t1 = t1
  t2 = t2
  good = good
  bad = bad
  odd = odd
  Free = Free
  Threads <- MCThreads
  Accepted <- MCAccepted
  Rejected <- MCRejected
  Unsupported <- MCUnsupported
INVARIANTS
  TypeOK
  GvlDuringValidation
PROPERTIES
  AtomicSpec
  CallsEnd
  EveryThreadRuns
