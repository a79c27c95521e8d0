SPECIFICATION CSpec
CONSTANTS
  Text <- MCText
  Reads <- MCReads
  Json <- MCJson
  OptionMaps <- MCOptionMaps
  Documents <- MCDocuments
  Lower <- MCLower
  Exprs <- MCExprs
  Sources <- MCSources
  Nesting = 8
  Limit = 3
  Nul = {"nul"}
  Beyond = {"wide"}
INVARIANTS
  TypeOK
  BuiltIsClosed
  FailureIsFirstFault
  CompiledMeansDocument
  EndHasReason
PROPERTY
  CompileEnds
CHECK_DEADLOCK FALSE
