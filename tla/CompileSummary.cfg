SPECIFICATION CSpec
CONSTANTS
  Text <- MCText
  Reads <- MCReads
  Json <- MCJson
  OptionMaps <- MCOptionMaps
  Documents <- MCDocuments
  Lower <- MCLower
  Exprs <- MCExprs
  Sources <- MCSources
  Nesting = 8
  Limit = 3
  Nul = {}
  Beyond = {"wide"}
INVARIANT
  CompileAnswers
CHECK_DEADLOCK FALSE
