SPECIFICATION Spec
CONSTANTS
  Threads = {t1, t2}
  Documents = {"struct", "faulty"}
  Refused = {"faulty"}
  CompileOpts <- MCCompileOpts
  ValidateOpts <- MCValidateOpts
  MaxId = 3
INVARIANTS
  RefusalNamesOption
  JudgedAsCompiled
  GivenOptionsReplaceAll
PROPERTY
  SchemasNeverChange
CHECK_DEADLOCK FALSE
