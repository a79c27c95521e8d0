SPECIFICATION Spec
CONSTANTS
  Text <- MCText
  Reads <- MCReads
  Exprs <- MCExprs
  Roots <- MCRoots
INVARIANTS
  TypeOK
  TableMirrorsArena
  CompiledIsSchema
  UnfoldsWithoutRepetition
CHECK_DEADLOCK FALSE
