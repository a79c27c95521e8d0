SPECIFICATION Spec
CONSTANTS
  Entries = {"build"}
  Forms = {"json"}
INVARIANTS
  ArenaOutlivesValues
CHECK_DEADLOCK FALSE
