SPECIFICATION Spec
CONSTANTS
  Entries = {"build_synced"}
  Forms = {"owned"}
INVARIANTS
  ArenaIsTransient
CHECK_DEADLOCK FALSE
