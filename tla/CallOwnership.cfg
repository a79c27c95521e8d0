SPECIFICATION Spec
CONSTANTS
  Entries = {"build", "build_synced", "validate"}
  Forms = {"owned", "json", "malformed", "refused", "raising"}
INVARIANTS
  OnlyRejectedJsonOutlivesArena
  ReturnReleasesAll
  RaiseKeepsOnlyOutcome
  OnlyInterruptsKeepSchema
CHECK_DEADLOCK FALSE
