SPECIFICATION Spec
CONSTANTS
  Payloads = {a, b}
  MaxSlots = 4
  MaxCrashes = 1
  SyncMode = "full"
  CrashCreate = FALSE
  GoesOn = FALSE
  EmptyCommits = FALSE
  FreshBatches = TRUE
SYMMETRY Symmetry
CHECK_DEADLOCK FALSE
INVARIANTS
  Replayed
