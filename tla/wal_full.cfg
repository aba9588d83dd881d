SPECIFICATION Spec
CONSTANTS
  Payloads = {a, b, c}
  MaxSlots = 5
  MaxCrashes = 2
  SyncMode = "full"
  CrashCreate = FALSE
  GoesOn = FALSE
  EmptyCommits = FALSE
  FreshBatches = TRUE
SYMMETRY Symmetry
CHECK_DEADLOCK FALSE
INVARIANTS
  Durable
  CommitsWhole
  WriterChained
