SPECIFICATION Spec
CONSTANTS
  Names = {n1, n2}
  None = None
  W = 2
  MaxCid = 2
  MaxOps = 4
  MaxTxns = 2
SYMMETRY Symmetry
CHECK_DEADLOCK FALSE
INVARIANTS
  NamesOwn
  IndexRecorded
  NeverReused
  AutoFresh
