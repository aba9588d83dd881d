SPECIFICATION Spec
CONSTANTS
  Ids = {x, y}
  Vals = {v}
  None = None
  Capacity = 2
  MaxDir = 2
  MaxSeq = 3
  MaxOps = 2
  Aborts = "any"
  WithCompact = FALSE
  WithReader = FALSE
  BadRows = FALSE
SYMMETRY Symmetry
CHECK_DEADLOCK FALSE
INVARIANTS
  IdMapExact
