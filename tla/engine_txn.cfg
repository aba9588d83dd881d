SPECIFICATION Spec
CONSTANTS
  Ids = {x, y}
  Vals = {v, w}
  None = None
  Capacity = 2
  MaxDir = 2
  MaxSeq = 3
  MaxOps = 2
  Aborts = "fresh"
  WithCompact = TRUE
  WithReader = TRUE
  BadRows = TRUE
SYMMETRY Symmetry
CHECK_DEADLOCK FALSE
INVARIANTS
  IdMapExact
  CountsExact
  Stamped
  RepointExact
  GetReturnsAsked
PROPERTIES
  StoreRefined
