CONSTANTS
  Conns <- MCConns
  Starts <- MCStarts
SPECIFICATION FairSpec
INVARIANTS Answered BlockState Kept
PROPERTIES  Drains
CHECK_DEADLOCK TRUE
