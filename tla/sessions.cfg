SPECIFICATION Spec
CONSTANTS
  Writers = {w1, w2}
  Readers = {r1}
  Admins = {a1}
  None = None
  MaxWrites = 2
  MaxPoints = 2
  MaxOrphans = 2
  ScanBesideWriter = FALSE
CHECK_DEADLOCK FALSE
INVARIANTS
  OneWriter
  EngineLockFree
PROPERTIES
  LockComesBack
  CallsReturn
