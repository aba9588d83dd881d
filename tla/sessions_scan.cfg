SPECIFICATION Spec
CONSTANTS
  Writers = {w1}
  Readers = {r1}
  Admins = {a1}
  None = None
  MaxWrites = 1
  MaxPoints = 1
  MaxOrphans = 2
  ScanBesideWriter = TRUE
CHECK_DEADLOCK FALSE
PROPERTIES
  ReadersReturn
