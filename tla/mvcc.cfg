SPECIFICATION Spec
CONSTANTS
  Keys = {k1, k2}
  Vals = {v1}
  Txns = {t1, t2, t3}
  Tombstone = Tombstone
  MaxStages = 4
SYMMETRY Symmetry
CHECK_DEADLOCK FALSE
INVARIANTS
  SnapshotRead
  NoLostUpdate
  ChainOrdered
  NoOrphan
