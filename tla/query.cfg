SPECIFICATION Spec
CONSTANTS
  Ids = {1, 2, 3}
  Tables <- MCTables
  Points <- MCPoints
  Requests <- MCRequests
  Schema <- MCSchema
  MaxRows = 4
  MaxBuilds = 1
  MaxChanges = 1
  Kinds = {"hnsw", "ivfpq"}
  BlockSize = 2
  FlatRows = 1
  MinEf = 1
  Workers = 2
  CacheCap = 1
  RRFK = 1
  Perfect = FALSE
INVARIANTS ZoneSound  
PROPERTIES FusionSound Terminates
