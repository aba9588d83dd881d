CONSTANTS
  PerCell = 1
  RerankFloor = 2
  Starts <- MCStarts
  Positions <- MCPositions
  Vectors <- MCVectors
  Levels <- MCLevels
  Builds <- MCBuilds
  Trainings <- MCTrainings
  Inserts <- MCInserts
  Asks <- MCAsks
SPECIFICATION Spec
INVARIANTS Intact Finds
 
