SPECIFICATION Spec
CONSTANTS
  Dims <- MCDims
  TileSize = 2
  LocalityLoads = 8
  Tasks <- DistributeInner
  MaxSteps = 1
  PeelAll = FALSE
INVARIANTS
  NoCrash
CHECK_DEADLOCK FALSE
