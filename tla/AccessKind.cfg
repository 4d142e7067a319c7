SPECIFICATION Spec
CONSTANTS
  Dims <- MCDims
  TileSize = 2
  LocalityLoads = 8
  Tasks <- TileRows
  MaxSteps = 1
  PeelAll = FALSE
INVARIANTS
  ConsecutiveGrowsByOne
CHECK_DEADLOCK FALSE
