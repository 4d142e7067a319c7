SPECIFICATION Spec
CONSTANTS
  Dims <- MCDims
  TileSize = 2
  LocalityLoads = 8
  Tasks <- FuseSum
  MaxSteps = 1
  PeelAll = FALSE
PROPERTY
  FuseFindsDependences
CHECK_DEADLOCK FALSE
