SPECIFICATION Spec
CONSTANTS
  Dims <- MCDims
  TileSize = 2
  LocalityLoads = 8
  Tasks <- TileShift
  MaxSteps = 1
  PeelAll = FALSE
INVARIANTS
  EmittedCheckIsHalfOpen
CHECK_DEADLOCK FALSE
