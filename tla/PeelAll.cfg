SPECIFICATION Spec
CONSTANTS
  Dims <- MCDims
  TileSize = 2
  LocalityLoads = 8
  Tasks <- PeelShift
  MaxSteps = 1
  PeelAll = TRUE
INVARIANTS
  LoopsAreNotEmpty
CHECK_DEADLOCK FALSE
