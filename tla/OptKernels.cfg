SPECIFICATION Spec
CONSTANTS
  Dims <- MCDims
  TileSize = 2
  LocalityLoads = 8
  Tasks <- OptimizeKernels
  MaxSteps = 1
  PeelAll = FALSE
PROPERTY
  OptKeepsTheMeaning
CHECK_DEADLOCK FALSE
