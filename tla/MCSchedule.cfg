SPECIFICATION Spec
CONSTANTS
  Dims <- MCDims
  TileSize = 2
  LocalityLoads = 8
  Tasks <- AllTasks
  MaxSteps = 3
  PeelAll = FALSE
INVARIANTS
  TypeOK
  MeaningPreserved
  NoExtraWork
  StridesAndWidths
  RangesHoldValues
  
PROPERTIES
  DistributeSeparates
  ImplementsLoopShapes
CHECK_DEADLOCK FALSE
