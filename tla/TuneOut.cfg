SPECIFICATION Spec
CONSTANTS
  Program <- MCProgram
  Hash <- MCProgram
  hash <- MCHash
  Times = {1, 2, 5}
  NotFaster = 5
  MaxRegs = 4
  Distributed <- MCDistributed
  Interchanged <- MCInterchanged
  Fused <- MCFused
  Vectorized <- MCVectorized
  Promoted <- MCPromoted
  TileAttempts <- MCTileAttempts
  WidenAttempts <- MCWidenAttempts
  Fits <- MCFits
  Static <- MCStatic
  Input = 1
  None = None
  Absent = Absent
  Partial = Partial
  Earlier = Earlier
INVARIANTS
  TunedProgramSaved
CHECK_DEADLOCK FALSE
