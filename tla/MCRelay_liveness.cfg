\* One dispute delivered again after a restart; the model may fail wherever the code copes.
SPECIFICATION FairSpec
CONSTANTS
  k1 = k1
  k2 = k2
  NoKey = NoKey
  Keys <- OneKey
  MaxRuns = 2
  MaxCrashes = 1
  DeadSeams <- CaughtSeams
  BadSeams <- CaughtSeams
  PortErrors <- CleanErrors
  SweepInterleaves = FALSE
  
INVARIANTS  GateTellsTheState TableTrails
