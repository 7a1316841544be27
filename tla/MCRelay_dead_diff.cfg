\* The model is away while an edit is being compared.
SPECIFICATION FairSpec
CONSTANTS
  k1 = k1
  k2 = k2
  NoKey = NoKey
  Keys <- OneKey
  MaxRuns = 1
  MaxCrashes = 0
  DeadSeams <- OnlyDiff
  BadSeams <- NoFaults
  PortErrors <- NoFaults
  SweepInterleaves = FALSE
PROPERTIES EveryRunEnds
