\* The webhook comes again after a restart.
SPECIFICATION Spec
CONSTANTS
  k1 = k1
  k2 = k2
  NoKey = NoKey
  Keys <- OneKey
  MaxRuns = 2
  MaxCrashes = 1
  DeadSeams <- NoFaults
  BadSeams <- NoFaults
  PortErrors <- NoFaults
  SweepInterleaves = FALSE
INVARIANTS OneCardPerDispute
