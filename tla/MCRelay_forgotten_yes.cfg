\* The process dies between the filing and the save.
SPECIFICATION Spec
CONSTANTS
  k1 = k1
  k2 = k2
  NoKey = NoKey
  Keys <- OneKey
  MaxRuns = 1
  MaxCrashes = 1
  DeadSeams <- NoFaults
  BadSeams <- NoFaults
  PortErrors <- NoFaults
  SweepInterleaves = FALSE
INVARIANTS TimedOutNeverSent
