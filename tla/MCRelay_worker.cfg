\* One run; the supervisor is a worker between the handlers' steps; every fault.
SPECIFICATION Spec
CONSTANTS
  k1 = k1
  k2 = k2
  NoKey = NoKey
  Keys <- OneKey
  MaxRuns = 1
  MaxCrashes = 0
  DeadSeams <- EverySeam
  BadSeams <- EverySeam
  PortErrors <- EveryError
  SweepInterleaves = TRUE
INVARIANTS TypeOK FiledWhatWasDecided
PROPERTY KeepsPromise
