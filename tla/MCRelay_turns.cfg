\* Two disputes; handlers and sweeps take turns; every fault.
SPECIFICATION Spec
CONSTANTS
  k1 = k1
  k2 = k2
  NoKey = NoKey
  Keys <- TwoKeys
  MaxRuns = 2
  MaxCrashes = 0
  DeadSeams <- EverySeam
  BadSeams <- EverySeam
  PortErrors <- EveryError
  SweepInterleaves = FALSE
INVARIANTS NothingFiledUnasked NeverSilent OneCardPerDispute CardOncePerRun
SYMMETRY KeySymmetry
