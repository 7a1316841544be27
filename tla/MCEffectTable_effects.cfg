SPECIFICATION FairSpec
CONSTANTS
  w1 = w1
  w2 = w2
  w3 = w3
  e1 = e1
  e2 = e2
  NoWorker = NoWorker
  Workers <- ThreeWorkers
  Effects <- TwoEffects
  Breaks <- EveryBreak
  MaxLost = 1
INVARIANTS OneExecutor RepeatedOnlyWhenLost
PROPERTIES KeepsEffectPromise EveryCallEnds
