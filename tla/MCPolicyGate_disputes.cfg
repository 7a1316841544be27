\* Two disputes over four days; the system rests when they are settled.
SPECIFICATION Spec
CHECK_DEADLOCK FALSE
CONSTANTS
  m1 = m1
  m2 = m2
  o1 = o1
  o2 = o2
  rg = rg
  c1 = c1
  c2 = c2
  Merchants <- TwoMerchants
  Enrolled <- OneMerchant
  Orders <- TwoOrders
  Reasons <- OneReason
  Claims <- TwoClaims
  NoClaim = NoClaim
  WonClaims <- OneClaim
  PerDay = 1
  Window = 1
  TokenCeiling = 9
  MaxRuns = 2
  MaxDay = 2
  MaxDelay = 1
INVARIANTS TypeOK DailyCapHolds SecondOnlyIfBothWaited ClaimAnsweredOnce
  OffersAreTaken   
PROPERTIES CaseMovesForward
