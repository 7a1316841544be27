\* A dispute of the second tenant, a chat card, two drafts, a restart, every fault.
SPECIFICATION Spec
CONSTANTS
  t1 = t1
  t2 = t2
  r1 = r1
  Tenants <- TwoTenants
  Home = t1
  Runs <- OneRun
  Owner <- Theirs
  Nobody = Nobody
  Slack = Slack
  NoTenant = NoTenant
  YesTarget = 1
  Faults <- EveryFault
  MaxCards = 1
  MaxConvs = 1
  Names <- OneName
  KeywordNames <- OneName
  OwnAnswers <- LooserGate
  Shipped <- OneName
  MaxDrafts = 2
  MaxRestarts = 1
INVARIANTS TypeOK ToldTheTruth  SmallWasEarned OneAgentPerDraft
PROPERTY WaitingCardsKept
