SPECIFICATION FairSpec
CONSTANTS
  Messages = {m1}
  m1 = m1
  None = None
  MaxAttempts = 2
  Configs <- AllConfigs
  MaxFailures = 2
  MaxCrashes = 1
  MaxLapses = 1
INVARIANTS
  NoLoss
  OnlyPermittedDrops
  RejectedStaysOut
  RunBudget
PROPERTY EventuallySettled
