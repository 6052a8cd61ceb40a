CONSTANTS
  Consumers = {c1}
  Partitions = {p1}
  None = None
  m1 = m1
  m2 = m2
  Messages = {m1, m2}
  NoHeader = NoHeader
  MaxLen = 8
  MaxBatch = 1
  MaxTrouble = 1
  MaxAttempts = 3
  TierMs <- MCTierMs
  Delays <- MCDelays
  Fresh <- MCFresh
  Configs <- MCConfigs
SPECIFICATION KFairSpec
INVARIANTS OutcomeBeforeCommit RetriedInStep FullBudget
CHECK_DEADLOCK FALSE
PROPERTIES EventuallyOver
