SPECIFICATION FairSpec
CONSTANTS
  c1 = c1
  c2 = c2
  Consumers = {c1, c2}
  Partitions = {p1}
  None = None
  NoStamp = NoStamp
  Tier = 2
  Skews <- OnTime
  MaxLen = 2
  MaxTrouble = 2
INVARIANTS
  CommitOnlyWritten
  NoOvertaking
  WriteBudget
PROPERTIES
  NotEarly
  EveryReinjected
