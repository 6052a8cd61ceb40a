SPECIFICATION FairSpec
CONSTANTS
  Consumers = {c1, c2}
  Partitions = {p1}
  None = None
  MaxLen = 3
  MaxBatch = 3
  MaxTrouble = 2
INVARIANTS
  CommitOnlySettled
  NothingSkipped
PROPERTY EverySettled
