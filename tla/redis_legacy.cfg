SPECIFICATION FairSpec
CONSTANTS
  Workers = {w1, w2}
  Live = {w2}
  Tokens = {t1, t2, t3, t4}
  Bodies = {b}
  None = None
  MaxAttempts = 2
  RetryAfter <- AllShort
  Batch <- All
  MaxPublished = 2
CHECK_DEADLOCK FALSE
INVARIANTS
  Conservation
PROPERTIES
  NoTheft
  IsLeasedQueue
  LapsedReturns
