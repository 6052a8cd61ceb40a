SPECIFICATION FairSpec
CONSTANTS
  Workers = {w1, w2}
  Bodies = {a, p}
  Poison = {p}
  None = None
  MaxAttempts = 2
  Lifetimes <- OneTickOrNever
  Delays = {1}
  Batch = 1
  MaxPublished <- TwiceAndPoison
  MaxTrouble = 2
CHECK_DEADLOCK FALSE
INVARIANTS
  NothingLost
  CopiesHaveACause
  AttemptsHonest
PROPERTY Drains
