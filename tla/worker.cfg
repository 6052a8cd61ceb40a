SPECIFICATION FairSpec
CONSTANTS
  Messages = {m1, m2}
  m1 = m1
  m2 = m2
  None = None
  Configs <- Varied
  MaxRuns = 2
  MaxSignals = 3
  MaxStops = 1
  MaxFailures = 1
INVARIANTS
  NeverBoth
  ExitSettles
  DeadlineOnlyForItsCall
PROPERTIES
  DeadlineEndsConsume
  StopEndsConsume
