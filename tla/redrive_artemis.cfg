SPECIFICATION Spec
CONSTANTS
  Messages = {m1, m2}
  m1 = m1
  m2 = m2
  None = None
  MaxAttempts = 2
  Configs <- ArtemisConfigs
  MaxFaults = 1
  MaxRedrives = 0
  MaxReleases = 0
  MaxReceives = 3
INVARIANT UnsettledIsKept
