SPECIFICATION Spec
CONSTANTS
  Messages = {m1, m2}
  m1 = m1
  m2 = m2
  None = None
  MaxAttempts = 2
  Configs <- OneOfEach
  MaxFaults = 1
  MaxRedrives = 1
  MaxReleases = 1
  MaxReceives = 3
INVARIANTS
  NothingLost
  CopiesHaveACause
  CountsHonest
  RouteStays
