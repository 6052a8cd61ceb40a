SPECIFICATION PSpec
CONSTANTS
  Rows = {1, 2}
  Poison = {1}
  Relays = {r1, r2}
  BatchSize = 2
  MaxPasses = 2
  MaxTrouble = 1
  Consumers = {c1, c2}
  MayLackId = {2}
  r1 = r1
  r2 = r2
  c1 = c1
  c2 = c2
  Nobody = Nobody
  Common = Common
  MaxAttempts = 2
  MaxFaults = 2
INVARIANTS
  NothingUnhandled
  EffectsHaveACause
SYMMETRY Interchangeable
