SPECIFICATION PFairSpec
CONSTANTS
  Rows = {1, 2}
  Poison = {1}
  Relays = {r1, r2}
  BatchSize = 2
  MaxPasses = 2
  MaxTrouble = 1
  Consumers = {c1}
  MayLackId = {2}
  Nobody = Nobody
  Common = Common
  MaxAttempts = 2
  MaxFaults = 2
PROPERTY EventuallyHandled
