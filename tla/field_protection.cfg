SPECIFICATION FieldSpec
CONSTANTS
  Cases <- AllCases
  MaxAttempts = 3
  MaxFaults = 2
INVARIANTS
  HandlerReadsOriginal
  WireSealed
PROPERTY
  Recovers
