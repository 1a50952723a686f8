SPECIFICATION Spec
CONSTANTS
  Plans <- AllPlans
  MaxCalls = 1
  MaxAdmitted = 2
  CallsPerSlice = 2
  StallCalls = 1
  MaxReports = 1
  QuietLimit = 3
  MaxRetries = 1
  MaxContinuations = 1
  MaxRaises = 1
  KeepTurns = 1
INVARIANTS
  ContextIsSound
  NeverPanics
  EffortBounded
  CompletedHeardChildren
CHECK_DEADLOCK FALSE
