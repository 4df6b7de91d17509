CONSTANTS
  NCells = 2
  Schedulable = {1, 2}
  Ceiling = 3
  MaxRetries = 1
  MaxCost = 1
  Null = Null
  Attempts <- AllAttempts
  MaxRuns = 1
  MaxFaults = 0
SPECIFICATION Spec
INVARIANT StatusAgreesWithGuard
CHECK_DEADLOCK FALSE
