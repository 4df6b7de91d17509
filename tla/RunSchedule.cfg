CONSTANTS
  NCells = 3
  Schedulable = {1, 3}
  Ceiling = 2
  MaxRetries = 1
  MaxCost = 1
  Null = Null
  Attempts <- AllAttempts
  MaxRuns = 2
  MaxFaults = 1
SPECIFICATION Spec
INVARIANTS OneTrialPerCell CeilingHolds StopIsFinal OrderIsComplete HeartbeatHonest
CHECK_DEADLOCK FALSE
