CONSTANTS
  Pairs <- SomePairs
  Orders = "both"
  Ceiling = 3
  Usage = {1}
  Answers <- SomeAnswers
  Leaks = {2}
  MaxTransients = 1
  MaxStops = 2
  MaxFaults = 1
SPECIFICATION Spec
INVARIANTS OneConclusion CeilingHolds StopIsFinal PositionBiasTies
PROPERTIES EventuallyConcluded
CHECK_DEADLOCK FALSE
