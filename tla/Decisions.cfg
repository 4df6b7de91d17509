CONSTANTS
  Null = Null
  Refused = Refused
  Gone = Gone
  Sentinel = Sentinel
  HighestCost = 2
  Ngram = 2
  OtherCases <- DecisionCases
SPECIFICATION Questions
INVARIANTS AttemptsSound GradingSound EvidenceSound BlindingSound ClaimsSound
CHECK_DEADLOCK FALSE
