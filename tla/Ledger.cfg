CONSTANTS
  Writers = {w1, w2}
  Pollers = {p1}
  NoOne = NoOne
  MaxLines = 3
  MaxFaults = 2
SPECIFICATION FairSpec
INVARIANTS ChainIntact AckedIsDurable TailExactlyOnce
PROPERTIES ImplementsLog AppendsFinish
CHECK_DEADLOCK FALSE
