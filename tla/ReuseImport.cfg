CONSTANTS
  Trials = {t1}
  Ephemeral = {}
  MaxGrades = 1
  MaxExports = 1
  MaxRuns = 2
SPECIFICATION Spec
INVARIANTS ImportComplete
CHECK_DEADLOCK FALSE
