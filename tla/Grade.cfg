CONSTANTS
  t1 = t1
  t2 = t2
  Trials = {t1, t2}
  KnownTasks = {t1}
  WithArtifacts = {t1, t2}
  Graders = {g1, g2}
  Named = {{}, {t1}, {t2}}
  Outcomes = {"grade", "container_failure", "grader_unavailable"}
  MaxPasses = 3
SPECIFICATION Spec
INVARIANTS SecondOutcomesExplained OverridesAreEarned NoTrialUnanswered
CHECK_DEADLOCK FALSE
