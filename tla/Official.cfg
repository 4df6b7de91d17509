CONSTANTS
  t1 = t1
  t2 = t2
  core = core
  other = other
  ours = ours
  foreign = foreign
  none = none
  Analysts = {a1}
  Corpus = core
  Rubric = ours
  Correction = holm
  Manifests <- SomeManifests
  NoManifest = none
  Recorded <- Begun
  Appendable <- Others
  Passes = {2, 3}
  Method <- Selected
  MaxLen = 5
  MaxRuns = 1
  MaxFaults = 1
SPECIFICATION Spec
INVARIANTS OfficialIsEarned NoOrphanArtifacts
CHECK_DEADLOCK FALSE
