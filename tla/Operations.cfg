CONSTANTS
  Absent = Absent
  AtRest = AtRest
  Planners = {"n1", "n2", "n3"}
  Stages = {"s1"}
  plan_Specs = {"good", "weak"}
  Passing = {"good"}
  plan_MaxEdits = 1
  plan_MaxFaults = 1
  Cands = {"c1"}
  corpus_Shas = {"s1"}
  People = {"ann", "bob"}
  Curators = {"ann"}
  Procs = {"p1", "p2"}
  MaxEvents = 3
  MaxStarts = 3
  import_Tasks = {"t1", "t2"}
  import_Shas = {"s1", "s2"}
  Semvers = {"v1", "v2"}
  import_MaxRuns = 3
  Runs = {"r1", "r2"}
  Conns = {"k1", "k2"}
  gateway_Trials = {"t1", "t2"}
  Strangers = {"zz"}
  Hosts = {"h1", "h2"}
  ALLOW = {"h1"}
  NoTrial = "-"
  author_Requests = {"q1", "q2", "q3"}
  author_MaxWrites = 4
  MaxRounds = 3
  image_MaxEdits = 4
  trial_MaxWrites = 1
  DaemonAnswers = TRUE
  Events = {"e1"}
  Anchorers = {"a1"}
  MaxLines = 3
  MaxAnchors = 2
  MaxShort = 1
  anchor_MaxFaults = 1
  anchor_MaxEdits = 1
  reuse_Trials = {"x1", "x2"}
  Ephemeral = {"x1"}
  MaxGrades = 1
  MaxExports = 2
  reuse_MaxRuns = 2
SPECIFICATION Spec
INVARIANTS AtMostOneLock LockPassedGates RunsLockedSpec CorpusSound SidecarsSound GatewaySound AuthorSound AgentImageSound HarborTrialSound AnchorSound ReuseSound
PROPERTIES ImportSound
CHECK_DEADLOCK FALSE
