CONSTANTS
  c1 = c1
  c2 = c2
  Comparisons = {c1, c2}
  Handlers = {h1, h2}
  Floor <- Sampled
  Winner <- Unjudged
  MaxRetries = 1
  MaxRequests = 3
  MaxFaults = 1
  Planners = {p1, p2, p3}
  Stages = {s1}
  Specs = {good, weak}
  Passing = {good}
  MaxEdits = 1
  MaxPlanFaults = 1
SPECIFICATION EitherSpec
INVARIANT OneVerdict
