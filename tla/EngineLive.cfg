SPECIFICATION FairSpec
CONSTANTS
  Subs = {s1, s2}
  NoSub = NoSub
  Handlers = {h1}
  Workers = {w1, w2}
  MaxConcurrency = 1
  QueueCap = 1
  CaseVerdicts = {"AC"}
  FailVerdicts = {}
  Faults = {}
  MaxReruns = 0
  MaxRestarts = 1
PROPERTIES JudgingEnds JobsServed
CHECK_DEADLOCK FALSE
