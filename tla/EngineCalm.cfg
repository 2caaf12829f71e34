SPECIFICATION CalmSpec
CONSTANTS
  Subs = {s1, s2}
  NoSub = NoSub
  Handlers = {h1, h2}
  Workers = {w1, w2, w3}
  MaxConcurrency = 2
  QueueCap = 1
  CaseVerdicts = {"AC", "RE"}
  FailVerdicts = {"SE"}
  Faults = {"panic"}
  MaxReruns = 2
  MaxRestarts = 2
INVARIANTS SingleExecution OneRowPerCase VerdictMatchesRows FinishTime
PROPERTY FollowsLifecycle
CHECK_DEADLOCK FALSE
