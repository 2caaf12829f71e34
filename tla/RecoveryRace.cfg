SPECIFICATION OneRequestSpec
CONSTANTS
  Subs = {s1, s2}
  NoSub = NoSub
  Handlers = {h1, h2}
  Workers = {w1, w2, w3}
  MaxConcurrency = 2
  QueueCap = 1
  CaseVerdicts = {"AC"}
  FailVerdicts = {"SE"}
  Faults = {}
  MaxReruns = 0
  MaxRestarts = 0
INVARIANT OneRowPerCase
CHECK_DEADLOCK FALSE
