SPECIFICATION Spec
CONSTANTS
  Subs = {s1, s2}
  NoSub = NoSub
  Handlers = {h1, h2}
  Workers = {w1, w2, w3}
  MaxConcurrency = 2
  QueueCap = 1
  CaseVerdicts = {"AC"}
  FailVerdicts = {"SE"}
  Faults = {}
  MaxReruns = 1
  MaxRestarts = 1
INVARIANT StopWaits
CHECK_DEADLOCK FALSE
