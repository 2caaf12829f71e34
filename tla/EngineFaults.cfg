SPECIFICATION Spec
CONSTANTS
  Subs = {s1, s2}
  NoSub = NoSub
  Handlers = {h1}
  Workers = {w1, w2}
  MaxConcurrency = 1
  QueueCap = 1
  CaseVerdicts = {"AC"}
  FailVerdicts = {"SE"}
  Faults = {"store", "panic"}
  MaxReruns = 1
  MaxRestarts = 1
SYMMETRY Symmetry
INVARIANT SlotAccounting
CHECK_DEADLOCK FALSE
