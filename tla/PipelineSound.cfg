SPECIFICATION PipelineSpec
CONSTANTS
  Ids = {c1, c2}
  NoId = NoId
  ExitCodes = {0, 1, 139}
  Flaws <- BestOrWorst
  MaxCrashes = 2
  Cases = {"a", "b", "c"}
  Files = {"p-a", "p-b"}
  FileOrder <- MCFileOrder
  EndsWith <- MCEndsWith
  Problems <- MCProblems
  Programs <- MCPrograms
  DiskFails = TRUE
  MaxJudgings = 2
INVARIANTS PipelineTypeOK ExitIsTheProgrammes OwnBinary RowsTruthful VerdictFits NoOrphanRuns OrphansGoFirst
SYMMETRY Symmetry
CHECK_DEADLOCK FALSE
