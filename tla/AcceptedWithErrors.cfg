SPECIFICATION PipelineSpec
CONSTANTS
  Ids = {c1, c2}
  NoId = NoId
  ExitCodes = {0, 1, 139}
  Flaws <- Failing
  MaxCrashes = 0
  Cases = {"a", "b", "c"}
  Files = {"p-a", "p-b"}
  FileOrder <- MCFileOrder
  EndsWith <- MCEndsWith
  Problems <- MCTwoCases
  Programs <- MCPrograms
  DiskFails = FALSE
  MaxJudgings = 1
INVARIANT AcceptedOnlyIfAllPass
CHECK_DEADLOCK FALSE
