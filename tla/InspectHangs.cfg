SPECIFICATION PipelineFairSpec
CONSTANTS
  Ids = {c1, c2, c3}
  NoId = NoId
  ExitCodes = {0, 1}
  Flaws <- Silent
  MaxCrashes = 0
  Cases = {"a", "b", "c"}
  Files = {"p-a", "p-b"}
  FileOrder <- MCFileOrder
  EndsWith <- MCEndsWith
  Problems <- MCTwoCases
  Programs <- MCEndless
  DiskFails = FALSE
  MaxJudgings = 1
PROPERTY JudgingLimited
CHECK_DEADLOCK FALSE
