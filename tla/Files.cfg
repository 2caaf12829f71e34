\* A problem's directory under two concurrent PUTs, a judging and a crash; a
\* submission's directory under three judgings and a crash.
SPECIFICATION FilesSpec
CONSTANTS
  Puts = {p1, p2}
  Versions = {v1, v2}
  MaxCrashes = 1
  Archives <- MCArchives
  Junk = {"mac"}
  Outside = ".."
  maxFileSize = 3
  maxTotalSize = 5
  maxEntries = 4
  MaxJudgings = 3
  MaxKills = 1
SYMMETRY StoreSymmetry
INVARIANTS
  FilesTypeOK
  SomeCopySurvives
  LeftoversHaveACause
  SerialPutsAgree
  RowDescribesDirectory
  UndisturbedJobSeesOneVersion
  RejudgingExtractsTheSame
  DiskWithinLimits
\* The requests and the judgings are used up.
CHECK_DEADLOCK FALSE
