\* A crash while the single directory of an archive is flattened, and the
\* judging that recovery makes afterwards.
SPECIFICATION FilesSpec
CONSTANTS
  Puts = {}
  Versions = {}
  MaxCrashes = 0
  Archives <- MCSingleRoot
  Junk = {"mac"}
  Outside = ".."
  maxFileSize = 3
  maxTotalSize = 5
  maxEntries = 4
  MaxJudgings = 2
  MaxKills = 1
INVARIANT SourceComplete
\* The requests and the judgings are used up.
CHECK_DEADLOCK FALSE

