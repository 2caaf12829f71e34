\* The solutions of the problem packages, one at a time.
SPECIFICATION SolutionsSpec
CONSTANTS
  Doubles <- MCDoubles
  MaxOps = 3
  Top = 96
  Float <- MCFloat
  Schools = {"ntust", "priv", "pub"}
  Kind <- MCKind
  Start <- MCStart
  Amounts <- MCAmounts
  MaxCalls = 2
  Order <- MCOrder
  Inputs <- MCInputs
  Data <- MCData
  Bounds <- MCBounds
  Stored = {4}
  MaxVisits = 5
  Names = {"a", "b"}
  Literals <- MCLiterals
  MaxLength = 3
  MaxResults = 1
  CaseKinds = {"plain", "mayfail", "shouldfail"}
  MaxExitCode = 1
  MaxLines = 2
  MaxInfos = 2
  MaxCases = 2
INVARIANTS
  SolutionsTypeOK
  ShippedCasesPass
  ForecastFollowsDropouts
  AlgebraHolds
  LinesAreComplete
  ExitMatchesLines
  UrlsAgree
  LoopsAreExact
  ConversionsAgree
PROPERTIES
  StudentsConserved
  ReadBack
  LoopEnds
  CopiesIndependent
\* A programme ends.
CHECK_DEADLOCK FALSE
