------------------------------- MODULE Verdict -------------------------------
(***************************************************************************)
(* The status of a submission and of a test case, and the two pure         *)
(* functions that compute it (internal/judge/status.go).                   *)
(***************************************************************************)
EXTENDS Integers, Sequences, FiniteSets

\* The two statuses of a submission whose judging has not ended.
Unfinished == {"PENDING", "RUNNING"}

\* The statuses that end a judging: AC accepted, WA wrong answer, CE compile
\* error, RE runtime error, TLE time limit, SE setup error, IE internal error.
Verdicts == {"AC", "WA", "CE", "RE", "TLE", "SE", "IE"}

Status == Unfinished \cup Verdicts

\* What one container run of a case says about the case.
classifyCase(exitCode, timedOut, oomKilled) ==
  IF timedOut THEN "TLE"
  ELSE IF oomKilled THEN "RE"
  ELSE IF exitCode = 0 THEN "AC"
  ELSE IF exitCode >= 128 THEN "RE"
  ELSE "WA"

\* (mutant: two branches in the wrong order)
aggregateWAFirst(results) ==
  LET has(s) == \E i \in DOMAIN results : results[i] = s
  IN  IF results = <<>> THEN "IE"
      ELSE IF has("RE") THEN "RE"
      ELSE IF has("WA") THEN "WA"
      ELSE IF has("TLE") THEN "TLE"
      ELSE IF has("CE") THEN "CE"
      ELSE "AC"

\* The submission's verdict, from the sequence of its case statuses. A case
\* that is IE matches no branch of the code's switch and falls to the default.
aggregate(results) ==
  LET has(s) == \E i \in DOMAIN results : results[i] = s
  IN  IF results = <<>> THEN "IE"
      ELSE IF has("RE")  THEN "RE"
      ELSE IF has("TLE") THEN "TLE"
      ELSE IF has("WA")  THEN "WA"
      ELSE IF has("CE")  THEN "CE"
      ELSE "AC"
==============================================================================
