------------------------------ MODULE Pipeline ------------------------------
(***************************************************************************)
(* pipeline.Run (internal/judge/pipeline.go): one submission judged, and   *)
(* judged again after a rerun or a crash, in the containers of Container.  *)
(* Workspace and extraction, configure, build, and the loop over the cases *)
(* that finds the binary of each in the build directory and runs it.       *)
(*                                                                         *)
(* The database answers here and no second worker has the submission: see  *)
(* JudgeEngine for both.                                                   *)
(***************************************************************************)
EXTENDS Container, Verdict

CONSTANTS
  Cases,        \* names of test cases
  Files,        \* names of files in the build directory
  FileOrder,    \* Files, in the order WalkDir visits them
  EndsWith,     \* the <<file, case>> where the name ends with "-" and the case
  Problems,     \* the versions of the problem: CaseNames (in order), and for
                \* each target of its CMakeLists the file it is built into
  Programs,     \* what the program of each case may do: its exit codes; none
                \* when it never ends
  DiskFails,    \* whether operations on the workspace may fail
  MaxJudgings   \* bound: judgings of the submission

ASSUME FilesAssumption ==
  /\ FileOrder \in Seq(Files)
  /\ \A f \in Files : \E i \in DOMAIN FileOrder : FileOrder[i] = f
ASSUME EndsWithAssumption == EndsWith \subseteq Files \X Cases
ASSUME ProblemsAssumption ==
  \A p \in Problems : /\ p.cases \in Seq(Cases)
                      /\ p.target \in [DOMAIN p.target -> Files]
                      /\ DOMAIN p.target \subseteq Cases
                      /\ \A c \in DOMAIN p.target : <<p.target[c], c>> \in EndsWith
ASSUME ProgramsAssumption == Programs \subseteq [Cases -> SUBSET ExitCodes]
ASSUME DiskAssumption == DiskFails \in BOOLEAN /\ MaxJudgings \in Nat

VARIABLES
  stage,     \* where Run is: idle, workspace, configure, build, next, case, final
  problem,   \* the problem as process has read it
  program,   \* what the programs of this submission do
  build,     \* build/: per file the case and the judging it was built for
  ran,       \* the binary copied to run/ for the case at hand
  results,   \* the case results of Run, in memory
  rows,      \* the case_results table
  status,    \* the status of the submission in the database
  judgings   \* the judging at hand; counter of the bound

run_vars == <<stage, problem, program, build, ran, results, rows, status, judgings>>
all_vars == <<vars, run_vars>>

NoBinary == [case |-> "", judging |-> 0]
Binary == {NoBinary} \cup [case : Cases, judging : 1..MaxJudgings]
Result == [case : Cases, status : Verdicts]

PipelineTypeOK ==
  /\ TypeOK
  /\ stage \in {"idle", "workspace", "configure", "build", "next", "case", "final"}
  /\ problem \in Problems
  /\ program \in Programs
  /\ build \in [Files -> Binary]
  /\ ran \in Binary
  /\ results \in Seq(Result) /\ Len(results) <= Len(problem.cases)
  /\ rows \in Seq(Result)
  /\ status \in Status
  /\ judgings \in 0..MaxJudgings
  /\ stage = "idle" => run = Idle

PipelineInit ==
  /\ Init
  /\ stage = "idle"
  /\ problem \in Problems
  /\ program \in Programs
  /\ build = [f \in Files |-> NoBinary]
  /\ ran = NoBinary
  /\ results = <<>>
  /\ rows = <<>>
  /\ status = "PENDING"
  /\ judgings = 0

------------------------------------------------------------------------------
(* The stages before the cases.                                             *)

Docker == <<flaws, bootVars, daemon, jobLate, out, crashes>>

\* The call of run has returned and the pipeline goes on without another.
Returned == run.pc = "returned" /\ run' = Idle /\ UNCHANGED Docker

\* Run is called for stage s.
CallFor(s) == Call /\ stage' = s /\ UNCHANGED Docker

\* fail.
PipelineFail(v) == stage' = "idle" /\ status' = v

\* The engine starts a judging. Rerun and recovery have deleted the rows.
Process ==
  /\ server = "serving"
  /\ stage = "idle"
  /\ judgings < MaxJudgings
  /\ judgings' = judgings + 1
  /\ problem' \in Problems
  /\ status' = "RUNNING"
  /\ results' = <<>>
  /\ rows' = <<>>
  /\ jobLate' = FALSE
  /\ stage' = "workspace"
  /\ UNCHANGED <<flaws, bootVars, daemon, run, out, crashes, program, build, ran>>

\* A directory of the workspace cannot be made, or the archive not extracted.
WorkspaceFails ==
  /\ stage = "workspace"
  /\ (DiskFails /\ PipelineFail("IE")) \/ PipelineFail("SE")
  /\ UNCHANGED <<vars, problem, program, build, ran, results, rows, judgings>>

Configure ==
  /\ stage = "workspace"
  /\ CallFor("configure")
  /\ UNCHANGED <<problem, program, build, ran, results, rows, status, judgings>>

StageOk == ~out.err /\ ~out.timedOut /\ out.code = 0

\* An error of run is ours; a timeout or an exit code is the submission's.
StageVerdict(v) == IF out.err THEN "IE" ELSE v

\* Generating the build files may remove what no target is built into any more
\* (ninja -t cleandead); no step of Run cleans the directory.
ConfigureLeaves ==
  LET dead == {f \in Files : \A c \in DOMAIN problem.target : problem.target[c] # f}
  IN  \/ UNCHANGED build
      \/ build' = [f \in Files |-> IF f \in dead THEN NoBinary ELSE build[f]]

ConfigureFails ==
  /\ stage = "configure"
  /\ Returned
  /\ ~StageOk
  /\ ConfigureLeaves
  /\ PipelineFail(StageVerdict("SE"))
  /\ UNCHANGED <<problem, program, ran, results, rows, judgings>>

Build ==
  /\ stage = "configure"
  /\ run.pc = "returned"
  /\ StageOk
  /\ CallFor("build")
  /\ ConfigureLeaves
  /\ UNCHANGED <<problem, program, ran, results, rows, status, judgings>>

\* cmake --build has built the targets of the cases in done. What else the
\* directory holds, from earlier judgings, stays.
Builds(done) ==
  build' = [f \in Files |->
              IF \E c \in done : problem.target[c] = f
              THEN [case |-> CHOOSE c \in done : problem.target[c] = f,
                    judging |-> judgings]
              ELSE build[f]]

\* A build that did not succeed has built some of its targets.
BuildsSome == \E done \in SUBSET DOMAIN problem.target : Builds(done)

\* What the build container leaves when it has ended.
BuildLeaves ==
  IF ~out.err /\ ~out.timedOut /\ out.code = 0
  THEN Builds(DOMAIN problem.target)
  ELSE BuildsSome

BuildFails ==
  /\ stage = "build"
  /\ Returned
  /\ ~StageOk
  /\ BuildLeaves
  /\ PipelineFail(StageVerdict("CE"))
  /\ UNCHANGED <<problem, program, ran, results, rows, judgings>>

\* The program is built; CaseNames is empty.
NoCases ==
  /\ stage = "build"
  /\ Returned
  /\ StageOk
  /\ problem.cases = <<>>
  /\ BuildLeaves
  /\ PipelineFail("IE")
  /\ UNCHANGED <<problem, program, ran, results, rows, judgings>>

\* The old case rows are deleted and the loop over the cases starts.
BuildPasses ==
  /\ stage = "build"
  /\ Returned
  /\ StageOk
  /\ problem.cases # <<>>
  /\ BuildLeaves
  /\ rows' = <<>>
  /\ stage' = "next"
  /\ UNCHANGED <<problem, program, ran, results, status, judgings>>

------------------------------------------------------------------------------
(* The loop over the cases.                                                 *)

\* The case at hand.
Case == problem.cases[Len(results) + 1]

MoreCases == stage = "next" /\ Len(results) < Len(problem.cases)

\* (mutant: the name is not compared with the case)
MatchesAnyName(c) == {i \in DOMAIN FileOrder : build[FileOrder[i]] # NoBinary}

\* findCaseBinary: the first file of the walk whose name has the suffix.
Matches(c) ==
  {i \in DOMAIN FileOrder : /\ build[FileOrder[i]] # NoBinary
                            /\ <<FileOrder[i], c>> \in EndsWith}
findCaseBinary(c) ==
  FileOrder[CHOOSE i \in Matches(c) : \A j \in Matches(c) : i <= j]

AddResult(s) ==
  /\ results' = Append(results, [case |-> Case, status |-> s])
  /\ stage' = "next"
  /\ UNCHANGED <<problem, program, build, ran, rows, status, judgings>>

BinaryMissing ==
  /\ MoreCases
  /\ Matches(Case) = {}
  /\ AddResult("CE")
  /\ UNCHANGED vars

CopyFails ==
  /\ MoreCases
  /\ DiskFails
  /\ Matches(Case) # {}
  /\ AddResult("IE")
  /\ UNCHANGED vars

RunCase ==
  /\ MoreCases
  /\ Matches(Case) # {}
  /\ ran' = build[findCaseBinary(Case)]
  /\ CallFor("case")
  /\ UNCHANGED <<problem, program, build, results, rows, status, judgings>>

\* (mutant: the error of run is not looked at)
CaseStatusUnchecked == classifyCase(out.code, out.timedOut, out.oom)

CaseStatus ==
  IF out.err THEN "IE" ELSE classifyCase(out.code, out.timedOut, out.oom)

CaseReturns ==
  /\ stage = "case"
  /\ Returned
  /\ AddResult(CaseStatus)

\* All results are inserted at once.
StoreRows ==
  /\ stage = "next"
  /\ Len(results) = Len(problem.cases)
  /\ rows' = rows \o results
  /\ stage' = "final"
  /\ UNCHANGED <<vars, problem, program, build, ran, results, status, judgings>>

Finish ==
  /\ stage = "final"
  /\ PipelineFail(aggregate([i \in DOMAIN results |-> results[i].status]))
  /\ UNCHANGED <<vars, problem, program, build, ran, results, rows, judgings>>

PipelineStep ==
  \/ WorkspaceFails \/ Configure \/ ConfigureFails
  \/ Build \/ BuildFails \/ NoCases \/ BuildPasses
  \/ BinaryMissing \/ CopyFails \/ RunCase \/ CaseReturns
  \/ StoreRows \/ Finish

------------------------------------------------------------------------------
(* The containers, the timers and the server under the pipeline.            *)

\* The program of the case ends in one of its ways, or is killed for its memory,
\* if it ends at all. What configure and build do is not bound.
ProgramExits(i) ==
  /\ Exits(i)
  /\ stage = "case" /\ i = run.id =>
       /\ program[ran.case] # {}
       /\ daemon'[i].code \in program[ran.case] \cup {KillCode}

ContainerStep ==
  /\ \/ RunStep \/ RunDeadline \/ JobDeadline \/ Boot \/ RemoveOrphan \/ Serve
     \/ \E i \in Ids : ProgramExits(i)
  /\ UNCHANGED run_vars

\* The server dies, wherever the judging is: what is in memory is lost.
Dies ==
  /\ Crash
  /\ CASE stage = "configure" -> ConfigureLeaves
       [] stage = "build" -> BuildsSome
       [] OTHER -> UNCHANGED build
  /\ stage' = "idle"
  /\ results' = <<>>
  /\ UNCHANGED <<problem, program, ran, rows, status, judgings>>

PipelineNext == Process \/ PipelineStep \/ ContainerStep \/ Dies

PipelineSpec == PipelineInit /\ [][PipelineNext]_all_vars

\* The worker's goroutine runs on; deadlines fire and the daemon answers.
PipelineFairSpec == PipelineSpec /\ RunFairness /\ WF_all_vars(PipelineStep)

------------------------------------------------------------------------------
\* A file whose name ends like a case is what the problem builds for that case,
\* and for no other. Neither an upload nor a judging checks it: the cases are
\* the headers in spec/, the targets those of the CMakeLists.
Unambiguous(p) ==
  \A i \in DOMAIN p.cases, f \in Files :
    LET c == p.cases[i]
    IN  <<f, c>> \in EndsWith =>
          {d \in DOMAIN p.target : p.target[d] = f} = {c}

\* The binary that runs for a case is the one built for this case and in this
\* judging, although build/ keeps the files of earlier judgings, of builds that
\* failed half way and of earlier versions of the problem (pipeline.go:247-275).
OwnBinary ==
  stage = "case" /\ Unambiguous(problem) =>
    ran = [case |-> Case, judging |-> judgings]

\* What a row may say of a case: what one of the program's own ends means, that
\* it ran out of time or memory, that it was not built because the problem has
\* no such target, or that something on our side failed.
Deserved(c, s) ==
  \/ s \in {"IE", "TLE"}
  \/ s = "CE" /\ c \notin DOMAIN problem.target
  \/ s = "RE" /\ program[c] # {}
  \/ \E code \in program[c] : s = classifyCase(code, FALSE, FALSE)

\* No failure of a container, no binary of another case and no leftover of a
\* crash makes a row that the program of the case did not earn.
RowsTruthful ==
  Unambiguous(problem) =>
    \A i \in DOMAIN rows : Deserved(rows[i].case, rows[i].status)

\* The severity of status.go:29. IE has none.
Rank(s) ==
  CASE s = "RE" -> 4 [] s = "TLE" -> 3 [] s = "WA" -> 2 [] s = "CE" -> 1
    [] OTHER -> 0

\* The published verdict stands on a complete set of rows, one per case and in
\* the order of the problem, of which it is the worst; or a stage before the
\* cases failed and there are no rows, of this judging or an earlier one.
VerdictFits ==
  stage = "idle" /\ status \in Verdicts =>
    \/ rows = <<>> /\ status \in {"SE", "CE", "IE"}
    \/ /\ [i \in DOMAIN rows |-> rows[i].case] = problem.cases
       /\ \A i \in DOMAIN rows : Rank(rows[i].status) <= Rank(status)
       /\ status = "AC" \/ \E i \in DOMAIN rows : rows[i].status = status

Ends == stage = "workspace" ~> stage = "idle"

\* A judging ends, by its deadlines if by nothing else: a program that never
\* ends cannot keep its slot of the semaphore, whatever requests fail.
JudgingReturns == ~Hangs => Ends

\* Even a daemon that leaves requests without an answer holds a judging, at
\* whatever stage, nowhere but at an inspection: one that never ends waits
\* there (docker.go:201), every other request having a deadline.
OnlyInspectWaits == <>[](stage # "idle") => <>[](run.pc = "inspect")

\* A judging meets no container of a process that died, except one that the
\* boot was refused: the cleanup is over before the first job is dispatched,
\* so that no orphan writes to a build/ that is judged (docker.go:54-55).
OrphansGoFirst == stage # "idle" => orphans \subseteq refused

------------------------------------------------------------------------------
(* What the comments say and the code does not keep.                        *)

\* "Only if all are AC is it AC" (status.go:29): no submission is accepted
\* with a case that did not pass. The code counts an IE case as passed.
AcceptedOnlyIfAllPass ==
  stage = "idle" /\ status = "AC" => \A i \in DOMAIN rows : rows[i].status = "AC"

\* The job's context is "the overall limit of one submission" (engine.go:199).
\* The inspection is made without it.
JudgingLimited == Ends
==============================================================================
