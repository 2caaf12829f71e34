# A TLA+ model of REGS, the online judge

REGS takes C++ projects from students, builds them against a problem in Docker
containers, runs every test case in a container of its own and publishes a
verdict. This directory models the asynchronous judging engine, the judging
pipeline and the containers under it, the directories that outlive a request (of
a problem, of a submission), and the programs of the problem packages that the
judge is given. TLC checks the models on small instances; TLAPS proves the
safety properties that matter most for every instance.

## 1. The system

One Go process (`cmd/server`), a PostgreSQL database reached through GORM, the
Docker daemon of the host, and directories shared with the containers.

| Component | Source | State | Operations |
|---|---|---|---|
| Judge engine | `internal/judge/engine.go` | channel `jobs`, semaphore `sem`, WaitGroup, context; rows `submissions`, `case_results` | `Start`, `recoverIncomplete`, `dispatch`, `Enqueue`, `Rerun`, `process`, `Stop` |
| Judging pipeline | `internal/judge/pipeline.go` | workspace of a submission (`src build run logs`), the in-memory row and results | `Run`, `fail`, `findCaseBinary`, `copyExecutable` |
| Docker runner | `internal/judge/docker.go` | containers labelled `regs.judge` in the daemon | `run`, `cleanupOrphans`, set-up of network and image |
| Verdicts | `internal/judge/status.go` | none | `classifyCase`, `aggregate` |
| Data model | `internal/model/model.go` | the tables | none |
| Submissions API | `internal/api/handler/submissions.go` | rows, uploads | create, list, get, source, logs, rerun |
| Archive | `internal/archive/archive.go` | a directory being filled | `Extract`, `flattenSingleRoot`, limits |
| Problem store | `internal/api/handler/problems.go`, `internal/store/store.go` | problem directories (installed, staging, backup), table `problems` | `PutProblem`, `DeleteProblem`, `SeedProblems` |
| Accounts and access | `users.go`, `internal/api/middleware`, `internal/auth` | table `users`, signed tokens | `Register`, `Login`, `EnsureAdmin`, `RequireRole`, `Verify` |
| Statistics, configuration, routes, documents | `stats.go`, `internal/config`, `router.go`, `docs` | none | reads |
| Server | `cmd/server/main.go` | life of the process | boot, signal, drain, stop |
| Problem packages | `problems/113final001`, `003` to `006` (`solution/`) | the objects of a test program | the operations of each solution's classes, the cases shipped with them |
| TAP reporter | `problems/113final006/solution/runtime/tap.h` | counter of lines, totals of the test run | a line per assertion, the plan, the exit code |

**Interactions.** A handler inserts a PENDING row and calls `Enqueue`, which
starts a goroutine that sends the id on `jobs`. The dispatcher receives it, takes
a slot of `sem` and starts a worker goroutine, which reads the row, runs the
pipeline and saves the row as it goes. `Rerun` and the recovery of a boot reset
rows that workers also write, and all of them share nothing but the database: no
statement is conditional and no transaction spans two. The pipeline calls
`dockerRunner.run` for configure, build and each case; what passes between the
stages lies in the workspace, which is never cleaned: a rerun extracts the
archive again into the directory the last judging left. `PutProblem` swaps the
directory of a problem by two renames and saves its case names in the row;
`SeedProblems` rebuilds the rows from the directories at every boot; a judging
reads the row once and binds the directory container by container. The problem
packages meet the judge in one number only, the exit code of a test program.

**What is hard.**
- Interleavings: reruns, workers and recovery overwrite each other's rows;
  recovery runs beside the HTTP server; `wg.Add` races with `wg.Wait`.
- Crashes between any two statements of a judging, with containers running.
- Deadlines: that of a run, that of the job, the end of a program and the
  answers of the daemon meet in one `select`.
- Lost answers and failing requests: containers nobody knows of, cases that
  could not be run.
- Leftovers: case rows, binaries, directories and logs of earlier judgings.
- Bounds: slots must come back on every path, a full channel must neither lose
  nor duplicate a job, an archive must not fill the disk whatever its headers say.
- Two copies of one fact (directory and row of a problem) changed by several calls,
  by concurrent requests, with crashes between any two.
- In the solutions: ints compared with floats, numbers that become text and
  numbers again, positions that are differences of unsigned values, objects that
  copies share, a printer whose helpers share an iterator.

**What makes it correct**, per component:
- engine: no submission is stranded, each `Enqueue` is judged once, slots are
  bounded and balanced, every judging ends, the status follows `ERD.md:57`, the
  case rows belong to the verdict;
- docker runner: no leftover program runs, an exit code is the program's own, a
  run ends or, if the daemon falls silent, waits for an inspection;
- pipeline: a case runs its own binary, a row says nothing the program did not
  earn, a verdict stands on a complete set of rows;
- archive: the tree after a rerun equals that of the first extraction, what is
  written stays within the limits;
- problem store: no moment without a whole copy of a problem, directory and case
  names of one version, a cause for whatever is left behind, a judging sees one
  version;
- packages: each solution passes the cases shipped with it and keeps the laws its
  exercise is about, under any sequence of calls;
- TAP reporter: the exit code, which decides the verdict, agrees with the lines the
  student reads.

## 2. The modules

| Module | Models | Extends |
|---|---|---|
| `Verdict` | statuses, `classifyCase`, `aggregate` | |
| `JudgeEngine` | engine, feeding handlers, the rows, life of the process | `Verdict` |
| `SubmissionLifecycle` | abstract: the state machine of `ERD.md:57` with rerun and recovery | `Verdict` |
| `JobLedger` | abstract: what `Enqueue` promises | |
| `JudgeEngineProofs` | theorems about `JudgeEngine` for all clients | `JudgeEngine` |
| `JudgeEngineCalmProofs` | theorems for calm clients, the refinement of `SubmissionLifecycle` | `JudgeEngineProofs` |
| `Container` | `dockerRunner.run`, `cleanupOrphans`, the daemon, deadlines: an open component, its calls come from `Pipeline` | |
| `Pipeline` | `pipeline.Run` composed with the containers it runs | `Container`, `Verdict` |
| `PipelineProofs` | theorems about `Pipeline` and `Container` | `Pipeline` |
| `Workspace` | `archive.Extract` into a directory that earlier judgings used | |
| `ProblemStore` | `PutProblem`, `DeleteProblem`, `SeedProblems`, a judging that reads row and directory | |
| `ProblemStoreProofs` | theorems about `ProblemStore` | `ProblemStore` |
| `WorkspaceProofs` | theorems about `Workspace`, and about the two side by side | `MCFiles`, `ProblemStoreProofs` |
| `Complex`, `ComplexCases` | package 001: complex numbers; the cases shipped | |
| `School`, `SchoolCases` | package 003: three classes of schools; cases | |
| `Url`, `UrlMachine`, `UrlCases`, `UrlMachineProofs` | package 004: the two parsers of the repository; cases; theorems about the machine and about both parsers | |
| `Slice`, `SliceCases` | package 005: container, iterator, range; cases | |
| `Variant`, `VariantCases` | package 006: dynamically typed variables; cases | |
| `TapReporter` | the reporter of package 006 and what Catch calls it with | |
| `ProgrammeProofs` | theorems about the packages 001, 003, 005 and 006 | `Complex`, `School`, `Slice`, `Variant` |
| `SolutionsProofs` | theorems about the reporter, and about all six programmes side by side | `MCSolutions`, `ProgrammeProofs`, `UrlMachineProofs` |
| `MCJudgeEngine`, `MCPipeline`, `MCFiles`, `MCSolutions` | instances for TLC: symmetry, the values of the constants; the last two run one of several independent modules per behaviour | |

### JudgeEngine

Every goroutine is a process with a program counter: the HTTP handlers, the
senders `Enqueue` starts (counted in `sends`), the dispatcher, the workers,
recovery. A step is the code up to the next access to shared state, so that each
database statement, channel operation and WaitGroup call is a step of its own.

| Code | Model |
|---|---|
| `submissions.status`, `finished_at` | `row[s].status`, `row[s].finished` |
| `case_results` of a submission | `results[s]`: one element per inserted batch, the verdict the batch aggregates to |
| `e.jobs`, blocked senders | `jobs`, `sends` |
| `e.sem`, `e.wg` | `sem`, `wg` |
| `e.ctx` done | `CtxDone`, from the phases of the process: up, draining (signal received), stopping (in `Stop`), stopped, down |
| worker's local `sub` | `worker[w].row`, read once in `WorkerLoad`, saved whole by `Save` |
| `CreateSubmission`; `Rerun` | `CreateSubmission`, `HandlerEnqueue`; `RerunCheck`, `RerunReset`, `RerunClear`, `HandlerEnqueue` |
| `recoverIncomplete` | `RecoverScan`, then per row `RecoverReset`, `RecoverClear`, `RecoverEnqueue` |
| `process`, `pipeline.Run` | `WorkerLoad` ... `Finish`, `Fail`, `Panic`, then the deferred `ReleaseSlot` and `WorkerDone` |

The select statements are what they are in Go: with several branches ready, any
may be taken. `Faults` says whether database statements may fail (`"store"`: the
statement does nothing and its error is ignored, as the code ignores it, except
in `Rerun`'s update) and whether `process` may panic (`"panic"`). What happens in
the containers is abstracted to the verdict a judging ends in; `Pipeline` has
the rest. Started workers never run short of names in the instances: there is at
least one more than may be alive at once, or the dispatcher waits for one.

### Container

One call of `run`: create, start, the wait request and its `select`, kill,
inspect, and the deferred forced removal. `daemon` holds the state of every
labelled container. `flaws`, chosen once among `Flaws`, says what the daemon of a
behaviour is like: with `"fail"` a request may fail, and a create or start that
failed may have been carried out; with `"hang"` a request may get no answer at
all. The wait is two steps: while the request is under way (`post`) the
deadline may expire, and then both `errCh` and `Done` are ready and either branch
is taken; once the goroutine is parked in the select, the first event decides.

The server may die at any point (`Crash`): in a call, between two, while it extracts,
between the rows and the verdict of a judging, or while it boots. The request under
way may still be carried out. What it leaves are `orphans`. A boot pings and lists
(`Boot`), removes what it listed one by one (`RemoveOrphan`), each of which may be
refused, and then starts the dispatcher (`Serve`); if the ping or the list fails, it
serves without a cleanup. `refused` holds what this boot could not list or remove.

### Pipeline

`Run` over `Container`'s actions. `build` is the build directory: per file, the
case and the judging it was built for. `Run` never cleans it; generating the build
files may remove what no target is built into any more (`ConfigureLeaves`), and a
build that fails or is cut short has built some targets (`BuildsSome`); cmake is
external, and this is all that is assumed of it, with one thing more: a build that
passes has brought every target up to date. The submission's programs are given
by `program`: per case the exit codes its program may end with, none if it never
ends. A judging may be followed by another (rerun, or recovery after `Dies`) with
another version of the problem. Extraction is one step that passes or fails. The
single worker and the database that always answers are justified by
`JudgeEngine`, which covers both. A version of the problem stays the same during a
judging; every target is named as `ERD.md:54` says.

### Workspace

The source directory of a submission as sets of paths, `files` and `folders`; a
path is a sequence of names. A step is one call to the file system: an entry of
the archive is created or written (`ExtractEntry` checks the guard's count, the
path, then copies at most one byte more than the limit of a file, and adds to the
total), and `flattenSingleRoot` moves the entries of a single top directory up one
by one. A judging may follow another one in the same directory, and a crash
(`MaxKills`) may fall between any two calls. Names that the code treats alike are
one name: `Junk` for `__MACOSX` and `.DS_Store`. How zip and tar store an entry is
left to their libraries; a tar entry that is no file or directory is skipped by
the code and left out.

### ProblemStore

One problem: its directory `dst`, per request a `staging` and a `backup` directory,
the stored `package`, and the case names in `row`. A version stands for everything
that is in a package. A request walks through `PutProblem` call by call with the
code's early returns, its rollback and its deferred removals, and any of the calls may
fail. A rename needs a free target: Go's `os.Rename` refuses every existing directory,
an empty one too (its own `Lstat` and the rename are one step here). So when a
container's bind makes the directory again between the two renames, the new version
cannot be installed and the old one cannot be put back.

The code drops the errors of six calls: the read of the row (any error is taken for a
new problem, `problems.go:62`), the rename back (118), the removals of backup (122) and
staging (84), the copy of the download (126) and the save of the row (141). Each is
modelled with its failure. `put[r].dropped` says which of them failed in a request, and
`amiss` what has happened since the last boot that may part directory and row: two
requests at once, a read, save or rename back that failed, a seeding that was cut short.
The properties name the one they need and are claimed for every other failure.

`up`, `Crash` and `Boot` are the process; `SeedProblems` is part of `Boot`, and so are
the directories of requests that a crash cut off, which it registers as problems
(`ghosts`). `job` is the part of a judging that looks at problems: the row at its
start, the directory at each container. A download has one name here: an upload as a
`.zip` after one as a `.tar.gz` leaves both in the code. The temporary file of the
upload is left out.

### The problem packages

Each module is a program that calls the operations of a solution in any order.
- `School`: the objects' fields and the virtual calls `admissions`, `dropouts`,
  `transfer` (which tests its argument and then makes two calls that test it again),
  `apply_growth`. A float is counted in halves; an int compared with a float is
  rounded to 24 bits first, as in the code.
- `Complex`: the sixteen operators, comparison, and `operator>>`, whose `sscanf`
  keeps what it converted before a mismatch. A double is one of the fractions that the
  constant `Float` lists, and each operation rounds its exact result as IEEE 754 does:
  to nearest, ties to even, and to infinity past the largest. So `x + y - y = x` and
  `x / y * y = x` are false here, as they are in the code, and are not claimed. The sign
  of zero is left out, and so are fused multiply-adds, which a compiler may use on
  processors that have them.
- `Url` has `URL.h` as a function from text to URL and back; `UrlMachine` has
  `URL2.h` as the machine it is, a step per character. A word that no rule looks into
  is one character.
- `Slice`: storage, iterator arithmetic, `map`/`filter`/`every`, and the loop over a
  slice or a `Range<FROM, TO>` one visit at a time, with writes through the reference.
- `Variant`: variables hold addresses of shared objects, `heap` says what lives
  there; the operators go through the conversions of `value.h`, of which the printed
  form with six digits is the one that loses something. Numbers are whole and at
  most 2^24; a negative zero and fractions are left out.
- `...Cases` state the shipped test cases as formulas over the same operators.

`School` also keeps a `span` per school, which no code has: what the large dropouts
alone, and the growth alone, would have made of the forecast of a public school, whose
shares do not commute.

The repository has no package 002. `template/` is what students get: the solutions
with holes and the same cases, apart from the divergences listed in section 3.

### TapReporter

What the student reads (`lines`) and what the judge reads (the exit code) of one
test run. The cases are plain, may fail or should fail; an assertion brings messages
and one of the results Catch knows, a check may be hidden (`CHECK_NOFAIL`), a case
may throw or the process may receive a signal, which is reported with the disposition
of the assertion before it (`lastOn`), so that after a `CHECK_NOFAIL` it does not count.
Of the vendored Catch (`runtime/test.h`) the model has what it calls the reporter with,
its totals, and how it computes the code.

## 3. What is checked

| Run | Question | Result |
|---|---|---|
| `engine_races` | types, and no stranded submission, under all races of two handlers, three workers and recovery | holds |
| `engine_faults` | slots and WaitGroup balanced, although statements fail and workers panic | holds |
| `engine_calm` | calm clients, two crashes or shutdowns: one worker per submission, one row per case, rows fit the verdict, finish time, `SubmissionLifecycle` | holds |
| `engine_live` | every judging ends, every `Enqueue` is served (`JobLedger`), also after a restart | holds |
| `pipeline_sound` | two judgings, crashes anywhere, a boot included: exit codes are the programs' own, own binary, truthful rows, verdict fits the rows, no leftover runs a program, no judging starts beside an orphan that the boot could remove | holds |
| `pipeline_live` | a judging of endless programs returns, and one that never does, because the daemon fell silent, waits at an inspection, whichever of its calls that belongs to | holds |
| `files` | two uploads, a deletion, a judging and a crash, with any call failing: a copy survives, row and directory agree, what is left has a cause, one version per judging; up to three extractions into one directory: same tree, limits of each | holds |
| `solutions` | the five packages and the reporter: shipped cases, and the laws below, for all short sequences of calls | holds |
| `rerun_race` | double execution by two `Rerun` requests | violated |
| `recovery_race` | two rows per case by recovery beside the server | violated |
| `accepted_with_errors` | accepted without every case passing | violated |
| `extract_recovery` | files in the wrong place after a crash in `flattenSingleRoot` | violated |

The properties of `solutions`, by package: 003 students are conserved and the
forecast follows class and dropouts (`StudentsConserved`, `ForecastFollowsDropouts`; for
a public school only bounds, since the order of its calls matters); 001 mixed operators
are one arithmetic to the last bit, the laws hold that survive rounding, and a read
takes both parts of a line `x = re + im*i` and leaves the imaginary part alone
otherwise (`AlgebraHolds`, `ReadBack`); 004 the two parsers recover every well-formed
URL, agree and leave no delimiter in a field (`UrlsAgree`); 005 loops and algorithms
see every element once, and end (`LoopsAreExact`, `LoopEnds`); 006 two values are never
neither equal nor unequal, and are both only where a string takes part or an int beside
a number that a stream prints short, sums lose only digits that a stream does not
print, copies are independent (`ConversionsAgree`, `CopiesIndependent`); the reporter's
lines are complete and the exit code says what they say (`LinesAreComplete`,
`ExitMatchesLines`).

**What the violated runs show.** Each checks what a comment or document says and
the code does not keep; `PROJECT.json` quotes the line.
1. `Rerun` reads the status and resets it in two statements: two requests for one
   finished submission both pass the check (`engine.go:158-164`).
2. Recovery's scan sees submissions created since the boot and enqueues them a
   second time (`engine.go:86`). Both doubles insert two sets of case rows.
3. `aggregate` ignores IE (`status.go:36-58`): cases that could not be run do not
   keep a submission from being accepted. The reachable worst case is a submission
   of which no case ran.
4. `flattenSingleRoot` moves entries one by one. After a crash in between, recovery
   extracts again: the single directory is no longer alone and stays, what was moved
   up stays beside it, and `Extract` reports success (`archive.go:206`). Without such
   a cut a judging again yields the whole tree (`RejudgingExtractsTheSame`).

**Further configurations.** Three more configurations show what the comments hope
for and the code does not keep; each ends in a counterexample.
- `StopRace.cfg` (`MCJudgeEngine`, `StopWaits`): the dispatcher holds a job and a slot
  before `wg.Add` (`engine.go:120-126`), so `Stop` may return before the last worker
  starts.
- `StoreFaults.cfg` (`MCJudgeEngine`, `RestartLeavesNoneStuck`): a failing scan ends
  recovery with a log line (`engine.go:94-97`), and an interrupted submission stays so.
- `InspectHangs.cfg` (`MCPipeline`, `JudgingLimited`): `ContainerInspect` runs under
  `context.Background()` (`docker.go:201`), which no limit of run or job reaches.

**What else the models say of the code**, where a property had to be stated with care:
- Two PUTs at once, or a PUT of the title alone beside one with a package, may leave
  the row with the cases of another version than the directory's, until the next
  boot; a crash between the two renames leaves the backup, and the next boot
  registers it as a problem of its own; a deleted problem returns at the next boot.
- A container that binds a problem between the two renames of a PUT makes its
  directory again, empty. Then neither version can be put there, the backup stays, and
  every judging sees an empty problem until an admin uploads it again: what the row says
  and what is bound differ although no request runs. `UndisturbedJobSeesOneVersion`
  and `SerialPutsAgree` therefore except a rename back that failed (`"roll back"` in
  `amiss`), and no boot repairs it. A failed save of the row is answered with 200
  (`problems.go:141`): the old case names are run against the new directory.
- An archive in which the single directory holds an entry of the directory's own
  name is refused the first time and accepted, incomplete, on a rerun.
- `School.h` compares a float with an int: beyond 2^24 students a school may let one
  more go than it has.
- `URL.h` looks for the path's "/" behind the query or fragment when there is no path,
  though the path is said to end before them (`template/URL.h:32`); `URL2.h` does not
  set the host without a path; on values with "=", pairs without "=", spaces and stray
  "%" the two differ.
- `template/include/operator.h:11-15` says string - string is `invalid_argument`, and
  the solution calculates when both texts are numbers; `!=` is documented as the
  negation of `==`, and the solution compares texts, so that 1 and "01" are equal and
  unequal; `template/include/variable.h:29-33` converts a long with `as<int>` and
  `as<bool>`, and the code throws. 1000000 + 1 is not 1000001, since numbers pass
  through their printed form.
- A TAP line for a warning takes a number that the plan does not count.

**Unambiguous names.** `findCaseBinary` takes the first file whose name ends with
`-` and the case (`pipeline.go:263-274`); its comment calls the suffix "specific
enough". The cases of a problem are the headers in `spec/`
(`problems.go:213-225`), its targets those of the CMakeLists, and neither an
upload nor a judging compares the two. `OwnBinary` and `RowsTruthful` therefore hold
for problems whose names are `Unambiguous`: a file that ends like a case is built
for it and for no other. Two ways to lose that: a case whose name ends with `-` and
the name of another; and a header in `spec/` without a target, of which an earlier
version of the problem has left the binary and configure has not removed it. The
instances contain such a version (`Unbuilt`), for which only the other properties
are claimed.

**Calm clients.** 1 and 2 break single execution, so the properties that rest on
it are checked under `CalmSpec`: no request arrives while recovery is at work and no
two requests work on one submission at a time. `NoLostJob` and `SlotAccounting`
need no such assumption. `VerdictMatchesRows` excepts IE when
workers may panic: the recover handler updates the status only.

**Bounds.** Two submissions and two handlers (or one) meet in every pair of
steps the code has; three workers with two slots let one submission have two
workers while another waits. `QueueCap = 1` makes the channel full with two jobs
under way, what 4096 jobs do in the code. One or two reruns give stale copies of
an earlier judging a later one to overwrite; one restart leaves a
state in the tables for recovery, two restarts (`engine_calm`) interrupt
recovery itself. Four container ids in `pipeline_live` hold the
current container and those whose creation or removal was cut short; two suffice in
`pipeline_sound`, where a call of `run` waits for a free id, and two crashes there cut a
judging and then the boot after it. Two judgings are what a leftover binary or row
needs, and the problem versions differ in their cases and targets. In `files` two
requests meet in
every pair of calls, one crash cuts any of them, and two versions tell apart what
is swapped from what is kept; the archives are those a rule of `Extract` looks at
(flat, single directory, junk, an entry named like its directory, a nested single
directory, a path outside, each limit crossed), with limits of 3 and 5 for sizes and 4
for entries, and three judgings with one crash are a torn extraction and what two
more make of it. In `solutions` two calls on three schools let a transfer meet a
refusal, three calculations of 001 reach operands that were rounded, over- and
underflowed (its doubles have five bits, `Top` of them from 0 on), `MaxVisits`
stops a loop that has passed its end, and the URLs have every part and every end of
three characters a host can have; two cases of two lines with two messages are what
the reporter's counters and iterator can confuse. `MaxReruns`,
`MaxRestarts`, `MaxCrashes`, `MaxJudgings`, `MaxKills`, `MaxCalls`, `MaxOps`, `MaxVisits`,
`MaxLength`, `MaxResults`, `MaxLines`, `MaxInfos`, `MaxCases`, `MaxExitCode`, `Top` and
the ids are the only bounds; when they are exhausted, the server is down or a program has
ended, a model may stop, hence `CHECK_DEADLOCK FALSE`. Submissions, handlers and
workers, and the ids, are symmetric; symmetry is used in safety runs only.

**Fairness.** A goroutine that can run does run: weak fairness of each handler's
remaining steps, of each sender, of the dispatcher, each worker, recovery, and of
the steps of a shutdown. Go's scheduler is preemptive and its channel queues are
FIFO, so a waiting sender is not overtaken for ever. Nothing is assumed of
requests, signals, crashes, or a new boot: the repository has no supervisor.
`JudgingEnds` is therefore conditional on the server staying up from some time
on. In `Container` timers fire, and requests are answered unless the daemon hangs;
even then a request whose context has ended returns. Programs need never end. In
`solutions` a program of package 005 goes on with its loop: nothing else runs in it,
so that `LoopEnds` is about the loop's own test.

## 4. What is proved

`JudgeEngineProofs`, for any finite set of workers and any sets of
submissions and handlers, any capacities and bounds:

- `TypeCorrect`: `Spec => []TypeOK`. Not just shapes: a goroutine at work is at
  work on a submission, and neither `sem` nor `wg` goes below zero.
- `SlotsBounded`: `Spec => [](SlotBound /\ SlotAccounting)`, with all faults: at most
  `MaxConcurrency` submissions are judged at a time, because every slot has an owner.
- `NothingLost`: `Spec => []NoLostJob` if `"store" \notin Faults`. This is the
  claim `recoverIncomplete` is written for, under every race, panic and restart.
- `EngineKeepsLedger`: `Spec => Ledger!Spec`, for which the module instantiates
  `JobLedger` as the run does: each `Enqueue` is judged once or lost with its process,
  and no judging begins that nobody asked for, whatever fails.

Assumptions: those the modules name, of which `ConcurrencyAssumption` is what
`config.go:88-90` ensures.

**The argument.** `SlotBound` is not inductive: a state may have a free slot in
`sem` that a worker uses. `SlotAccounting` ties `sem` to the workers that hold a
slot, plus one when the dispatcher stands between taking a slot and starting the
worker, and `wg` to the workers that live. `TypeOK` alone is not inductive
either, since `sem - 1` is a natural number only because the worker that returns a
slot is counted in it. So the invariant is `TypeOK /\ SlotAccounting /\ AtRest`,
the last saying that while the process is down nothing is in memory. The counting
steps use the cardinality facts of `FiniteSetTheorems`, once for each way a worker
enters or leaves `Judging` and `Living`.

`NoLostJob` needs one more conjunct, `CopyOK`: a worker past `begin` holds a copy
whose status is what its step will save, so that the row it writes is RUNNING
while it executes and a verdict when it leaves. With it each step either leaves
the carriers of a submission alone, passes it from one carrier to the next, or
changes its row to a status that needs none.

For the ledger, a step either moves one job from the sender to the channel, to the
dispatcher and to a worker, or leaves the counts of the ledger alone; what has to be
invariant is only that nothing is under way while the process is down (`Asleep`).

`JudgeEngineCalmProofs`, for the same constants, while clients are calm and no
statement fails, with panics, crashes and shutdowns:

- `NeverJudgedTwice`, `OneRowOfACase`, `RowsMatchTheVerdict`, `FinishedMeansVerdict`:
  `CalmSpec => []P` for `SingleExecution`, `OneRowPerCase`, `VerdictMatchesRows` and
  `FinishTime`.
- `EngineImplementsLifecycle`: `CalmSpec => FollowsLifecycle`, the refinement of
  `SubmissionLifecycle`: initial states are its initial states, each step is one of its
  steps or leaves all statuses alone.

**The argument** is one of ownership. None of the four is inductive: a worker that
saves may do harm only if another writes the row too. `Exclusive` says that the job
of a submission is in one of six places at most (request, sender, channel,
dispatcher, worker, recovery), and for each place an invariant says what the tables
look like when the job is there: `Ready` (PENDING, no case rows) up to the worker's
start, then the worker's own copy. Every step passes the job on or changes what its
owner may change. A request takes a job where there is none, since the status it
read is absent or a verdict, and this is where calm clients are needed; recovery
takes jobs only at a boot, when there is none anywhere (`Quiet`). With ownership the
refinement follows: whoever writes a row finds the status its write may follow.

`PipelineProofs`, for any sets of containers, cases, files, problems and programs,
any kind of daemon and any number of crashes and judgings:

- `PipelineTypeCorrect`: `PipelineSpec => []PipelineTypeOK`.
- `NoOrphans`, `CleanupComesFirst`: no leftover runs a program, and no judging starts
  beside an orphan, wherever the processes before it died, unless the daemon refused
  to list or remove it.
- `ExitCodesHonest`: `PipelineSpec => []ExitIsTheProgrammes`.
- `BinaryIsOwn`, `VerdictsFit`, `RowsAreTruthful`: the three claims about what a
  student sees, for problems with any number of cases.

Assumptions: those `Container` and `Pipeline` name, on constants only. What the
properties need of names is their own condition `Unambiguous`, and what they need
of the daemon is in `flaws`.

**The argument.** `TypeInv` adds to the types which stage is at which call
(`Shape`) and that there is no id before a container is created. The rest is
inductive relative to it, each for one reason. `Orphans`: the call that holds a
started container is the current one, and has removed it when it returns.
`CleanFirst`: while the server is down every orphan is in the daemon for the boot to list;
while it cleans up each is still on its list or was refused.
`HonestExits`: until the select is left by the end of the program, nobody has
killed its container, so what the inspection sees has been `Earned`; it is stated for the
binary in `run/`, so that it also serves the rows. `Built`: a build that
passes leaves under the name of each target a binary of this judging, so the file
found, being a target of the case alone, is its own. `Rowed`: rows are none or the
complete results. `VerdictsFit` then needs only that `aggregate` picks the worst
(`AggregateFacts`), and `RowsAreTruthful` that a case without a file has no target
(`MissingIsNotBuilt`). That the walk finds a first file at all is `LeastNatural`.

`ProblemStoreProofs`, for any requests and versions, any order, any crashes and any
failing calls:

- `StoreTypeCorrect`; `ReplacingKeepsACopy` and `LeftoversAreExplained`, for every
  interleaving, failure and crash.
- `RowFollowsDirectory`, `PlacesAgree`, `JudgingSeesOneVersion`, for requests that come
  one by one while nothing is `amiss` that the property does not allow.

**The argument.** `Tidy` adds to the types which directories and which package a
request has at each of its stages, and which dropped error or crash a leftover is due to
(`Blamed`). A lemma per step (`ExtractMoves` to `SaveRowMoves`) says from which stage to
which a request goes and what it drops on the way; the other invariants use these
only. `Copies` is `SomeCopySurvives` with the request that holds the copy. `Serial` says
that while requests come one by one the places agree, or the one request that runs
still has what it needs to make them agree, or a mishap is on record; `Undisturbed`
carries this into a judging.

`WorkspaceProofs`, for archives of any length with any paths and sizes, any limits and
any number of judgings and crashes:

- `RejudgingIsRepeatable`: `WorkspaceSpec => []RejudgingExtractsTheSame`.
- `DiskIsBounded`, `WorkspaceTypeCorrect`, and `FilesTypeCorrect` for the run's
  composition of the two modules.

**The argument.** `RejudgingExtractsTheSame` speaks of the end of an extraction;
`WorkInv` says what is in the directory on the way. While `flattenSingleRoot` is at
work each file of the archive is either below the single directory, under a name yet
to be moved, or already up (`HalfRaised` in `Raising`). Between extractions the tree is
the archive's own, or the flattened one, and nothing else (`Accounted`, `Settled`).
Hence an extraction into what an earlier one left meets paths of the same archive only,
makes every entry as it comes (`Extracted`), and is refused for nothing but what is in
the archive (`Excused`). For the disk, `Guarded` adds that an extraction that goes on has
not passed its total, since the total is checked only after a file is written.

`ProgrammeProofs`, about the problem packages, for any objects, amounts, numbers,
contents and lengths of a programme:

- 003: `SchoolTypeCorrect`, `ForecastIsTheClassRule`, `NoStudentLost`. `AllForetold` ties
  the forecast to the class and to the dropouts, `Spanned` that of a public school to its
  span, since the rounded share grows with the number it is taken of (`CeilGrows`); the
  action property needs that rounding to a float is exact up to 2^24.
- 006: `VariantTypeCorrect`; `CopiesAreIndependent`, for which `Owned` says that each held
  address has a live object and the rest are free, with a pigeonhole step: there is one
  address more than variables; and `ComparisonsAndSumsAgree`
  (`VariantSpec => []ConversionsAgree`): the double a value becomes is what its printed
  form is worth (`DoubleIsWorth`), so that values of one text are equal as numbers;
  values that are equal as numbers and differ as texts are a string or an int beside a
  number printed short (`ContradictionsAreMixed`), since printing in full loses nothing;
  and the digits below the sixth are all that a sum loses. Digits are a recursive function,
  and that reading undoes printing is shown by a least counterexample.
- 005: `SliceTypeCorrect`; `LoopsVisitEachOnce` (`LoopSeesEach`, `RangeIsInclusive`);
  `LoopsMissNothing` (`SliceSpec => []LoopsAreExact`). `Looping` says where the iterator
  is, what was seen before it and what is still as it was behind it. `map`, `filter`,
  `every`, `find_if` and `count_if` are folds over the places; a fold is the value at
  the last place of a function that is defined place by place (`FoldsExist`), and each
  of them has one lemma on what that function is after `n` places.
- 001: `ComplexTypeCorrect`; `PrefixedLinesAreReadWhole` (`ComplexSpec => ReadBack`): how
  far a scan comes decides which of its variables are set; `OneArithmetic`
  (`ComplexSpec => []AlgebraHolds`), for any finite list of doubles that has 0, 1 and the
  integers the programme passes. `Computing` is the invariant: both objects hold doubles
  (`TwoDoubles`), since rounding gives one whatever it is given (`Rounding`, from
  `NearestDouble`). A mixed operator leaves out terms with an operand 0, which the
  member operator adds or multiplies exactly (`MixedLaws`); commutation and the turned
  signs survive because the fraction that is rounded is the same or its opposite
  (`Survivors`); a number divided by itself is 1 because dividend and divisor are one
  double (`OverItself`). Lowest terms come from `Reduction`, by Euclid's recursion and
  its least counterexample (`GcdDivides`, `PairInduction`).

`UrlMachineProofs`, for any texts. `InputsAssumption` asks of a text that it does not hold
the end mark, the reason `URL2.h` gives for its choice, and, where the instance names the
URL that the text was written from, that this URL is well formed and that the decoded text
is its location; which of its characters are escaped is left open:

- `PartsSettleInOrder`: `MachineSpec => FieldsSettle`, a statement no run needs beside
  `UrlsAgree`: the machine never writes a part that it has left. From `Formed`, since
  writing a field by EXCEPT leaves the others alone only in a URL that has them.
- `FieldsEndAtDelimiters`: `MachineSpec => []FieldsAreDelimited`, the part of `UrlsAgree`
  that speaks of every text, and `MachineTypeCorrect`. `Reading` says that the mark is the
  last character to come and no other (`Buffered`), so that a buffer holds nothing the
  state would have ended it at, and a field is such a buffer (`Delimited`).
- `SolutionsReadAlike`: `MachineSpec => []UrlsAgree`. The parser of `URL.h` recovers every
  well-formed URL, the machine of `URL2.h` ends with the same one, and both write the
  decoded text again, for any number of path segments, parameters and values of one. One
  solution searches the whole text for each delimiter and cuts, the other reads it
  once, character by character; what they share is the shape of a location, a chain of
  items each behind its delimiter (`Chain`, `Layout`; `LocationsAgree`: both solutions
  write the same one). Its delimiters stand nowhere else (`Clean`), which makes every
  search of `URL::from` find the intended place (`FromReads`). For the machine,
  `Follows` is the invariant: it says in which item of the chain the machine is, that the
  buffer is what it has read of it, and that each earlier item is in its field. `Agreeing`,
  which is `Follows` of the URL a text was written from, is inductive together with `Reading`.

`SolutionsProofs`, about the reporter, for runs of any length: `ReportIsComplete`,
`VerdictIsWhatTheLinesSay`, `TapTypeCorrect`. `Shape` (which messages are still to print),
`Faithful` (each line was printed with the messages it should have), `Tally` (counter and totals are
counts of the lines), and `Blame` (failures are counted where a line blames a case). And about the run's
composition, `SolutionsTypeCorrect`: the six types side by side, since one programme's
step leaves the others where they are (`SolutionsAreSix`).

## 5. What is only model-checked

- Everything that must happen some time (`JudgingEnds`, `JudgingReturns`,
  `OnlyInspectWaits`, `LoopEnds`): liveness, fairness and `ENABLED` are beyond the prover.
  Of `JobsServed` the refinement is proved (`EngineKeepsLedger`) and the fairness of the
  ledger, that no debt waits for ever, is checked.
- The shipped cases (`ShippedCasesPass`): evaluations of closed formulas, for which
  TLC is the right tool.
- The findings: each is one counterexample.

## 6. What is not modelled

- Accounts and access (`users.go`, `internal/auth`, middleware): each handler is one or
  two statements on one row, the unique index decides the race of two registrations,
  and a token is checked without state; what is left is cryptography.
- Statistics and the reading routes of submissions and problems: single queries that
  change nothing. A reader may see a row and its case rows of different moments;
  `VerdictMatchesRows` says what each moment looks like.
- Configuration (read once; its lower bound of slots is `ConcurrencyAssumption`), the
  database connection and migration, identifiers, documents and routes.
- Log files and the summary message, which decide nothing; the configuration of a
  container, network and image set-up, whose failure is only logged; multipart parsing
  and upload limits; GORM and PostgreSQL beyond one atomic statement at a time.
- The vendored test frameworks (Catch, doctest) beyond what `TapReporter` needs, the
  students' templates beyond the divergences above, CMake beyond what `Pipeline` assumes.

## 7. How the project was built, and what could follow

Engine, then containers and pipeline, then the directories, then the packages; each
was model-checked before anything was proved about it. `Slice` writes "the derived
elements stay in order" with ranks instead of a filtered sequence, so that the property
and its proof speak of places. What could follow: a refinement of an
abstract problem (one version, replaced atomically) under serial requests, the composition
of `Workspace` with `Pipeline`'s first stage, a reader of submissions as a process, and the
fractions that `Variant` leaves out.
