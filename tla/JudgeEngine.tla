----------------------------- MODULE JudgeEngine -----------------------------
(***************************************************************************)
(* The asynchronous judging engine (internal/judge/engine.go) together     *)
(* with the HTTP handlers that feed it, the database rows it reads and     *)
(* writes, and the life of the server process (cmd/server/main.go).        *)
(*                                                                         *)
(* Every goroutine is a process with a program counter: the HTTP handlers, *)
(* the goroutine each Enqueue starts, the dispatcher, one worker goroutine *)
(* per job, and the recovery goroutine of a boot. A step is the code up to *)
(* the next access to shared state: one statement on the database, one     *)
(* channel operation, one change of the WaitGroup.                         *)
(*                                                                         *)
(* What happens inside the containers of a job is abstracted here to the   *)
(* verdict it ends in (see Pipeline).                                      *)
(***************************************************************************)
EXTENDS Verdict

CONSTANTS
  Subs,            \* submission ids (operatorId)
  NoSub,           \* not a submission id
  Handlers,        \* HTTP handler goroutines
  Workers,         \* names for worker goroutines
  MaxConcurrency,  \* JUDGE_MAX_CONCURRENCY, the capacity of sem
  QueueCap,        \* capacity of the jobs channel (4096 in the code)
  CaseVerdicts,    \* verdicts that running the cases may end in
  FailVerdicts,    \* verdicts that a stage before the cases may end in
  Faults,          \* which faults happen: "store", a statement fails; "panic"
  MaxReruns,       \* bound: accepted Rerun requests
  MaxRestarts      \* bound: terminations of the server process

ASSUME SubsAssumption == NoSub \notin Subs
ASSUME ConcurrencyAssumption == MaxConcurrency \in Nat \ {0}
ASSUME QueueAssumption == QueueCap \in Nat \ {0}
ASSUME WorkersAssumption == IsFiniteSet(Workers)
ASSUME VerdictsAssumption == /\ CaseVerdicts \subseteq Verdicts
                             /\ FailVerdicts \subseteq Verdicts
ASSUME FaultsAssumption == Faults \subseteq {"store", "panic"}
ASSUME BoundsAssumption == MaxReruns \in Nat /\ MaxRestarts \in Nat

VARIABLES
  phase,       \* the server process: up, draining, stopping, stopped, down
  row,         \* the submissions table: status, and whether finished_at is set
  results,     \* the case_results table: per submission, the batches of rows
               \* stored, oldest first, each by the verdict it aggregates to
  handler,     \* per HTTP handler: where it is and on which submission
  sends,       \* per submission, the goroutines of Enqueue not yet ended
  jobs,        \* the jobs channel
  dispatcher,  \* the dispatcher: where it is and the job it holds
  sem,         \* slots of the semaphore that are taken
  wg,          \* the WaitGroup's counter
  worker,      \* per worker goroutine: where it is, its submission and its
               \* in-memory copy of the row
  recovery,    \* recoverIncomplete: where it is, the listed submissions still
               \* to do, and the one at hand
  reruns, restarts  \* counters of the bounds

tables == <<row, results>>
queue == <<sends, jobs>>
dispatch == <<dispatcher, sem, wg>>
bounds == <<reruns, restarts>>

vars == <<phase, tables, handler, queue, dispatch, worker, recovery, bounds>>

\* A submission's row. NoRow also stands for a worker that holds no copy.
Row == [status : {"absent"} \cup Status, finished : BOOLEAN]
NoRow == [status |-> "absent", finished |-> FALSE]
PendingRow == [status |-> "PENDING", finished |-> FALSE]

IdleHandler == [pc |-> "idle", sub |-> NoSub]
NoWorker == [pc |-> "none", sub |-> NoSub, row |-> NoRow]
\* Recovery with nothing left on its list: the goroutine has returned.
NoRecovery == [pc |-> "reset", todo |-> {}, cur |-> NoSub]

\* A goroutine that is at work is at work on a submission.
BusyHandler == [pc : {"reset", "clear", "enqueue"}, sub : Subs]
BusyWorker ==
  [pc : {"load", "begin", "stages", "cases", "finish", "release", "done"},
   sub : Subs, row : Row]
Dispatcher == [pc : {"receive", "quit"}, sub : {NoSub}]
                \cup [pc : {"acquire", "spawn"}, sub : Subs]
Recovery == [pc : {"scan", "reset"}, todo : SUBSET Subs, cur : {NoSub}]
              \cup [pc : {"clear", "enqueue"}, todo : SUBSET Subs, cur : Subs]

TypeOK ==
  /\ phase \in {"up", "draining", "stopping", "stopped", "down"}
  /\ row \in [Subs -> Row]
  /\ results \in [Subs -> Seq(Verdicts)]
  /\ handler \in [Handlers -> {IdleHandler} \cup BusyHandler]
  /\ sends \in [Subs -> Nat]
  /\ jobs \in Seq(Subs)
  /\ dispatcher \in Dispatcher
  /\ sem \in Nat
  /\ wg \in Nat
  /\ worker \in [Workers -> {NoWorker} \cup BusyWorker]
  /\ recovery \in Recovery
  /\ reruns \in Nat
  /\ restarts \in Nat

\* The server has booted on an empty database.
Init ==
  /\ phase = "up"
  /\ row = [s \in Subs |-> NoRow]
  /\ results = [s \in Subs |-> <<>>]
  /\ handler = [h \in Handlers |-> IdleHandler]
  /\ sends = [s \in Subs |-> 0]
  /\ jobs = <<>>
  /\ dispatcher = [pc |-> "receive", sub |-> NoSub]
  /\ sem = 0
  /\ wg = 0
  /\ worker = [w \in Workers |-> NoWorker]
  /\ recovery = [pc |-> "scan", todo |-> {}, cur |-> NoSub]
  /\ reruns = 0
  /\ restarts = 0

------------------------------------------------------------------------------
(* The database statements. A failed statement changes nothing, and every   *)
(* caller but Rerun's update ignores the error.                             *)

StoreFault == "store" \in Faults /\ UNCHANGED tables

\* UPDATE of submission s to r.
Write(s, r) == row' = [row EXCEPT ![s] = r] /\ UNCHANGED results

\* The update of Rerun and of recovery: PENDING again, times cleared. It has no
\* condition on the status.
ResetKeepsTimes(s) == Write(s, [row[s] EXCEPT !.status = "PENDING"])
Reset(s) == Write(s, PendingRow)

\* DELETE of the case results of s.
ClearNothing(s) == UNCHANGED tables
ClearResults(s) == results' = [results EXCEPT ![s] = <<>>] /\ UNCHANGED row

\* INSERT of a batch of case results of s.
StoreResults(s, v) ==
  results' = [results EXCEPT ![s] = Append(@, v)] /\ UNCHANGED row

\* Engine.Enqueue: a goroutine of its own does the send.
Enqueue(s) == sends' = [sends EXCEPT ![s] = @ + 1]

\* The engine's context is derived from the signal's: it is done from the
\* signal on, before Stop cancels it.
CtxDone == phase \in {"draining", "stopping", "stopped"}

------------------------------------------------------------------------------
(* HTTP handlers. New requests are accepted until http.Server.Shutdown has  *)
(* closed the listener.                                                     *)

Listening == phase \in {"up", "draining"}

\* CreateSubmission stores the row of a fresh id; Enqueue is a later step. A
\* failed insert answers 500 and changes nothing.
CreateSubmission(h, s) ==
  /\ Listening
  /\ handler[h].pc = "idle"
  /\ row[s] = NoRow
  /\ Write(s, PendingRow)
  /\ handler' = [handler EXCEPT ![h] = [pc |-> "enqueue", sub |-> s]]
  /\ UNCHANGED <<phase, queue, dispatch, worker, recovery, bounds>>

\* Rerun refuses a submission that is PENDING or RUNNING.
RefusesPendingOnly(s) == row[s].status \notin {"absent", "PENDING"}
Rerunnable(s) == row[s].status \in Verdicts

\* Rerun reads the status and goes on only when the judging has ended; the
\* refusals (404, 409) change nothing.
RerunCheck(h, s) ==
  /\ Listening
  /\ reruns < MaxReruns
  /\ handler[h].pc = "idle"
  /\ Rerunnable(s)
  /\ handler' = [handler EXCEPT ![h] = [pc |-> "reset", sub |-> s]]
  /\ reruns' = reruns + 1
  /\ UNCHANGED <<phase, tables, queue, dispatch, worker, recovery, restarts>>

\* The update. Its error is the one the code returns: the request ends (500).
RerunReset(h) ==
  /\ handler[h].pc = "reset"
  /\ \/ /\ Reset(handler[h].sub)
        /\ handler' = [handler EXCEPT ![h].pc = "clear"]
     \/ /\ StoreFault
        /\ handler' = [handler EXCEPT ![h] = IdleHandler]
  /\ UNCHANGED <<phase, queue, dispatch, worker, recovery, bounds>>

RerunClear(h) ==
  /\ handler[h].pc = "clear"
  /\ ClearResults(handler[h].sub) \/ StoreFault
  /\ handler' = [handler EXCEPT ![h].pc = "enqueue"]
  /\ UNCHANGED <<phase, queue, dispatch, worker, recovery, bounds>>

\* The Enqueue that ends both CreateSubmission and Rerun.
HandlerEnqueue(h) ==
  /\ handler[h].pc = "enqueue"
  /\ Enqueue(handler[h].sub)
  /\ handler' = [handler EXCEPT ![h] = IdleHandler]
  /\ UNCHANGED <<phase, tables, jobs, dispatch, worker, recovery, bounds>>

------------------------------------------------------------------------------
(* The queue and the dispatcher.                                            *)

\* (mutant: a send that does not wait)
SendOrDrop(s) ==
  /\ sends[s] > 0
  /\ sends' = [sends EXCEPT ![s] = @ - 1]
  /\ jobs' = IF Len(jobs) < QueueCap THEN Append(jobs, s) ELSE jobs
  /\ UNCHANGED <<phase, tables, handler, dispatch, worker, recovery, bounds>>

\* A goroutine of Enqueue sends its job; when the channel is full it waits.
EnqueueSend(s) ==
  /\ sends[s] > 0
  /\ Len(jobs) < QueueCap
  /\ sends' = [sends EXCEPT ![s] = @ - 1]
  /\ jobs' = Append(jobs, s)
  /\ UNCHANGED <<phase, tables, handler, dispatch, worker, recovery, bounds>>

\* The other branch of its select: the job is dropped.
EnqueueDrop(s) ==
  /\ CtxDone
  /\ sends[s] > 0
  /\ sends' = [sends EXCEPT ![s] = @ - 1]
  /\ UNCHANGED <<phase, tables, handler, jobs, dispatch, worker, recovery,
                 bounds>>

\* Also enabled when the context is done: select takes any ready branch.
DispatchReceive ==
  /\ dispatcher.pc = "receive"
  /\ jobs # <<>>
  /\ dispatcher' = [pc |-> "acquire", sub |-> Head(jobs)]
  /\ jobs' = Tail(jobs)
  /\ UNCHANGED <<phase, tables, handler, sends, sem, wg, worker, recovery,
                 bounds>>

SlotFree == sem < MaxConcurrency

\* The job waits, still PENDING, for a slot of the semaphore.
DispatchAcquire ==
  /\ dispatcher.pc = "acquire"
  /\ SlotFree
  /\ sem' = sem + 1
  /\ dispatcher' = [dispatcher EXCEPT !.pc = "spawn"]
  /\ UNCHANGED <<phase, tables, handler, queue, wg, worker, recovery, bounds>>

\* wg.Add(1) and the go statement.
DispatchSpawn(w) ==
  /\ dispatcher.pc = "spawn"
  /\ worker[w].pc = "none"
  /\ wg' = wg + 1
  /\ worker' = [worker EXCEPT ![w] = [pc |-> "load", sub |-> dispatcher.sub,
                                      row |-> NoRow]]
  /\ dispatcher' = [pc |-> "receive", sub |-> NoSub]
  /\ UNCHANGED <<phase, tables, handler, queue, sem, recovery, bounds>>

\* Either select sees the context done: the dispatcher returns, and the job
\* it may hold is dropped.
DispatchQuit ==
  /\ CtxDone
  /\ dispatcher.pc \in {"receive", "acquire"}
  /\ dispatcher' = [pc |-> "quit", sub |-> NoSub]
  /\ UNCHANGED <<phase, tables, handler, queue, sem, wg, worker, recovery,
                 bounds>>

------------------------------------------------------------------------------
(* A worker goroutine: process and pipeline.Run on one job. The worker reads *)
(* the row once and saves its own copy, every column of it.                  *)

\* The worker goes on at pc with r as its copy of the row.
Goes(w, pc, r) ==
  worker' = [worker EXCEPT ![w] = [pc |-> pc, sub |-> @.sub, row |-> r]]

\* (mutant: a return that skips the release)
LeaveKeepingSlot(w) == Goes(w, "done", NoRow)

\* The worker ends process; it still holds its slot of the semaphore.
Leave(w) == Goes(w, "release", NoRow)

\* Save of the worker's copy with these values.
Save(w, status, finished) ==
  Write(worker[w].sub, [status |-> status, finished |-> finished])

\* fail: the verdict and the finish time are saved, the error is ignored.
Fail(w, v) ==
  /\ Save(w, v, TRUE) \/ StoreFault
  /\ Leave(w)

EngineUnchanged == UNCHANGED <<phase, handler, queue, dispatch, recovery, bounds>>

\* The submission's row is read, whatever its status is.
WorkerLoad(w) ==
  /\ worker[w].pc = "load"
  /\ row[worker[w].sub] # NoRow
  /\ Goes(w, "begin", row[worker[w].sub])
  /\ EngineUnchanged
  /\ UNCHANGED tables

\* The row is not found or cannot be read: the job ends with a log line.
WorkerLoadFails(w) ==
  /\ worker[w].pc = "load"
  /\ row[worker[w].sub] = NoRow \/ "store" \in Faults
  /\ Leave(w)
  /\ EngineUnchanged
  /\ UNCHANGED tables

\* The problem of the submission is gone (DeleteProblem), or its read fails.
ProblemMissing(w) ==
  /\ worker[w].pc = "begin"
  /\ Fail(w, "IE")
  /\ EngineUnchanged

\* pipeline.Run starts: the row, as it was read, is saved with RUNNING.
WorkerBegin(w) ==
  /\ worker[w].pc = "begin"
  /\ Save(w, "RUNNING", worker[w].row.finished) \/ StoreFault
  /\ Goes(w, "stages", [worker[w].row EXCEPT !.status = "RUNNING"])
  /\ EngineUnchanged

\* Workspace, extraction, configure, build, or the list of cases fails. The
\* case results of an earlier judging are left as they are.
StageFails(w, v) ==
  /\ worker[w].pc = "stages"
  /\ Fail(w, v)
  /\ EngineUnchanged

\* The program is built: old case results are deleted before the cases run.
StagesPass(w) ==
  /\ worker[w].pc = "stages"
  /\ ClearResults(worker[w].sub) \/ StoreFault
  /\ Goes(w, "cases", worker[w].row)
  /\ EngineUnchanged

\* The cases have run and their rows are inserted.
StoreCases(w, v) ==
  /\ worker[w].pc = "cases"
  /\ StoreResults(worker[w].sub, v) \/ StoreFault
  /\ Goes(w, "finish", [worker[w].row EXCEPT !.status = v])
  /\ EngineUnchanged

\* The aggregated verdict and the finish time are saved.
Finish(w) ==
  /\ worker[w].pc = "finish"
  /\ Save(w, worker[w].row.status, TRUE) \/ StoreFault
  /\ Leave(w)
  /\ EngineUnchanged

\* A panic anywhere in process: only the status (and message) is updated.
Panic(w) ==
  /\ "panic" \in Faults
  /\ worker[w].pc \in {"load", "begin", "stages", "cases", "finish"}
  /\ \/ Write(worker[w].sub, [row[worker[w].sub] EXCEPT !.status = "IE"])
     \/ StoreFault
  /\ Leave(w)
  /\ EngineUnchanged

\* The deferred calls of the goroutine, last one first.
ReleaseSlot(w) ==
  /\ worker[w].pc = "release"
  /\ sem' = sem - 1
  /\ Goes(w, "done", NoRow)
  /\ UNCHANGED <<phase, tables, handler, queue, dispatcher, wg, recovery, bounds>>

DoneTwice == wg' = wg - 2
Done == wg' = wg - 1

WorkerDone(w) ==
  /\ worker[w].pc = "done"
  /\ Done
  /\ worker' = [worker EXCEPT ![w] = NoWorker]
  /\ UNCHANGED <<phase, tables, handler, queue, dispatcher, sem, recovery, bounds>>

------------------------------------------------------------------------------
(* recoverIncomplete, the goroutine Start leaves running beside the server. *)

Incomplete == {s \in Subs : row[s].status \in Unfinished}

RecoveryUnchanged == UNCHANGED <<phase, handler, jobs, dispatch, worker, bounds>>

\* The list is read once; when the scan fails the goroutine returns.
RecoverScan ==
  /\ recovery.pc = "scan"
  /\ \/ recovery' = [NoRecovery EXCEPT !.todo = Incomplete]
     \/ "store" \in Faults /\ recovery' = NoRecovery
  /\ RecoveryUnchanged
  /\ UNCHANGED <<tables, sends>>

\* The next of the list (its order is the database's) becomes PENDING
\* again, whatever has happened to it since the scan.
RecoverReset(s) ==
  /\ recovery.pc = "reset"
  /\ s \in recovery.todo
  /\ Reset(s) \/ StoreFault
  /\ recovery' = [pc |-> "clear", todo |-> recovery.todo \ {s}, cur |-> s]
  /\ RecoveryUnchanged
  /\ UNCHANGED sends

\* (mutant: recovery forgets the case results)
RecoverKeepsRows ==
  /\ recovery.pc = "clear"
  /\ UNCHANGED tables
  /\ recovery' = [recovery EXCEPT !.pc = "enqueue"]
  /\ RecoveryUnchanged
  /\ UNCHANGED sends

RecoverClear ==
  /\ recovery.pc = "clear"
  /\ ClearResults(recovery.cur) \/ StoreFault
  /\ recovery' = [recovery EXCEPT !.pc = "enqueue"]
  /\ RecoveryUnchanged
  /\ UNCHANGED sends

RecoverEnqueue ==
  /\ recovery.pc = "enqueue"
  /\ Enqueue(recovery.cur)
  /\ recovery' = [recovery EXCEPT !.pc = "reset", !.cur = NoSub]
  /\ RecoveryUnchanged
  /\ UNCHANGED tables

------------------------------------------------------------------------------
(* The server process. What is in memory is lost when it ends, the tables   *)
(* stay.                                                                    *)

GoroutinesUnchanged ==
  UNCHANGED <<tables, handler, queue, dispatch, worker, recovery, bounds>>

\* SIGTERM: the context is done, main goes on to http.Server.Shutdown.
Signal ==
  /\ phase = "up"
  /\ restarts < MaxRestarts
  /\ phase' = "draining"
  /\ GoroutinesUnchanged

\* Shutdown returns, the handlers idle or its 15 seconds over; main calls Stop.
ShutdownReturns ==
  /\ phase = "draining"
  /\ phase' = "stopping"
  /\ GoroutinesUnchanged

\* Stop's wg.Wait returns.
StopReturns ==
  /\ phase = "stopping"
  /\ wg = 0
  /\ phase' = "stopped"
  /\ GoroutinesUnchanged

\* The process ends: main has returned, or it crashed or was killed.
Exit ==
  /\ \/ phase = "stopped"
     \/ phase # "down" /\ restarts < MaxRestarts
  /\ phase' = "down"
  /\ handler' = [h \in Handlers |-> IdleHandler]
  /\ sends' = [s \in Subs |-> 0]
  /\ jobs' = <<>>
  /\ dispatcher' = [pc |-> "quit", sub |-> NoSub]
  /\ sem' = 0
  /\ wg' = 0
  /\ worker' = [w \in Workers |-> NoWorker]
  /\ recovery' = NoRecovery
  /\ UNCHANGED <<tables, bounds>>

\* main runs again: Start starts the dispatcher and the recovery goroutine.
Boot ==
  /\ phase = "down"
  /\ phase' = "up"
  /\ restarts' = restarts + 1
  /\ dispatcher' = [pc |-> "receive", sub |-> NoSub]
  /\ recovery' = [pc |-> "scan", todo |-> {}, cur |-> NoSub]
  /\ UNCHANGED <<tables, handler, queue, sem, wg, worker, reruns>>

------------------------------------------------------------------------------
HandlerStep(h) == RerunReset(h) \/ RerunClear(h) \/ HandlerEnqueue(h)

Request(h) == \E s \in Subs : CreateSubmission(h, s) \/ RerunCheck(h, s)

DispatchStep ==
  \/ DispatchReceive \/ DispatchAcquire \/ DispatchQuit
  \/ \E w \in Workers : DispatchSpawn(w)

WorkerStep(w) ==
  \/ WorkerLoad(w) \/ WorkerLoadFails(w) \/ ProblemMissing(w)
  \/ WorkerBegin(w) \/ StagesPass(w)
  \/ \E v \in FailVerdicts : StageFails(w, v)
  \/ \E v \in CaseVerdicts : StoreCases(w, v)
  \/ Finish(w) \/ Panic(w) \/ ReleaseSlot(w) \/ WorkerDone(w)

RecoverStep ==
  \/ RecoverScan \/ RecoverClear \/ RecoverEnqueue
  \/ \E s \in Subs : RecoverReset(s)

ProcessStep == Signal \/ ShutdownReturns \/ StopReturns \/ Exit \/ Boot

Next ==
  \/ \E h \in Handlers : Request(h) \/ HandlerStep(h)
  \/ \E s \in Subs : EnqueueSend(s) \/ EnqueueDrop(s)
  \/ DispatchStep
  \/ \E w \in Workers : WorkerStep(w)
  \/ RecoverStep
  \/ ProcessStep

Spec == Init /\ [][Next]_vars

\* Go runs every goroutine that can run. Requests, signals and crashes need
\* not happen, and nothing in the repository starts a stopped server again.
Fairness ==
  /\ \A h \in Handlers : WF_vars(HandlerStep(h))
  /\ \A s \in Subs : WF_vars(EnqueueSend(s))
  /\ WF_vars(DispatchStep)
  /\ \A w \in Workers : WF_vars(WorkerStep(w))
  /\ WF_vars(RecoverStep)
  /\ WF_vars(ShutdownReturns) /\ WF_vars(StopReturns)
  /\ WF_vars(Exit /\ phase = "stopped")

FairSpec == Spec /\ Fairness

------------------------------------------------------------------------------
(* Safety under every interleaving of requests, workers and recovery.       *)

\* Goroutines that hold a slot of the semaphore.
Judging == {w \in Workers : worker[w].pc \notin {"none", "done"}}

\* Goroutines that have not ended.
Living == {w \in Workers : worker[w].pc # "none"}

\* At most JUDGE_MAX_CONCURRENCY submissions are judged at a time: the slot is
\* taken before the goroutine starts and returned only after process ends,
\* however it ends (engine.go:121-131).
SlotBound == Cardinality(Judging) <= MaxConcurrency

\* Why SlotBound holds: every taken slot belongs to a worker, or to the
\* dispatcher between taking it and starting the worker, whatever path the
\* worker leaves by; and the WaitGroup counts the goroutines that live.
SlotAccounting ==
  /\ sem <= MaxConcurrency
  /\ sem = Cardinality(Judging) + (IF dispatcher.pc = "spawn" THEN 1 ELSE 0)
  /\ wg = Cardinality(Living)

\* Someone will still bring s to a worker, or a worker has it and has not yet
\* saved RUNNING.
Carried(s) ==
  \/ \E h \in Handlers : /\ handler[h].sub = s
                         /\ handler[h].pc \in {"clear", "enqueue"}
  \/ sends[s] > 0
  \/ \E i \in 1..Len(jobs) : jobs[i] = s
  \/ dispatcher.sub = s
  \/ \E w \in Workers : worker[w].sub = s /\ worker[w].pc \in {"load", "begin"}
  \/ recovery.cur = s

\* recoverIncomplete has yet to reset s.
Recoverable(s) == recovery.pc = "scan" \/ s \in recovery.todo

\* A worker has saved RUNNING for s and its verdict is still to come.
Executing(s) ==
  \E w \in Workers : /\ worker[w].sub = s
                     /\ worker[w].pc \in {"stages", "cases", "finish"}

\* While the server is up no submission is stranded: a PENDING one is on its
\* way to a worker, a RUNNING one has a worker, or recovery will reset it. It
\* must hold although Rerun, recovery and stale workers overwrite each other's
\* rows: an engine that lost the job of a PENDING row would leave the user
\* with a submission that Rerun refuses (engine.go:161) until a restart.
NoLostJob ==
  phase = "up" =>
    \A s \in Subs :
      /\ row[s].status = "PENDING" => Carried(s) \/ Recoverable(s)
      /\ row[s].status = "RUNNING" => Executing(s) \/ Recoverable(s)

\* Judgings that Enqueue has promised and no worker has started.
Owed(s) == sends[s] + Cardinality({i \in 1..Len(jobs) : jobs[i] = s})
                    + (IF dispatcher.sub = s THEN 1 ELSE 0)

\* Workers inside process on s.
InProcess(s) ==
  {w \in Workers : worker[w].sub = s /\ worker[w].pc \notin {"release", "done"}}

\* The state of the engine as its callers may think of it.
Serving == phase = "up"
OwedJobs == [s \in Subs |-> Owed(s)]
RunningJobs == [s \in Subs |-> Cardinality(InProcess(s))]

Ledger == INSTANCE JobLedger
  WITH serving <- Serving, owed <- OwedJobs, running <- RunningJobs

\* Every Enqueue is judged exactly once while the server is up, whichever
\* goroutine the job waits in - sender, channel, dispatcher - and it is judged
\* eventually: a full channel or semaphore only delays it (engine.go:115-152).
JobsServed == Ledger!FairSpec

\* If the server stays up from some time on, every PENDING or RUNNING
\* submission reaches a verdict, those a crash interrupted included
\* (engine.go:85-86).
JudgingEnds ==
  <>[](phase = "up") =>
    \A s \in Subs : row[s].status \in Unfinished ~> row[s].status \in Verdicts

------------------------------------------------------------------------------
(* What holds when the clients are calm: no request arrives while recovery  *)
(* runs, and no two requests work on the same submission at the same time.  *)

RecoveryEnded == recovery = NoRecovery

Arrives(h) == handler[h].pc = "idle" /\ handler'[h].pc # "idle"

AfterRecovery == (\E h \in Handlers : Arrives(h)) => RecoveryEnded

OneRequestPerSub ==
  \A h, g \in Handlers : Arrives(h) /\ g # h => handler[g].sub # handler'[h].sub

CalmSpec == Init /\ [][Next /\ AfterRecovery /\ OneRequestPerSub]_vars

\* One of the two alone.
AfterRecoverySpec == Init /\ [][Next /\ AfterRecovery]_vars
OneRequestSpec == Init /\ [][Next /\ OneRequestPerSub]_vars

\* A submission is never judged by two workers at once (engine.go:15-16,
\* 154-155: Rerun refuses what is not finished to avoid double execution).
SingleExecution ==
  \A v, w \in Workers :
    v # w /\ worker[v].sub = worker[w].sub /\ worker[v].sub # NoSub =>
      worker[v].pc \in {"release", "done"} \/ worker[w].pc \in {"release", "done"}

\* Every case of a submission has at most one row (ERD.md:58).
OneRowPerCase == \A s \in Subs : Len(results[s]) <= 1

\* A finished submission shows the verdict of the case rows stored with it, or
\* no case rows at all: no rows of an earlier judging survive below a new
\* verdict, whichever stage ended the new one and whatever crash came between
\* the two. Only a panic may leave rows below IE.
VerdictMatchesRows ==
  \A s \in Subs : row[s].status \in Verdicts =>
    \/ results[s] = <<>>
    \/ results[s] = <<row[s].status>>
    \/ "panic" \in Faults /\ row[s].status = "IE"

\* A submission that is not finished has no finish time: no worker saves the
\* copy it read of a finished row.
FinishTime == \A s \in Subs : row[s].finished => row[s].status \in Verdicts

\* What a user sees of the submissions.
Statuses == [s \in Subs |-> row[s].status]

Lifecycle == INSTANCE SubmissionLifecycle WITH status <- Statuses

\* The status a user sees follows the documented state machine (ERD.md:57):
\* no verdict changes without a Rerun, no judging restarts without a crash.
FollowsLifecycle == Lifecycle!Spec

------------------------------------------------------------------------------
(* What the comments and documents say and the code does not keep.          *)

\* When the recovery of a restart is over no submission is stuck
\* (engine.go:89-90). It fails when a database statement fails.
RestartLeavesNoneStuck == restarts > 0 /\ RecoveryEnded => NoLostJob

\* When Stop has returned no judging is going on ("Stop stops dispatching and
\* waits for the judgings in progress to end", engine.go:136).
StopWaits == phase = "stopped" => Judging = {}
==============================================================================
