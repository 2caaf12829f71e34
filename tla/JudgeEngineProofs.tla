-------------------------- MODULE JudgeEngineProofs --------------------------
(***************************************************************************)
(* Proofs about JudgeEngine for every value of its constants: any number   *)
(* of submissions, handlers and workers, any capacity, any bound.          *)
(*                                                                         *)
(* TypeCorrect and SlotsBounded rest on one inductive invariant, TypeOK /\ *)
(* SlotAccounting /\ AtRest. NothingLost adds CopyOK and NoLostJob itself, *)
(* which is inductive once each actor is shown to hand a job over before   *)
(* it lets go of it.                                                       *)
(*                                                                         *)
(* EngineKeepsLedger is the refinement of JobLedger: each step of an actor *)
(* owes, starts, ends or drops one judging of the ledger, or moves a job   *)
(* inside the engine.  It needs one invariant more, Asleep: while the      *)
(* process is down no goroutine has a program counter to go on from, so    *)
(* that a boot owes nothing of the process before.                         *)
(***************************************************************************)
EXTENDS JudgeEngine, FiniteSetTheorems, TLAPS

\* The rows the statements write are rows.
LEMMA RowFacts ==
  /\ NoRow \in Row /\ PendingRow \in Row
  /\ \A st \in Status, f \in BOOLEAN : [status |-> st, finished |-> f] \in Row
  /\ \A r \in Row : /\ r.finished \in BOOLEAN
                    /\ \A st \in Status : [r EXCEPT !.status = st] \in Row
  /\ \A r \in Row, f \in BOOLEAN : [status |-> r.status, finished |-> f] \in Row
  /\ Verdicts \subseteq Status
  /\ "RUNNING" \in Status /\ "IE" \in Verdicts
BY DEF NoRow, PendingRow, Row, Status, Unfinished, Verdicts

TablesOK == row \in [Subs -> Row] /\ results \in [Subs -> Seq(Verdicts)]

\* Every statement on the database keeps the types of the tables.
LEMMA StatementTypes ==
  ASSUME TypeOK, NEW s \in Subs
  PROVE  /\ TablesOK
         /\ \A r \in Row : Write(s, r) => TablesOK'
         /\ Reset(s) => TablesOK'
         /\ ClearResults(s) => TablesOK'
         /\ \A v \in Verdicts : StoreResults(s, v) => TablesOK'
<1> USE DEF TypeOK, TablesOK
<1>1. \A r \in Row : Write(s, r) => TablesOK'
  BY DEF Write
<1>2. Reset(s) => TablesOK'
  BY <1>1, RowFacts DEF Reset
<1>3. ClearResults(s) => TablesOK'
  BY DEF ClearResults
<1>4. \A v \in Verdicts : StoreResults(s, v) => TablesOK'
  BY DEF StoreResults
<1> QED
  BY <1>1, <1>2, <1>3, <1>4

LEMMA FaultTypes ==
  TypeOK /\ (StoreFault \/ UNCHANGED tables) => TablesOK'
BY DEF TypeOK, TablesOK, StoreFault, tables

\* The records of goroutines at work.
LEMMA BusyFacts ==
  /\ \A h \in Handlers : TypeOK /\ handler[h].pc # "idle" => handler[h] \in BusyHandler
  /\ \A r \in BusyHandler : r.sub \in Subs
  /\ \A r \in BusyHandler, p \in {"reset", "clear", "enqueue"} :
       [r EXCEPT !.pc = p] \in BusyHandler
BY DEF BusyHandler, IdleHandler, TypeOK

LEMMA HandlerTypes ==
  ASSUME TypeOK, NEW h \in Handlers, Request(h) \/ HandlerStep(h)
  PROVE  TypeOK'
<1>1. ASSUME NEW s \in Subs, CreateSubmission(h, s) PROVE TypeOK'
  <2>1. TablesOK'
    BY <1>1, StatementTypes, RowFacts DEF CreateSubmission
  <2> QED
    BY <1>1, <2>1 DEF CreateSubmission, TypeOK, TablesOK, BusyHandler, queue, dispatch, bounds
<1>2. ASSUME NEW s \in Subs, RerunCheck(h, s) PROVE TypeOK'
  BY <1>2 DEF RerunCheck, TypeOK, BusyHandler, tables, queue, dispatch
<1>3. CASE RerunReset(h)
  <2>1. handler[h] \in BusyHandler
    BY <1>3, BusyFacts DEF RerunReset
  <2>2. TablesOK'
    BY <1>3, <2>1, BusyFacts, StatementTypes, FaultTypes DEF RerunReset
  <2>3. [handler[h] EXCEPT !.pc = "clear"] \in BusyHandler
    BY <2>1, BusyFacts
  <2> QED
    BY <1>3, <2>2, <2>3 DEF RerunReset, TypeOK, TablesOK, queue, dispatch, bounds
<1>4. CASE RerunClear(h)
  <2>1. handler[h] \in BusyHandler
    BY <1>4, BusyFacts DEF RerunClear
  <2>2. TablesOK'
    BY <1>4, <2>1, BusyFacts, StatementTypes, FaultTypes DEF RerunClear
  <2>3. [handler[h] EXCEPT !.pc = "enqueue"] \in BusyHandler
    BY <2>1, BusyFacts
  <2> QED
    BY <1>4, <2>2, <2>3 DEF RerunClear, TypeOK, TablesOK, queue, dispatch, bounds
<1>5. CASE HandlerEnqueue(h)
  <2>1. handler[h].sub \in Subs
    BY <1>5, BusyFacts DEF HandlerEnqueue
  <2> QED
    BY <1>5, <2>1 DEF HandlerEnqueue, Enqueue, TypeOK, tables, dispatch, bounds
<1> QED
  BY <1>1, <1>2, <1>3, <1>4, <1>5 DEF Request, HandlerStep

LEMMA QueueTypes ==
  ASSUME TypeOK, NEW s \in Subs, EnqueueSend(s) \/ EnqueueDrop(s)
  PROVE  TypeOK'
<1>1. sends' \in [Subs -> Nat]
  <2>1. sends[s] \in Nat /\ sends[s] > 0
    BY DEF EnqueueSend, EnqueueDrop, TypeOK
  <2>2. sends' = [sends EXCEPT ![s] = sends[s] - 1]
    BY DEF EnqueueSend, EnqueueDrop
  <2> QED
    BY <2>1, <2>2 DEF TypeOK
<1>2. CASE EnqueueSend(s)
  <2>1. jobs' \in Seq(Subs)
    BY <1>2 DEF EnqueueSend, TypeOK
  <2> QED
    BY <1>1, <1>2, <2>1 DEF EnqueueSend, TypeOK, tables, dispatch, bounds
<1>3. CASE EnqueueDrop(s)
  BY <1>1, <1>3 DEF EnqueueDrop, TypeOK, tables, dispatch, bounds
<1> QED
  BY <1>2, <1>3

LEMMA DispatchTypes ==
  ASSUME TypeOK, DispatchStep
  PROVE  TypeOK'
<1> USE DEF tables, queue, bounds
<1>1. CASE DispatchReceive
  <2>1. Head(jobs) \in Subs /\ Tail(jobs) \in Seq(Subs)
    BY <1>1 DEF DispatchReceive, TypeOK
  <2> QED
    BY <1>1, <2>1 DEF DispatchReceive, TypeOK, Dispatcher
<1>2. CASE DispatchAcquire
  <2>1. [dispatcher EXCEPT !.pc = "spawn"] \in Dispatcher
    BY <1>2 DEF DispatchAcquire, TypeOK, Dispatcher
  <2> QED
    BY <1>2, <2>1 DEF DispatchAcquire, TypeOK
<1>3. CASE DispatchQuit
  BY <1>3 DEF DispatchQuit, TypeOK, Dispatcher
<1>4. ASSUME NEW w \in Workers, DispatchSpawn(w) PROVE TypeOK'
  <2>1. dispatcher.sub \in Subs
    BY <1>4 DEF DispatchSpawn, TypeOK, Dispatcher
  <2>2. [pc |-> "load", sub |-> dispatcher.sub, row |-> NoRow] \in BusyWorker
    BY <2>1, RowFacts DEF BusyWorker
  <2> QED
    BY <1>4, <2>2 DEF DispatchSpawn, TypeOK, Dispatcher
<1> QED
  BY <1>1, <1>2, <1>3, <1>4 DEF DispatchStep

WorkerPC == {"load", "begin", "stages", "cases", "finish", "release", "done"}

\* The records of workers at work, and what the steps make of them.
LEMMA WorkerFacts ==
  /\ \A w \in Workers : TypeOK /\ worker[w].pc # "none" => worker[w] \in BusyWorker
  /\ \A r \in BusyWorker : r.sub \in Subs /\ r.row \in Row
  /\ \A p \in WorkerPC, s \in Subs, r \in Row :
       [pc |-> p, sub |-> s, row |-> r] \in BusyWorker
  /\ \A r \in BusyWorker, p \in WorkerPC : [r EXCEPT !.pc = p] \in BusyWorker
BY DEF BusyWorker, NoWorker, TypeOK, WorkerPC

\* Counting workers.
LEMMA CountFacts ==
  /\ IsFiniteSet(Judging) /\ IsFiniteSet(Living)
  /\ Cardinality(Judging) \in Nat /\ Cardinality(Living) \in Nat
  /\ \A w \in Judging : Cardinality(Judging) > 0
  /\ \A w \in Living : Cardinality(Living) > 0
<1>1. IsFiniteSet(Judging) /\ IsFiniteSet(Living)
  BY WorkersAssumption, FS_Subset DEF Judging, Living
<1> QED
  BY <1>1, FS_CardinalityType, FS_EmptySet

LEMMA WorkerTypes ==
  ASSUME TypeOK, SlotAccounting, NEW w \in Workers, WorkerStep(w)
  PROVE  TypeOK'
<1> USE VerdictsAssumption
<1> DEFINE s == worker[w].sub
<1>1. worker[w] \in BusyWorker /\ s \in Subs /\ worker[w].row \in Row
  <2>1. worker[w].pc # "none"
    BY DEF WorkerStep, WorkerLoad, WorkerLoadFails, ProblemMissing, WorkerBegin,
       StagesPass, StageFails, StoreCases, Finish, Panic, ReleaseSlot, WorkerDone
  <2> QED
    BY <2>1, WorkerFacts
<1>2. ASSUME NEW p \in WorkerPC, NEW r \in Row, Goes(w, p, r)
      PROVE  worker' \in [Workers -> {NoWorker} \cup BusyWorker]
  <2>1. [pc |-> p, sub |-> s, row |-> r] \in BusyWorker
    BY <1>1, WorkerFacts
  <2> QED
    BY <1>2, <2>1 DEF Goes, TypeOK
<1>3. ASSUME NEW v \in Status, NEW f \in BOOLEAN PROVE Save(w, v, f) => TablesOK'
  BY <1>1, StatementTypes, RowFacts DEF Save
<1>4. ASSUME NEW v \in Verdicts PROVE Fail(w, v) => TablesOK'
  BY <1>3, FaultTypes, RowFacts DEF Fail
<1>5. ASSUME EngineUnchanged, TablesOK',
             worker' \in [Workers -> {NoWorker} \cup BusyWorker]
      PROVE  TypeOK'
  BY <1>5 DEF EngineUnchanged, queue, dispatch, bounds, TypeOK, TablesOK
<1>6. WorkerPC = {"load", "begin", "stages", "cases", "finish", "release", "done"}
  BY DEF WorkerPC
<1> HIDE DEF s
<1>7. CASE WorkerLoad(w)
  <2>1. row[worker[w].sub] \in Row
    BY <1>1 DEF s, TypeOK
  <2>2. TablesOK'
    BY <1>7, FaultTypes DEF WorkerLoad
  <2> QED
    BY <1>2, <1>5, <1>6, <1>7, <2>1, <2>2 DEF WorkerLoad
<1>8. CASE WorkerLoadFails(w)
  BY <1>2, <1>5, <1>6, <1>8, FaultTypes, RowFacts DEF WorkerLoadFails, Leave
<1>9. CASE ProblemMissing(w)
  BY <1>2, <1>4, <1>5, <1>6, <1>9, RowFacts DEF ProblemMissing, Fail, Leave
<1>10. CASE WorkerBegin(w)
  <2>1. [worker[w].row EXCEPT !.status = "RUNNING"] \in Row
    BY <1>1, RowFacts
  <2>2. TablesOK'
    BY <1>1, <1>3, <1>10, FaultTypes, RowFacts DEF WorkerBegin
  <2> QED
    BY <1>2, <1>5, <1>6, <1>10, <2>1, <2>2 DEF WorkerBegin
<1>11. CASE StagesPass(w)
  <2>1. TablesOK'
    BY <1>1, <1>11, StatementTypes, FaultTypes DEF StagesPass, s
  <2> QED
    BY <1>1, <1>2, <1>5, <1>6, <1>11, <2>1 DEF StagesPass
<1>12. ASSUME NEW v \in FailVerdicts, StageFails(w, v) PROVE TypeOK'
  BY <1>2, <1>4, <1>5, <1>6, <1>12, RowFacts DEF StageFails, Fail, Leave
<1>13. ASSUME NEW v \in CaseVerdicts, StoreCases(w, v) PROVE TypeOK'
  <2>1. [worker[w].row EXCEPT !.status = v] \in Row
    BY <1>1, RowFacts
  <2>2. TablesOK'
    BY <1>1, <1>13, StatementTypes, FaultTypes DEF StoreCases, s
  <2> QED
    BY <1>2, <1>5, <1>6, <1>13, <2>1, <2>2 DEF StoreCases
<1>14. CASE Finish(w)
  <2>1. TablesOK'
    BY <1>1, <1>14, StatementTypes, FaultTypes, RowFacts DEF Finish, Save, s
  <2> QED
    BY <1>2, <1>5, <1>6, <1>14, <2>1, RowFacts DEF Finish, Leave
<1>15. CASE Panic(w)
  <2>1. [row[worker[w].sub] EXCEPT !.status = "IE"] \in Row
    BY <1>1, RowFacts DEF s, TypeOK
  <2>2. TablesOK'
    BY <1>1, <1>15, <2>1, StatementTypes, FaultTypes DEF Panic, s
  <2> QED
    <3>1. EngineUnchanged /\ Goes(w, "release", NoRow)
      BY <1>15 DEF Panic, Leave
    <3>2. worker' \in [Workers -> {NoWorker} \cup BusyWorker]
      BY <1>2, <1>6, <3>1, RowFacts
    <3> QED
      BY <1>5, <2>2, <3>1, <3>2
<1>16. CASE ReleaseSlot(w)
  <2>1. sem \in Nat /\ sem > 0
    <3>1. w \in Judging
      BY <1>16 DEF ReleaseSlot, Judging
    <3> QED
      BY <3>1, CountFacts DEF SlotAccounting, TypeOK
  <2>2. TablesOK'
    BY <1>16, FaultTypes DEF ReleaseSlot
  <2>3. worker' \in [Workers -> {NoWorker} \cup BusyWorker]
    BY <1>2, <1>6, <1>16, RowFacts DEF ReleaseSlot
  <2> QED
    BY <1>16, <2>1, <2>2, <2>3 DEF ReleaseSlot, queue, bounds, TypeOK, TablesOK
<1>17. CASE WorkerDone(w)
  <2>1. wg \in Nat /\ wg > 0
    <3>1. w \in Living
      BY <1>17 DEF WorkerDone, Living
    <3> QED
      BY <3>1, CountFacts DEF SlotAccounting, TypeOK
  <2> QED
    BY <1>17, <2>1 DEF WorkerDone, Done, queue, bounds, tables, TypeOK
<1> QED
  BY <1>7, <1>8, <1>9, <1>10, <1>11, <1>12, <1>13, <1>14, <1>15, <1>16, <1>17
  DEF WorkerStep

LEMMA RecoveryTypes ==
  ASSUME TypeOK, RecoverStep
  PROVE  TypeOK'
<1> USE DEF RecoveryUnchanged
<1>1. CASE RecoverScan
  <2>1. recovery' \in Recovery
    <3>1. NoRecovery \in Recovery /\ NoRecovery.pc = "reset" /\ NoRecovery.cur = NoSub
      BY DEF NoRecovery, Recovery
    <3>2. [NoRecovery EXCEPT !.todo = Incomplete] \in Recovery
      BY DEF NoRecovery, Recovery, Incomplete
    <3> QED
      BY <1>1, <3>1, <3>2 DEF RecoverScan
  <2> QED
    BY <1>1, <2>1 DEF RecoverScan, TypeOK, tables, dispatch, bounds
<1>2. ASSUME NEW s \in Subs, RecoverReset(s) PROVE TypeOK'
  <2>1. TablesOK'
    BY <1>2, StatementTypes, FaultTypes DEF RecoverReset
  <2>2. recovery' \in Recovery
    BY <1>2 DEF RecoverReset, Recovery, TypeOK
  <2> QED
    BY <1>2, <2>1, <2>2 DEF RecoverReset, TypeOK, TablesOK, dispatch, bounds
<1>3. CASE RecoverClear
  <2>1. recovery.cur \in Subs /\ recovery' \in Recovery
    BY <1>3 DEF RecoverClear, Recovery, TypeOK
  <2>2. TablesOK'
    BY <1>3, <2>1, StatementTypes, FaultTypes DEF RecoverClear
  <2> QED
    BY <1>3, <2>1, <2>2 DEF RecoverClear, TypeOK, TablesOK, dispatch, bounds
<1>4. CASE RecoverEnqueue
  <2>1. recovery.cur \in Subs /\ recovery' \in Recovery
    BY <1>4 DEF RecoverEnqueue, Recovery, TypeOK
  <2> QED
    BY <1>4, <2>1 DEF RecoverEnqueue, Enqueue, TypeOK, tables, dispatch, bounds
<1> QED
  BY <1>1, <1>2, <1>3, <1>4 DEF RecoverStep

LEMMA ProcessTypes ==
  ASSUME TypeOK, ProcessStep
  PROVE  TypeOK'
<1> USE DEF TypeOK, tables, queue, dispatch, bounds
<1>1. CASE Signal \/ ShutdownReturns \/ StopReturns
  BY <1>1 DEF Signal, ShutdownReturns, StopReturns, GoroutinesUnchanged
<1>2. CASE Exit
  BY <1>2 DEF Exit, Dispatcher, Recovery, NoRecovery
<1>3. CASE Boot
  BY <1>3, BoundsAssumption DEF Boot, Dispatcher, Recovery
<1> QED
  BY <1>1, <1>2, <1>3 DEF ProcessStep

\* A process that is down has no dispatcher.
AtRest == phase = "down" => dispatcher.pc = "quit"

\* Each step keeps the count of slots and of goroutines.
LEMMA SlotStep ==
  ASSUME TypeOK, SlotAccounting, AtRest, [Next]_vars
  PROVE  SlotAccounting' /\ AtRest'
<1> USE DEF SlotAccounting, AtRest
<1>1. ASSUME UNCHANGED <<phase, sem, wg, worker>>,
             dispatcher' = dispatcher \/ (dispatcher.pc # "spawn" /\ dispatcher'.pc # "spawn"),
             dispatcher.pc = "quit" => dispatcher' = dispatcher
      PROVE  SlotAccounting' /\ AtRest'
  BY <1>1 DEF Judging, Living
<1>2. ASSUME NEW h \in Handlers, Request(h) \/ HandlerStep(h)
      PROVE  SlotAccounting' /\ AtRest'
  BY <1>1, <1>2 DEF Request, HandlerStep, CreateSubmission, RerunCheck,
     RerunReset, RerunClear, HandlerEnqueue, dispatch
<1>3. ASSUME NEW s \in Subs, EnqueueSend(s) \/ EnqueueDrop(s)
      PROVE  SlotAccounting' /\ AtRest'
  BY <1>1, <1>3 DEF EnqueueSend, EnqueueDrop, dispatch
<1>4. CASE DispatchStep
  <2>1. CASE DispatchReceive
    BY <1>1, <2>1 DEF DispatchReceive
  <2>2. CASE DispatchQuit
    BY <1>1, <2>2 DEF DispatchQuit, CtxDone
  <2>3. CASE DispatchAcquire
    BY <2>3, ConcurrencyAssumption, CountFacts
    DEF DispatchAcquire, SlotFree, Judging, Living, Dispatcher, TypeOK
  <2>4. ASSUME NEW w \in Workers, DispatchSpawn(w)
        PROVE  SlotAccounting' /\ AtRest'
    <3>1. w \notin Judging /\ w \notin Living
      BY <2>4 DEF DispatchSpawn, Judging, Living
    <3>2. Judging' = Judging \cup {w} /\ Living' = Living \cup {w}
      BY <2>4 DEF DispatchSpawn, Judging, Living, TypeOK
    <3>3. /\ Cardinality(Judging') = Cardinality(Judging) + 1
          /\ Cardinality(Living') = Cardinality(Living) + 1
      BY <3>1, <3>2, CountFacts, FS_AddElement
    <3> QED
      BY <2>4, <3>3, CountFacts DEF DispatchSpawn, TypeOK
  <2> QED
    BY <1>4, <2>1, <2>2, <2>3, <2>4 DEF DispatchStep
<1>5. ASSUME NEW w \in Workers, WorkerStep(w)
      PROVE  SlotAccounting' /\ AtRest'
  <2>1. ASSUME NEW p \in WorkerPC \ {"done"}, NEW r, Goes(w, p, r),
               worker[w].pc \in WorkerPC \ {"done"}, EngineUnchanged
        PROVE  SlotAccounting' /\ AtRest'
    <3>1. Judging' = Judging /\ Living' = Living
      BY <2>1 DEF Goes, Judging, Living, TypeOK, WorkerPC
    <3> QED
      BY <2>1, <3>1 DEF EngineUnchanged, dispatch
  <2>2. CASE ReleaseSlot(w)
    <3>1. w \in Judging /\ Judging' = Judging \ {w} /\ Living' = Living
      BY <2>2 DEF ReleaseSlot, Goes, Judging, Living, TypeOK
    <3>2. Cardinality(Judging') = Cardinality(Judging) - 1
      BY <3>1, CountFacts, FS_RemoveElement
    <3> QED
      BY <2>2, <3>1, <3>2, CountFacts, ConcurrencyAssumption DEF ReleaseSlot, TypeOK
  <2>3. CASE WorkerDone(w)
    <3>1. w \in Living /\ Living' = Living \ {w} /\ Judging' = Judging
      BY <2>3 DEF WorkerDone, NoWorker, Judging, Living, TypeOK
    <3>2. Cardinality(Living') = Cardinality(Living) - 1
      BY <3>1, CountFacts, FS_RemoveElement
    <3> QED
      BY <2>3, <3>1, <3>2, CountFacts DEF WorkerDone, Done, TypeOK
  <2> QED
    BY <1>5, <2>1, <2>2, <2>3 DEF WorkerStep, WorkerLoad, WorkerLoadFails,
       ProblemMissing, WorkerBegin, StagesPass, StageFails, StoreCases, Finish,
       Panic, Fail, Leave, WorkerPC
<1>6. CASE RecoverStep
  BY <1>1, <1>6 DEF RecoverStep, RecoverScan, RecoverReset, RecoverClear,
     RecoverEnqueue, RecoveryUnchanged, dispatch
<1>7. CASE ProcessStep
  <2>1. CASE Signal \/ ShutdownReturns \/ StopReturns
    BY <2>1 DEF Signal, ShutdownReturns, StopReturns, GoroutinesUnchanged,
       dispatch, Judging, Living
  <2>2. CASE Exit
    <3>1. Judging' = {} /\ Living' = {}
      BY <2>2 DEF Exit, NoWorker, Judging, Living
    <3> QED
      BY <2>2, <3>1, FS_EmptySet, ConcurrencyAssumption DEF Exit
  <2>3. CASE Boot
    BY <2>3 DEF Boot, Judging, Living
  <2> QED
    BY <1>7, <2>1, <2>2, <2>3 DEF ProcessStep
<1>8. CASE UNCHANGED vars
  BY <1>1, <1>8 DEF vars, dispatch
<1> QED
  BY <1>2, <1>3, <1>4, <1>5, <1>6, <1>7, <1>8 DEF Next

\* Reachable states are typed and account for every slot.
LEMMA Reachable == Spec => [](TypeOK /\ SlotAccounting /\ AtRest)
<1>1. Init => TypeOK
  BY RowFacts DEF Init, TypeOK, Dispatcher, Recovery
<1>2. Init => SlotAccounting /\ AtRest
  <2>1. Init => Judging = {} /\ Living = {}
    BY DEF Init, Judging, Living, NoWorker
  <2>2. Init => Cardinality(Judging) = 0 /\ Cardinality(Living) = 0
    BY <2>1, FS_EmptySet
  <2> QED
    BY <2>2, ConcurrencyAssumption DEF Init, SlotAccounting, AtRest
<1>3. TypeOK /\ SlotAccounting /\ [Next]_vars => TypeOK'
  BY HandlerTypes, QueueTypes, DispatchTypes, WorkerTypes, RecoveryTypes,
     ProcessTypes DEF Next, vars, TypeOK, tables, queue, dispatch, bounds
<1> QED
  BY <1>1, <1>2, <1>3, SlotStep, PTL DEF Spec

THEOREM TypeCorrect == Spec => []TypeOK
BY Reachable, PTL

THEOREM SlotsBounded == Spec => [](SlotBound /\ SlotAccounting)
<1>1. TypeOK /\ SlotAccounting => SlotBound
  BY CountFacts, ConcurrencyAssumption DEF TypeOK, SlotAccounting, SlotBound
<1> QED
  BY <1>1, Reachable, PTL

\* A worker about to save its verdict holds one.
CopyOK ==
  \A w \in Workers : worker[w].pc = "finish" => worker[w].row.status \in Verdicts

\* NoLostJob for one submission.
Safe(s) ==
  /\ row[s].status = "PENDING" => Carried(s) \/ Recoverable(s)
  /\ row[s].status = "RUNNING" => Executing(s) \/ Recoverable(s)

LEMMA HandlersKeepSafe ==
  ASSUME TypeOK, "store" \notin Faults, NEW s \in Subs, Safe(s),
         NEW h \in Handlers, Request(h) \/ HandlerStep(h)
  PROVE  Safe(s)'
<1> USE DEF Safe, Recoverable, Executing
<1>1. UNCHANGED <<jobs, dispatcher, worker, recovery>>
  BY DEF Request, HandlerStep, CreateSubmission, RerunCheck, RerunReset,
     RerunClear, HandlerEnqueue, queue, dispatch
<1>2. ASSUME NEW x \in Subs, CreateSubmission(h, x) PROVE Safe(s)'
  <2>1. CASE s = x
    BY <1>2, <2>1 DEF CreateSubmission, Write, PendingRow, TypeOK, Carried
  <2>2. CASE s # x
    BY <1>1, <1>2, <2>2 DEF CreateSubmission, Write, TypeOK, Carried, queue
  <2> QED
    BY <2>1, <2>2
<1>3. ASSUME NEW x \in Subs, RerunCheck(h, x) PROVE Safe(s)'
  BY <1>1, <1>3 DEF RerunCheck, TypeOK, Carried, tables, queue
<1>4. CASE RerunReset(h)
  <2>1. CASE s = handler[h].sub
    <3>1. row'[s].status = "PENDING"
      BY <1>4, <2>1 DEF RerunReset, Reset, StoreFault, Write, PendingRow, TypeOK
    <3>2. handler'[h].pc = "clear" /\ handler'[h].sub = s
      <4>1. handler' = [handler EXCEPT ![h].pc = "clear"]
        BY <1>4 DEF RerunReset, StoreFault
      <4>2. handler[h] \in BusyHandler
        BY <1>4, BusyFacts DEF RerunReset
      <4> QED
        BY <2>1, <4>1, <4>2 DEF TypeOK, BusyHandler
    <3> QED
      BY <3>1, <3>2 DEF Carried
  <2>2. CASE s # handler[h].sub
    <3>1. row'[s] = row[s] /\ UNCHANGED sends
      BY <1>4, <2>2 DEF RerunReset, Reset, StoreFault, Write, TypeOK, queue
    <3>2. Carried(s) => Carried(s)'
      BY <1>1, <1>4, <2>2, <3>1 DEF RerunReset, StoreFault, TypeOK, Carried
    <3> QED
      BY <1>1, <3>1, <3>2
  <2> QED
    BY <2>1, <2>2
<1>5. CASE RerunClear(h)
  BY <1>1, <1>5 DEF RerunClear, ClearResults, StoreFault, TypeOK, Carried, queue
<1>6. CASE HandlerEnqueue(h)
  <2>1. CASE s = handler[h].sub
    BY <1>1, <1>6, <2>1 DEF HandlerEnqueue, Enqueue, TypeOK, Carried, tables
  <2>2. CASE s # handler[h].sub
    BY <1>1, <1>6, <2>2 DEF HandlerEnqueue, Enqueue, TypeOK, Carried, tables
  <2> QED
    BY <2>1, <2>2
<1> QED
  BY <1>2, <1>3, <1>4, <1>5, <1>6 DEF Request, HandlerStep

LEMMA QueueKeepsSafe ==
  ASSUME TypeOK, phase = "up", NEW s \in Subs, Safe(s),
         NEW x \in Subs, EnqueueSend(x) \/ EnqueueDrop(x)
  PROVE  Safe(s)'
<1>1. EnqueueSend(x)
  BY DEF EnqueueDrop, CtxDone
<1>2. UNCHANGED <<row, handler, dispatcher, worker, recovery>>
  BY <1>1 DEF EnqueueSend, tables, dispatch
<1>3. \A y : (\E i \in 1..Len(jobs) : jobs[i] = y) => \E i \in 1..Len(jobs') : jobs'[i] = y
  BY <1>1 DEF EnqueueSend, TypeOK
<1>4. \E i \in 1..Len(jobs') : jobs'[i] = x
  <2>1. Len(jobs') = Len(jobs) + 1 /\ jobs'[Len(jobs) + 1] = x /\ Len(jobs) \in Nat
    BY <1>1 DEF EnqueueSend, TypeOK
  <2> QED
    BY <2>1
<1>5. Carried(s) => Carried(s)'
  BY <1>1, <1>2, <1>3, <1>4 DEF EnqueueSend, Carried, TypeOK
<1> QED
  BY <1>2, <1>5 DEF Safe, Recoverable, Executing

LEMMA DispatchKeepsSafe ==
  ASSUME TypeOK, phase = "up", NEW s \in Subs, Safe(s), DispatchStep
  PROVE  Safe(s)'
<1>1. UNCHANGED <<row, handler, sends, recovery>>
  BY DEF DispatchStep, DispatchReceive, DispatchAcquire, DispatchQuit,
     DispatchSpawn, tables, queue
<1>2. ~DispatchQuit
  BY DEF DispatchQuit, CtxDone
<1>3. CASE DispatchReceive
  <2>1. \A i \in 1..Len(jobs) : i = 1 \/ (i - 1 \in 1..Len(jobs') /\ jobs'[i - 1] = jobs[i])
    BY <1>3 DEF DispatchReceive, TypeOK
  <2>2. jobs # <<>> /\ jobs[1] = dispatcher'.sub /\ dispatcher.sub = NoSub
    BY <1>3 DEF DispatchReceive, Dispatcher, TypeOK
  <2>3. Carried(s) => Carried(s)'
    BY <1>1, <1>3, <2>1, <2>2, SubsAssumption DEF Carried, DispatchReceive
  <2> QED
    BY <1>1, <1>3, <2>3 DEF Safe, Recoverable, Executing, DispatchReceive
<1>4. CASE DispatchAcquire
  BY <1>1, <1>4 DEF DispatchAcquire, Safe, Carried, Recoverable, Executing,
     Dispatcher, TypeOK, queue
<1>5. ASSUME NEW w \in Workers, DispatchSpawn(w) PROVE Safe(s)'
  <2>1. Carried(s) => Carried(s)'
    BY <1>1, <1>5 DEF DispatchSpawn, Carried, TypeOK, queue
  <2>2. Executing(s) => Executing(s)'
    BY <1>5 DEF DispatchSpawn, Executing, TypeOK
  <2> QED
    BY <1>1, <2>1, <2>2 DEF Safe, Recoverable
<1> QED
  BY <1>2, <1>3, <1>4, <1>5 DEF DispatchStep

LEMMA RecoveryKeepsSafe ==
  ASSUME TypeOK, "store" \notin Faults, NEW s \in Subs, Safe(s), RecoverStep
  PROVE  Safe(s)'
<1> USE DEF Safe, Recoverable, Executing
<1>1. UNCHANGED <<handler, jobs, dispatcher, worker>>
  BY DEF RecoverStep, RecoverScan, RecoverReset, RecoverClear, RecoverEnqueue,
     RecoveryUnchanged, dispatch
<1>2. CASE RecoverScan
  BY <1>1, <1>2 DEF RecoverScan, NoRecovery, Incomplete, Unfinished, TypeOK, tables
<1>3. ASSUME NEW x \in Subs, RecoverReset(x) PROVE Safe(s)'
  <2>1. recovery.cur = NoSub
    BY <1>3 DEF RecoverReset, Recovery, TypeOK
  <2>2. CASE s = x
    BY <1>3, <2>2 DEF RecoverReset, Reset, Write, StoreFault, PendingRow, Carried, TypeOK
  <2>3. CASE s # x
    BY <1>1, <1>3, <2>1, <2>3, SubsAssumption
    DEF RecoverReset, Reset, Write, StoreFault, Carried, TypeOK
  <2> QED
    BY <2>2, <2>3
<1>4. CASE RecoverClear
  BY <1>1, <1>4 DEF RecoverClear, ClearResults, StoreFault, Carried, Recovery, TypeOK
<1>5. CASE RecoverEnqueue
  BY <1>1, <1>5 DEF RecoverEnqueue, Enqueue, Carried, Recovery, TypeOK, tables
<1> QED
  BY <1>2, <1>3, <1>4, <1>5 DEF RecoverStep

LEMMA WorkersKeepSafe ==
  ASSUME TypeOK, CopyOK, "store" \notin Faults, NEW s \in Subs, Safe(s),
         NEW w \in Workers, WorkerStep(w)
  PROVE  Safe(s)'
<1> USE VerdictsAssumption DEF Safe, Recoverable
<1>0. worker[w].sub \in Subs
  BY WorkerFacts DEF WorkerStep, WorkerLoad, WorkerLoadFails, ProblemMissing,
     WorkerBegin, StagesPass, StageFails, StoreCases, Finish, Panic, ReleaseSlot,
     WorkerDone
<1>1. UNCHANGED <<handler, sends, jobs, dispatcher.sub, recovery>>
  BY DEF WorkerStep, EngineUnchanged, WorkerLoad, WorkerLoadFails, ProblemMissing,
     WorkerBegin, StagesPass, StageFails, StoreCases, Finish, Panic, ReleaseSlot,
     WorkerDone, queue, dispatch
\* The step's worker writes a verdict: nothing has to carry its submission.
<1>2. ASSUME row'[worker[w].sub].status \in Verdicts,
             worker[w].sub # s => row'[s] = row[s],
             NEW p, NEW r, Goes(w, p, r)
      PROVE  Safe(s)'
  <2>1. CASE s = worker[w].sub
    BY <1>2, <2>1 DEF Verdicts
  <2>2. CASE s # worker[w].sub
    BY <1>1, <1>2, <2>2 DEF Goes, Carried, Executing, TypeOK
  <2> QED
    BY <2>1, <2>2
\* The step leaves the statuses alone and its worker keeps its part.
<1>3. ASSUME row'[s].status = row[s].status, NEW p, NEW r, Goes(w, p, r),
             worker[w].pc \in {"load", "begin"} => p \in {"load", "begin"},
             worker[w].pc \in {"stages", "cases", "finish"} =>
               p \in {"stages", "cases", "finish"}
      PROVE  Safe(s)'
  BY <1>1, <1>3 DEF Goes, Carried, Executing, TypeOK
<1>4. CASE WorkerLoad(w)
  BY <1>3, <1>4 DEF WorkerLoad, tables
<1>5. CASE WorkerLoadFails(w)
  <2>1. CASE s = worker[w].sub
    BY <1>5, <2>1 DEF WorkerLoadFails, NoRow, tables
  <2>2. CASE s # worker[w].sub
    BY <1>1, <1>5, <2>2 DEF WorkerLoadFails, Leave, Goes, tables, Carried,
       Executing, TypeOK
  <2> QED
    BY <2>1, <2>2
\* A save of the worker's copy with a verdict.
<1>6. ASSUME NEW v \in Verdicts, Save(w, v, TRUE), Leave(w) PROVE Safe(s)'
  <2>1. /\ row'[worker[w].sub].status \in Verdicts
        /\ worker[w].sub # s => row'[s] = row[s]
    BY <1>6, <1>0 DEF Save, Write, TypeOK
  <2> QED
    BY <1>2, <1>6, <2>1 DEF Leave
<1>7. CASE ProblemMissing(w)
  BY <1>6, <1>7, RowFacts DEF ProblemMissing, Fail, StoreFault
<1>8. CASE WorkerBegin(w)
  <2>1. CASE s = worker[w].sub
    <3>1. row'[s].status = "RUNNING"
      BY <1>8, <2>1 DEF WorkerBegin, Save, Write, StoreFault, TypeOK
    <3>2. Executing(s)'
      BY <1>0, <1>8, <2>1 DEF WorkerBegin, Goes, Executing, TypeOK
    <3> QED
      BY <3>1, <3>2
  <2>2. CASE s # worker[w].sub
    <3>1. row'[s] = row[s]
      BY <1>8, <2>2 DEF WorkerBegin, Save, Write, StoreFault, TypeOK
    <3> QED
      BY <1>1, <1>8, <2>2, <3>1 DEF WorkerBegin, Goes, Carried, Executing, TypeOK
  <2> QED
    BY <2>1, <2>2
<1>9. CASE StagesPass(w)
  BY <1>3, <1>9 DEF StagesPass, ClearResults, StoreFault
<1>10. ASSUME NEW v \in FailVerdicts, StageFails(w, v) PROVE Safe(s)'
  BY <1>6, <1>10 DEF StageFails, Fail, StoreFault
<1>11. ASSUME NEW v \in CaseVerdicts, StoreCases(w, v) PROVE Safe(s)'
  BY <1>3, <1>11 DEF StoreCases, StoreResults, StoreFault
<1>12. CASE Finish(w)
  BY <1>6, <1>12 DEF Finish, StoreFault, CopyOK
<1>13. CASE Panic(w)
  <2>1. /\ row'[worker[w].sub].status \in Verdicts
        /\ worker[w].sub # s => row'[s] = row[s]
    BY <1>0, <1>13, RowFacts DEF Panic, Write, StoreFault, TypeOK, Row
  <2> QED
    BY <1>2, <1>13, <2>1 DEF Panic, Leave
<1>14. CASE ReleaseSlot(w)
  BY <1>3, <1>14 DEF ReleaseSlot, tables
<1>15. CASE WorkerDone(w)
  BY <1>1, <1>15 DEF WorkerDone, NoWorker, tables, Carried, Executing, TypeOK
<1> QED
  BY <1>4, <1>5, <1>7, <1>8, <1>9, <1>10, <1>11, <1>12, <1>13, <1>14, <1>15
  DEF WorkerStep

LEMMA CopyStep ==
  ASSUME TypeOK, CopyOK, [Next]_vars
  PROVE  CopyOK'
<1> USE VerdictsAssumption DEF CopyOK
<1>1. CASE UNCHANGED worker
  BY <1>1
<1>2. ASSUME NEW w \in Workers, DispatchSpawn(w) PROVE CopyOK'
  BY <1>2 DEF DispatchSpawn, TypeOK
<1>3. ASSUME NEW w \in Workers, NEW p, NEW r, Goes(w, p, r),
             p = "finish" => r.status \in Verdicts
      PROVE  CopyOK'
  BY <1>3 DEF Goes, TypeOK
<1>4. ASSUME NEW w \in Workers, WorkerStep(w) PROVE CopyOK'
  <2>1. CASE WorkerDone(w)
    BY <2>1 DEF WorkerDone, NoWorker, TypeOK
  <2>2. ASSUME NEW v \in CaseVerdicts, StoreCases(w, v) PROVE CopyOK'
    <3>1. [worker[w].row EXCEPT !.status = v].status = v
      <4>1. worker[w] \in BusyWorker
        BY <2>2, WorkerFacts DEF StoreCases
      <4> QED
        BY <4>1 DEF BusyWorker, Row
    <3> QED
      BY <1>3, <2>2, <3>1 DEF StoreCases
  <2> QED
    BY <1>3, <1>4, <2>1, <2>2 DEF WorkerStep, WorkerLoad, WorkerLoadFails,
       ProblemMissing, WorkerBegin, StagesPass, StageFails, Finish, Panic,
       ReleaseSlot, Fail, Leave
<1>5. CASE Exit
  BY <1>5 DEF Exit, NoWorker
<1>6. QED
  BY <1>1, <1>2, <1>4, <1>5 DEF Next, vars, Request, HandlerStep,
     CreateSubmission, RerunCheck, RerunReset, RerunClear, HandlerEnqueue,
     EnqueueSend, EnqueueDrop, DispatchStep, DispatchReceive, DispatchAcquire,
     DispatchQuit, RecoverStep, RecoverScan, RecoverReset, RecoverClear,
     RecoverEnqueue, RecoveryUnchanged, ProcessStep, Signal, ShutdownReturns,
     StopReturns, GoroutinesUnchanged, Boot

LEMMA NoLostJobStep ==
  ASSUME TypeOK, CopyOK, NoLostJob, "store" \notin Faults, [Next]_vars
  PROVE  NoLostJob'
<1> SUFFICES ASSUME phase' = "up", NEW s \in Subs PROVE Safe(s)'
  BY DEF NoLostJob, Safe
<1>1. CASE Boot
  BY <1>1 DEF Boot, Safe, Recoverable
<1>2. CASE ~Boot
  <2>1. phase = "up"
    BY <1>2 DEF Next, vars, Request, HandlerStep,
     CreateSubmission, RerunCheck, RerunReset, RerunClear, HandlerEnqueue,
     EnqueueSend, EnqueueDrop, DispatchStep, DispatchReceive, DispatchAcquire,
     DispatchQuit, DispatchSpawn, WorkerStep, EngineUnchanged, WorkerLoad,
     WorkerLoadFails, ProblemMissing, WorkerBegin, StagesPass, StageFails,
     StoreCases, Finish, Panic, ReleaseSlot, WorkerDone, RecoverStep,
     RecoverScan, RecoverReset, RecoverClear, RecoverEnqueue,
     RecoveryUnchanged, ProcessStep, Signal, ShutdownReturns, StopReturns, Exit
  <2>2. Safe(s)
    BY <2>1 DEF NoLostJob, Safe
  <2>3. CASE UNCHANGED vars
    BY <2>2, <2>3 DEF vars, tables, queue, dispatch, Safe, Carried,
       Recoverable, Executing
  <2> QED
    BY <1>2, <2>1, <2>2, <2>3, HandlersKeepSafe, QueueKeepsSafe,
       DispatchKeepsSafe, WorkersKeepSafe, RecoveryKeepsSafe
    DEF Next, ProcessStep, Signal, ShutdownReturns, StopReturns, Exit
<1> QED
  BY <1>1, <1>2

\* While no database statement fails, no submission is ever stranded.
THEOREM NothingLost ==
  ASSUME "store" \notin Faults PROVE Spec => []NoLostJob
<1>1. Init => CopyOK /\ NoLostJob
  BY DEF Init, CopyOK, NoLostJob, NoRow, NoWorker
<1>2. TypeOK /\ CopyOK /\ NoLostJob /\ [Next]_vars => CopyOK' /\ NoLostJob'
  BY CopyStep, NoLostJobStep
<1> QED
  BY <1>1, <1>2, TypeCorrect, PTL DEF Spec

------------------------------------------------------------------------------
(* The engine keeps the ledger of JobLedger: what the queue, the dispatcher  *)
(* and the workers do is a step of it or changes nothing of it.              *)

\* Where a submission waits in a queue.
Places(q, s) == {i \in 1..Len(q) : q[i] = s}

LEMMA PlacesFinite ==
  ASSUME NEW q \in Seq(Subs), NEW s
  PROVE  IsFiniteSet(Places(q, s)) /\ Cardinality(Places(q, s)) \in Nat
<1>1. Len(q) \in Nat /\ IsFiniteSet(1..Len(q))
  BY FS_Interval
<1>2. Places(q, s) \in SUBSET (1..Len(q))
  BY DEF Places
<1>3. IsFiniteSet(Places(q, s))
  BY <1>1, <1>2, FS_Subset
<1> QED
  BY <1>3, FS_CardinalityType

\* A send adds the place at the end.
LEMMA PlacesOfAppend ==
  ASSUME NEW q \in Seq(Subs), NEW x \in Subs, NEW s
  PROVE  Cardinality(Places(Append(q, x), s))
           = Cardinality(Places(q, s)) + (IF x = s THEN 1 ELSE 0)
<1> DEFINE n == Len(q) + 1
           r == Append(q, x)
<1>1. /\ Len(q) \in Nat /\ Len(r) = n /\ r[n] = x
      /\ \A i \in 1..Len(q) : r[i] = q[i]
  OBVIOUS
<1>2. n \notin Places(q, s)
  BY <1>1 DEF Places
<1> HIDE DEF r
<1>3. CASE x = s
  <2>1. Places(r, s) = Places(q, s) \cup {n}
    BY <1>1, <1>3 DEF Places
  <2>2. Cardinality(Places(q, s) \cup {n}) = Cardinality(Places(q, s)) + 1
    BY <1>2, PlacesFinite, FS_AddElement
  <2> QED
    BY <1>3, <2>1, <2>2 DEF r
<1>4. CASE x # s
  <2>1. Places(r, s) = Places(q, s)
    BY <1>1, <1>4 DEF Places
  <2> QED
    BY <1>4, <2>1, PlacesFinite DEF r
<1> QED
  BY <1>3, <1>4

\* A receive takes the first place away and moves the others up.
LEMMA PlacesOfTail ==
  ASSUME NEW q \in Seq(Subs), q # <<>>, NEW s
  PROVE  Cardinality(Places(q, s))
           = Cardinality(Places(Tail(q), s)) + (IF Head(q) = s THEN 1 ELSE 0)
<1> DEFINE r == Tail(q)
           Later == {i \in 2..Len(q) : q[i] = s}
           up == [i \in Places(r, s) |-> i + 1]
<1>1. /\ Len(q) \in Nat \ {0} /\ Len(r) = Len(q) - 1 /\ r \in Seq(Subs)
      /\ \A i \in 1..Len(r) : r[i] = q[i + 1]
      /\ Head(q) = q[1]
  OBVIOUS
<1>2. ExistsBijection(Places(r, s), Later)
  <2> HIDE DEF r
  <2>1. up \in [Places(r, s) -> Later]
    BY <1>1 DEF Places
  <2>2. \A i, j \in Places(r, s) : up[i] = up[j] => i = j
    BY <1>1 DEF Places
  <2>3. \A j \in Later : \E i \in Places(r, s) : up[i] = j
    <3> SUFFICES ASSUME NEW j \in Later PROVE \E i \in Places(r, s) : up[i] = j
      OBVIOUS
    <3>1. j - 1 \in Places(r, s) /\ (j - 1) + 1 = j
      BY <1>1 DEF Places
    <3> QED
      BY <3>1
  <2> HIDE DEF up, Later
  <2>4. up \in Injection(Places(r, s), Later)
    BY <2>1, <2>2 DEF Injection, IsInjective
  <2>5. up \in Surjection(Places(r, s), Later)
    BY <2>1, <2>3, Zenon DEF Surjection
  <2> QED
    BY <2>4, <2>5 DEF ExistsBijection, Bijection
<1>3. IsFiniteSet(Later) /\ Cardinality(Later) = Cardinality(Places(r, s))
  BY <1>1, <1>2, PlacesFinite, FS_Bijection
<1>4. 1 \notin Later
  OBVIOUS
<1> HIDE DEF r, Later
<1>5. CASE Head(q) = s
  <2>1. Places(q, s) = Later \cup {1}
    BY <1>1, <1>5 DEF Places, Later
  <2>2. Cardinality(Later \cup {1}) = Cardinality(Later) + 1
    BY <1>3, <1>4, FS_AddElement
  <2> QED
    BY <1>3, <1>5, <2>1, <2>2 DEF r
<1>6. CASE Head(q) # s
  <2>1. Places(q, s) = Later
    BY <1>1, <1>6 DEF Places, Later
  <2>2. Cardinality(Places(r, s)) \in Nat
    BY <1>1, PlacesFinite
  <2> QED
    BY <1>3, <1>6, <2>1, <2>2 DEF r
<1> QED
  BY <1>5, <1>6

\* The two counts are numbers.
LEMMA LedgerTypes ==
  ASSUME TypeOK
  PROVE  /\ OwedJobs \in [Subs -> Nat]
         /\ \A s \in Subs : IsFiniteSet(InProcess(s))
         /\ RunningJobs \in [Subs -> Nat]
<1>1. ASSUME NEW s \in Subs PROVE Owed(s) \in Nat
  <2>1. Cardinality(Places(jobs, s)) \in Nat
    BY PlacesFinite DEF TypeOK
  <2>2. sends[s] \in Nat
    BY DEF TypeOK
  <2> QED
    BY <2>1, <2>2 DEF Owed, Places
<1>2. ASSUME NEW s \in Subs PROVE IsFiniteSet(InProcess(s))
  BY WorkersAssumption, FS_Subset DEF InProcess
<1>3. \A s \in Subs : Cardinality(InProcess(s)) \in Nat
  BY <1>2, FS_CardinalityType
<1> QED
  BY <1>1, <1>2, <1>3 DEF OwedJobs, RunningJobs

\* What leaves the engine's account of a submission as it is.
LEMMA OwedFrame ==
  UNCHANGED <<sends, jobs, dispatcher.sub>> => UNCHANGED OwedJobs
BY DEF OwedJobs, Owed

LEMMA RunningFrame == UNCHANGED worker => UNCHANGED RunningJobs
BY DEF RunningJobs, InProcess

\* A worker inside process on s.
Serves(r, s) == r.sub = s /\ r.pc \notin {"release", "done"}

\* One worker's step changes at most the count of the submission it is on.
LEMMA RunningStep ==
  ASSUME TypeOK, NEW w \in Workers, NEW r, worker' = [worker EXCEPT ![w] = r]
  PROVE  /\ (\A s \in Subs : Serves(r, s) <=> Serves(worker[w], s))
              => UNCHANGED RunningJobs
         /\ \A s \in Subs :
              /\ \A t \in Subs : Serves(r, t) <=> t = s
              /\ \A t \in Subs : ~Serves(worker[w], t)
              => RunningJobs' = [RunningJobs EXCEPT ![s] = @ + 1]
         /\ \A s \in Subs :
              /\ \A t \in Subs : ~Serves(r, t)
              /\ \A t \in Subs : Serves(worker[w], t) <=> t = s
              => /\ RunningJobs[s] > 0
                 /\ RunningJobs' = [RunningJobs EXCEPT ![s] = @ - 1]
<1>1. \A s \in Subs : InProcess(s) = {v \in Workers : Serves(worker[v], s)}
  BY DEF InProcess, Serves
<1>2. \A s \in Subs :
        InProcess(s)' = {v \in Workers : IF v = w THEN Serves(r, s) ELSE Serves(worker[v], s)}
  BY DEF InProcess, Serves, TypeOK
<1>3. \A s \in Subs : IsFiniteSet(InProcess(s))
  BY LedgerTypes
<1>4. ASSUME NEW s \in Subs, Serves(r, s) <=> Serves(worker[w], s)
      PROVE  Cardinality(InProcess(s))' = Cardinality(InProcess(s))
  <2>1. InProcess(s)' = InProcess(s)
    BY <1>1, <1>2, <1>4
  <2> QED
    BY <2>1
<1>5. ASSUME NEW s \in Subs, Serves(r, s), ~Serves(worker[w], s)
      PROVE  Cardinality(InProcess(s))' = Cardinality(InProcess(s)) + 1
  <2>1. InProcess(s)' = InProcess(s) \cup {w} /\ w \notin InProcess(s)
    BY <1>1, <1>2, <1>5
  <2>2. Cardinality(InProcess(s) \cup {w}) = Cardinality(InProcess(s)) + 1
    BY <1>3, <2>1, FS_AddElement
  <2> QED
    BY <2>1, <2>2
<1>6. ASSUME NEW s \in Subs, ~Serves(r, s), Serves(worker[w], s)
      PROVE  /\ Cardinality(InProcess(s)) > 0
             /\ Cardinality(InProcess(s))' = Cardinality(InProcess(s)) - 1
  <2>1. InProcess(s)' = InProcess(s) \ {w} /\ w \in InProcess(s)
    BY <1>1, <1>2, <1>6
  <2>2. Cardinality(InProcess(s) \ {w}) = Cardinality(InProcess(s)) - 1
    BY <1>3, <2>1, FS_RemoveElement
  <2>3. Cardinality(InProcess(s)) \in Nat /\ Cardinality(InProcess(s)) # 0
    BY <1>3, <2>1, FS_CardinalityType, FS_EmptySet
  <2> QED
    BY <2>1, <2>2, <2>3
<1>7. (\A s \in Subs : Serves(r, s) <=> Serves(worker[w], s)) => UNCHANGED RunningJobs
  BY <1>4 DEF RunningJobs
<1>8. ASSUME NEW s \in Subs,
             \A t \in Subs : Serves(r, t) <=> t = s,
             \A t \in Subs : ~Serves(worker[w], t)
      PROVE  RunningJobs' = [RunningJobs EXCEPT ![s] = @ + 1]
  BY <1>4, <1>5, <1>8 DEF RunningJobs
<1>9. ASSUME NEW s \in Subs,
             \A t \in Subs : ~Serves(r, t),
             \A t \in Subs : Serves(worker[w], t) <=> t = s
      PROVE  /\ RunningJobs[s] > 0
             /\ RunningJobs' = [RunningJobs EXCEPT ![s] = @ - 1]
  BY <1>4, <1>6, <1>9 DEF RunningJobs
<1> QED
  BY <1>7, <1>8, <1>9

\* A process that is down has no goroutine and no queue.
Asleep ==
  phase = "down" =>
    /\ \A h \in Handlers : handler[h] = IdleHandler
    /\ \A s \in Subs : sends[s] = 0
    /\ jobs = <<>>
    /\ dispatcher = [pc |-> "quit", sub |-> NoSub]
    /\ \A w \in Workers : worker[w] = NoWorker
    /\ recovery = NoRecovery

LEMMA AsleepStep ==
  ASSUME TypeOK, Asleep, [Next]_vars
  PROVE  Asleep'
<1> USE DEF Asleep
<1>1. CASE Exit
  BY <1>1 DEF Exit
<1>2. CASE Boot
  BY <1>2 DEF Boot
<1>3. CASE UNCHANGED vars
  BY <1>3 DEF vars, queue, dispatch
<1>4. CASE ~Exit /\ ~Boot /\ [Next]_vars /\ phase # "down"
  <2>1. phase' # "down"
    BY <1>4 DEF Next, vars, Request, HandlerStep,
     CreateSubmission, RerunCheck, RerunReset, RerunClear, HandlerEnqueue,
     EnqueueSend, EnqueueDrop, DispatchStep, DispatchReceive, DispatchAcquire,
     DispatchQuit, DispatchSpawn, WorkerStep, EngineUnchanged, WorkerLoad,
     WorkerLoadFails, ProblemMissing, WorkerBegin, StagesPass, StageFails,
     StoreCases, Finish, Panic, ReleaseSlot, WorkerDone, RecoverStep,
     RecoverScan, RecoverReset, RecoverClear, RecoverEnqueue,
     RecoveryUnchanged, ProcessStep, Signal, ShutdownReturns, StopReturns
  <2> QED
    BY <2>1
<1>5. CASE phase = "down"
  <2>1. ~\E h \in Handlers : Request(h) \/ HandlerStep(h)
    BY <1>5 DEF IdleHandler, Request, HandlerStep, CreateSubmission, RerunCheck,
       Listening, RerunReset, RerunClear, HandlerEnqueue
  <2>2. ~\E s \in Subs : EnqueueSend(s) \/ EnqueueDrop(s)
    BY <1>5 DEF EnqueueSend, EnqueueDrop
  <2>3. ~DispatchStep
    BY <1>5 DEF DispatchStep, DispatchReceive, DispatchAcquire, DispatchQuit, DispatchSpawn
  <2>4. ~\E w \in Workers : WorkerStep(w)
    <3>1. \A w \in Workers : worker[w].pc = "none"
      BY <1>5 DEF NoWorker
    <3>2. \A w \in Workers : WorkerStep(w) => worker[w].pc # "none"
      BY DEF WorkerStep, WorkerLoad, WorkerLoadFails, ProblemMissing, WorkerBegin,
         StagesPass, StageFails, StoreCases, Finish, Panic, ReleaseSlot, WorkerDone
    <3> QED
      BY <3>1, <3>2
  <2>5. ~RecoverStep
    BY <1>5 DEF NoRecovery, RecoverStep, RecoverScan, RecoverReset, RecoverClear,
       RecoverEnqueue
  <2>6. ~(Signal \/ ShutdownReturns \/ StopReturns)
    BY <1>5 DEF Signal, ShutdownReturns, StopReturns
  <2>7. Exit \/ Boot \/ UNCHANGED vars
    BY <2>1, <2>2, <2>3, <2>4, <2>5, <2>6 DEF Next, ProcessStep
  <2> QED
    BY <1>1, <1>2, <1>3, <2>7
<1>6. CASE phase # "down"
  BY <1>1, <1>2, <1>4, <1>6
<1> QED
  BY <1>5, <1>6

\* The debt of a submission, before and after a step.
LEMMA DebtOf ==
  ASSUME TypeOK, NEW s \in Subs
  PROVE  /\ OwedJobs[s] = sends[s] + Cardinality(Places(jobs, s))
                            + (IF dispatcher.sub = s THEN 1 ELSE 0)
         /\ OwedJobs'[s] = sends'[s] + Cardinality(Places(jobs', s))
                            + (IF dispatcher'.sub = s THEN 1 ELSE 0)
         /\ sends[s] \in Nat /\ Cardinality(Places(jobs, s)) \in Nat
         /\ jobs \in Seq(Subs)
<1>1. jobs \in Seq(Subs)
  BY DEF TypeOK
<1> QED
  BY <1>1, PlacesFinite DEF OwedJobs, Owed, Places, TypeOK

\* A debt that grows or shrinks by one.
LEMMA DebtChange ==
  ASSUME TypeOK, NEW s \in Subs
  PROVE  /\ (\A t \in Subs : OwedJobs'[t] = OwedJobs[t]) => UNCHANGED OwedJobs
         /\ (\A t \in Subs : OwedJobs'[t] = OwedJobs[t] + (IF t = s THEN 1 ELSE 0))
              => OwedJobs' = [OwedJobs EXCEPT ![s] = @ + 1]
         /\ (\A t \in Subs : OwedJobs'[t] = OwedJobs[t] - (IF t = s THEN 1 ELSE 0))
              => OwedJobs' = [OwedJobs EXCEPT ![s] = @ - 1]
<1>1. /\ \A t \in Subs : OwedJobs[t] \in Nat
      /\ OwedJobs = [t \in Subs |-> OwedJobs[t]]
      /\ OwedJobs' = [t \in Subs |-> OwedJobs'[t]]
  BY LedgerTypes DEF OwedJobs
<1> QED
  BY <1>1

LedgerStep == Ledger!Next \/ UNCHANGED <<Serving, OwedJobs, RunningJobs>>

\* Enqueue incurs a debt.
LEMMA EnqueueOwes ==
  ASSUME TypeOK, NEW s \in Subs, Enqueue(s),
         UNCHANGED <<phase, jobs, dispatcher, worker>>
  PROVE  LedgerStep
<1>1. \A t \in Subs : sends'[t] = sends[t] + (IF t = s THEN 1 ELSE 0)
  BY DEF Enqueue, TypeOK
<1>2. ASSUME NEW t \in Subs
      PROVE  OwedJobs'[t] = OwedJobs[t] + (IF t = s THEN 1 ELSE 0)
  <2>1. UNCHANGED <<Places(jobs, t), dispatcher.sub>>
    BY DEF Places
  <2>2. sends'[t] = sends[t] + (IF t = s THEN 1 ELSE 0)
    BY <1>1
  <2>3. /\ OwedJobs[t] = sends[t] + Cardinality(Places(jobs, t))
                            + (IF dispatcher.sub = t THEN 1 ELSE 0)
        /\ OwedJobs'[t] = sends'[t] + Cardinality(Places(jobs', t))
                            + (IF dispatcher'.sub = t THEN 1 ELSE 0)
        /\ sends[t] \in Nat /\ Cardinality(Places(jobs, t)) \in Nat
    BY DebtOf
  <2> QED
    BY <2>1, <2>2, <2>3
<1>3. OwedJobs' = [OwedJobs EXCEPT ![s] = @ + 1]
  BY <1>2, DebtChange
<1>4. UNCHANGED <<Serving, RunningJobs>>
  BY RunningFrame DEF Serving
<1>5. Ledger!Owe(s)
  BY <1>3, <1>4 DEF Ledger!Owe
<1> QED
  BY <1>5 DEF LedgerStep, Ledger!Next

LEMMA HandlersKeepLedger ==
  ASSUME TypeOK, NEW h \in Handlers, Request(h) \/ HandlerStep(h)
  PROVE  LedgerStep
<1>1. CASE HandlerEnqueue(h)
  <2>1. handler[h].sub \in Subs
    BY <1>1, BusyFacts DEF HandlerEnqueue
  <2> QED
    BY <1>1, <2>1, EnqueueOwes DEF HandlerEnqueue, dispatch
<1>2. CASE ~HandlerEnqueue(h)
  <2>1. UNCHANGED <<phase, sends, jobs, dispatcher, worker>>
    BY <1>2 DEF Request, HandlerStep, CreateSubmission, RerunCheck, RerunReset,
       RerunClear, queue, dispatch
  <2> QED
    BY <2>1, OwedFrame, RunningFrame DEF Serving, LedgerStep
<1> QED
  BY <1>1, <1>2

LEMMA RecoveryKeepsLedger ==
  ASSUME TypeOK, RecoverStep
  PROVE  LedgerStep
<1>1. CASE RecoverEnqueue
  <2>1. recovery.cur \in Subs
    BY <1>1 DEF RecoverEnqueue, Recovery, TypeOK
  <2> QED
    BY <1>1, <2>1, EnqueueOwes DEF RecoverEnqueue, RecoveryUnchanged, dispatch
<1>2. CASE ~RecoverEnqueue
  <2>1. UNCHANGED <<phase, sends, jobs, dispatcher, worker>>
    BY <1>2 DEF RecoverStep, RecoverScan, RecoverReset, RecoverClear,
       RecoveryUnchanged, dispatch
  <2> QED
    BY <2>1, OwedFrame, RunningFrame DEF Serving, LedgerStep
<1> QED
  BY <1>1, <1>2

\* The job of a sender goes to the channel; without the context it is given up.
LEMMA SendersKeepLedger ==
  ASSUME TypeOK, NEW s \in Subs, EnqueueSend(s) \/ EnqueueDrop(s)
  PROVE  LedgerStep
<1>1. \A t \in Subs : sends'[t] = sends[t] - (IF t = s THEN 1 ELSE 0)
  BY DEF EnqueueSend, EnqueueDrop, TypeOK
<1>2. UNCHANGED <<Serving, RunningJobs, dispatcher>>
  BY RunningFrame DEF EnqueueSend, EnqueueDrop, Serving, dispatch
<1>3. CASE EnqueueSend(s)
  <2>1. \A t \in Subs : Cardinality(Places(jobs', t))
          = Cardinality(Places(jobs, t)) + (IF s = t THEN 1 ELSE 0)
    BY <1>3, PlacesOfAppend DEF EnqueueSend, TypeOK
  <2>2. \A t \in Subs : OwedJobs'[t] = OwedJobs[t]
    BY <1>1, <1>2, <2>1, DebtOf
  <2>3. UNCHANGED OwedJobs
    BY <2>2, DebtChange
  <2> QED
    BY <1>2, <2>3 DEF LedgerStep
<1>4. CASE EnqueueDrop(s)
  <2>1. ~Serving /\ sends[s] > 0 /\ UNCHANGED jobs
    BY <1>4 DEF EnqueueDrop, CtxDone, Serving
  <2>2. \A t \in Subs : OwedJobs'[t] = OwedJobs[t] - (IF t = s THEN 1 ELSE 0)
    BY <1>1, <1>2, <2>1, DebtOf
  <2>3. OwedJobs' = [OwedJobs EXCEPT ![s] = @ - 1]
    BY <2>2, DebtChange
  <2>4. OwedJobs[s] > 0
    <3> DEFINE queued == Cardinality(Places(jobs, s))
               held == IF dispatcher.sub = s THEN 1 ELSE 0
    <3>1. OwedJobs[s] = sends[s] + queued + held /\ sends[s] \in Nat /\ queued \in Nat
      BY DebtOf
    <3>2. held \in Nat
      OBVIOUS
    <3> HIDE DEF queued, held
    <3> QED
      BY <2>1, <3>1, <3>2
  <2>5. Ledger!Drop(s)
    BY <1>2, <2>1, <2>3, <2>4 DEF Ledger!Drop
  <2> QED
    BY <2>5 DEF LedgerStep, Ledger!Next
<1> QED
  BY <1>3, <1>4

\* The dispatcher takes the debt over from the channel and hands it to a worker.
LEMMA DispatcherKeepsLedger ==
  ASSUME TypeOK, DispatchStep
  PROVE  LedgerStep
<1>1. UNCHANGED <<Serving, sends>>
  BY DEF DispatchStep, DispatchReceive, DispatchAcquire, DispatchQuit,
     DispatchSpawn, queue, Serving
<1>2. dispatcher.sub \in Subs \cup {NoSub}
  BY DEF TypeOK, Dispatcher
<1>3. CASE DispatchReceive
  <2>1. /\ dispatcher.sub = NoSub /\ dispatcher'.sub = Head(jobs)
        /\ jobs # <<>> /\ jobs' = Tail(jobs) /\ UNCHANGED worker
    BY <1>3 DEF DispatchReceive, Dispatcher, TypeOK
  <2>2. \A t \in Subs : Cardinality(Places(jobs, t))
          = Cardinality(Places(jobs', t)) + (IF Head(jobs) = t THEN 1 ELSE 0)
    BY <2>1, PlacesOfTail DEF TypeOK
  <2>3. jobs' \in Seq(Subs) /\ Head(jobs) \in Subs
    BY <2>1 DEF TypeOK
  <2>4. ASSUME NEW t \in Subs PROVE OwedJobs'[t] = OwedJobs[t]
    <3>1. Cardinality(Places(jobs', t)) \in Nat
      BY <2>3, PlacesFinite
    <3>2. /\ OwedJobs[t] = sends[t] + Cardinality(Places(jobs, t))
                              + (IF dispatcher.sub = t THEN 1 ELSE 0)
          /\ OwedJobs'[t] = sends'[t] + Cardinality(Places(jobs', t))
                              + (IF dispatcher'.sub = t THEN 1 ELSE 0)
          /\ sends[t] \in Nat
      BY DebtOf
    <3>3. dispatcher.sub # t /\ sends'[t] = sends[t]
      BY <1>1, <2>1, SubsAssumption
    <3> QED
      BY <2>1, <2>2, <3>1, <3>2, <3>3
  <2>5. UNCHANGED <<OwedJobs, RunningJobs>>
    <3>1. Subs # {}
      BY <2>1 DEF TypeOK
    <3> QED
      BY <2>1, <2>4, <3>1, DebtChange, RunningFrame
  <2> QED
    BY <1>1, <2>5 DEF LedgerStep
<1>4. CASE DispatchAcquire
  <2>1. UNCHANGED <<sends, jobs, dispatcher.sub, worker>>
    BY <1>4 DEF DispatchAcquire, TypeOK, Dispatcher, queue
  <2> QED
    BY <1>1, <2>1, OwedFrame, RunningFrame DEF LedgerStep
<1>5. CASE DispatchQuit
  <2>1. /\ ~Serving /\ UNCHANGED <<jobs, worker>>
        /\ dispatcher'.sub = NoSub
    BY <1>5 DEF DispatchQuit, CtxDone, Serving, queue
  <2>2. CASE dispatcher.sub = NoSub
    BY <1>1, <2>1, <2>2, OwedFrame, RunningFrame DEF LedgerStep
  <2>3. ASSUME NEW s \in Subs, dispatcher.sub = s PROVE LedgerStep
    <3>1. \A t \in Subs : OwedJobs'[t] = OwedJobs[t] - (IF t = s THEN 1 ELSE 0)
      BY <1>1, <2>1, <2>3, DebtOf, SubsAssumption
    <3>2. OwedJobs' = [OwedJobs EXCEPT ![s] = @ - 1] /\ OwedJobs[s] > 0
      BY <2>3, <3>1, DebtOf, DebtChange
    <3>3. Ledger!Drop(s)
      BY <1>1, <2>1, <3>2, RunningFrame DEF Ledger!Drop
    <3> QED
      BY <3>3 DEF LedgerStep, Ledger!Next
  <2> QED
    BY <1>2, <2>2, <2>3
<1>6. ASSUME NEW w \in Workers, DispatchSpawn(w) PROVE LedgerStep
  <2> DEFINE s == dispatcher.sub
             r == [pc |-> "load", sub |-> s, row |-> NoRow]
  <2>1. /\ s \in Subs /\ dispatcher'.sub = NoSub /\ UNCHANGED jobs
        /\ worker' = [worker EXCEPT ![w] = r]
        /\ worker[w] = NoWorker
    BY <1>6 DEF DispatchSpawn, TypeOK, Dispatcher, BusyWorker, queue
  <2>2. \A t \in Subs : OwedJobs'[t] = OwedJobs[t] - (IF t = s THEN 1 ELSE 0)
    BY <1>1, <2>1, DebtOf, SubsAssumption
  <2>3. OwedJobs' = [OwedJobs EXCEPT ![s] = @ - 1]
    BY <2>1, <2>2, DebtChange
  <2>4. OwedJobs[s] > 0
    BY <2>1, DebtOf
  <2>5. /\ \A t \in Subs : Serves(r, t) <=> t = s
        /\ \A t \in Subs : ~Serves(worker[w], t)
    BY <2>1, SubsAssumption DEF Serves, NoWorker
  <2> HIDE DEF r
  <2>6. RunningJobs' = [RunningJobs EXCEPT ![s] = @ + 1]
    BY <2>1, <2>5, RunningStep
  <2>7. Ledger!Start(s)
    BY <1>1, <2>3, <2>4, <2>6 DEF Ledger!Start
  <2> QED
    BY <2>1, <2>7 DEF LedgerStep, Ledger!Next
<1> QED
  BY <1>3, <1>4, <1>5, <1>6 DEF DispatchStep

\* A worker that ends process ends the judging; no other step of it counts.
LEMMA WorkersKeepLedger ==
  ASSUME TypeOK, NEW w \in Workers, WorkerStep(w)
  PROVE  LedgerStep
<1>1. UNCHANGED <<Serving, OwedJobs>>
  <2>1. UNCHANGED <<phase, sends, jobs, dispatcher>>
    BY DEF WorkerStep, EngineUnchanged, WorkerLoad, WorkerLoadFails,
       ProblemMissing, WorkerBegin, StagesPass, StageFails, StoreCases, Finish,
       Panic, ReleaseSlot, WorkerDone, queue, dispatch
  <2> QED
    BY <2>1, OwedFrame DEF Serving
<1>2. worker[w] \in BusyWorker /\ worker[w].sub \in Subs
  <2>1. worker[w].pc # "none"
    BY DEF WorkerStep, WorkerLoad, WorkerLoadFails, ProblemMissing, WorkerBegin,
       StagesPass, StageFails, StoreCases, Finish, Panic, ReleaseSlot, WorkerDone
  <2> QED
    BY <2>1, WorkerFacts
<1>3. ASSUME NEW p, NEW x, Goes(w, p, x),
             p \in {"release", "done"} <=> worker[w].pc \in {"release", "done"}
      PROVE  LedgerStep
  <2> DEFINE r == [pc |-> p, sub |-> worker[w].sub, row |-> x]
  <2>1. worker' = [worker EXCEPT ![w] = r]
    BY <1>3 DEF Goes
  <2>2. \A s \in Subs : Serves(r, s) <=> Serves(worker[w], s)
    BY <1>3 DEF Serves
  <2> HIDE DEF r
  <2>3. UNCHANGED RunningJobs
    BY <2>1, <2>2, RunningStep
  <2> QED
    BY <1>1, <2>3 DEF LedgerStep
<1>4. ASSUME Leave(w), worker[w].pc \notin {"release", "done"} PROVE LedgerStep
  <2> DEFINE s == worker[w].sub
             r == [pc |-> "release", sub |-> s, row |-> NoRow]
  <2>1. worker' = [worker EXCEPT ![w] = r]
    BY <1>4 DEF Leave, Goes
  <2>2. /\ \A t \in Subs : ~Serves(r, t)
        /\ \A t \in Subs : Serves(worker[w], t) <=> t = s
    BY <1>4 DEF Serves
  <2> HIDE DEF r
  <2>3. RunningJobs[s] > 0 /\ RunningJobs' = [RunningJobs EXCEPT ![s] = @ - 1]
    BY <1>2, <2>1, <2>2, RunningStep
  <2>4. Ledger!End(s)
    BY <1>1, <2>3 DEF Ledger!End
  <2> QED
    BY <1>2, <2>4 DEF LedgerStep, Ledger!Next
<1>5. CASE \/ WorkerLoad(w) \/ WorkerBegin(w) \/ StagesPass(w) \/ ReleaseSlot(w)
           \/ \E v \in CaseVerdicts : StoreCases(w, v)
  BY <1>3, <1>5 DEF WorkerLoad, WorkerBegin, StagesPass, StoreCases, ReleaseSlot
<1>6. CASE \/ WorkerLoadFails(w) \/ ProblemMissing(w) \/ Finish(w) \/ Panic(w)
           \/ \E v \in FailVerdicts : StageFails(w, v)
  BY <1>4, <1>6 DEF WorkerLoadFails, ProblemMissing, Finish, Panic, StageFails, Fail
<1>7. CASE WorkerDone(w)
  <2>1. worker' = [worker EXCEPT ![w] = NoWorker]
    BY <1>7 DEF WorkerDone
  <2>2. \A s \in Subs : Serves(NoWorker, s) <=> Serves(worker[w], s)
    BY <1>7, SubsAssumption DEF WorkerDone, Serves, NoWorker
  <2>3. UNCHANGED RunningJobs
    BY <2>1, <2>2, RunningStep
  <2> QED
    BY <1>1, <2>3 DEF LedgerStep
<1> QED
  BY <1>5, <1>6, <1>7 DEF WorkerStep

\* Nobody waits and nobody works: the ledger is empty.
LEMMA EmptyLedger ==
  ASSUME NEW q, q = <<>>, NEW s \in Subs
  PROVE  Cardinality({i \in 1..Len(q) : q[i] = s}) = 0
<1>1. {i \in 1..Len(q) : q[i] = s} = {}
  OBVIOUS
<1> QED
  BY <1>1, FS_EmptySet

LEMMA ProcessKeepsLedger ==
  ASSUME TypeOK, Asleep, ProcessStep
  PROVE  LedgerStep
<1>1. CASE Signal \/ ShutdownReturns \/ StopReturns
  <2>1. UNCHANGED <<sends, jobs, dispatcher, worker>>
    BY <1>1 DEF Signal, ShutdownReturns, StopReturns, GoroutinesUnchanged,
       queue, dispatch
  <2>2. UNCHANGED <<OwedJobs, RunningJobs>>
    BY <2>1, OwedFrame, RunningFrame
  <2>3. (Serving /\ Serving' = FALSE) \/ UNCHANGED Serving
    BY <1>1 DEF Signal, ShutdownReturns, StopReturns, Serving
  <2> QED
    BY <2>2, <2>3 DEF LedgerStep, Ledger!Next, Ledger!Close
<1>2. CASE Exit
  <2>1. Serving' = FALSE
    BY <1>2 DEF Exit, Serving
  <2>2. OwedJobs' = Ledger!None
    <3>1. \A s \in Subs : sends'[s] = 0 /\ dispatcher'.sub # s
      BY <1>2, SubsAssumption DEF Exit
    <3>2. jobs' = <<>>
      BY <1>2 DEF Exit
    <3>3. \A s \in Subs : Cardinality({i \in 1..Len(jobs') : jobs'[i] = s}) = 0
      BY <3>2, EmptyLedger
    <3> QED
      BY <3>1, <3>3 DEF OwedJobs, Owed, Ledger!None
  <2>3. RunningJobs' = Ledger!None
    <3>1. \A s \in Subs : InProcess(s)' = {}
      BY <1>2, SubsAssumption DEF Exit, InProcess, NoWorker
    <3> QED
      BY <3>1, FS_EmptySet DEF RunningJobs, Ledger!None
  <2> QED
    BY <2>1, <2>2, <2>3 DEF LedgerStep, Ledger!Next, Ledger!Lose
<1>3. CASE Boot
  <2>1. /\ ~Serving /\ Serving' = TRUE /\ UNCHANGED <<sends, jobs, worker>>
        /\ dispatcher.sub = NoSub /\ dispatcher'.sub = NoSub
    BY <1>3 DEF Boot, Serving, Asleep, queue
  <2>2. UNCHANGED <<OwedJobs, RunningJobs>>
    BY <2>1, OwedFrame, RunningFrame
  <2>3. OwedJobs = Ledger!None
    <3>1. \A s \in Subs : sends[s] = 0 /\ dispatcher.sub # s /\ jobs = <<>>
      BY <1>3, SubsAssumption DEF Boot, Asleep
    <3>2. \A s \in Subs : Cardinality({i \in 1..Len(jobs) : jobs[i] = s}) = 0
      BY <3>1, EmptyLedger
    <3> QED
      BY <3>1, <3>2 DEF OwedJobs, Owed, Ledger!None
  <2>4. RunningJobs = Ledger!None
    <3>1. \A s \in Subs : InProcess(s) = {}
      BY <1>3, SubsAssumption DEF Boot, Asleep, InProcess, NoWorker
    <3> QED
      BY <3>1, FS_EmptySet DEF RunningJobs, Ledger!None
  <2> QED
    BY <2>1, <2>2, <2>3, <2>4 DEF LedgerStep, Ledger!Next, Ledger!Reopen
<1> QED
  BY <1>1, <1>2, <1>3 DEF ProcessStep

\* Under every interleaving, fault, crash and restart, a call of Enqueue is one
\* debt that one worker pays: no step loses a job or hands it out twice while
\* the context is not done, whichever of the senders, the channel and the
\* dispatcher holds it (engine.go:94-152). This is the safety part of JobsServed.
THEOREM EngineKeepsLedger == Spec => Ledger!Spec
<1>1. Init => Ledger!Init /\ Asleep
  <2> SUFFICES ASSUME Init PROVE Ledger!Init /\ Asleep
    OBVIOUS
  <2>1. \A s \in Subs : sends[s] = 0 /\ dispatcher.sub # s /\ jobs = <<>>
    BY SubsAssumption DEF Init
  <2>2. \A s \in Subs : Cardinality({i \in 1..Len(jobs) : jobs[i] = s}) = 0
    BY <2>1, EmptyLedger
  <2>3. OwedJobs = Ledger!None
    BY <2>1, <2>2 DEF OwedJobs, Owed, Ledger!None
  <2>4. \A s \in Subs : InProcess(s) = {}
    BY SubsAssumption DEF Init, InProcess, NoWorker
  <2>5. RunningJobs = Ledger!None
    BY <2>4, FS_EmptySet DEF RunningJobs, Ledger!None
  <2>6. Serving = TRUE /\ Asleep
    BY DEF Init, Serving, Asleep
  <2> QED
    BY <2>3, <2>5, <2>6 DEF Ledger!Init
<1>2. TypeOK /\ Asleep /\ [Next]_vars => Asleep'
  BY AsleepStep
<1>3. TypeOK /\ Asleep /\ [Next]_vars => [Ledger!Next]_(Ledger!vars)
  <2> SUFFICES ASSUME TypeOK, Asleep, [Next]_vars PROVE LedgerStep
    BY DEF LedgerStep, Ledger!vars
  <2>1. CASE UNCHANGED vars
    <3>1. UNCHANGED <<phase, sends, jobs, dispatcher, worker>>
      BY <2>1 DEF vars, queue, dispatch
    <3> QED
      BY <3>1, OwedFrame, RunningFrame DEF LedgerStep, Serving
  <2> QED
    BY <2>1, HandlersKeepLedger, SendersKeepLedger, DispatcherKeepsLedger,
       WorkersKeepLedger, RecoveryKeepsLedger, ProcessKeepsLedger DEF Next
<1> QED
  BY <1>1, <1>2, <1>3, TypeCorrect, PTL DEF Spec, Ledger!Spec
==============================================================================
