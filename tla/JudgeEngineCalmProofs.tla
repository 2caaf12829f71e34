------------------------ MODULE JudgeEngineCalmProofs ------------------------
(***************************************************************************)
(* What JudgeEngine promises while clients are calm and no statement       *)
(* fails, for any number of submissions, handlers and workers, with panics *)
(* and with crashes and shutdowns at any point.                            *)
(*                                                                         *)
(* The argument is one of ownership.  A job for a submission is in one     *)
(* place at most (Exclusive): with a request, a sender, in the channel,    *)
(* with the dispatcher, a worker, or recovery.  Who has it knows the row   *)
(* and the case results it will find (the ...OK of each place), because    *)
(* nobody else may write them.  Every step passes the job on, or changes   *)
(* what its owner may change.  A request takes a job only where there is   *)
(* none: the row it has read is absent or a verdict.  Recovery does so     *)
(* only at a boot, when there is none anywhere (Quiet).                    *)
(***************************************************************************)
EXTENDS JudgeEngineProofs

RunningRow == [status |-> "RUNNING", finished |-> FALSE]

\* A judging of s can begin.
Ready(s) == row[s] = PendingRow /\ results[s] = <<>>

AtWork == {"load", "begin", "stages", "cases", "finish"}

------------------------------------------------------------------------------
(* The places of a job, and what is true of the tables when it is there.    *)

InRequest(s) == \E h \in Handlers : handler[h].sub = s

RequestFits(x, s) ==
  /\ x.pc = "reset" => row[s].status \in Verdicts
  /\ x.pc = "clear" => row[s] = PendingRow
  /\ x.pc = "enqueue" => Ready(s)

RequestOK(s) ==
  /\ \A g, h \in Handlers : handler[g].sub = s /\ handler[h].sub = s => g = h
  /\ \A h \in Handlers : handler[h].sub = s => RequestFits(handler[h], s)

InSender(s) == sends[s] > 0

SenderOK(s) == sends[s] <= 1 /\ (InSender(s) => Ready(s))

InQueue(s) == \E i \in 1..Len(jobs) : jobs[i] = s

QueueOK(s) ==
  /\ \A i, j \in 1..Len(jobs) : jobs[i] = s /\ jobs[j] = s => i = j
  /\ InQueue(s) => Ready(s)

InDispatcher(s) == dispatcher.sub = s

DispatcherOK(s) == InDispatcher(s) => Ready(s)

Works(w, s) == worker[w].sub = s /\ worker[w].pc \in AtWork

InWorker(s) == \E w \in Workers : Works(w, s)

WorkerFits(x, s) ==
  /\ x.pc = "load" => Ready(s)
  /\ x.pc = "begin" => Ready(s) /\ x.row = PendingRow
  /\ x.pc \in {"stages", "cases"} => row[s] = RunningRow /\ results[s] = <<>>
  /\ x.pc = "finish" => row[s] = RunningRow /\ results[s] = <<x.row.status>>

WorkerOK(s) ==
  /\ \A v, w \in Workers : Works(v, s) /\ Works(w, s) => v = w
  /\ \A w \in Workers : Works(w, s) => WorkerFits(worker[w], s)

InRecovery(s) == recovery.cur = s \/ s \in recovery.todo

RecoveryOK(s) ==
  /\ recovery.cur = s =>
       /\ s \notin recovery.todo /\ row[s] = PendingRow
       /\ recovery.pc = "enqueue" => results[s] = <<>>
  /\ s \in recovery.todo => row[s].status \in Unfinished

\* The properties, for one submission.
Matches(s) ==
  row[s].status \in Verdicts =>
    \/ results[s] = <<>>
    \/ results[s] = <<row[s].status>>
    \/ "panic" \in Faults /\ row[s].status = "IE"

RowOK(s) ==
  /\ row[s].status = "absent" => results[s] = <<>>
  /\ Len(results[s]) <= 1
  /\ Matches(s)
  /\ row[s].finished => row[s].status \in Verdicts

Exclusive(s) ==
  /\ InRequest(s) => ~(InSender(s) \/ InQueue(s) \/ InDispatcher(s) \/ InWorker(s) \/ InRecovery(s))
  /\ InSender(s) => ~(InQueue(s) \/ InDispatcher(s) \/ InWorker(s) \/ InRecovery(s))
  /\ InQueue(s) => ~(InDispatcher(s) \/ InWorker(s) \/ InRecovery(s))
  /\ InDispatcher(s) => ~(InWorker(s) \/ InRecovery(s))
  /\ InWorker(s) => ~InRecovery(s)

Nowhere(s) ==
  ~(InRequest(s) \/ InSender(s) \/ InQueue(s) \/ InDispatcher(s) \/ InWorker(s) \/ InRecovery(s))

PlacesOK(s) ==
  /\ RequestOK(s) /\ SenderOK(s) /\ QueueOK(s) /\ DispatcherOK(s) /\ WorkerOK(s)
  /\ RecoveryOK(s) /\ RowOK(s)

Owned(s) == Exclusive(s) /\ PlacesOK(s)

\* When the process is down, and before recovery has read its list, there is
\* no job.
Quiet ==
  /\ phase = "down" \/ recovery.pc = "scan" => \A s \in Subs : Nowhere(s)
  /\ phase = "down" => recovery.pc # "scan"

\* What every step that is no arrival does to a submission.
Kept(s) == Owned(s)' /\ (Nowhere(s) => Nowhere(s)')

KeepsRow(s) == row'[s] = row[s] /\ results'[s] = results[s]

------------------------------------------------------------------------------
(* Frames: a place that a step leaves alone stays as it is, if the step does *)
(* not touch the tables of the submission or the job is not there.           *)

LEMMA Frames ==
  ASSUME NEW t \in Subs, Owned(t)
  PROVE  /\ UNCHANGED handler /\ (KeepsRow(t) \/ ~InRequest(t)) =>
              RequestOK(t)' /\ (InRequest(t)' <=> InRequest(t))
         /\ sends'[t] = sends[t] /\ (KeepsRow(t) \/ ~InSender(t)) =>
              SenderOK(t)' /\ (InSender(t)' <=> InSender(t))
         /\ UNCHANGED jobs /\ (KeepsRow(t) \/ ~InQueue(t)) =>
              QueueOK(t)' /\ (InQueue(t)' <=> InQueue(t))
         /\ dispatcher'.sub = dispatcher.sub /\ (KeepsRow(t) \/ ~InDispatcher(t)) =>
              DispatcherOK(t)' /\ (InDispatcher(t)' <=> InDispatcher(t))
         /\ UNCHANGED worker /\ (KeepsRow(t) \/ ~InWorker(t)) =>
              WorkerOK(t)' /\ (InWorker(t)' <=> InWorker(t))
         /\ UNCHANGED recovery /\ (KeepsRow(t) \/ ~InRecovery(t)) =>
              RecoveryOK(t)' /\ (InRecovery(t)' <=> InRecovery(t))
         /\ KeepsRow(t) => RowOK(t)'
<1> USE DEF Owned, PlacesOK, KeepsRow, Ready
<1>1. UNCHANGED handler /\ (KeepsRow(t) \/ ~InRequest(t)) =>
        RequestOK(t)' /\ (InRequest(t)' <=> InRequest(t))
  BY DEF RequestOK, InRequest, RequestFits
<1>2. sends'[t] = sends[t] /\ (KeepsRow(t) \/ ~InSender(t)) =>
        SenderOK(t)' /\ (InSender(t)' <=> InSender(t))
  BY DEF SenderOK, InSender
<1>3. UNCHANGED jobs /\ (KeepsRow(t) \/ ~InQueue(t)) =>
        QueueOK(t)' /\ (InQueue(t)' <=> InQueue(t))
  BY DEF QueueOK, InQueue
<1>4. dispatcher'.sub = dispatcher.sub /\ (KeepsRow(t) \/ ~InDispatcher(t)) =>
        DispatcherOK(t)' /\ (InDispatcher(t)' <=> InDispatcher(t))
  BY DEF DispatcherOK, InDispatcher
<1>5. UNCHANGED worker /\ (KeepsRow(t) \/ ~InWorker(t)) =>
        WorkerOK(t)' /\ (InWorker(t)' <=> InWorker(t))
  BY DEF WorkerOK, InWorker, Works, WorkerFits
<1>6. UNCHANGED recovery /\ (KeepsRow(t) \/ ~InRecovery(t)) =>
        RecoveryOK(t)' /\ (InRecovery(t)' <=> InRecovery(t))
  BY DEF RecoveryOK, InRecovery
<1>7. KeepsRow(t) => RowOK(t)'
  BY DEF RowOK, Matches
<1> QED
  BY <1>1, <1>2, <1>3, <1>4, <1>5, <1>6, <1>7

\* The other requests, when one of another submission makes a step.
LEMMA OtherRequests ==
  ASSUME NEW t \in Subs, Owned(t), KeepsRow(t), NEW h \in Handlers,
         \A g \in Handlers \ {h} : handler'[g] = handler[g],
         handler[h].sub # t, handler'[h].sub # t
  PROVE  RequestOK(t)' /\ (InRequest(t)' <=> InRequest(t))
BY DEF Owned, PlacesOK, RequestOK, InRequest, RequestFits, KeepsRow, Ready

\* The request that has the job.
LEMMA ActingRequest ==
  ASSUME NEW t \in Subs, Owned(t), NEW h \in Handlers, handler[h].sub = t,
         \A g \in Handlers \ {h} : handler'[g] = handler[g],
         handler'[h].sub = t => RequestFits(handler[h], t)'
  PROVE  RequestOK(t)' /\ (InRequest(t)' <=> handler'[h].sub = t)
BY DEF Owned, PlacesOK, RequestOK, InRequest

LEMMA OtherWorkers ==
  ASSUME NEW t \in Subs, Owned(t), KeepsRow(t), NEW w \in Workers,
         \A v \in Workers \ {w} : worker'[v] = worker[v],
         ~Works(w, t), ~Works(w, t)'
  PROVE  WorkerOK(t)' /\ (InWorker(t)' <=> InWorker(t))
BY DEF Owned, PlacesOK, WorkerOK, InWorker, Works, WorkerFits, KeepsRow, Ready

LEMMA ActingWorker ==
  ASSUME NEW t \in Subs, Owned(t), NEW w \in Workers, Works(w, t),
         \A v \in Workers \ {w} : worker'[v] = worker[v],
         Works(w, t)' => WorkerFits(worker[w], t)'
  PROVE  WorkerOK(t)' /\ (InWorker(t)' <=> Works(w, t)')
BY DEF Owned, PlacesOK, WorkerOK, InWorker, Works

\* No step of another submission: all places stay.
LEMMA Assemble ==
  ASSUME NEW t \in Subs, Owned(t), PlacesOK(t)',
         InRequest(t)' => InRequest(t), InSender(t)' => InSender(t),
         InQueue(t)' => InQueue(t), InDispatcher(t)' => InDispatcher(t),
         InWorker(t)' => InWorker(t), InRecovery(t)' => InRecovery(t)
  PROVE  Kept(t)
BY DEF Owned, Exclusive, Nowhere, Kept

------------------------------------------------------------------------------
(* Types, as the steps use them.                                            *)

LEMMA StatusFacts ==
  /\ \A st \in Verdicts : st # "absent" /\ st # "PENDING" /\ st # "RUNNING" /\ st \notin Unfinished
  /\ "PENDING" \in Unfinished /\ "RUNNING" \in Unfinished /\ "absent" \notin Unfinished
  /\ PendingRow.status = "PENDING" /\ RunningRow.status = "RUNNING" /\ NoRow.status = "absent"
  /\ PendingRow.finished = FALSE /\ RunningRow.finished = FALSE
  /\ "IE" \in Verdicts
BY DEF Verdicts, Unfinished, PendingRow, RunningRow, NoRow

LEMMA RequestTypes ==
  ASSUME TypeOK, NEW h \in Handlers
  PROVE  /\ handler[h].pc # "idle" => handler[h].sub \in Subs
         /\ handler[h].pc = "idle" => handler[h].sub = NoSub
         /\ handler[h].pc \in {"idle", "reset", "clear", "enqueue"}
         /\ \A p : [handler[h] EXCEPT !.pc = p].pc = p
                   /\ [handler[h] EXCEPT !.pc = p].sub = handler[h].sub
<1>1. handler[h] = IdleHandler \/ handler[h] \in BusyHandler
  BY DEF TypeOK
<1> QED
  BY <1>1, SubsAssumption DEF IdleHandler, BusyHandler

LEMMA HandlerChanges ==
  ASSUME TypeOK, NEW h \in Handlers, NEW x, handler' = [handler EXCEPT ![h] = x]
  PROVE  handler'[h] = x /\ \A g \in Handlers \ {h} : handler'[g] = handler[g]
BY DEF TypeOK

LEMMA WorkerChanges ==
  ASSUME TypeOK, NEW w \in Workers, NEW p, NEW r, Goes(w, p, r)
  PROVE  /\ worker'[w].pc = p /\ worker'[w].sub = worker[w].sub /\ worker'[w].row = r
         /\ \A v \in Workers \ {w} : worker'[v] = worker[v]
BY DEF TypeOK, Goes

LEMMA WorkerSub ==
  ASSUME TypeOK, NEW w \in Workers, worker[w].pc # "none"
  PROVE  worker[w].sub \in Subs
BY WorkerFacts

\* A statement on s touches no other submission.
LEMMA StatementFrames ==
  ASSUME TypeOK, NEW s \in Subs, NEW t \in Subs, t # s
  PROVE  /\ \A r : Write(s, r) => KeepsRow(t)
         /\ Reset(s) => KeepsRow(t)
         /\ ClearResults(s) => KeepsRow(t)
         /\ \A v : StoreResults(s, v) => KeepsRow(t)
         /\ UNCHANGED tables => KeepsRow(t)
BY DEF TypeOK, Write, Reset, ClearResults, StoreResults, tables, KeepsRow

LEMMA StatementEffects ==
  ASSUME TypeOK, NEW s \in Subs
  PROVE  /\ \A r : Write(s, r) => row'[s] = r /\ results'[s] = results[s]
         /\ Reset(s) => row'[s] = PendingRow /\ results'[s] = results[s]
         /\ ClearResults(s) => row'[s] = row[s] /\ results'[s] = <<>>
         /\ \A v : StoreResults(s, v) => row'[s] = row[s] /\ results'[s] = Append(results[s], v)
         /\ UNCHANGED tables => row'[s] = row[s] /\ results'[s] = results[s]
BY DEF TypeOK, Write, Reset, ClearResults, StoreResults, tables

LEMMA NoFault ==
  ASSUME "store" \notin Faults
  PROVE  ~StoreFault
BY DEF StoreFault

LEMMA NoSubNowhere == \A t \in Subs : t # NoSub
BY SubsAssumption

------------------------------------------------------------------------------
(* Arrivals.                                                                *)

\* Where the row is absent or a verdict there is no job but a request's.
LEMMA FreeRow ==
  ASSUME TypeOK, NEW s \in Subs, Owned(s), row[s].status \notin Unfinished
  PROVE  /\ ~InSender(s) /\ ~InQueue(s) /\ ~InDispatcher(s) /\ ~InWorker(s) /\ ~InRecovery(s)
         /\ row[s].status = "absent" => ~InRequest(s)
<1> USE StatusFacts DEF Owned, PlacesOK, Ready
<1>1. ~InSender(s) /\ ~InQueue(s) /\ ~InDispatcher(s)
  BY DEF SenderOK, QueueOK, DispatcherOK
<1>2. ~InWorker(s)
  <2>1. SUFFICES ASSUME NEW w \in Workers, Works(w, s) PROVE FALSE
    BY DEF InWorker
  <2>2. WorkerFits(worker[w], s)
    BY <2>1 DEF WorkerOK
  <2> QED
    BY <2>1, <2>2 DEF WorkerFits, Works, AtWork
<1>3. ~InRecovery(s)
  BY DEF RecoveryOK, InRecovery
<1>4. row[s].status = "absent" => ~InRequest(s)
  <2>1. SUFFICES ASSUME NEW h \in Handlers, handler[h].sub = s, row[s].status = "absent"
                 PROVE  FALSE
    BY DEF InRequest
  <2>2. RequestFits(handler[h], s)
    BY <2>1 DEF RequestOK
  <2>3. handler[h].pc \in {"reset", "clear", "enqueue"}
    BY <2>1, RequestTypes, NoSubNowhere
  <2> QED
    BY <2>1, <2>2, <2>3 DEF RequestFits
<1> QED
  BY <1>1, <1>2, <1>3, <1>4

\* A request that takes a job where there was none.
LEMMA RequestArrives ==
  ASSUME NEW s \in Subs, NEW h \in Handlers, handler'[h].sub = s,
         \A g \in Handlers : g # h => handler'[g].sub # s,
         RequestFits(handler[h], s)', RowOK(s)',
         ~InSender(s), ~InQueue(s), ~InDispatcher(s), ~InWorker(s), ~InRecovery(s), Owned(s),
         UNCHANGED <<sends, jobs, dispatcher, worker, recovery>>
  PROVE  Owned(s)'
<1>1. RequestOK(s)' /\ InRequest(s)'
  BY DEF RequestOK, InRequest
<1>2. /\ SenderOK(s)' /\ QueueOK(s)' /\ DispatcherOK(s)' /\ WorkerOK(s)' /\ RecoveryOK(s)'
      /\ ~InSender(s)' /\ ~InQueue(s)' /\ ~InDispatcher(s)' /\ ~InWorker(s)' /\ ~InRecovery(s)'
  BY Frames
<1> QED
  BY <1>1, <1>2 DEF Owned, Exclusive, PlacesOK

LEMMA ArrivalsOwn ==
  ASSUME TypeOK, \A t \in Subs : Owned(t), NEW h \in Handlers, Request(h), OneRequestPerSub,
         NEW t \in Subs
  PROVE  Owned(t)'
<1>1. UNCHANGED <<sends, jobs, dispatcher, worker, recovery>>
  BY DEF Request, CreateSubmission, RerunCheck, queue, dispatch
<1>2. ASSUME NEW s \in Subs, t # s, KeepsRow(t), handler[h].sub = NoSub, handler'[h].sub = s,
             \A g \in Handlers \ {h} : handler'[g] = handler[g]
      PROVE  Owned(t)'
  <2>1. RequestOK(t)' /\ (InRequest(t)' <=> InRequest(t))
    BY <1>2, OtherRequests, NoSubNowhere
  <2>2. PlacesOK(t)'
    BY <1>1, <1>2, <2>1, Frames DEF PlacesOK
  <2> QED
    BY <1>1, <1>2, <2>1, <2>2, Frames, Assemble DEF Kept
<1>3. ASSUME NEW s \in Subs, CreateSubmission(h, s) PROVE Owned(t)'
  <2>1. handler[h].sub = NoSub /\ handler'[h] = [pc |-> "enqueue", sub |-> s]
    BY <1>3, RequestTypes, HandlerChanges DEF CreateSubmission
  <2>2. \A g \in Handlers \ {h} : handler'[g] = handler[g]
    BY <1>3, HandlerChanges DEF CreateSubmission
  <2>3. Write(s, PendingRow) /\ row[s] = NoRow
    BY <1>3 DEF CreateSubmission
  <2>4. CASE t # s
    BY <1>2, <2>1, <2>2, <2>3, <2>4, StatementFrames
  <2>5. CASE t = s
    <3>1. row[t].status = "absent" /\ row[t].status \notin Unfinished
      BY <2>3, <2>5, StatusFacts
    <3>2. results[t] = <<>>
      BY <3>1 DEF Owned, PlacesOK, RowOK
    <3>3. row'[t] = PendingRow /\ results'[t] = <<>>
      BY <2>3, <2>5, <3>2, StatementEffects
    <3>4. RequestFits(handler[h], t)' /\ RowOK(t)'
      BY <2>1, <3>3, StatusFacts DEF RequestFits, RowOK, Matches, Ready
    <3>5. \A g \in Handlers : g # h => handler'[g].sub # t
      BY <2>2, <3>1, FreeRow DEF InRequest
    <3> QED
      BY <1>1, <2>1, <2>5, <3>1, <3>4, <3>5, FreeRow, RequestArrives
  <2> QED
    BY <2>4, <2>5
<1>4. ASSUME NEW s \in Subs, RerunCheck(h, s) PROVE Owned(t)'
  <2>1. handler[h].sub = NoSub /\ handler'[h] = [pc |-> "reset", sub |-> s]
    BY <1>4, RequestTypes, HandlerChanges DEF RerunCheck
  <2>2. \A g \in Handlers \ {h} : handler'[g] = handler[g]
    BY <1>4, HandlerChanges DEF RerunCheck
  <2>3. row[s].status \in Verdicts /\ UNCHANGED tables
    BY <1>4 DEF RerunCheck, Rerunnable
  <2>4. CASE t # s
    BY <1>2, <2>1, <2>2, <2>3, <2>4, StatementFrames
  <2>5. CASE t = s
    <3>1. row[t].status \notin Unfinished
      BY <2>3, <2>5, StatusFacts
    <3>2. KeepsRow(t)
      BY <2>3, <2>5, StatementEffects DEF KeepsRow
    <3>3. RowOK(t)'
      BY <3>2, Frames
    <3>4. RequestFits(handler[h], t)'
      BY <2>1, <2>3, <2>5, <3>2 DEF RequestFits, KeepsRow
    <3>5. Arrives(h)
      BY <1>4, <2>1 DEF Arrives, RerunCheck
    <3>6. \A g \in Handlers : g # h => handler'[g].sub # t
      BY <2>1, <2>2, <2>5, <3>5 DEF OneRequestPerSub
    <3> QED
      BY <1>1, <2>1, <2>5, <3>1, <3>3, <3>4, <3>6, FreeRow, RequestArrives
  <2> QED
    BY <2>4, <2>5
<1> QED
  BY <1>3, <1>4 DEF Request

------------------------------------------------------------------------------
(* Steps of a request.                                                      *)

LEMMA RequestsKeep ==
  ASSUME TypeOK, "store" \notin Faults, NEW h \in Handlers, HandlerStep(h),
         NEW t \in Subs, Owned(t)
  PROVE  Kept(t)
<1> DEFINE s == handler[h].sub
<1>0. s \in Subs
  BY RequestTypes DEF HandlerStep, RerunReset, RerunClear, HandlerEnqueue
<1>1. UNCHANGED <<jobs, dispatcher, worker, recovery>>
  BY DEF HandlerStep, RerunReset, RerunClear, HandlerEnqueue, queue, dispatch
\* A request at work on another submission.
<1>2. ASSUME t # s, KeepsRow(t), handler'[h].sub # t, sends'[t] = sends[t],
             \A g \in Handlers \ {h} : handler'[g] = handler[g]
      PROVE  Kept(t)
  <2>1. RequestOK(t)' /\ (InRequest(t)' <=> InRequest(t))
    BY <1>2, OtherRequests
  <2> QED
    BY <1>1, <1>2, <2>1, Frames, Assemble DEF PlacesOK
\* The request goes on with its job.
<1>3. ASSUME t = s, handler'[h].sub = t, RequestFits(handler[h], t)', RowOK(t)', UNCHANGED sends,
             \A g \in Handlers \ {h} : handler'[g] = handler[g]
      PROVE  Kept(t)
  <2>1. InRequest(t)
    BY <1>3 DEF InRequest
  <2>2. /\ ~InSender(t) /\ ~InQueue(t) /\ ~InDispatcher(t) /\ ~InWorker(t) /\ ~InRecovery(t)
    BY <2>1 DEF Owned, Exclusive
  <2>3. RequestOK(t)' /\ InRequest(t)'
    BY <1>3, ActingRequest
  <2> QED
    BY <1>1, <1>3, <2>1, <2>2, <2>3, Frames, Assemble DEF PlacesOK
<1>4. CASE RerunReset(h)
  <2>1. Reset(s) /\ handler' = [handler EXCEPT ![h] = [handler[h] EXCEPT !.pc = "clear"]]
        /\ UNCHANGED sends
    BY <1>4, NoFault DEF RerunReset, queue
  <2>2. /\ handler'[h].pc = "clear" /\ handler'[h].sub = s
        /\ \A g \in Handlers \ {h} : handler'[g] = handler[g]
    <3>1. handler'[h] = [handler[h] EXCEPT !.pc = "clear"]
      BY <2>1 DEF TypeOK
    <3>2. \A g \in Handlers \ {h} : handler'[g] = handler[g]
      BY <2>1 DEF TypeOK
    <3> QED
      BY <3>1, <3>2, RequestTypes
  <2>3. CASE t # s
    BY <1>0, <1>2, <2>1, <2>2, <2>3, StatementFrames
  <2>4. CASE t = s
    <3>1. row'[t] = PendingRow /\ results'[t] = results[t]
      BY <2>1, <2>4, StatementEffects
    <3>2. Len(results[t]) <= 1
      BY DEF Owned, PlacesOK, RowOK
    <3> HIDE DEF s
    <3> QED
      BY <1>3, <2>1, <2>2, <2>4, <3>1, <3>2, StatusFacts DEF RequestFits, RowOK, Matches
  <2> QED
    BY <2>3, <2>4
<1>5. CASE RerunClear(h)
  <2>1. ClearResults(s) /\ handler' = [handler EXCEPT ![h] = [handler[h] EXCEPT !.pc = "enqueue"]]
        /\ UNCHANGED sends /\ handler[h].pc = "clear"
    BY <1>5, NoFault DEF RerunClear, queue
  <2>2. /\ handler'[h].pc = "enqueue" /\ handler'[h].sub = s
        /\ \A g \in Handlers \ {h} : handler'[g] = handler[g]
    <3>1. handler'[h] = [handler[h] EXCEPT !.pc = "enqueue"]
      BY <2>1 DEF TypeOK
    <3>2. \A g \in Handlers \ {h} : handler'[g] = handler[g]
      BY <2>1 DEF TypeOK
    <3> QED
      BY <3>1, <3>2, RequestTypes
  <2>3. CASE t # s
    BY <1>0, <1>2, <2>1, <2>2, <2>3, StatementFrames
  <2>4. CASE t = s
    <3>1. row[t] = PendingRow
      BY <2>1, <2>4 DEF Owned, PlacesOK, RequestOK, RequestFits
    <3>2. row'[t] = PendingRow /\ results'[t] = <<>>
      BY <2>1, <2>4, <3>1, StatementEffects
    <3> HIDE DEF s
    <3> QED
      BY <1>3, <2>1, <2>2, <2>4, <3>2, StatusFacts DEF RequestFits, RowOK, Matches, Ready
  <2> QED
    BY <2>3, <2>4
<1>6. CASE HandlerEnqueue(h)
  <2>1. /\ sends' = [sends EXCEPT ![s] = sends[s] + 1] /\ UNCHANGED tables
        /\ handler' = [handler EXCEPT ![h] = IdleHandler] /\ handler[h].pc = "enqueue"
    BY <1>6 DEF HandlerEnqueue, Enqueue
  <2>2. /\ handler'[h].sub = NoSub
        /\ \A g \in Handlers \ {h} : handler'[g] = handler[g]
    BY <2>1 DEF TypeOK, IdleHandler
  <2>3. CASE t # s
    <3>1. sends'[t] = sends[t]
      BY <2>1, <2>3 DEF TypeOK
    <3> QED
      BY <1>0, <1>2, <2>1, <2>2, <2>3, <3>1, StatementFrames, NoSubNowhere
  <2>4. CASE t = s
    <3>1. KeepsRow(t)
      BY <2>1, <2>4, StatementEffects DEF KeepsRow
    <3>2. InRequest(t) /\ Ready(t)
      BY <2>1, <2>4 DEF InRequest, Owned, PlacesOK, RequestOK, RequestFits
    <3>3. ~InSender(t) /\ ~InQueue(t) /\ ~InDispatcher(t) /\ ~InWorker(t) /\ ~InRecovery(t)
      BY <3>2 DEF Owned, Exclusive
    <3>4. sends[t] = 0 /\ sends'[t] = 1
      BY <2>1, <2>4, <3>3 DEF InSender, TypeOK
    <3>5. InSender(t)' /\ SenderOK(t)'
      BY <3>1, <3>2, <3>4 DEF InSender, SenderOK, Ready, KeepsRow
    <3>6. RequestOK(t)' /\ ~InRequest(t)'
      BY <2>2, <2>4, ActingRequest, NoSubNowhere
    <3> QED
      BY <1>1, <3>1, <3>2, <3>3, <3>5, <3>6, Frames
      DEF Kept, Owned, Exclusive, PlacesOK, Nowhere
  <2> QED
    BY <2>3, <2>4
<1> QED
  BY <1>4, <1>5, <1>6 DEF HandlerStep

------------------------------------------------------------------------------
(* Steps of the queue and the dispatcher: the tables stay.                  *)

LEMMA TablesKept ==
  ASSUME NEW t \in Subs, UNCHANGED tables
  PROVE  KeepsRow(t)
BY DEF tables, KeepsRow

LEMMA SendersKeep ==
  ASSUME TypeOK, NEW s \in Subs, EnqueueSend(s) \/ EnqueueDrop(s), NEW t \in Subs, Owned(t)
  PROVE  Kept(t)
<1>1. UNCHANGED <<handler, dispatcher, worker, recovery>> /\ KeepsRow(t)
  BY TablesKept DEF EnqueueSend, EnqueueDrop, dispatch
<1>2. sends[s] > 0 /\ sends' = [sends EXCEPT ![s] = sends[s] - 1]
  BY DEF EnqueueSend, EnqueueDrop
<1>3. t # s => sends'[t] = sends[t]
  BY <1>2 DEF TypeOK
<1>4. t = s => InSender(t) /\ sends'[t] = 0 /\ Ready(t)
  <2>1. SUFFICES ASSUME t = s PROVE InSender(t) /\ sends'[t] = 0 /\ Ready(t)
    OBVIOUS
  <2>2. InSender(t) /\ sends[t] <= 1 /\ Ready(t)
    BY <1>2, <2>1 DEF InSender, Owned, PlacesOK, SenderOK
  <2> QED
    BY <1>2, <2>1, <2>2 DEF TypeOK
<1>5. t = s => SenderOK(t)' /\ ~InSender(t)'
  BY <1>4 DEF SenderOK, InSender
<1>6. CASE EnqueueDrop(s)
  <2>1. UNCHANGED jobs
    BY <1>6 DEF EnqueueDrop
  <2> QED
    BY <1>1, <1>3, <1>4, <1>5, <2>1, Frames, Assemble DEF PlacesOK
<1>7. CASE EnqueueSend(s)
  <2>1. jobs' = Append(jobs, s) /\ jobs \in Seq(Subs)
    BY <1>7 DEF EnqueueSend, TypeOK
  <2>2. /\ Len(jobs) \in Nat /\ Len(jobs') = Len(jobs) + 1
        /\ \A i \in 1..Len(jobs) : jobs'[i] = jobs[i]
        /\ jobs'[Len(jobs) + 1] = s
    BY <2>1
  <2>3. CASE t # s
    <3>1. \A i \in 1..Len(jobs') : jobs'[i] = t => i \in 1..Len(jobs) /\ jobs[i] = t
      BY <2>2, <2>3
    <3>2. (InQueue(t)' => InQueue(t)) /\ QueueOK(t)'
      BY <1>1, <3>1 DEF InQueue, QueueOK, Owned, PlacesOK, Ready, KeepsRow
    <3> QED
      BY <1>1, <1>3, <2>3, <3>2, Frames, Assemble DEF PlacesOK
  <2>4. CASE t = s
    <3>1. ~InRequest(t) /\ ~InQueue(t) /\ ~InDispatcher(t) /\ ~InWorker(t) /\ ~InRecovery(t)
      BY <1>4, <2>4 DEF Owned, Exclusive
    <3>2. \A i \in 1..Len(jobs') : jobs'[i] = t => i = Len(jobs) + 1
      BY <2>2, <3>1 DEF InQueue
    <3>3. InQueue(t)' /\ QueueOK(t)'
      BY <1>1, <1>4, <2>2, <2>4, <3>2 DEF InQueue, QueueOK, Ready, KeepsRow
    <3> QED
      BY <1>1, <1>4, <1>5, <2>4, <3>1, <3>3, Frames
      DEF Kept, Owned, Exclusive, PlacesOK, Nowhere
  <2> QED
    BY <2>3, <2>4
<1> QED
  BY <1>6, <1>7

LEMMA DispatcherKeeps ==
  ASSUME TypeOK, DispatchStep, NEW t \in Subs, Owned(t)
  PROVE  Kept(t)
<1>1. UNCHANGED <<handler, sends, recovery>> /\ KeepsRow(t)
  BY TablesKept DEF DispatchStep, DispatchReceive, DispatchAcquire, DispatchQuit,
     DispatchSpawn, queue
<1>2. CASE DispatchReceive
  <2>1. /\ jobs # <<>> /\ jobs' = Tail(jobs) /\ dispatcher'.sub = Head(jobs) /\ jobs \in Seq(Subs)
        /\ UNCHANGED worker
    BY <1>2 DEF DispatchReceive, TypeOK
  <2>2. /\ Len(jobs) \in Nat /\ Len(jobs') = Len(jobs) - 1 /\ 1 \in 1..Len(jobs)
        /\ \A i \in 1..Len(jobs') : i + 1 \in 1..Len(jobs) /\ jobs'[i] = jobs[i + 1]
        /\ dispatcher'.sub = jobs[1]
    BY <2>1
  <2>3. InQueue(t)' => InQueue(t)
    BY <2>2 DEF InQueue
  <2>4. \A i, j \in 1..Len(jobs') : jobs'[i] = t /\ jobs'[j] = t => i = j
    <3>1. SUFFICES ASSUME NEW i \in 1..Len(jobs'), NEW j \in 1..Len(jobs'),
                          jobs'[i] = t, jobs'[j] = t
                   PROVE  i = j
      OBVIOUS
    <3>2. i + 1 = j + 1
      BY <2>2, <3>1 DEF Owned, PlacesOK, QueueOK
    <3> QED
      BY <2>2, <3>2
  <2>5. QueueOK(t)'
    BY <1>1, <2>3, <2>4 DEF QueueOK, Owned, PlacesOK, Ready, KeepsRow
  <2>6. CASE dispatcher'.sub # t
    <3>1. ~InDispatcher(t)' /\ DispatcherOK(t)'
      BY <2>6 DEF InDispatcher, DispatcherOK
    <3> QED
      BY <1>1, <2>1, <2>3, <2>5, <3>1, Frames, Assemble DEF PlacesOK
  <2>7. CASE dispatcher'.sub = t
    <3>1. InQueue(t) /\ jobs[1] = t
      BY <2>2, <2>7 DEF InQueue
    <3>2. Ready(t) /\ ~InRequest(t) /\ ~InSender(t) /\ ~InDispatcher(t) /\ ~InWorker(t) /\ ~InRecovery(t)
      BY <3>1 DEF Owned, Exclusive, PlacesOK, QueueOK
    <3>3. ~InQueue(t)'
      <4>1. SUFFICES ASSUME NEW i \in 1..Len(jobs'), jobs'[i] = t PROVE FALSE
        BY DEF InQueue
      <4>2. i + 1 = 1
        BY <2>2, <3>1, <4>1 DEF Owned, PlacesOK, QueueOK
      <4> QED
        BY <2>2, <4>2
    <3>4. InDispatcher(t)' /\ DispatcherOK(t)'
      BY <1>1, <2>7, <3>2 DEF InDispatcher, DispatcherOK, Ready, KeepsRow
    <3> QED
      BY <1>1, <2>1, <2>5, <3>1, <3>2, <3>3, <3>4, Frames
      DEF Kept, Owned, Exclusive, PlacesOK, Nowhere
  <2> QED
    BY <2>6, <2>7
<1>3. CASE DispatchAcquire
  <2>1. UNCHANGED <<jobs, worker>> /\ dispatcher'.sub = dispatcher.sub
    BY <1>3 DEF DispatchAcquire, queue, Dispatcher, TypeOK
  <2> QED
    BY <1>1, <2>1, Frames, Assemble DEF PlacesOK
<1>4. CASE DispatchQuit
  <2>1. UNCHANGED <<jobs, worker>> /\ dispatcher'.sub = NoSub
    BY <1>4 DEF DispatchQuit, queue
  <2>2. ~InDispatcher(t)' /\ DispatcherOK(t)'
    BY <2>1, NoSubNowhere DEF InDispatcher, DispatcherOK
  <2> QED
    BY <1>1, <2>1, <2>2, Frames, Assemble DEF PlacesOK
<1>5. ASSUME NEW w \in Workers, DispatchSpawn(w) PROVE Kept(t)
  <2>1. /\ UNCHANGED jobs /\ dispatcher'.sub = NoSub /\ worker[w].pc = "none"
        /\ worker'[w].sub = dispatcher.sub /\ worker'[w].pc = "load"
        /\ \A v \in Workers \ {w} : worker'[v] = worker[v]
    BY <1>5 DEF DispatchSpawn, queue, TypeOK
  <2>2. ~InDispatcher(t)' /\ DispatcherOK(t)'
    BY <2>1, NoSubNowhere DEF InDispatcher, DispatcherOK
  <2>3. ~Works(w, t)
    BY <2>1 DEF Works, AtWork
  <2>4. CASE dispatcher.sub # t
    <3>1. ~Works(w, t)'
      BY <2>1, <2>4 DEF Works
    <3>2. WorkerOK(t)' /\ (InWorker(t)' <=> InWorker(t))
      BY <1>1, <2>1, <2>3, <3>1, OtherWorkers
    <3> QED
      BY <1>1, <2>1, <2>2, <3>2, Frames, Assemble DEF PlacesOK
  <2>5. CASE dispatcher.sub = t
    <3>1. InDispatcher(t) /\ Ready(t) /\ ~InRequest(t) /\ ~InSender(t) /\ ~InQueue(t)
          /\ ~InWorker(t) /\ ~InRecovery(t)
      BY <2>5 DEF InDispatcher, Owned, Exclusive, PlacesOK, DispatcherOK
    <3>2. Works(w, t)' /\ WorkerFits(worker[w], t)'
      BY <1>1, <2>1, <2>5, <3>1 DEF Works, AtWork, WorkerFits, Ready, KeepsRow
    <3>3. \A v \in Workers : Works(v, t)' => v = w
      BY <2>1, <3>1 DEF InWorker, Works
    <3>4. InWorker(t)' /\ WorkerOK(t)'
      BY <3>2, <3>3 DEF InWorker, WorkerOK
    <3> QED
      BY <1>1, <2>1, <2>2, <3>1, <3>4, Frames
      DEF Kept, Owned, Exclusive, PlacesOK, Nowhere
  <2> QED
    BY <2>4, <2>5
<1> QED
  BY <1>2, <1>3, <1>4, <1>5 DEF DispatchStep

------------------------------------------------------------------------------
(* Steps of a worker.                                                       *)

\* Only the worker's own submission may change, and it keeps its part or
\* lets go of the job.
LEMMA WorkerMoves ==
  ASSUME TypeOK, NEW w \in Workers, NEW t \in Subs, Owned(t),
         EngineUnchanged, \A v \in Workers \ {w} : worker'[v] = worker[v],
         worker'[w].sub = worker[w].sub, worker[w].pc \in AtWork,
         worker[w].sub # t => KeepsRow(t),
         worker[w].sub = t => RowOK(t)' /\ (Works(w, t)' => WorkerFits(worker[w], t)')
  PROVE  Kept(t)
<1>1. UNCHANGED <<handler, sends, jobs, dispatcher, recovery>>
  BY DEF EngineUnchanged, queue, dispatch
<1>2. CASE worker[w].sub # t
  <2>1. ~Works(w, t) /\ ~Works(w, t)'
    BY <1>2 DEF Works
  <2>2. WorkerOK(t)' /\ (InWorker(t)' <=> InWorker(t))
    BY <1>2, <2>1, OtherWorkers
  <2> QED
    BY <1>1, <1>2, <2>2, Frames, Assemble DEF PlacesOK
<1>3. CASE worker[w].sub = t
  <2>1. Works(w, t) /\ InWorker(t)
    BY <1>3 DEF Works, InWorker
  <2>2. ~InRequest(t) /\ ~InSender(t) /\ ~InQueue(t) /\ ~InDispatcher(t) /\ ~InRecovery(t)
    BY <2>1 DEF Owned, Exclusive
  <2>3. WorkerOK(t)'
    BY <1>3, <2>1, ActingWorker
  <2> QED
    BY <1>1, <1>3, <2>1, <2>2, <2>3, Frames, Assemble DEF PlacesOK
<1> QED
  BY <1>2, <1>3

\* A verdict is saved under the case results that fit it.
LEMMA VerdictSaved ==
  ASSUME NEW s, row'[s].status \in Verdicts,
         \/ results'[s] = <<>>
         \/ results'[s] = <<row'[s].status>>
         \/ "panic" \in Faults /\ row'[s].status = "IE" /\ Len(results'[s]) <= 1
  PROVE  RowOK(s)'
<1>1. Len(<<>>) <= 1 /\ \A x : Len(<<x>>) <= 1
  OBVIOUS
<1>2. Len(results'[s]) <= 1
  BY <1>1, Zenon
<1>3. row'[s].status # "absent"
  BY StatusFacts
<1>4. Matches(s)'
  BY Zenon DEF Matches
<1> QED
  BY <1>2, <1>3, <1>4, Zenon DEF RowOK

LEMMA WorkersKeep ==
  ASSUME TypeOK, "store" \notin Faults, NEW w \in Workers, WorkerStep(w), NEW t \in Subs, Owned(t)
  PROVE  Kept(t)
<1> DEFINE s == worker[w].sub
<1>0. s \in Subs
  BY WorkerSub DEF WorkerStep, WorkerLoad, WorkerLoadFails, ProblemMissing,
     WorkerBegin, StagesPass, StageFails, StoreCases, Finish, Panic, ReleaseSlot,
     WorkerDone
\* What the worker knows of its submission.
<1>1. worker[w].pc \in AtWork /\ s = t => WorkerFits(worker[w], t)
  BY DEF Owned, PlacesOK, WorkerOK, Works
\* The worker leaves: it only has to leave a good row.
<1>2. ASSUME EngineUnchanged, worker[w].pc \in AtWork, Leave(w),
             s # t => KeepsRow(t), s = t => RowOK(t)'
      PROVE  Kept(t)
  <2>1. /\ worker'[w].pc = "release" /\ worker'[w].sub = s
        /\ \A v \in Workers \ {w} : worker'[v] = worker[v]
    BY <1>2, WorkerChanges DEF Leave
  <2>2. ~Works(w, t)'
    BY <2>1 DEF Works, AtWork
  <2> QED
    BY <1>2, <2>1, <2>2, WorkerMoves
\* It goes on, with a row that fits its next step.
<1>3. ASSUME EngineUnchanged, worker[w].pc \in AtWork, NEW p, NEW r, Goes(w, p, r),
             s # t => KeepsRow(t),
             s = t => /\ RowOK(t)'
                      /\ \A x : x.pc = p /\ x.row = r => WorkerFits(x, t)'
      PROVE  Kept(t)
  <2>1. /\ worker'[w].pc = p /\ worker'[w].sub = s /\ worker'[w].row = r
        /\ \A v \in Workers \ {w} : worker'[v] = worker[v]
    BY <1>3, WorkerChanges
  <2>2. s = t => WorkerFits(worker[w], t)'
    BY <1>3, <2>1 DEF WorkerFits
  <2> QED
    BY <1>3, <2>1, <2>2, WorkerMoves
<1>4. CASE WorkerLoad(w)
  <2>1. KeepsRow(t)
    BY <1>4, TablesKept DEF WorkerLoad
  <2>2. s = t => Ready(t)
    BY <1>1, <1>4 DEF WorkerLoad, WorkerFits, AtWork
  <2>3. s = t => \A x : x.pc = "begin" /\ x.row = row[s] => WorkerFits(x, t)'
    BY <2>1, <2>2 DEF WorkerFits, Ready, KeepsRow
  <2>4. RowOK(t)'
    BY <2>1, Frames
  <2> QED
    BY <1>3, <1>4, <2>1, <2>3, <2>4 DEF WorkerLoad, AtWork
<1>5. CASE WorkerLoadFails(w)
  <2>1. KeepsRow(t)
    BY <1>5, TablesKept DEF WorkerLoadFails
  <2> QED
    BY <1>2, <1>5, <2>1, Frames DEF WorkerLoadFails, AtWork
<1>6. CASE ProblemMissing(w)
  <2>1. Save(w, "IE", TRUE) /\ Leave(w) /\ EngineUnchanged /\ worker[w].pc = "begin"
    BY <1>6, NoFault DEF ProblemMissing, Fail
  <2>2. s # t => KeepsRow(t)
    BY <1>0, <2>1, StatementFrames DEF Save
  <2>3. s = t => RowOK(t)'
    <3>1. SUFFICES ASSUME s = t PROVE RowOK(t)'
      OBVIOUS
    <3>2. results[t] = <<>>
      BY <1>1, <2>1, <3>1 DEF WorkerFits, Ready, AtWork
    <3>3. row'[t] = [status |-> "IE", finished |-> TRUE] /\ results'[t] = <<>>
      BY <1>0, <2>1, <3>1, <3>2, StatementEffects DEF Save
    <3> QED
      BY <3>3, StatusFacts, VerdictSaved
  <2> QED
    BY <1>2, <2>1, <2>2, <2>3 DEF AtWork
<1>7. CASE WorkerBegin(w)
  <2>1. /\ Save(w, "RUNNING", worker[w].row.finished) /\ EngineUnchanged /\ worker[w].pc = "begin"
        /\ Goes(w, "stages", [worker[w].row EXCEPT !.status = "RUNNING"])
    BY <1>7, NoFault DEF WorkerBegin
  <2>2. s # t => KeepsRow(t)
    BY <1>0, <2>1, StatementFrames DEF Save
  <2>3. s = t => row'[t] = RunningRow /\ results'[t] = <<>>
    <3>1. SUFFICES ASSUME s = t PROVE row'[t] = RunningRow /\ results'[t] = <<>>
      OBVIOUS
    <3>2. results[t] = <<>> /\ worker[w].row = PendingRow
      BY <1>1, <2>1, <3>1 DEF WorkerFits, Ready, AtWork
    <3>3. /\ row'[t] = [status |-> "RUNNING", finished |-> worker[w].row.finished]
          /\ results'[t] = results[t]
      BY <1>0, <2>1, <3>1, StatementEffects DEF Save
    <3> QED
      BY <3>2, <3>3, StatusFacts DEF RunningRow
  <2>4. s = t => RowOK(t)' /\ \A x : x.pc = "stages" => WorkerFits(x, t)'
    BY <2>3, StatusFacts DEF RowOK, Matches, WorkerFits
  <2> QED
    BY <1>3, <2>1, <2>2, <2>4 DEF AtWork
<1>8. ASSUME NEW v \in FailVerdicts, StageFails(w, v) PROVE Kept(t)
  <2>1. Save(w, v, TRUE) /\ Leave(w) /\ EngineUnchanged /\ worker[w].pc = "stages"
    BY <1>8, NoFault DEF StageFails, Fail
  <2>2. s # t => KeepsRow(t)
    BY <1>0, <2>1, StatementFrames DEF Save
  <2>3. s = t => RowOK(t)'
    <3>1. SUFFICES ASSUME s = t PROVE RowOK(t)'
      OBVIOUS
    <3>2. results[t] = <<>>
      BY <1>1, <2>1, <3>1 DEF WorkerFits, AtWork
    <3>3. row'[t] = [status |-> v, finished |-> TRUE] /\ results'[t] = <<>>
      BY <1>0, <2>1, <3>1, <3>2, StatementEffects DEF Save
    <3> QED
      BY <3>3, VerdictsAssumption, VerdictSaved
  <2> QED
    BY <1>2, <2>1, <2>2, <2>3 DEF AtWork
<1>9. CASE StagesPass(w)
  <2>1. /\ ClearResults(s) /\ EngineUnchanged /\ worker[w].pc = "stages"
        /\ Goes(w, "cases", worker[w].row)
    BY <1>9, NoFault DEF StagesPass
  <2>2. s # t => KeepsRow(t)
    BY <1>0, <2>1, StatementFrames
  <2>3. s = t => row'[t] = RunningRow /\ results'[t] = <<>>
    BY <1>0, <1>1, <2>1, StatementEffects DEF WorkerFits, AtWork
  <2>4. s = t => RowOK(t)' /\ \A x : x.pc = "cases" => WorkerFits(x, t)'
    BY <2>3, StatusFacts DEF RowOK, Matches, WorkerFits
  <2> QED
    BY <1>3, <2>1, <2>2, <2>4 DEF AtWork
<1>10. ASSUME NEW v \in CaseVerdicts, StoreCases(w, v) PROVE Kept(t)
  <2>1. /\ StoreResults(s, v) /\ EngineUnchanged /\ worker[w].pc = "cases"
        /\ Goes(w, "finish", [worker[w].row EXCEPT !.status = v])
    BY <1>10, NoFault DEF StoreCases
  <2>2. s # t => KeepsRow(t)
    BY <1>0, <2>1, StatementFrames
  <2>3. s = t => row'[t] = RunningRow /\ results'[t] = <<v>>
    <3>1. SUFFICES ASSUME s = t PROVE row'[t] = RunningRow /\ results'[t] = <<v>>
      OBVIOUS
    <3>2. row[t] = RunningRow /\ results[t] = <<>>
      BY <1>1, <2>1, <3>1 DEF WorkerFits, AtWork
    <3>3. row'[t] = row[t] /\ results'[t] = Append(results[t], v)
      BY <1>0, <2>1, <3>1, StatementEffects
    <3>4. Append(<<>>, v) = <<v>>
      OBVIOUS
    <3> QED
      BY <3>2, <3>3, <3>4
  <2>4. [worker[w].row EXCEPT !.status = v].status = v
    <3>1. worker[w].row \in Row
      BY <2>1, WorkerFacts
    <3> QED
      BY <3>1 DEF Row
  <2>5. s = t => RowOK(t)'
    <3>1. Len(<<v>>) <= 1
      OBVIOUS
    <3>2. s = t => Len(results'[t]) <= 1
      BY <2>3, <3>1, Zenon
    <3>3. s = t => RunningRow = row'[t]
      BY <2>3
    <3>4. s = t => Matches(t)'
      BY <3>3, StatusFacts DEF Matches
    <3>5. s = t => row'[t].status # "absent" /\ ~row'[t].finished
      BY <3>3, StatusFacts
    <3> QED
      BY <3>2, <3>4, <3>5, Zenon DEF RowOK
  <2>6. s = t => \A x : x.pc = "finish" /\ x.row.status = v => WorkerFits(x, t)'
    BY <2>3 DEF WorkerFits
  <2> QED
    BY <1>3, <2>1, <2>2, <2>4, <2>5, <2>6 DEF AtWork
<1>11. CASE Finish(w)
  <2>1. Save(w, worker[w].row.status, TRUE) /\ Leave(w) /\ EngineUnchanged /\ worker[w].pc = "finish"
    BY <1>11, NoFault DEF Finish
  <2>2. s # t => KeepsRow(t)
    BY <1>0, <2>1, StatementFrames DEF Save
  <2>3. s = t => RowOK(t)'
    <3>1. SUFFICES ASSUME s = t PROVE RowOK(t)'
      OBVIOUS
    <3>2. results[t] = <<worker[w].row.status>>
      BY <1>1, <2>1, <3>1 DEF WorkerFits, AtWork
    <3>3. /\ row'[t] = [status |-> worker[w].row.status, finished |-> TRUE]
          /\ results'[t] = results[t]
      BY <1>0, <2>1, <3>1, StatementEffects DEF Save
    <3>4. worker[w].row.status \in Verdicts
      <4>1. results[t] \in Seq(Verdicts)
        BY DEF TypeOK
      <4> QED
        BY <3>2, <4>1
    <3> QED
      BY <3>2, <3>3, <3>4, VerdictSaved
  <2> QED
    BY <1>2, <2>1, <2>2, <2>3 DEF AtWork
<1>12. CASE Panic(w)
  <2>1. /\ Write(s, [row[s] EXCEPT !.status = "IE"]) /\ Leave(w) /\ EngineUnchanged
        /\ "panic" \in Faults /\ worker[w].pc \in AtWork
    BY <1>12, NoFault DEF Panic, AtWork
  <2>2. s # t => KeepsRow(t)
    BY <1>0, <2>1, StatementFrames
  <2>3. s = t => RowOK(t)'
    <3>1. SUFFICES ASSUME s = t PROVE RowOK(t)'
      OBVIOUS
    <3>2. row'[t] = [row[t] EXCEPT !.status = "IE"] /\ results'[t] = results[t]
      BY <1>0, <2>1, <3>1, StatementEffects
    <3>3. row'[t].status = "IE"
      BY <3>2 DEF TypeOK, Row
    <3>4. Len(results'[t]) <= 1
      BY <3>2 DEF Owned, PlacesOK, RowOK
    <3> QED
      BY <2>1, <3>3, <3>4, StatusFacts, VerdictSaved
  <2> QED
    BY <1>2, <2>1, <2>2, <2>3
\* The deferred calls: the worker has let go of the job.
<1>13. CASE ReleaseSlot(w) \/ WorkerDone(w)
  <2>1. /\ UNCHANGED <<handler, sends, jobs, recovery, tables>> /\ dispatcher'.sub = dispatcher.sub
        /\ worker[w].pc \notin AtWork
    BY <1>13 DEF ReleaseSlot, WorkerDone, queue, AtWork
  <2>2. \A v \in Workers \ {w} : worker'[v] = worker[v]
    BY <1>13 DEF ReleaseSlot, WorkerDone, Goes, TypeOK
  <2>3. worker'[w].pc \notin AtWork
    BY <1>13 DEF ReleaseSlot, WorkerDone, Goes, TypeOK, NoWorker, AtWork
  <2>4. KeepsRow(t)
    BY <2>1, TablesKept
  <2>5. WorkerOK(t)' /\ (InWorker(t)' <=> InWorker(t))
    BY <2>1, <2>2, <2>3, <2>4, OtherWorkers DEF Works
  <2> QED
    BY <2>1, <2>4, <2>5, Frames, Assemble DEF PlacesOK
<1> QED
  BY <1>4, <1>5, <1>6, <1>7, <1>8, <1>9, <1>10, <1>11, <1>12, <1>13 DEF WorkerStep

------------------------------------------------------------------------------
(* Steps of recovery.                                                       *)

\* The list is read when there is no job: it takes those of the rows on it.
LEMMA ScanOwns ==
  ASSUME TypeOK, "store" \notin Faults, RecoverScan, NEW t \in Subs, Owned(t), Nowhere(t)
  PROVE  Owned(t)'
<1>1. UNCHANGED <<handler, sends, jobs, dispatcher, worker>> /\ KeepsRow(t)
  BY TablesKept DEF RecoverScan, RecoveryUnchanged, dispatch
<1>2. recovery'.cur = NoSub /\ recovery'.todo = Incomplete
  BY DEF RecoverScan, NoRecovery
<1>3. RecoveryOK(t)'
  <2>1. recovery'.cur # t
    BY <1>2, NoSubNowhere
  <2>2. t \in recovery'.todo => row'[t].status \in Unfinished
    BY <1>1, <1>2 DEF Incomplete, KeepsRow
  <2> QED
    BY <2>1, <2>2 DEF RecoveryOK
<1> QED
  BY <1>1, <1>3, Frames DEF Owned, Exclusive, PlacesOK, Nowhere

LEMMA RecoveryKeeps ==
  ASSUME TypeOK, "store" \notin Faults, RecoverStep, ~RecoverScan, NEW t \in Subs, Owned(t)
  PROVE  Kept(t)
<1>1. UNCHANGED <<handler, jobs, dispatcher, worker>>
  BY DEF RecoverStep, RecoverReset, RecoverClear, RecoverEnqueue, RecoveryUnchanged, dispatch
\* What recovery has of another submission, it keeps.
<1>2. ASSUME KeepsRow(t), sends'[t] = sends[t], recovery.cur # t, recovery'.cur # t,
             t \in recovery'.todo <=> t \in recovery.todo
      PROVE  Kept(t)
  <2>1. RecoveryOK(t)' /\ (InRecovery(t)' <=> InRecovery(t))
    BY <1>2 DEF RecoveryOK, InRecovery, Owned, PlacesOK, KeepsRow
  <2> QED
    BY <1>1, <1>2, <2>1, Frames, Assemble DEF PlacesOK
\* What it does to the submission at hand.
<1>3. ASSUME InRecovery(t), UNCHANGED sends, RecoveryOK(t)', RowOK(t)' PROVE Kept(t)
  <2>1. ~InRequest(t) /\ ~InSender(t) /\ ~InQueue(t) /\ ~InDispatcher(t) /\ ~InWorker(t)
    BY <1>3 DEF Owned, Exclusive
  <2> QED
    BY <1>1, <1>3, <2>1, Frames, Assemble DEF PlacesOK
<1>4. ASSUME NEW s \in Subs, RecoverReset(s) PROVE Kept(t)
  <2>1. /\ Reset(s) /\ UNCHANGED sends /\ s \in recovery.todo
        /\ recovery' = [pc |-> "clear", todo |-> recovery.todo \ {s}, cur |-> s]
        /\ recovery.pc = "reset"
    BY <1>4, NoFault DEF RecoverReset
  <2>2. recovery.cur = NoSub
    BY <2>1 DEF TypeOK, Recovery
  <2>3. CASE t # s
    <3>1. KeepsRow(t)
      BY <2>1, <2>3, StatementFrames
    <3> QED
      BY <1>2, <2>1, <2>2, <2>3, <3>1, NoSubNowhere
  <2>4. CASE t = s
    <3>1. row'[t] = PendingRow /\ results'[t] = results[t]
      BY <2>1, <2>4, StatementEffects
    <3>2. Len(results[t]) <= 1
      BY DEF Owned, PlacesOK, RowOK
    <3>3. RowOK(t)'
      BY <3>1, <3>2, StatusFacts DEF RowOK, Matches
    <3>4. RecoveryOK(t)'
      BY <2>1, <2>4, <3>1 DEF RecoveryOK
    <3> QED
      BY <1>3, <2>1, <2>4, <3>3, <3>4 DEF InRecovery
  <2> QED
    BY <2>3, <2>4
<1>5. CASE RecoverClear
  <2>1. recovery.cur \in Subs /\ recovery.pc = "clear"
    BY <1>5 DEF RecoverClear, TypeOK, Recovery
  <2>2. /\ ClearResults(recovery.cur) /\ UNCHANGED sends
        /\ recovery'.cur = recovery.cur /\ recovery'.todo = recovery.todo
    BY <1>5, NoFault DEF RecoverClear, TypeOK, Recovery
  <2>3. CASE recovery.cur # t
    BY <1>2, <2>1, <2>2, <2>3, StatementFrames
  <2>4. CASE recovery.cur = t
    <3>1. row[t] = PendingRow /\ t \notin recovery.todo
      BY <2>4 DEF Owned, PlacesOK, RecoveryOK
    <3>2. row'[t] = PendingRow /\ results'[t] = <<>>
      BY <2>1, <2>2, <2>4, <3>1, StatementEffects
    <3>3. RowOK(t)'
      BY <3>2, StatusFacts DEF RowOK, Matches
    <3>4. RecoveryOK(t)'
      BY <2>2, <3>1, <3>2 DEF RecoveryOK
    <3> QED
      BY <1>3, <2>2, <2>4, <3>3, <3>4 DEF InRecovery
  <2> QED
    BY <2>3, <2>4
<1>6. CASE RecoverEnqueue
  <2>1. recovery.cur \in Subs /\ recovery.pc = "enqueue"
    BY <1>6 DEF RecoverEnqueue, TypeOK, Recovery
  <2>2. /\ sends' = [sends EXCEPT ![recovery.cur] = sends[recovery.cur] + 1] /\ UNCHANGED tables
        /\ recovery'.cur = NoSub /\ recovery'.todo = recovery.todo
    BY <1>6 DEF RecoverEnqueue, Enqueue, TypeOK, Recovery
  <2>3. KeepsRow(t)
    BY <2>2, TablesKept
  <2>4. CASE recovery.cur # t
    <3>1. sends'[t] = sends[t]
      BY <2>2, <2>4 DEF TypeOK
    <3> QED
      BY <1>2, <2>2, <2>3, <2>4, <3>1, NoSubNowhere
  <2>5. CASE recovery.cur = t
    <3>1. InRecovery(t) /\ Ready(t) /\ t \notin recovery.todo
      BY <2>1, <2>5 DEF InRecovery, Owned, PlacesOK, RecoveryOK, Ready
    <3>2. ~InRequest(t) /\ ~InSender(t) /\ ~InQueue(t) /\ ~InDispatcher(t) /\ ~InWorker(t)
      BY <3>1 DEF Owned, Exclusive
    <3>3. sends[t] = 0 /\ sends'[t] = 1
      BY <2>2, <2>5, <3>2 DEF InSender, TypeOK
    <3>4. InSender(t)' /\ SenderOK(t)'
      BY <2>3, <3>1, <3>3 DEF InSender, SenderOK, Ready, KeepsRow
    <3>5. ~InRecovery(t)' /\ RecoveryOK(t)'
      BY <2>2, <3>1, NoSubNowhere DEF InRecovery, RecoveryOK
    <3> QED
      BY <1>1, <2>3, <3>1, <3>2, <3>4, <3>5, Frames
      DEF Kept, Owned, Exclusive, PlacesOK, Nowhere
  <2> QED
    BY <2>4, <2>5
<1> QED
  BY <1>4, <1>5, <1>6 DEF RecoverStep

------------------------------------------------------------------------------
(* Steps of the process.                                                    *)

\* What is in memory ends with the process, and so do the jobs.
LEMMA ExitOwns ==
  ASSUME TypeOK, Exit, NEW t \in Subs, Owned(t)
  PROVE  Owned(t)' /\ Nowhere(t)'
<1>1. KeepsRow(t)
  BY TablesKept DEF Exit
<1>2. ~InRequest(t)' /\ RequestOK(t)'
  BY NoSubNowhere DEF Exit, InRequest, RequestOK, IdleHandler
<1>3. ~InSender(t)' /\ SenderOK(t)'
  BY DEF Exit, InSender, SenderOK
<1>4. ~InQueue(t)' /\ QueueOK(t)'
  BY DEF Exit, InQueue, QueueOK
<1>5. ~InDispatcher(t)' /\ DispatcherOK(t)'
  BY NoSubNowhere DEF Exit, InDispatcher, DispatcherOK
<1>6. ~InWorker(t)' /\ WorkerOK(t)'
  BY NoSubNowhere DEF Exit, InWorker, WorkerOK, Works, NoWorker
<1>7. ~InRecovery(t)' /\ RecoveryOK(t)'
  BY NoSubNowhere DEF Exit, InRecovery, RecoveryOK, NoRecovery
<1> QED
  BY <1>1, <1>2, <1>3, <1>4, <1>5, <1>6, <1>7, Frames
  DEF Owned, Exclusive, PlacesOK, Nowhere

LEMMA BootKeeps ==
  ASSUME TypeOK, Boot, NEW t \in Subs, Owned(t), Nowhere(t)
  PROVE  Kept(t)
<1>1. UNCHANGED <<handler, sends, jobs, worker>> /\ KeepsRow(t)
  BY TablesKept DEF Boot, queue
<1>2. ~InDispatcher(t)' /\ DispatcherOK(t)'
  BY NoSubNowhere DEF Boot, InDispatcher, DispatcherOK
<1>3. ~InRecovery(t)' /\ RecoveryOK(t)'
  BY NoSubNowhere DEF Boot, InRecovery, RecoveryOK
<1> QED
  BY <1>1, <1>2, <1>3, Frames, Assemble DEF PlacesOK

LEMMA IdleKeeps ==
  ASSUME UNCHANGED <<tables, handler, sends, jobs, dispatcher, worker, recovery>>,
         NEW t \in Subs, Owned(t)
  PROVE  Kept(t)
BY TablesKept, Frames, Assemble DEF PlacesOK

------------------------------------------------------------------------------
(* The invariant.                                                           *)

\* Every step that neither makes a job nor ends or begins the process.
Passing ==
  \/ \E h \in Handlers : HandlerStep(h)
  \/ \E s \in Subs : EnqueueSend(s) \/ EnqueueDrop(s)
  \/ DispatchStep
  \/ \E w \in Workers : WorkerStep(w)
  \/ RecoverStep /\ ~RecoverScan
  \/ Signal \/ ShutdownReturns \/ StopReturns
  \/ UNCHANGED vars

LEMMA StepKinds ==
  ASSUME [Next]_vars
  PROVE  Passing \/ (\E h \in Handlers : Request(h)) \/ RecoverScan \/ Exit \/ Boot
BY DEF Next, ProcessStep, Passing, RecoverStep

LEMMA PassingKeeps ==
  ASSUME TypeOK, "store" \notin Faults, Passing, NEW t \in Subs, Owned(t)
  PROVE  Kept(t)
<1>1. CASE Signal \/ ShutdownReturns \/ StopReturns \/ UNCHANGED vars
  <2>1. UNCHANGED <<tables, handler, sends, jobs, dispatcher, worker, recovery>>
    BY <1>1 DEF Signal, ShutdownReturns, StopReturns, GoroutinesUnchanged, vars, tables, queue, dispatch
  <2> QED
    BY <2>1, IdleKeeps
<1> QED
  BY <1>1, RequestsKeep, SendersKeep, DispatcherKeeps, WorkersKeep, RecoveryKeeps DEF Passing

LEMMA PassingIsNoBoot ==
  ASSUME TypeOK, Passing
  PROVE  /\ phase' = "down" => phase = "down"
         /\ recovery'.pc = "scan" => recovery.pc = "scan"
<1>1. ASSUME NEW h \in Handlers, HandlerStep(h) PROVE UNCHANGED <<phase, recovery>>
  BY <1>1 DEF HandlerStep, RerunReset, RerunClear, HandlerEnqueue
<1>2. ASSUME NEW s \in Subs, EnqueueSend(s) \/ EnqueueDrop(s) PROVE UNCHANGED <<phase, recovery>>
  BY <1>2 DEF EnqueueSend, EnqueueDrop
<1>3. CASE DispatchStep
  BY <1>3 DEF DispatchStep, DispatchReceive, DispatchAcquire, DispatchQuit, DispatchSpawn
<1>4. ASSUME NEW w \in Workers, WorkerStep(w) PROVE UNCHANGED <<phase, recovery>>
  BY <1>4 DEF WorkerStep, EngineUnchanged, WorkerLoad, WorkerLoadFails, ProblemMissing,
     WorkerBegin, StageFails, StagesPass, StoreCases, Finish, Panic, ReleaseSlot, WorkerDone
<1>5. CASE RecoverStep /\ ~RecoverScan
  <2>1. phase' = phase
    BY <1>5 DEF RecoverStep, RecoverReset, RecoverClear, RecoverEnqueue, RecoveryUnchanged
  <2>2. recovery \in Recovery
    BY DEF TypeOK
  <2>3. ASSUME RecoverClear \/ RecoverEnqueue PROVE recovery'.pc # "scan"
    <3>1. DOMAIN recovery = {"pc", "todo", "cur"}
      BY <2>2 DEF Recovery
    <3> QED
      BY <2>3, <3>1 DEF RecoverClear, RecoverEnqueue
  <2>4. ASSUME NEW s \in Subs, RecoverReset(s) PROVE recovery'.pc # "scan"
    BY <2>4 DEF RecoverReset
  <2> QED
    BY <1>5, <2>1, <2>3, <2>4 DEF RecoverStep
<1>6. CASE Signal \/ ShutdownReturns \/ StopReturns
  BY <1>6 DEF Signal, ShutdownReturns, StopReturns, GoroutinesUnchanged
<1>7. CASE UNCHANGED vars
  BY <1>7 DEF vars
<1> QED
  BY <1>1, <1>2, <1>3, <1>4, <1>5, <1>6, <1>7 DEF Passing

\* While clients are calm a request arrives only when recovery has ended.
LEMMA RequestIsArrival ==
  ASSUME TypeOK, NEW h \in Handlers, Request(h), AfterRecovery
  PROVE  phase' # "down" /\ recovery'.pc # "scan"
<1>1. handler[h].pc = "idle" /\ handler'[h].pc # "idle"
  BY DEF Request, CreateSubmission, RerunCheck, TypeOK
<1>2. recovery = NoRecovery
  BY <1>1 DEF AfterRecovery, Arrives, RecoveryEnded
<1>3. phase' = phase /\ phase # "down" /\ recovery' = recovery
  BY DEF Request, CreateSubmission, RerunCheck, Listening
<1> QED
  BY <1>2, <1>3 DEF NoRecovery

LEMMA CalmSteps ==
  ASSUME TypeOK, "store" \notin Faults, \A s \in Subs : Owned(s), Quiet,
         [Next /\ AfterRecovery /\ OneRequestPerSub]_vars
  PROVE  (\A s \in Subs : Owned(s)') /\ Quiet'
<1>1. CASE Passing
  <2>1. \A s \in Subs : Kept(s)
    BY <1>1, PassingKeeps
  <2>2. \A s \in Subs : Owned(s)' /\ (Nowhere(s) => Nowhere(s)')
    BY <2>1 DEF Kept
  <2> QED
    BY <1>1, <2>2, PassingIsNoBoot DEF Quiet
<1>2. ASSUME NEW h \in Handlers, Request(h) PROVE (\A s \in Subs : Owned(s)') /\ Quiet'
  <2>1. handler'[h] # handler[h]
    BY <1>2 DEF Request, CreateSubmission, RerunCheck, TypeOK
  <2>2. AfterRecovery /\ OneRequestPerSub
    BY <2>1 DEF vars
  <2>3. \A s \in Subs : Owned(s)'
    BY <1>2, <2>2, ArrivalsOwn
  <2> QED
    BY <1>2, <2>2, <2>3, RequestIsArrival DEF Quiet
<1>3. CASE RecoverScan
  <2>1. \A s \in Subs : Nowhere(s)
    BY <1>3 DEF Quiet, RecoverScan
  <2>2. \A s \in Subs : Owned(s)'
    BY <1>3, <2>1, ScanOwns
  <2>3. phase' # "down" /\ recovery'.pc # "scan"
    BY <1>3 DEF Quiet, RecoverScan, RecoveryUnchanged, NoRecovery
  <2> QED
    BY <2>2, <2>3 DEF Quiet
<1>4. CASE Exit
  <2>1. \A s \in Subs : Owned(s)' /\ Nowhere(s)'
    BY <1>4, ExitOwns
  <2>2. recovery'.pc # "scan"
    BY <1>4 DEF Exit, NoRecovery
  <2> QED
    BY <2>1, <2>2 DEF Quiet
<1>5. CASE Boot
  <2>1. \A s \in Subs : Nowhere(s)
    BY <1>5 DEF Quiet, Boot
  <2>2. \A s \in Subs : Kept(s)
    BY <1>5, <2>1, BootKeeps
  <2>3. phase' # "down"
    BY <1>5 DEF Boot
  <2> QED
    BY <2>1, <2>2, <2>3 DEF Kept, Quiet
<1> QED
  BY <1>1, <1>2, <1>3, <1>4, <1>5, StepKinds

LEMMA CalmStarts ==
  ASSUME Init
  PROVE  (\A s \in Subs : Owned(s)) /\ Quiet
<1>1. ASSUME NEW s \in Subs PROVE Nowhere(s) /\ PlacesOK(s)
  <2>1. ~InRequest(s) /\ RequestOK(s)
    BY NoSubNowhere DEF Init, InRequest, RequestOK, IdleHandler
  <2>2. ~InSender(s) /\ SenderOK(s)
    BY DEF Init, InSender, SenderOK
  <2>3. ~InQueue(s) /\ QueueOK(s)
    BY DEF Init, InQueue, QueueOK
  <2>4. ~InDispatcher(s) /\ DispatcherOK(s)
    BY NoSubNowhere DEF Init, InDispatcher, DispatcherOK
  <2>5. ~InWorker(s) /\ WorkerOK(s)
    BY NoSubNowhere DEF Init, InWorker, WorkerOK, Works, NoWorker
  <2>6. ~InRecovery(s) /\ RecoveryOK(s)
    BY NoSubNowhere DEF Init, InRecovery, RecoveryOK
  <2>7. RowOK(s)
    <3>1. row[s] = NoRow /\ results[s] = <<>>
      BY DEF Init
    <3> QED
      BY <3>1 DEF RowOK, Matches, NoRow, Verdicts
  <2> QED
    BY <2>1, <2>2, <2>3, <2>4, <2>5, <2>6, <2>7 DEF Nowhere, PlacesOK
<1> QED
  BY <1>1 DEF Init, Owned, Exclusive, Nowhere, Quiet

LEMMA CalmIsSpec == CalmSpec => Spec
<1>1. [Next /\ AfterRecovery /\ OneRequestPerSub]_vars => [Next]_vars
  OBVIOUS
<1> QED
  BY <1>1, PTL DEF CalmSpec, Spec

LEMMA CalmReachable ==
  ASSUME "store" \notin Faults
  PROVE  CalmSpec => [](TypeOK /\ (\A s \in Subs : Owned(s)) /\ Quiet)
<1>1. TypeOK /\ (\A s \in Subs : Owned(s)) /\ Quiet
        /\ [Next /\ AfterRecovery /\ OneRequestPerSub]_vars
        => (\A s \in Subs : Owned(s))' /\ Quiet'
  BY CalmSteps
<1> QED
  BY <1>1, CalmStarts, CalmIsSpec, TypeCorrect, PTL DEF CalmSpec

------------------------------------------------------------------------------
(* The theorems.                                                            *)

\* No submission is judged by two workers at once: what Rerun's check is for.
THEOREM NeverJudgedTwice ==
  ASSUME "store" \notin Faults PROVE CalmSpec => []SingleExecution
<1>1. ASSUME TypeOK, \A s \in Subs : Owned(s) PROVE SingleExecution
  <2>1. SUFFICES ASSUME NEW v \in Workers, NEW w \in Workers, v # w,
                        worker[v].sub = worker[w].sub, worker[v].sub # NoSub,
                        worker[v].pc \notin {"release", "done"},
                        worker[w].pc \notin {"release", "done"}
                 PROVE  FALSE
    BY DEF SingleExecution
  <2>2. worker[v].pc \in AtWork /\ worker[w].pc \in AtWork /\ worker[v].sub \in Subs
    BY <1>1, <2>1 DEF TypeOK, NoWorker, BusyWorker, AtWork
  <2>3. WorkerOK(worker[v].sub)
    BY <1>1, <2>2 DEF Owned, PlacesOK
  <2> QED
    BY <2>1, <2>2, <2>3 DEF WorkerOK, Works
<1> QED
  BY <1>1, CalmReachable, PTL

\* No case of a submission ever has two rows.
THEOREM OneRowOfACase ==
  ASSUME "store" \notin Faults PROVE CalmSpec => []OneRowPerCase
<1>1. (\A s \in Subs : Owned(s)) => OneRowPerCase
  BY DEF OneRowPerCase, Owned, PlacesOK, RowOK
<1> QED
  BY <1>1, CalmReachable, PTL

\* A verdict stands above the rows it was aggregated from, or above none.
THEOREM RowsMatchTheVerdict ==
  ASSUME "store" \notin Faults PROVE CalmSpec => []VerdictMatchesRows
<1>1. (\A s \in Subs : Owned(s)) => VerdictMatchesRows
  <2>1. SUFFICES ASSUME NEW s \in Subs, Owned(s) PROVE Matches(s)
    BY DEF VerdictMatchesRows, Matches
  <2> QED
    BY <2>1 DEF Owned, PlacesOK, RowOK
<1> QED
  BY <1>1, CalmReachable, PTL

\* Only a finished submission has a finish time.
THEOREM FinishedMeansVerdict ==
  ASSUME "store" \notin Faults PROVE CalmSpec => []FinishTime
<1>1. (\A s \in Subs : Owned(s)) => FinishTime
  BY DEF FinishTime, Owned, PlacesOK, RowOK
<1> QED
  BY <1>1, CalmReachable, PTL
------------------------------------------------------------------------------
(* The engine implements SubmissionLifecycle: whoever writes a row owns the  *)
(* job, so the status it finds is one its write may follow.                 *)

\* A status that b may follow, or b itself.
MayBecome(a, b) ==
  \/ a = b
  \/ a = "absent" /\ b = "PENDING"
  \/ a = "PENDING" /\ b \in {"RUNNING", "IE"}
  \/ a = "RUNNING" /\ b \in Verdicts \cup {"PENDING"}
  \/ a \in Verdicts /\ b = "PENDING"

\* The row of s, and no other, is left or moves as the life cycle allows.
Moves(s) == \E r \in Row : row' = [row EXCEPT ![s] = r] /\ MayBecome(row[s].status, r.status)

LEMMA MovesImplement ==
  ASSUME TypeOK, NEW s \in Subs, Moves(s)
  PROVE  [Lifecycle!Next]_Statuses
<1>1. PICK r \in Row : row' = [row EXCEPT ![s] = r] /\ MayBecome(row[s].status, r.status)
  BY DEF Moves
<1>2. Statuses' = [Statuses EXCEPT ![s] = r.status]
  BY <1>1 DEF TypeOK, Statuses
<1>3. Statuses[s] = row[s].status
  BY DEF Statuses
<1>4. CASE row[s].status = r.status
  <2>1. [Statuses EXCEPT ![s] = Statuses[s]] = Statuses
    BY DEF Statuses
  <2> QED
    BY <1>2, <1>3, <1>4, <2>1
<1>5. ASSUME row[s].status # r.status PROVE Lifecycle!Next
  <2>1. Lifecycle!Move(s, row[s].status, r.status)
    BY <1>2, <1>3 DEF Lifecycle!Move
  <2>2. Lifecycle!Verdicts = Verdicts
    BY DEF Lifecycle!Verdicts, Verdicts
  <2>3. \/ Lifecycle!Submit(s) \/ Lifecycle!Start(s) \/ Lifecycle!Judge(s)
        \/ Lifecycle!GiveUp(s) \/ Lifecycle!Rerun(s) \/ Lifecycle!Recover(s)
    BY <1>1, <1>5, <2>1, <2>2 DEF MayBecome, Lifecycle!Submit, Lifecycle!Start,
       Lifecycle!Judge, Lifecycle!GiveUp, Lifecycle!Rerun, Lifecycle!Recover
  <2> QED
    BY <2>3 DEF Lifecycle!Next
<1> QED
  BY <1>4, <1>5

LEMMA RequestsMove ==
  ASSUME TypeOK, \A s \in Subs : Owned(s), "store" \notin Faults,
         NEW h \in Handlers, Request(h) \/ HandlerStep(h), row' # row
  PROVE  \E s \in Subs : Moves(s)
<1>1. PendingRow \in Row
  BY RowFacts
<1>2. CASE \E s \in Subs : CreateSubmission(h, s)
  <2>1. PICK s \in Subs : CreateSubmission(h, s)
    BY <1>2
  <2>2. row[s].status = "absent" /\ row' = [row EXCEPT ![s] = PendingRow]
    BY <2>1 DEF CreateSubmission, Write, NoRow
  <2>3. PendingRow.status = "PENDING"
    BY DEF PendingRow
  <2> QED
    BY <1>1, <2>2, <2>3 DEF Moves, MayBecome
<1>3. CASE RerunReset(h)
  <2>1. handler[h].pc = "reset" /\ handler[h].sub \in Subs
    BY <1>3 DEF RerunReset, TypeOK, IdleHandler, BusyHandler
  <2>2. row[handler[h].sub].status \in Verdicts
    BY <2>1 DEF Owned, PlacesOK, RequestOK, RequestFits
  <2> QED
    BY <1>1, <1>3, <2>1, <2>2 DEF RerunReset, Reset, Write, StoreFault, PendingRow, Moves, MayBecome
<1> QED
  BY <1>2, <1>3 DEF Request, HandlerStep, RerunCheck, RerunClear, HandlerEnqueue,
     ClearResults, StoreFault, tables

LEMMA WorkersMove ==
  ASSUME TypeOK, \A s \in Subs : Owned(s), "store" \notin Faults,
         NEW w \in Workers, WorkerStep(w), row' # row
  PROVE  \E s \in Subs : Moves(s)
<1> DEFINE s == worker[w].sub
<1>1. worker[w].pc \in AtWork
  BY DEF WorkerStep, WorkerLoad, WorkerLoadFails, ProblemMissing, WorkerBegin, StageFails,
     StagesPass, StoreCases, Finish, Panic, ReleaseSlot, WorkerDone, tables, AtWork
<1>2. s \in Subs /\ worker[w].row \in Row
  BY <1>1 DEF TypeOK, NoWorker, BusyWorker, AtWork
<1>3. WorkerFits(worker[w], s)
  BY <1>1, <1>2 DEF Owned, PlacesOK, WorkerOK, Works
<1>4. row[s].status = IF worker[w].pc \in {"load", "begin"} THEN "PENDING" ELSE "RUNNING"
  BY <1>1, <1>3 DEF WorkerFits, Ready, PendingRow, RunningRow, AtWork
<1>5. ASSUME NEW v \in Status, NEW f \in BOOLEAN, Save(w, v, f), MayBecome(row[s].status, v)
      PROVE  Moves(s)
  <2>1. [status |-> v, finished |-> f] \in Row
    BY DEF Row
  <2> QED
    BY <1>5, <2>1 DEF Save, Write, Moves
<1>6. worker[w].row.finished \in BOOLEAN /\ worker[w].row.status \in Status \cup {"absent"}
  BY <1>2 DEF Row
<1>7. CASE ProblemMissing(w)
  <2>1. Save(w, "IE", TRUE) /\ worker[w].pc = "begin"
    BY <1>7 DEF ProblemMissing, Fail, StoreFault, tables
  <2> QED
    BY <1>2, <1>4, <1>5, <2>1 DEF MayBecome, Status, Verdicts
<1>8. CASE WorkerBegin(w)
  <2>1. Save(w, "RUNNING", worker[w].row.finished) /\ worker[w].pc = "begin"
    BY <1>8 DEF WorkerBegin, StoreFault, tables
  <2> QED
    BY <1>2, <1>4, <1>5, <1>6, <2>1 DEF MayBecome, Status, Unfinished
<1>9. CASE \E v \in FailVerdicts : StageFails(w, v)
  <2>1. PICK v \in FailVerdicts : StageFails(w, v)
    BY <1>9
  <2>2. Save(w, v, TRUE) /\ worker[w].pc = "stages"
    BY <2>1 DEF StageFails, Fail, StoreFault, tables
  <2>3. v \in Verdicts
    BY VerdictsAssumption
  <2> QED
    BY <1>2, <1>4, <1>5, <2>2, <2>3 DEF MayBecome, Status
<1>10. CASE Finish(w)
  <2>1. Save(w, worker[w].row.status, TRUE) /\ worker[w].pc = "finish"
    BY <1>10 DEF Finish, StoreFault, tables
  <2>2. worker[w].row.status \in Verdicts
    <3>1. results[s] = <<worker[w].row.status>>
      BY <1>3, <2>1 DEF WorkerFits
    <3>2. results[s] \in Seq(Verdicts)
      BY <1>2 DEF TypeOK
    <3>3. \A x : <<x>> \in Seq(Verdicts) => x \in Verdicts
      OBVIOUS
    <3> QED
      BY <3>1, <3>2, <3>3, Zenon
  <2> QED
    BY <1>2, <1>4, <1>5, <2>1, <2>2 DEF MayBecome, Status
<1>11. CASE Panic(w)
  <2>1. row' = [row EXCEPT ![s] = [row[s] EXCEPT !.status = "IE"]]
    BY <1>11 DEF Panic, Write, StoreFault, tables
  <2>2. [row[s] EXCEPT !.status = "IE"] \in Row
    BY <1>2 DEF TypeOK, Row, Status, Verdicts
  <2>3. [row[s] EXCEPT !.status = "IE"].status = "IE"
    BY <1>2 DEF TypeOK, Row
  <2>4. MayBecome(row[s].status, "IE")
    BY <1>4 DEF MayBecome, Verdicts
  <2> QED
    BY <1>2, <2>1, <2>2, <2>3, <2>4 DEF Moves
<1> QED
  BY <1>2, <1>7, <1>8, <1>9, <1>10, <1>11 DEF WorkerStep, WorkerLoad, WorkerLoadFails,
     StagesPass, StoreCases, ReleaseSlot, WorkerDone, ClearResults, StoreResults, StoreFault, tables

LEMMA RecoveryMoves ==
  ASSUME TypeOK, \A s \in Subs : Owned(s), "store" \notin Faults, RecoverStep, row' # row
  PROVE  \E s \in Subs : Moves(s)
<1>1. PICK s \in Subs : RecoverReset(s)
  BY DEF RecoverStep, RecoverScan, RecoverClear, RecoverEnqueue, ClearResults, StoreFault, tables
<1>2. row[s].status \in Unfinished
  BY <1>1 DEF RecoverReset, Owned, PlacesOK, RecoveryOK
<1>3. PendingRow \in Row
  BY RowFacts
<1> QED
  BY <1>1, <1>2, <1>3 DEF RecoverReset, Reset, Write, StoreFault, PendingRow, Unfinished,
     Moves, MayBecome

LEMMA StepImplements ==
  ASSUME TypeOK, \A s \in Subs : Owned(s), "store" \notin Faults, [Next]_vars
  PROVE  [Lifecycle!Next]_Statuses
<1>1. CASE row' = row
  BY <1>1 DEF Statuses
<1>2. ASSUME row' # row PROVE \E s \in Subs : Moves(s)
  <2>1. \/ \E h \in Handlers : Request(h) \/ HandlerStep(h)
        \/ \E w \in Workers : WorkerStep(w)
        \/ RecoverStep
    BY <1>2 DEF Next, EnqueueSend, EnqueueDrop, DispatchStep, DispatchReceive, DispatchAcquire,
       DispatchQuit, DispatchSpawn, ProcessStep, Signal, ShutdownReturns, StopReturns, Exit,
       Boot, GoroutinesUnchanged, vars, tables
  <2> QED
    BY <1>2, <2>1, RequestsMove, WorkersMove, RecoveryMoves
<1> QED
  BY <1>1, <1>2, MovesImplement

\* The status a user sees follows the documented state machine, for every
\* number of submissions and workers: the engine implements the life cycle.
THEOREM EngineImplementsLifecycle ==
  ASSUME "store" \notin Faults PROVE CalmSpec => FollowsLifecycle
<1>1. Init => Lifecycle!Init
  BY DEF Init, Lifecycle!Init, NoRow, Statuses
<1>2. TypeOK /\ (\A s \in Subs : Owned(s)) /\ [Next]_vars
        => [Lifecycle!Next]_Statuses
  BY StepImplements
<1> QED
  BY <1>1, <1>2, CalmReachable, CalmIsSpec, PTL DEF CalmSpec, Spec, FollowsLifecycle, Lifecycle!Spec
==============================================================================
