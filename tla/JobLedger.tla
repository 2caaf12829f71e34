------------------------------ MODULE JobLedger ------------------------------
(***************************************************************************)
(* What Enqueue promises: every call of it is a debt of one judging of its *)
(* submission, and while the engine serves a debt is paid by exactly one   *)
(* worker. Jobs are neither lost nor duplicated between Enqueue and the    *)
(* worker; they are only lost when the engine stops serving. The queue,    *)
(* the dispatcher and the semaphore of JudgeEngine implement it.           *)
(***************************************************************************)
EXTENDS Naturals

CONSTANT Subs

VARIABLES
  serving,  \* the engine's context is not done
  owed,     \* per submission, judgings that Enqueue promised
  running   \* per submission, judgings in progress

vars == <<serving, owed, running>>

None == [s \in Subs |-> 0]

Init == serving = TRUE /\ owed = None /\ running = None

\* Enqueue.
Owe(s) ==
  /\ owed' = [owed EXCEPT ![s] = @ + 1]
  /\ UNCHANGED <<serving, running>>

\* A worker takes a job.
Start(s) ==
  /\ owed[s] > 0
  /\ owed' = [owed EXCEPT ![s] = @ - 1]
  /\ running' = [running EXCEPT ![s] = @ + 1]
  /\ UNCHANGED serving

\* process returns.
End(s) ==
  /\ running[s] > 0
  /\ running' = [running EXCEPT ![s] = @ - 1]
  /\ UNCHANGED <<serving, owed>>

\* Once the context is done a goroutine may give up its job.
Drop(s) ==
  /\ ~serving
  /\ owed[s] > 0
  /\ owed' = [owed EXCEPT ![s] = @ - 1]
  /\ UNCHANGED <<serving, running>>

\* The context is done.
Close == serving /\ serving' = FALSE /\ UNCHANGED <<owed, running>>

\* The process ends: debts and judgings are lost.
Lose == serving' = FALSE /\ owed' = None /\ running' = None

\* The next boot starts with no debts.
Reopen == /\ ~serving /\ owed = None /\ running = None
          /\ serving' = TRUE /\ UNCHANGED <<owed, running>>

Next ==
  \/ \E s \in Subs : Owe(s) \/ Start(s) \/ End(s) \/ Drop(s)
  \/ Close \/ Lose \/ Reopen

Spec == Init /\ [][Next]_vars

\* No debt waits forever while the engine serves.
FairSpec == Spec /\ \A s \in Subs : WF_vars(serving /\ Start(s))
==============================================================================
