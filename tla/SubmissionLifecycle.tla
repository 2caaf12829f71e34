------------------------- MODULE SubmissionLifecycle -------------------------
(***************************************************************************)
(* What a user is promised about the status of a submission: the state     *)
(* machine of docs/ERD.md:57 (PENDING, RUNNING, then a verdict), with the  *)
(* rerun of a finished submission and the recovery of an interrupted one.  *)
(* JudgeEngine implements it while clients are calm.                       *)
(***************************************************************************)
EXTENDS Verdict

CONSTANT Subs

VARIABLE status

TypeOK == status \in [Subs -> {"absent"} \cup Status]

Init == status = [s \in Subs |-> "absent"]

Move(s, from, to) == status[s] = from /\ status' = [status EXCEPT ![s] = to]

\* CreateSubmission.
Submit(s) == Move(s, "absent", "PENDING")

\* A worker starts the judging.
Start(s) == Move(s, "PENDING", "RUNNING")

\* The judging ends.
Judge(s) == \E v \in Verdicts : Move(s, "RUNNING", v)

\* The judging cannot start: its problem is gone, or the worker panics.
GiveUp(s) == Move(s, "PENDING", "IE")

\* Rerun of a finished submission.
Rerun(s) == \E v \in Verdicts : Move(s, v, "PENDING")

\* After a restart the judging starts over.
Recover(s) == Move(s, "RUNNING", "PENDING")

Next ==
  \E s \in Subs : \/ Submit(s) \/ Start(s) \/ Judge(s) \/ GiveUp(s)
                  \/ Rerun(s) \/ Recover(s)

Spec == Init /\ [][Next]_status
==============================================================================
