---------------------------- MODULE TapReporter -----------------------------
(***************************************************************************)
(* What a programme of final exercise 006 prints and with what code it     *)
(* exits: the TAP reporter (113final006/solution/runtime/tap.h) in the     *)
(* test run that Catch makes of the cases (runtime/test.h, vendored) from  *)
(* main (entrypoint.cpp).  The judge reads only the exit code, the student *)
(* only the lines.                                                         *)
(***************************************************************************)
EXTENDS Integers, Sequences, FiniteSets

CONSTANTS CaseKinds,    \* tags of a case: "plain", "mayfail", "shouldfail"
          MaxExitCode,  \* 255 in the code
          MaxLines,     \* bound on the assertions of a run
          MaxInfos,     \* bound on the INFO messages in scope
          MaxCases      \* bound on the cases of a run

ASSUME TapAssumption ==
  /\ CaseKinds \subseteq {"plain", "mayfail", "shouldfail"}
  /\ MaxExitCode \in Nat \ {0}
  /\ {MaxLines, MaxInfos, MaxCases} \subseteq Nat

VARIABLES lines,     \* the assertion lines printed, in order
          counter,   \* TAPReporter::counter
          totals,    \* RunContext::m_totals.assertions
          infos,     \* the messages in scope, newest last
          lastOn,    \* how the last assertion takes a failure (m_lastAssertionInfo)
          case,      \* the running test case, or "none"
          cases,     \* the kinds of the cases begun, in order
          before,    \* totals when the running case began
          unmet,     \* "should fail" cases that did not fail
          plan,      \* the number after "1..", -1 while not printed
          exit       \* -1 while running, -2 killed by a signal, or the code

tapVars == <<lines, counter, totals, infos, lastOn, case, cases, before, unmet, plan, exit>>

Counts == [passed : Nat, failed : Nat, failedButOk : Nat]
Zero == [passed |-> 0, failed |-> 0, failedButOk |-> 0]
Total(t) == t.passed + t.failed + t.failedButOk

(* What can come of an assertion, and how the macro that made it takes a   *)
(* failure: throw, go on, or not count it (CHECK_NOFAIL).                  *)
Dispositions == {"throw", "continue", "suppress"}

Assertions ==
  [result : {"Ok", "ExpressionFailed", "ThrewException"}, on : Dispositions]
    \cup [result : {"DidntThrowException", "ExplicitFailure"}, on : {"throw", "continue"}]
    \cup {[result |-> "Warning", on |-> "continue"]}

(* A signal is reported with the disposition of the assertion before it.   *)
Fatal == [result |-> "FatalErrorCondition", on |-> lastOn]

Failure(r) == r \notin {"Ok", "Warning", "Info"}

IsOk(a) == ~Failure(a.result) \/ a.on = "suppress"

(* The message an assertion brings along, after those in scope.            *)
Own(a) ==
  IF a.result \in {"ThrewException", "FatalErrorCondition", "ExplicitFailure", "Warning"}
  THEN <<<<"own", 0>>>> ELSE <<>>

-----------------------------------------------------------------------------
(* AssertionPrinter::print: the word the line begins with, and the         *)
(* messages it shows.  printMessage takes the first, printRemainingMessages *)
(* the rest.                                                               *)
Word(a) ==
  CASE a.result = "Ok" -> "ok"
    [] a.result = "ExpressionFailed" -> IF IsOk(a) THEN "ok" ELSE "not ok"
    [] a.result = "Info" -> "info"
    [] a.result = "Warning" -> "warning"
    [] OTHER -> "not ok"

Todo(a) == a.result = "ExpressionFailed" /\ IsOk(a)

FirstApart(a) == a.result \in {"ThrewException", "FatalErrorCondition", "Info", "Warning"}

PrintMessage(messages) == IF messages = <<>> THEN <<>> ELSE <<Head(messages)>>

PrintRemaining(messages, it) == SubSeq(messages, it, Len(messages))

(* A bug: printMessage does not move on to the next message.               *)
ShownTwice(a, messages) ==
  IF FirstApart(a) THEN PrintMessage(messages) \o PrintRemaining(messages, 1)
  ELSE PrintRemaining(messages, 1)

Shown(a, messages) ==
  IF FirstApart(a) THEN PrintMessage(messages) \o PrintRemaining(messages, 2)
  ELSE PrintRemaining(messages, 1)

Line(a, n, messages) ==
  [word |-> Word(a), number |-> n, todo |-> Todo(a), of |-> case, ofCase |-> Len(cases),
   hidden |-> a.result = "Warning" \/ (Failure(a.result) /\ IsOk(a)),
   sent |-> messages, shown |-> Shown(a, messages)]

(* RunContext::assertionEnded, under a handler that has set the assertion  *)
(* to be the last one: count, then report.                                 *)
Counted(t, a) ==
  IF a.result = "Ok" THEN [t EXCEPT !.passed = @ + 1]
  ELSE IF IsOk(a) THEN t
  ELSE IF case # "plain" THEN [t EXCEPT !.failedButOk = @ + 1]
  ELSE [t EXCEPT !.failed = @ + 1]

(* A bug: the line is printed with the next number, the counter stays.     *)
AssertionUncounted(a) ==
  /\ UNCHANGED counter
  /\ lastOn' = a.on
  /\ totals' = Counted(totals, a)
  /\ lines' = Append(lines, Line(a, counter + 1, infos \o Own(a)))

AssertionEnded(a) ==
  /\ lastOn' = a.on
  /\ counter' = counter + 1
  /\ totals' = Counted(totals, a)
  /\ lines' = Append(lines, Line(a, counter + 1, infos \o Own(a)))

-----------------------------------------------------------------------------
TapInit ==
  /\ lines = <<>> /\ counter = 0 /\ totals = Zero /\ infos = <<>>
  /\ lastOn = "throw"
  /\ case = "none" /\ cases = <<>> /\ before = Zero /\ unmet = 0
  /\ plan = -1 /\ exit = -1

BeginCase ==
  /\ exit = -1 /\ plan = -1 /\ case = "none" /\ Len(cases) < MaxCases
  /\ \E kind \in CaseKinds :
       /\ case' = kind
       /\ cases' = Append(cases, kind)
  /\ before' = totals
  /\ lastOn' = "throw"
  /\ UNCHANGED <<lines, counter, totals, infos, unmet, plan, exit>>

(* INFO opens a message that lives to the end of its scope.                *)
OpenInfo ==
  /\ exit = -1 /\ case # "none" /\ Len(infos) < MaxInfos
  /\ infos' = Append(infos, <<"info", Len(infos) + 1>>)
  /\ UNCHANGED <<lines, counter, totals, lastOn, case, cases, before, unmet, plan, exit>>

CloseInfo ==
  /\ exit = -1 /\ case # "none" /\ infos # <<>>
  /\ infos' = SubSeq(infos, 1, Len(infos) - 1)
  /\ UNCHANGED <<lines, counter, totals, lastOn, case, cases, before, unmet, plan, exit>>

(* The end of a case, after its last statement or a throw: a case that had *)
(* to fail and did not is one failure more in the result of the run.       *)
CaseEnds(t) ==
  /\ case' = "none"
  /\ infos' = <<>>
  /\ unmet' = unmet + (IF case = "shouldfail" /\ t.failed = before.failed
                          /\ t.failedButOk = before.failedButOk THEN 1 ELSE 0)

Assertion ==
  \E a \in Assertions :
    /\ exit = -1 /\ case # "none" /\ Len(lines) < MaxLines
    /\ AssertionEnded(a)
    /\ IF Failure(a.result) /\ a.on = "throw" THEN CaseEnds(totals')
       ELSE UNCHANGED <<case, infos, unmet>>
    /\ UNCHANGED <<cases, before, plan, exit>>

EndCase ==
  /\ exit = -1 /\ case # "none"
  /\ CaseEnds(totals)
  /\ UNCHANGED <<lines, counter, totals, lastOn, cases, before, plan, exit>>

(* A signal: the run is reported as over from the handler, and the process *)
(* dies of the signal.                                                     *)
FatalSignal ==
  /\ exit = -1 /\ case # "none" /\ Len(lines) < MaxLines
  /\ AssertionEnded(Fatal)
  /\ plan' = Total(totals')
  /\ exit' = -2
  /\ UNCHANGED <<infos, case, cases, before, unmet>>

(* A bug: the code is not clamped and loses its high bits.                 *)
EndRunWraps ==
  /\ exit = -1 /\ case = "none"
  /\ plan' = Total(totals)
  /\ exit' = (totals.failed + unmet) % (MaxExitCode + 1)
  /\ UNCHANGED <<lines, counter, totals, lastOn, infos, case, cases, before, unmet>>

(* Session::runInternal: the code is computed, the run context destroyed   *)
(* (which prints the plan), and main returns the code.                     *)
EndRun ==
  /\ exit = -1 /\ case = "none"
  /\ plan' = Total(totals)
  /\ exit' = LET failed == totals.failed + unmet
             IN  IF failed > MaxExitCode THEN MaxExitCode ELSE failed
  /\ UNCHANGED <<lines, counter, totals, lastOn, infos, case, cases, before, unmet>>

TapNext ==
  \/ BeginCase \/ OpenInfo \/ CloseInfo \/ Assertion \/ EndCase \/ FatalSignal \/ EndRun

TapSpec == TapInit /\ [][TapNext]_tapVars

-----------------------------------------------------------------------------
(* The reporter's counter is the number of lines, the totals are counts,   *)
(* and the plan is printed when the run is over.                           *)
TapTypeOK ==
  /\ totals \in Counts /\ before \in Counts
  /\ counter = Len(lines)
  /\ case \in CaseKinds \cup {"none"}
  /\ lastOn \in Dispositions
  /\ exit \in -2..MaxExitCode
  /\ (plan = -1) <=> (exit = -1)

(* The lines are numbered without a gap, but the plan printed last counts  *)
(* only the results: a warning, and a failure that CHECK_NOFAIL hides,     *)
(* a signal after it included, take a number that the plan does not cover. *)
PlanCountsResults ==
  /\ \A i \in 1..Len(lines) : lines[i].number = i
  /\ plan # -1 => plan = Cardinality({i \in 1..Len(lines) : ~lines[i].hidden})

(* The verdict, which the judge takes from the exit code, agrees with the  *)
(* lines the student reads: the code is 0 exactly when no plain case has a *)
(* failing line and each case that should fail has one.  The lines that    *)
(* CHECK_NOFAIL hides count for neither, though one of them may begin with *)
(* "not ok".                                                               *)
Failing(l) == l.word = "not ok" /\ ~l.hidden

ExitMatchesLines ==
  exit >= 0 =>
    ((exit = 0) <=>
       /\ \A i \in 1..Len(lines) : Failing(lines[i]) => lines[i].of # "plain"
       /\ \A c \in 1..Len(cases) : cases[c] = "shouldfail" =>
            \E i \in 1..Len(lines) : Failing(lines[i]) /\ lines[i].ofCase = c)

(* Every message in scope, and the assertion's own, is printed once and in *)
(* order, whichever way the printer starts with it.                        *)
EveryMessageOnce == \A i \in 1..Len(lines) : lines[i].shown = lines[i].sent

(* What the student reads is complete: the lines are numbered, the plan    *)
(* counts the results among them and each message is there once.           *)
LinesAreComplete == PlanCountsResults /\ EveryMessageOnce
=============================================================================
