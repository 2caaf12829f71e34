--------------------------- MODULE SolutionsProofs ---------------------------
(***************************************************************************)
(* The reporter, and all programmes side by side.                          *)
(*                                                                         *)
(* The lines, the plan and the exit code of module TapReporter agree, for  *)
(* runs of any length.  Everything a step does to the lines is in          *)
(* AssertionEnded, so its facts are stated once (EndedFacts).  Two         *)
(* invariants rest on them: Tally, the totals are the number of lines that *)
(* are not hidden, and Blame, the failures counted are failing lines and   *)
(* the other way round, case by case; the case that is running is judged   *)
(* by the totals it began with.                                            *)
(*                                                                         *)
(* MCSolutions runs one of the six programmes per behaviour. A step of it  *)
(* is a step of that one and leaves the others alone, so that the type     *)
(* invariants hold side by side (SolutionsAreSix).                         *)
(***************************************************************************)
EXTENDS MCSolutions, ProgrammeProofs, UrlMachineProofs, SequenceTheorems, FiniteSetTheorems, TLAPS

Tags == {"plain", "mayfail", "shouldfail", "none"}
Words == {"ok", "not ok", "info", "warning"}
Message == {"own", "info"} \X Nat

LineRecord == [word : Words, number : Nat, todo : BOOLEAN, of : Tags, ofCase : Nat,
               hidden : BOOLEAN, sent : Seq(Message), shown : Seq(Message)]

HasLine(i) == i \in 1..Len(lines)

Shape ==
  /\ lines \in Seq(LineRecord) /\ counter = Len(lines)
  /\ infos \in Seq(Message) /\ cases \in Seq(Tags)
  /\ case \in CaseKinds \cup {"none"}
  /\ totals \in Counts /\ before \in Counts /\ unmet \in Nat
  /\ lastOn \in Dispositions
  /\ plan \in Int /\ exit \in -2..MaxExitCode
  /\ (plan = -1) <=> (exit = -1)

(* A line's own facts: its number and its messages.                        *)
Faithful == \A i \in 1..Len(lines) : lines[i].number = i /\ lines[i].shown = lines[i].sent

Results(s) == {i \in 1..Len(s) : ~s[i].hidden}

Tally ==
  /\ Total(totals) = Cardinality(Results(lines))
  /\ plan # -1 => plan = Total(totals)

-----------------------------------------------------------------------------
LEMMA KindsAreTags == /\ CaseKinds \cup {"none"} \subseteq Tags
                      /\ MaxExitCode \in Nat /\ MaxExitCode > 0
BY TapAssumption DEF Tags

(* printMessage and printRemainingMessages together print the sequence.    *)
LEMMA ShownIsSent ==
  ASSUME NEW a, NEW m \in Seq(Message)
  PROVE  Shown(a, m) = m
<1>1. PrintRemaining(m, 1) = m
  BY SubSeqFull DEF PrintRemaining
<1>2. PrintMessage(m) \o PrintRemaining(m, 2) = m
  <2>1. CASE m = <<>>
    <3>1. PrintMessage(m) = <<>>
      BY <2>1 DEF PrintMessage
    <3>2. PrintRemaining(m, 2) = <<>>
      <4>1. Len(m) = 0
        BY <2>1
      <4> QED
        BY <4>1, SubSeqEmpty DEF PrintRemaining
    <3> QED
      BY <2>1, <3>1, <3>2, ConcatEmptySeq
  <2>2. CASE m # <<>>
    <3>1. 1 \in 1..Len(m) /\ Len(m) \in 1..Len(m)
      BY <2>2, EmptySeq
    <3>2. SubSeq(m, 1, Len(m)) = <<m[1]>> \o SubSeq(m, 2, Len(m))
      BY <3>1, SubSeqRecursiveFirst
    <3>3. PrintMessage(m) = <<m[1]>>
      BY <2>2 DEF PrintMessage
    <3> QED
      BY <3>2, <3>3, SubSeqFull DEF PrintRemaining
  <2> QED
    BY <2>1, <2>2
<1> QED
  BY <1>1, <1>2 DEF Shown

Assertable == Assertions \cup [result : {"FatalErrorCondition"}, on : Dispositions]

(* What an assertion does to the reporter and to the totals.               *)
LEMMA EndedFacts ==
  ASSUME Shape, NEW a \in Assertable, case # "none", AssertionEnded(a)
  PROVE  LET n == Len(lines)
             fresh == lines'[n + 1]
         IN  /\ n \in Nat
             /\ lines' \in Seq(LineRecord) /\ Len(lines') = n + 1 /\ counter' = n + 1
             /\ lastOn' \in Dispositions
             /\ \A i \in 1..n : lines'[i] = lines[i]
             /\ fresh.number = n + 1 /\ fresh.shown = fresh.sent
             /\ fresh.of = case /\ fresh.ofCase = Len(cases) /\ fresh.hidden \in BOOLEAN
             /\ totals' \in Counts
             /\ fresh.hidden => totals' = totals
             /\ ~fresh.hidden => Total(totals') = Total(totals) + 1
             /\ ~Failing(fresh) => /\ totals'.failed = totals.failed
                                   /\ totals'.failedButOk = totals.failedButOk
             /\ (Failing(fresh) /\ case = "plain") =>
                  /\ totals'.failed = totals.failed + 1
                  /\ totals'.failedButOk = totals.failedButOk
             /\ (Failing(fresh) /\ case # "plain") =>
                  /\ totals'.failed = totals.failed
                  /\ totals'.failedButOk = totals.failedButOk + 1
<1> DEFINE n == Len(lines)
           msgs == infos \o Own(a)
           fresh == Line(a, counter + 1, msgs)
<1>1. n \in Nat /\ counter = n /\ lines \in Seq(LineRecord)
  BY DEF Shape
<1>2. msgs \in Seq(Message)
  <2>1. Own(a) \in Seq(Message)
    BY DEF Own, Message
  <2> QED
    BY <2>1, ConcatProperties DEF Shape
<1>3. Shown(a, msgs) = msgs
  BY <1>2, ShownIsSent
<1> HIDE DEF msgs
<1>4. /\ a.result \in {"Ok", "ExpressionFailed", "ThrewException", "DidntThrowException",
                       "ExplicitFailure", "Warning", "FatalErrorCondition"}
      /\ a.on \in Dispositions
  BY DEF Assertable, Assertions, Dispositions
<1>5. /\ Word(a) \in Words
      /\ Word(a) = "not ok" <=> (Failure(a.result) /\ (a.result = "ExpressionFailed" => ~IsOk(a)))
  BY <1>4 DEF Word, Words, Failure, IsOk
<1>6. IsOk(a) \in BOOLEAN /\ Failure(a.result) \in BOOLEAN /\ Todo(a) \in BOOLEAN
  BY DEF IsOk, Failure, Todo
<1>7. /\ fresh.word = Word(a) /\ fresh.number = n + 1 /\ fresh.of = case
      /\ fresh.ofCase = Len(cases) /\ fresh.sent = msgs /\ fresh.shown = msgs
      /\ fresh.hidden = (a.result = "Warning" \/ (Failure(a.result) /\ IsOk(a)))
  BY <1>1, <1>3 DEF Line
<1>8. fresh \in LineRecord
  <2>1. case \in Tags /\ Len(cases) \in Nat /\ n + 1 \in Nat
    BY <1>1, KindsAreTags DEF Shape
  <2>2. fresh = [word |-> Word(a), number |-> n + 1, todo |-> Todo(a), of |-> case,
                 ofCase |-> Len(cases),
                 hidden |-> (a.result = "Warning" \/ (Failure(a.result) /\ IsOk(a))),
                 sent |-> msgs, shown |-> msgs]
    BY <1>1, <1>3 DEF Line
  <2>3. (a.result = "Warning" \/ (Failure(a.result) /\ IsOk(a))) \in BOOLEAN
    OBVIOUS
  <2> HIDE DEF fresh
  <2> QED
    BY <1>2, <1>5, <1>6, <2>1, <2>2, <2>3 DEF LineRecord
<1>9. lines' = Append(lines, fresh) /\ counter' = counter + 1 /\ totals' = Counted(totals, a)
  BY DEF AssertionEnded, msgs
<1>10. Failing(fresh) <=> (Failure(a.result) /\ ~IsOk(a))
  <2>1. Failing(fresh) <=> (Word(a) = "not ok" /\ ~(a.result = "Warning" \/ (Failure(a.result) /\ IsOk(a))))
    BY <1>7 DEF Failing
  <2>2. Failure(a.result) => a.result # "Warning"
    BY DEF Failure
  <2> QED
    BY <1>5, <2>1, <2>2
<1>11. /\ totals \in Counts
       /\ a.result = "Ok" => Counted(totals, a) = [totals EXCEPT !.passed = @ + 1]
       /\ a.result # "Ok" /\ IsOk(a) => Counted(totals, a) = totals
       /\ ~IsOk(a) => a.result # "Ok" /\ Failure(a.result) /\ a.result # "Warning"
       /\ ~IsOk(a) /\ case # "plain" => Counted(totals, a) = [totals EXCEPT !.failedButOk = @ + 1]
       /\ ~IsOk(a) /\ case = "plain" => Counted(totals, a) = [totals EXCEPT !.failed = @ + 1]
  BY DEF Counted, IsOk, Failure, Shape
<1>12. a.result # "Ok" /\ IsOk(a) => fresh.hidden
  BY <1>4, <1>7 DEF Failure
<1>13. a.result = "Ok" => ~fresh.hidden /\ IsOk(a)
  BY <1>7 DEF Failure, IsOk
<1>14. ~IsOk(a) => ~fresh.hidden
  BY <1>7, <1>11
<1> HIDE DEF fresh
<1>15. /\ lines' \in Seq(LineRecord) /\ Len(lines') = n + 1
       /\ \A i \in 1..n : lines'[i] = lines[i]
       /\ lines'[n + 1] = fresh
  BY <1>1, <1>8, <1>9, AppendProperties
<1>16. /\ totals' \in Counts
       /\ fresh.hidden => totals' = totals
       /\ ~fresh.hidden => Total(totals') = Total(totals) + 1
       /\ ~Failing(fresh) => /\ totals'.failed = totals.failed
                             /\ totals'.failedButOk = totals.failedButOk
       /\ (Failing(fresh) /\ case = "plain") =>
            /\ totals'.failed = totals.failed + 1
            /\ totals'.failedButOk = totals.failedButOk
       /\ (Failing(fresh) /\ case # "plain") =>
            /\ totals'.failed = totals.failed
            /\ totals'.failedButOk = totals.failedButOk + 1
  <2>1. CASE a.result = "Ok"
    <3>1. totals' = [totals EXCEPT !.passed = @ + 1]
      BY <1>9, <1>11, <2>1
    <3>2. ~fresh.hidden /\ ~Failing(fresh)
      BY <1>10, <1>13, <2>1
    <3> QED
      BY <1>11, <3>1, <3>2 DEF Counts, Total
  <2>2. CASE a.result # "Ok" /\ IsOk(a)
    BY <1>9, <1>10, <1>11, <1>12, <2>2
  <2>3. CASE ~IsOk(a) /\ case = "plain"
    <3>1. totals' = [totals EXCEPT !.failed = @ + 1]
      BY <1>9, <1>11, <2>3
    <3>2. ~fresh.hidden /\ Failing(fresh)
      BY <1>10, <1>11, <1>14, <2>3
    <3> QED
      BY <1>11, <2>3, <3>1, <3>2 DEF Counts, Total
  <2>4. CASE ~IsOk(a) /\ case # "plain"
    <3>1. totals' = [totals EXCEPT !.failedButOk = @ + 1]
      BY <1>9, <1>11, <2>4
    <3>2. ~fresh.hidden /\ Failing(fresh)
      BY <1>10, <1>11, <1>14, <2>4
    <3> QED
      BY <1>11, <2>4, <3>1, <3>2 DEF Counts, Total
  <2> QED
    BY <1>6, <2>1, <2>2, <2>3, <2>4
<1>17. fresh.hidden \in BOOLEAN
  BY <1>8 DEF LineRecord
<1>18. lastOn' \in Dispositions
  BY <1>4 DEF AssertionEnded
<1> QED
  BY <1>1, <1>7, <1>9, <1>15, <1>16, <1>17, <1>18

-----------------------------------------------------------------------------
LEMMA TotalsAreNatural ==
  ASSUME NEW t \in Counts PROVE Total(t) \in Nat
BY DEF Counts, Total

LEMMA ShapeInit == TapInit => Shape /\ Faithful /\ Tally
<1> SUFFICES ASSUME TapInit PROVE Shape /\ Faithful /\ Tally
  OBVIOUS
<1>1. Zero \in Counts /\ Total(Zero) = 0
  BY DEF Zero, Counts, Total
<1>2. lines = <<>> /\ Len(lines) = 0
  BY DEF TapInit
<1>3. Shape
  BY <1>1, <1>2, KindsAreTags, EmptySeq DEF TapInit, Shape, Dispositions
<1>4. Results(lines) = {}
  BY <1>2 DEF Results
<1> QED
  BY <1>1, <1>2, <1>3, <1>4, FS_EmptySet DEF TapInit, Faithful, Tally

(* The end of a case leaves what it counts a number.                       *)
LEMMA CaseEndsShape ==
  ASSUME Shape, NEW t, CaseEnds(t)
  PROVE  case' = "none" /\ infos' \in Seq(Message) /\ unmet' \in Nat /\ unmet' >= unmet
<1>1. infos' \in Seq(Message)
  BY EmptySeq DEF CaseEnds
<1>2. unmet \in Nat
  BY DEF Shape
<1> QED
  BY <1>1, <1>2 DEF CaseEnds

(* A line more keeps the lines and the tally, whichever action made it.    *)
LEMMA EndedKeeps ==
  ASSUME Shape, Faithful, Tally, NEW a \in Assertable, case # "none", AssertionEnded(a)
  PROVE  Faithful' /\ Total(totals') = Cardinality(Results(lines'))
<1> DEFINE n == Len(lines)
           fresh == lines'[n + 1]
<1>1. /\ n \in Nat /\ Len(lines') = n + 1
      /\ \A i \in 1..n : lines'[i] = lines[i]
      /\ fresh.number = n + 1 /\ fresh.shown = fresh.sent /\ fresh.hidden \in BOOLEAN
      /\ fresh.hidden => totals' = totals
      /\ ~fresh.hidden => Total(totals') = Total(totals) + 1
  BY EndedFacts
<1>2. Faithful'
  <2> SUFFICES ASSUME NEW i \in 1..(n + 1)
               PROVE  lines'[i].number = i /\ lines'[i].shown = lines'[i].sent
    BY <1>1 DEF Faithful
  <2>1. CASE i \in 1..n
    BY <1>1, <2>1 DEF Faithful
  <2>2. CASE i = n + 1
    BY <1>1, <2>2
  <2> QED
    BY <1>1, <2>1, <2>2
<1>3. IsFiniteSet(Results(lines)) /\ n + 1 \notin Results(lines)
  <2>1. Results(lines) \in SUBSET (1..n)
    BY DEF Results
  <2>2. IsFiniteSet(1..n)
    BY <1>1, FS_Interval
  <2> QED
    BY <1>1, <2>1, <2>2, FS_Subset
<1>4. CASE fresh.hidden
  <2>1. Results(lines') = Results(lines)
    BY <1>1, <1>4 DEF Results
  <2> QED
    BY <1>1, <1>2, <1>4, <2>1 DEF Tally
<1>5. CASE ~fresh.hidden
  <2>1. Results(lines') = Results(lines) \cup {n + 1}
    BY <1>1, <1>5 DEF Results
  <2> QED
    BY <1>1, <1>2, <1>3, <1>5, <2>1, FS_AddElement DEF Tally
<1> QED
  BY <1>1, <1>4, <1>5

LEMMA TallyStep ==
  Shape /\ Faithful /\ Tally /\ [TapNext]_tapVars => Shape' /\ Faithful' /\ Tally'
<1> SUFFICES ASSUME Shape, Faithful, Tally, [TapNext]_tapVars
             PROVE  Shape' /\ Faithful' /\ Tally'
  OBVIOUS
<1>0. /\ Total(totals) \in Nat /\ MaxExitCode \in Nat /\ unmet \in Nat
      /\ Assertions \subseteq Assertable /\ Fatal \in Assertable
      /\ "none" \in CaseKinds \cup {"none"}
  BY TotalsAreNatural, KindsAreTags DEF Shape, Assertable, Fatal
<1>1. ASSUME UNCHANGED <<lines, counter, totals, plan, exit>>, before' \in Counts,
             infos' \in Seq(Message), cases' \in Seq(Tags),
             case' \in CaseKinds \cup {"none"}, unmet' \in Nat, lastOn' \in Dispositions
      PROVE  Shape' /\ Faithful' /\ Tally'
  BY <1>1 DEF Shape, Faithful, Tally, Results
<1>2. CASE BeginCase
  <2>1. PICK kind \in CaseKinds : case' = kind /\ cases' = Append(cases, kind)
    BY <1>2 DEF BeginCase
  <2>2. cases' \in Seq(Tags)
    <3>1. kind \in Tags /\ cases \in Seq(Tags)
      BY KindsAreTags DEF Shape
    <3> QED
      BY <2>1, <3>1, AppendProperties
  <2>3. /\ UNCHANGED <<lines, counter, totals, plan, exit, infos, unmet>>
        /\ before' = totals /\ lastOn' = "throw"
    BY <1>2 DEF BeginCase
  <2> QED
    BY <1>1, <2>1, <2>2, <2>3 DEF Shape, Dispositions
<1>3. CASE OpenInfo
  <2>1. infos' = Append(infos, <<"info", Len(infos) + 1>>)
    BY <1>3 DEF OpenInfo
  <2>2. infos' \in Seq(Message)
    <3>1. infos \in Seq(Message) /\ <<"info", Len(infos) + 1>> \in Message
      BY DEF Shape, Message
    <3> QED
      BY <2>1, <3>1, AppendProperties
  <2>3. UNCHANGED <<lines, counter, totals, lastOn, case, cases, before, unmet, plan, exit>>
    BY <1>3 DEF OpenInfo
  <2> QED
    BY <1>1, <2>2, <2>3 DEF Shape
<1>4. CASE CloseInfo
  <2>1. infos' = SubSeq(infos, 1, Len(infos) - 1)
    BY <1>4 DEF CloseInfo
  <2>2. infos' \in Seq(Message)
    <3>1. infos \in Seq(Message) /\ Len(infos) \in Nat
      BY DEF Shape
    <3>2. \A i \in 1..(Len(infos) - 1) : infos[i] \in Message
      BY <3>1, ElementOfSeq
    <3> QED
      BY <2>1, <3>1, <3>2, SubSeqProperties
  <2>3. UNCHANGED <<lines, counter, totals, lastOn, case, cases, before, unmet, plan, exit>>
    BY <1>4 DEF CloseInfo
  <2> QED
    BY <1>1, <2>2, <2>3 DEF Shape
<1>5. CASE Assertion
  <2>1. PICK a \in Assertions :
          /\ exit = -1 /\ case # "none"
          /\ AssertionEnded(a)
          /\ IF Failure(a.result) /\ a.on = "throw" THEN CaseEnds(totals')
             ELSE UNCHANGED <<case, infos, unmet>>
          /\ UNCHANGED <<cases, before, plan, exit>>
    BY <1>5 DEF Assertion
  <2>2. /\ Faithful' /\ Total(totals') = Cardinality(Results(lines'))
        /\ lines' \in Seq(LineRecord) /\ counter' = Len(lines') /\ totals' \in Counts
        /\ lastOn' \in Dispositions
    BY <1>0, <2>1, EndedKeeps, EndedFacts
  <2>3. case' \in CaseKinds \cup {"none"} /\ infos' \in Seq(Message) /\ unmet' \in Nat
    <3>1. CASE CaseEnds(totals')
      BY <1>0, <3>1, CaseEndsShape
    <3>2. CASE UNCHANGED <<case, infos, unmet>>
      BY <3>2 DEF Shape
    <3> QED
      BY <2>1, <3>1, <3>2
  <2>4. plan = -1 /\ UNCHANGED <<cases, before, plan, exit>>
    BY <2>1 DEF Shape
  <2> QED
    BY <2>2, <2>3, <2>4 DEF Shape, Tally
<1>6. CASE EndCase
  <2>1. CaseEnds(totals) /\ UNCHANGED <<lines, counter, totals, lastOn, cases, before, plan, exit>>
    BY <1>6 DEF EndCase
  <2>2. case' = "none" /\ infos' \in Seq(Message) /\ unmet' \in Nat
    BY <2>1, CaseEndsShape
  <2> QED
    BY <1>0, <1>1, <2>1, <2>2 DEF Shape
<1>7. CASE FatalSignal
  <2>1. /\ case # "none" /\ AssertionEnded(Fatal) /\ plan' = Total(totals') /\ exit' = -2
        /\ UNCHANGED <<infos, case, cases, before, unmet>>
    BY <1>7 DEF FatalSignal
  <2>2. /\ Faithful' /\ Total(totals') = Cardinality(Results(lines'))
        /\ lines' \in Seq(LineRecord) /\ counter' = Len(lines') /\ totals' \in Counts
        /\ lastOn' \in Dispositions
    BY <1>0, <2>1, EndedKeeps, EndedFacts
  <2>3. Total(totals') \in Nat
    BY <2>2, TotalsAreNatural
  <2>4. plan' \in Int /\ plan' # -1 /\ exit' \in -2..MaxExitCode /\ exit' # -1
    BY <1>0, <2>1, <2>3
  <2> QED
    BY <2>1, <2>2, <2>4 DEF Shape, Tally
<1>8. CASE EndRun
  <2>1. /\ plan' = Total(totals)
        /\ exit' = LET failed == totals.failed + unmet
                   IN  IF failed > MaxExitCode THEN MaxExitCode ELSE failed
        /\ UNCHANGED <<lines, counter, totals, lastOn, infos, case, cases, before, unmet>>
    BY <1>8 DEF EndRun
  <2>2. totals.failed \in Nat
    BY DEF Shape, Counts
  <2>3. exit' \in 0..MaxExitCode
    BY <1>0, <2>1, <2>2
  <2>4. plan' \in Int /\ plan' # -1 /\ exit' \in -2..MaxExitCode /\ exit' # -1
    BY <1>0, <2>1, <2>3
  <2> QED
    BY <2>1, <2>4 DEF Shape, Tally, Faithful, Results
<1>9. CASE UNCHANGED tapVars
  BY <1>9 DEF tapVars, Shape, Faithful, Tally, Results
<1> QED
  BY <1>2, <1>3, <1>4, <1>5, <1>6, <1>7, <1>8, <1>9 DEF TapNext

(* For any run: the counter is the number of lines, the plan is printed    *)
(* when the run is over and only then, and the code is one a process has.  *)
THEOREM TapTypeCorrect == TapSpec => []TapTypeOK
<1>1. Shape => TapTypeOK
  BY DEF Shape, TapTypeOK
<1> QED
  BY <1>1, ShapeInit, TallyStep, PTL DEF TapSpec

(* For any run: the lines are numbered without a gap, the plan counts      *)
(* those that are results, and every message is printed once.              *)
THEOREM ReportIsComplete == TapSpec => []LinesAreComplete
<1>1. Shape /\ Faithful /\ Tally => LinesAreComplete
  <2>1. Results(lines) = {i \in 1..Len(lines) : ~lines[i].hidden}
    BY DEF Results
  <2> QED
    BY <2>1 DEF Faithful, Tally, LinesAreComplete, PlanCountsResults, EveryMessageOnce
<1> QED
  BY <1>1, ShapeInit, TallyStep, PTL DEF TapSpec

-----------------------------------------------------------------------------
(* A case is blamed when one of its lines fails.                           *)
Blamed(c) == \E i \in 1..Len(lines) : Failing(lines[i]) /\ lines[i].ofCase = c

Unblamed(t) == t.failed = before.failed /\ t.failedButOk = before.failedButOk

PlainFailures ==
  totals.failed = 0 <=> \A i \in 1..Len(lines) : Failing(lines[i]) => lines[i].of # "plain"

(* The running case is the last one, and the totals it began with tell     *)
(* whether it is blamed.                                                   *)
Running ==
  /\ \A i \in 1..Len(lines) : lines[i].ofCase <= Len(cases)
  /\ case # "none" =>
       /\ Len(cases) > 0 /\ cases[Len(cases)] = case
       /\ before.failed <= totals.failed /\ before.failedButOk <= totals.failedButOk
       /\ Unblamed(totals) <=> ~Blamed(Len(cases))

(* The cases that have ended: one that should fail and is not blamed       *)
(* counts.                                                                 *)
Judged ==
  unmet = 0 <=> \A c \in 1..Len(cases) :
                   cases[c] = "shouldfail" /\ (c = Len(cases) => case = "none") => Blamed(c)

Code == exit >= 0 => case = "none" /\ (exit = 0 <=> totals.failed + unmet = 0)

Blame == PlainFailures /\ Running /\ Judged /\ Code

LEMMA EndedBlames ==
  ASSUME Shape, PlainFailures, Running, UNCHANGED <<cases, before>>,
         NEW a \in Assertable, case # "none", AssertionEnded(a)
  PROVE  /\ PlainFailures'
         /\ \A i \in 1..Len(lines') : lines'[i].ofCase <= Len(cases)
         /\ \A c \in 1..Len(cases) : c # Len(cases) => (Blamed(c)' <=> Blamed(c))
         /\ before.failed <= totals'.failed /\ before.failedButOk <= totals'.failedButOk
         /\ Unblamed(totals)' <=> ~Blamed(Len(cases))'
<1> DEFINE n == Len(lines)
           fresh == lines'[n + 1]
           m == Len(cases)
<1>1. /\ n \in Nat /\ Len(lines') = n + 1
      /\ \A i \in 1..n : lines'[i] = lines[i]
      /\ fresh.of = case /\ fresh.ofCase = m
      /\ totals' \in Counts
      /\ ~Failing(fresh) => /\ totals'.failed = totals.failed
                            /\ totals'.failedButOk = totals.failedButOk
      /\ (Failing(fresh) /\ case = "plain") =>
           /\ totals'.failed = totals.failed + 1
           /\ totals'.failedButOk = totals.failedButOk
      /\ (Failing(fresh) /\ case # "plain") =>
           /\ totals'.failed = totals.failed
           /\ totals'.failedButOk = totals.failedButOk + 1
  BY EndedFacts
<1>2. /\ totals.failed \in Nat /\ totals.failedButOk \in Nat
      /\ before.failed \in Nat /\ before.failedButOk \in Nat
      /\ m \in Nat
  BY DEF Shape, Counts
<1>3. /\ m > 0 /\ before.failed <= totals.failed /\ before.failedButOk <= totals.failedButOk
      /\ Unblamed(totals) <=> ~Blamed(m)
      /\ \A i \in 1..n : lines[i].ofCase <= m
  BY DEF Running
<1>4. PlainFailures'
  <2>1. (\A i \in 1..Len(lines') : Failing(lines'[i]) => lines'[i].of # "plain")
          <=> /\ \A i \in 1..n : Failing(lines[i]) => lines[i].of # "plain"
              /\ Failing(fresh) => case # "plain"
    BY <1>1
  <2> HIDE DEF fresh
  <2>2. totals'.failed = 0 <=> totals.failed = 0 /\ ~(Failing(fresh) /\ case = "plain")
    BY <1>1, <1>2
  <2> QED
    BY <2>1, <2>2 DEF PlainFailures
<1>5. \A i \in 1..Len(lines') : lines'[i].ofCase <= m
  BY <1>1, <1>2, <1>3
<1>6. \A c \in 1..m : Blamed(c)' <=> Blamed(c) \/ (c = m /\ Failing(fresh))
  <2>1. ASSUME NEW c \in 1..m PROVE Blamed(c)' <=> Blamed(c) \/ (c = m /\ Failing(fresh))
    <3>1. Blamed(c)' <=> \E i \in 1..(n + 1) : Failing(lines'[i]) /\ lines'[i].ofCase = c
      BY <1>1 DEF Blamed, Failing
    <3>2. Blamed(c) <=> \E i \in 1..n : Failing(lines'[i]) /\ lines'[i].ofCase = c
      BY <1>1 DEF Blamed
    <3>3. \A i \in 1..(n + 1) : i \in 1..n \/ i = n + 1
      BY <1>1
    <3>4. n + 1 \in 1..(n + 1) /\ \A i \in 1..n : i \in 1..(n + 1)
      BY <1>1
    <3> QED
      BY <1>1, <3>1, <3>2, <3>3, <3>4
  <2> QED
    BY <2>1
<1>7. Blamed(Len(cases))' <=> Blamed(m) \/ Failing(fresh)
  <2>1. m \in 1..m
    BY <1>2, <1>3
  <2>2. Blamed(Len(cases))' <=> \E i \in 1..Len(lines') : Failing(lines'[i]) /\ lines'[i].ofCase = m
    BY DEF Blamed, Failing
  <2>3. Blamed(m) <=> \E i \in 1..n : Failing(lines'[i]) /\ lines'[i].ofCase = m
    BY <1>1 DEF Blamed
  <2>4. \A i \in 1..(n + 1) : i \in 1..n \/ i = n + 1
    BY <1>1
  <2>5. n + 1 \in 1..(n + 1) /\ \A i \in 1..n : i \in 1..(n + 1)
    BY <1>1
  <2> QED
    BY <1>1, <2>2, <2>3, <2>4, <2>5
<1>8. Unblamed(totals)' <=> Unblamed(totals) /\ ~Failing(fresh)
  <2> HIDE DEF fresh
  <2> QED
    BY <1>1, <1>2, <1>3 DEF Unblamed
<1>9. before.failed <= totals'.failed /\ before.failedButOk <= totals'.failedButOk
  <2> HIDE DEF fresh
  <2> QED
    BY <1>1, <1>2, <1>3
<1>10. \A c \in 1..m : c # m => (Blamed(c)' <=> Blamed(c))
  BY <1>6
<1> QED
  BY <1>3, <1>4, <1>5, <1>7, <1>8, <1>9, <1>10

(* A case that ends is judged by what is printed of it.                    *)
LEMMA CaseEndsJudges ==
  ASSUME Shape, Judged, Running, case # "none", NEW t, CaseEnds(t), UNCHANGED cases,
         \A c \in 1..Len(cases) : c # Len(cases) => (Blamed(c)' <=> Blamed(c)),
         Unblamed(t) <=> ~Blamed(Len(cases))'
  PROVE  Judged'
<1> DEFINE m == Len(cases)
           failedToFail == case = "shouldfail" /\ Unblamed(t)
<1>1. m \in Nat /\ m > 0 /\ cases[m] = case /\ unmet \in Nat
  BY DEF Shape, Running
<1>2. unmet' = unmet + (IF failedToFail THEN 1 ELSE 0) /\ case' = "none"
  BY DEF CaseEnds, Unblamed
<1>3. unmet' = 0 <=> unmet = 0 /\ ~failedToFail
  BY <1>1, <1>2
<1>4. Blamed(Len(cases))' <=> Blamed(m)'
  BY DEF Blamed
<1>5. failedToFail <=> (cases[m] = "shouldfail" /\ ~Blamed(m)')
  BY <1>1, <1>4
<1> HIDE DEF failedToFail
<1>6. unmet = 0 <=> \A c \in 1..m : cases[c] = "shouldfail" /\ c # m => Blamed(c)'
  BY DEF Judged
<1>7. unmet' = 0 <=> \A c \in 1..m : cases[c] = "shouldfail" => Blamed(c)'
  BY <1>1, <1>3, <1>5, <1>6
<1> QED
  BY <1>2, <1>7 DEF Judged

LEMMA BlameStep ==
  Shape /\ Blame /\ [TapNext]_tapVars => Blame'
<1> SUFFICES ASSUME Shape, Blame, [TapNext]_tapVars PROVE Blame'
  OBVIOUS
<1> USE DEF Blame
<1>0. /\ Len(cases) \in Nat /\ unmet \in Nat /\ Len(lines) \in Nat
      /\ \A i \in 1..Len(lines) : lines[i].ofCase \in Nat
      /\ totals.failed \in Nat /\ totals.failedButOk \in Nat
      /\ Assertions \subseteq Assertable /\ Fatal \in Assertable
      /\ "none" \notin CaseKinds
  <2>1. \A i \in 1..Len(lines) : lines[i].ofCase \in Nat
    <3> SUFFICES ASSUME NEW i \in 1..Len(lines) PROVE lines[i].ofCase \in Nat
      OBVIOUS
    <3>1. lines[i] \in LineRecord
      BY ElementOfSeq DEF Shape
    <3> QED
      BY <3>1 DEF LineRecord
  <2>2. /\ Len(cases) \in Nat /\ unmet \in Nat /\ Len(lines) \in Nat
        /\ totals.failed \in Nat /\ totals.failedButOk \in Nat
    BY DEF Shape, Counts
  <2>3. Assertions \subseteq Assertable /\ Fatal \in Assertable /\ "none" \notin CaseKinds
    BY TapAssumption DEF Assertable, Fatal, Shape
  <2> QED
    BY <2>1, <2>2, <2>3
<1>1. CASE BeginCase
  <2>1. PICK kind \in CaseKinds : case' = kind /\ cases' = Append(cases, kind)
    BY <1>1 DEF BeginCase
  <2>2. /\ exit = -1 /\ case = "none" /\ before' = totals
        /\ UNCHANGED <<lines, counter, totals, infos, unmet, plan, exit>>
    BY <1>1 DEF BeginCase
  <2>3. /\ Len(cases') = Len(cases) + 1 /\ cases'[Len(cases) + 1] = kind
        /\ \A c \in 1..Len(cases) : cases'[c] = cases[c]
    <3>1. kind \in Tags /\ cases \in Seq(Tags)
      BY KindsAreTags DEF Shape
    <3> QED
      BY <2>1, <3>1, AppendProperties
  <2>4. \A c : Blamed(c)' <=> Blamed(c)
    BY <2>2 DEF Blamed
  <2>5. PlainFailures' /\ Code'
    BY <2>2 DEF PlainFailures, Code
  <2>6. Running'
    <3>1. \A i \in 1..Len(lines') : lines'[i].ofCase <= Len(cases')
      BY <1>0, <2>2, <2>3 DEF Running
    <3>2. ~Blamed(Len(cases))'
      <4>1. ASSUME NEW i \in 1..Len(lines) PROVE lines[i].ofCase # Len(cases) + 1
        BY <1>0, <4>1 DEF Running
      <4> QED
        BY <2>2, <2>3, <4>1 DEF Blamed, Failing
    <3>3. Unblamed(totals)'
      BY <2>2 DEF Unblamed
    <3>4. /\ before'.failed <= totals'.failed /\ before'.failedButOk <= totals'.failedButOk
      BY <1>0, <2>2
    <3>5. Len(cases') > 0 /\ cases'[Len(cases')] = case'
      BY <1>0, <2>1, <2>3
    <3>6. Unblamed(totals)' <=> ~Blamed(Len(cases))'
      BY <3>2, <3>3
    <3> QED
      BY <3>1, <3>4, <3>5, <3>6 DEF Running
  <2>7. Judged'
    <3>1. case' # "none" /\ unmet' = unmet
      BY <1>0, <2>1, <2>2
    <3>2. \A c \in 1..Len(cases') : c # Len(cases') <=> c \in 1..Len(cases)
      BY <1>0, <2>3
    <3>3. unmet = 0 <=> \A c \in 1..Len(cases) : cases[c] = "shouldfail" => Blamed(c)
      BY <2>2 DEF Judged
    <3>4. \A c \in 1..Len(cases) : c \in 1..Len(cases')
      BY <1>0, <2>3
    <3>5. unmet' = 0 <=> \A c \in 1..Len(cases') :
                           cases'[c] = "shouldfail" /\ c # Len(cases') => Blamed(c)'
      BY <2>3, <2>4, <3>1, <3>2, <3>3, <3>4
    <3> QED
      BY <3>1, <3>5 DEF Judged
  <2> QED
    BY <2>5, <2>6, <2>7
<1>2. ASSUME UNCHANGED <<lines, totals, case, cases, before, unmet, exit>> PROVE Blame'
  <2>1. Blamed(Len(cases))' <=> Blamed(Len(cases))
    BY <1>2 DEF Blamed
  <2>2. \A c : Blamed(c)' <=> Blamed(c)
    BY <1>2 DEF Blamed
  <2>3. Unblamed(totals)' <=> Unblamed(totals)
    BY <1>2 DEF Unblamed
  <2>4. PlainFailures' /\ Code'
    BY <1>2 DEF PlainFailures, Code
  <2>5. Running'
    BY <1>2, <2>1, <2>3 DEF Running
  <2>6. Judged'
    BY <1>2, <2>2 DEF Judged
  <2> QED
    BY <2>4, <2>5, <2>6
<1>3. CASE Assertion
  <2>1. PICK a \in Assertions :
          /\ exit = -1 /\ case # "none"
          /\ AssertionEnded(a)
          /\ IF Failure(a.result) /\ a.on = "throw" THEN CaseEnds(totals')
             ELSE UNCHANGED <<case, infos, unmet>>
          /\ UNCHANGED <<cases, before, plan, exit>>
    BY <1>3 DEF Assertion
  <2>2. /\ PlainFailures'
        /\ \A i \in 1..Len(lines') : lines'[i].ofCase <= Len(cases)
        /\ \A c \in 1..Len(cases) : c # Len(cases) => (Blamed(c)' <=> Blamed(c))
        /\ before.failed <= totals'.failed /\ before.failedButOk <= totals'.failedButOk
        /\ Unblamed(totals)' <=> ~Blamed(Len(cases))'
    BY <1>0, <2>1, EndedBlames
  <2>3. Code'
    BY <2>1 DEF Code
  <2>4. CASE CaseEnds(totals')
    <3>1. Unblamed(totals') <=> ~Blamed(Len(cases))'
      BY <2>1, <2>2 DEF Unblamed
    <3>2. Judged'
      BY <2>1, <2>2, <2>4, <3>1, CaseEndsJudges
    <3>3. Running'
      BY <2>1, <2>2, <2>4 DEF Running, CaseEnds
    <3> QED
      BY <2>2, <2>3, <3>2, <3>3
  <2>5. CASE UNCHANGED <<case, infos, unmet>>
    <3>1. Judged'
      BY <2>1, <2>2, <2>5 DEF Judged
    <3>2. Running'
      BY <2>1, <2>2, <2>5 DEF Running
    <3> QED
      BY <2>2, <2>3, <3>1, <3>2
  <2> QED
    BY <2>1, <2>4, <2>5
<1>4. CASE EndCase
  <2>1. /\ exit = -1 /\ case # "none" /\ CaseEnds(totals)
        /\ UNCHANGED <<lines, counter, totals, lastOn, cases, before, plan, exit>>
    BY <1>4 DEF EndCase
  <2>2. \A c : Blamed(c)' <=> Blamed(c)
    BY <2>1 DEF Blamed
  <2>3. Unblamed(totals) <=> ~Blamed(Len(cases))'
    <3>1. Blamed(Len(cases))' <=> Blamed(Len(cases))
      BY <2>1 DEF Blamed
    <3> QED
      BY <2>1, <3>1 DEF Running
  <2>4. Judged'
    BY <2>1, <2>2, <2>3, CaseEndsJudges
  <2>5. Running'
    BY <2>1 DEF Running, CaseEnds
  <2>6. PlainFailures' /\ Code'
    BY <2>1 DEF PlainFailures, Code
  <2> QED
    BY <2>4, <2>5, <2>6
<1>5. CASE FatalSignal
  <2>1. /\ case # "none" /\ AssertionEnded(Fatal) /\ exit' = -2
        /\ UNCHANGED <<infos, case, cases, before, unmet>>
    BY <1>5 DEF FatalSignal
  <2>2. /\ PlainFailures'
        /\ \A i \in 1..Len(lines') : lines'[i].ofCase <= Len(cases)
        /\ \A c \in 1..Len(cases) : c # Len(cases) => (Blamed(c)' <=> Blamed(c))
        /\ before.failed <= totals'.failed /\ before.failedButOk <= totals'.failedButOk
        /\ Unblamed(totals)' <=> ~Blamed(Len(cases))'
    BY <1>0, <2>1, EndedBlames
  <2>3. Code'
    BY <2>1 DEF Code
  <2>4. Judged'
    BY <2>1, <2>2 DEF Judged
  <2>5. Running'
    BY <2>1, <2>2 DEF Running
  <2> QED
    BY <2>2, <2>3, <2>4, <2>5
<1>6. CASE EndRun
  <2>1. /\ case = "none"
        /\ exit' = LET failed == totals.failed + unmet
                   IN  IF failed > MaxExitCode THEN MaxExitCode ELSE failed
        /\ UNCHANGED <<lines, counter, totals, lastOn, infos, case, cases, before, unmet>>
    BY <1>6 DEF EndRun
  <2>2. exit' = 0 <=> totals.failed + unmet = 0
    BY <1>0, <2>1, KindsAreTags
  <2>3. Code'
    BY <2>1, <2>2 DEF Code
  <2>4. \A c : Blamed(c)' <=> Blamed(c)
    BY <2>1 DEF Blamed
  <2>5. PlainFailures' /\ Running' /\ Judged'
    BY <2>1, <2>4 DEF PlainFailures, Running, Judged
  <2> QED
    BY <2>3, <2>5
<1>7. CASE UNCHANGED tapVars
  BY <1>2, <1>7 DEF tapVars
<1>8. CASE OpenInfo
  BY <1>2, <1>8 DEF OpenInfo
<1>9. CASE CloseInfo
  BY <1>2, <1>9 DEF CloseInfo
<1> QED
  BY <1>1, <1>3, <1>4, <1>5, <1>6, <1>7, <1>8, <1>9 DEF TapNext

(* For any run: the exit code the judge reads is 0 exactly when the lines  *)
(* the student reads say that every case did what it should.               *)
THEOREM VerdictIsWhatTheLinesSay == TapSpec => []ExitMatchesLines
<1>1. TapInit => Blame
  <2> SUFFICES ASSUME TapInit PROVE Blame
    OBVIOUS
  <2>1. Len(lines) = 0 /\ Len(cases) = 0 /\ totals.failed = 0 /\ unmet = 0
        /\ case = "none" /\ exit = -1
    BY DEF TapInit, Zero
  <2> QED
    BY <2>1 DEF Blame, PlainFailures, Running, Judged, Code
<1>2. Shape /\ Blame => ExitMatchesLines
  <2> SUFFICES ASSUME Shape, Blame, exit >= 0
               PROVE  (exit = 0) <=>
                        /\ \A i \in 1..Len(lines) : Failing(lines[i]) => lines[i].of # "plain"
                        /\ \A c \in 1..Len(cases) : cases[c] = "shouldfail" =>
                             \E i \in 1..Len(lines) : Failing(lines[i]) /\ lines[i].ofCase = c
    BY DEF ExitMatchesLines
  <2>1. case = "none" /\ (exit = 0 <=> totals.failed + unmet = 0)
    BY DEF Blame, Code
  <2>2. totals.failed \in Nat /\ unmet \in Nat
    BY DEF Shape, Counts
  <2>3. exit = 0 <=> totals.failed = 0 /\ unmet = 0
    BY <2>1, <2>2
  <2>4. unmet = 0 <=> \A c \in 1..Len(cases) : cases[c] = "shouldfail" => Blamed(c)
    BY <2>1 DEF Blame, Judged
  <2> QED
    BY <2>3, <2>4 DEF Blame, PlainFailures, Blamed
<1> QED
  BY <1>1, <1>2, ShapeInit, TallyStep, BlameStep, PTL DEF TapSpec

-----------------------------------------------------------------------------
(* The programmes side by side, as the run explores them: one of them runs *)
(* and the others rest.                                                    *)

LEMMA SolutionsStart ==
  ASSUME SolutionsInit
  PROVE  /\ ComplexInit /\ SchoolInit /\ MachineInit
         /\ SliceInit /\ VariantInit /\ TapInit
BY DEF SolutionsInit

LEMMA SolutionsStep ==
  ASSUME [SolutionsNext]_solutionsVars
  PROVE  /\ [ComplexNext]_complexVars /\ [SchoolNext]_schoolVars /\ [MachineNext]_machineVars
         /\ [SliceNext]_sliceVars /\ [VariantNext]_variantVars /\ [TapNext]_tapVars
BY DEF SolutionsNext, solutionsVars

(* Each state a programme computes is one it works on while it runs alone. *)
LEMMA SolutionsAreSix ==
  SolutionsSpec => /\ ComplexSpec /\ SchoolSpec /\ MachineSpec /\ VariantSpec /\ TapSpec
                   /\ SliceInit /\ [][SliceNext]_sliceVars
BY SolutionsStart, SolutionsStep, PTL
   DEF SolutionsSpec, ComplexSpec, SchoolSpec, MachineSpec, VariantSpec, TapSpec

(* The type invariants of all six hold whichever of the programmes runs:   *)
(* those of the containers and numbers of the packages, of the machine of  *)
(* URL2.h and of the reporter.                                             *)
THEOREM SolutionsTypeCorrect == SolutionsSpec => []SolutionsTypeOK
<1>1. SliceInit /\ [][SliceNext]_sliceVars => []SliceTypeOK
  BY LoopAlways, LoopingTyped, PTL
<1>2. /\ ComplexTypeOK /\ SchoolTypeOK /\ MachineTypeOK
      /\ SliceTypeOK /\ VariantTypeOK /\ TapTypeOK
      => SolutionsTypeOK
  BY DEF SolutionsTypeOK
<1> QED
  BY SolutionsAreSix, ComplexTypeCorrect, SchoolTypeCorrect, MachineTypeCorrect, <1>1,
     VariantTypeCorrect, TapTypeCorrect, <1>2, PTL
=============================================================================
