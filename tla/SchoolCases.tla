----------------------------- MODULE SchoolCases -----------------------------
(***************************************************************************)
(* The test cases shipped with final exercise 003 (solution/case.h): each  *)
(* is a programme over objects of its own that prints as it goes, and one  *)
(* comparison of all that was printed with the expected transcript.        *)
(***************************************************************************)
EXTENDS School
Scripts == INSTANCE SequencesExt

New(kind, s, n) == [op |-> "new", from |-> s, to |-> s, amount |-> n, kind |-> kind]
Call(op, s, a)  == [op |-> op, from |-> s, to |-> s, amount |-> a, kind |-> ""]
To(s, t, a)     == [op |-> "transfer", from |-> s, to |-> t, amount |-> a, kind |-> ""]
Show(s)         == Call("print", s, 0)

(* One statement of a case on <<objects, kind, out>>; a refusal prints its *)
(* message, a printed school is its name and its two numbers.              *)
Printed(out, said) == IF said = "ok" THEN out ELSE Append(out, said)

Execute(m, c) ==
  LET o == m.objects[c.from] IN
  CASE c.op = "new" ->
         [m EXCEPT !.objects = [x \in DOMAIN @ \cup {c.from} |->
                                  IF x = c.from THEN Construct(c.amount) ELSE @[x]],
                   !.kind = [x \in DOMAIN @ \cup {c.from} |->
                                  IF x = c.from THEN c.kind ELSE @[x]]]
    [] c.op = "admissions" ->
         [m EXCEPT !.objects[c.from] = Admitted(@, c.amount),
                   !.out = Printed(@, AmountSays(c.amount))]
    [] c.op = "dropouts" ->
         [m EXCEPT !.objects[c.from] = Dropped(m.kind[c.from], @, c.amount),
                   !.out = Printed(@, Says(o, c.amount))]
    [] c.op = "transfer" ->
         [m EXCEPT !.objects = Transferred(@, m.kind, c.from, c.to, c.amount),
                   !.out = Printed(@, Says(o, c.amount))]
    [] c.op = "print" ->
         [m EXCEPT !.out = Append(@, <<c.from, o.studentAmount, o.studentAmountNextYear>>)]

Transcript(script) ==
  Scripts!FoldLeft(Execute, [objects |-> <<>>, kind |-> <<>>, out |-> <<>>], script).out

-----------------------------------------------------------------------------
SchoolCase1 ==
  /\ Transcript(<<New("School", "NTUST", 10000), New("School", "NTUST2", 20000),
                  Show("NTUST"), Show("NTUST2"),
                  Call("admissions", "NTUST", 2000), Show("NTUST"),
                  Call("dropouts", "NTUST", 2000), Show("NTUST"),
                  To("NTUST", "NTUST2", 2000), Show("NTUST"), Show("NTUST2")>>)
     = <<<<"NTUST", 10000, 10000>>, <<"NTUST2", 20000, 20000>>,
         <<"NTUST", 11000, 10000>>, <<"NTUST", 10000, 10000>>,
         <<"NTUST", 9000, 10000>>, <<"NTUST2", 21000, 20000>>>>

SchoolCase2 ==
  /\ Transcript(<<New("PublicSchool", "TEST", 2222), Show("TEST"),
                  Call("admissions", "TEST", 5758), Show("TEST"),
                  Call("dropouts", "TEST", 202), Show("TEST"),
                  New("PublicSchool", "TEST2", 2879), Show("TEST2"),
                  Call("admissions", "TEST2", 4444), Show("TEST2"),
                  Call("dropouts", "TEST2", 202), Show("TEST2"),
                  New("PrivateSchool", "TEST3", 1000), Show("TEST3"),
                  Call("admissions", "TEST3", 0), Show("TEST3"),
                  Call("dropouts", "TEST3", -20000), Show("TEST3"),
                  Call("admissions", "TEST3", 18000), Show("TEST3"),
                  Call("dropouts", "TEST3", 200000), Show("TEST3"),
                  To("TEST3", "TEST", 1), Show("TEST3"), Show("TEST"),
                  To("TEST3", "TEST", 2), Show("TEST3"), Show("TEST"),
                  To("TEST3", "TEST", 0), Show("TEST3"), Show("TEST"),
                  To("TEST", "TEST3", 200000), Show("TEST3"), Show("TEST")>>)
     = <<<<"TEST", 2222, 2222>>, <<"TEST", 5101, 2222>>, <<"TEST", 5000, 2110>>,
         <<"TEST2", 2879, 2879>>, <<"TEST2", 5101, 2879>>, <<"TEST2", 5000, 2735>>,
         <<"TEST3", 1000, 1000>>, "Invalid amount", <<"TEST3", 1000, 1000>>,
         "Invalid amount", <<"TEST3", 1000, 1000>>, <<"TEST3", 10000, 1000>>,
         "Invalid student count", <<"TEST3", 10000, 1000>>,
         "Invalid amount", <<"TEST3", 10000, 1000>>, <<"TEST", 5000, 2110>>,
         <<"TEST3", 9999, 1000>>, <<"TEST", 5001, 2110>>,
         "Invalid amount", <<"TEST3", 9999, 1000>>, <<"TEST", 5001, 2110>>,
         "Invalid student count", <<"TEST3", 9999, 1000>>, <<"TEST", 5001, 2110>>>>
=============================================================================
