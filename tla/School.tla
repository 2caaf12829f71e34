------------------------------- MODULE School -------------------------------
(***************************************************************************)
(* The programme of final exercise 003: School, PrivateSchool and          *)
(* PublicSchool (113final003/solution/School.h) under a test programme     *)
(* that calls their operations in any order.                               *)
(*                                                                         *)
(* Amounts are floats in the code and halves of a student here: 2 * n is n *)
(* students, an odd number a fraction.  The head counts are ints, and an   *)
(* int that is compared with a float is first rounded to a float.          *)
(***************************************************************************)
EXTENDS Integers, Sequences

CONSTANTS Schools,   \* the objects the programme has constructed
          Kind,      \* the class of each
          Start,     \* the studentAmount each was constructed with
          Amounts,   \* the arguments of the calls, in halves
          MaxCalls   \* bound on the calls of a programme

Classes == {"School", "PrivateSchool", "PublicSchool"}

ASSUME SchoolAssumption ==
  /\ Kind \in [Schools -> Classes]
  /\ Start \in [Schools -> Int]
  /\ Amounts \subseteq Int
  /\ MaxCalls \in Nat

VARIABLES school,   \* the objects' fields
          call,     \* the last call and what it answered
          calls,    \* how many calls were made
          span      \* what a public school would expect that saw only its large
                    \* departures (least), or only its growth (most)

schoolVars == <<school, call, calls, span>>

(* One object: the fields of the three classes, dropoutCount used by       *)
(* PrivateSchool only.                                                     *)
Object == [studentAmount : Int, studentAmountNextYear : Int, dropoutCount : Int]

Construct(amount) ==
  [studentAmount |-> amount, studentAmountNextYear |-> amount, dropoutCount |-> 0]

-----------------------------------------------------------------------------
(* Floats have a mantissa of 24 bits.  Beyond 2^24 an int becomes the      *)
(* nearest multiple of the unit in the last place, ties to the even one.   *)
MaxExact == 16777216

Ulp(n) ==
  LET size == IF n < 0 THEN -n ELSE n
  IN  CHOOSE u \in {2, 4, 8, 16, 32, 64, 128} :
        /\ size \div u <= MaxExact
        /\ u = 2 \/ size \div (u \div 2) > MaxExact

ToFloat(n) ==
  IF -MaxExact <= n /\ n <= MaxExact THEN n
  ELSE LET u == Ulp(n)
           q == n \div u
           r == 2 * (n % u)
       IN  u * (IF r < u THEN q ELSE IF r > u THEN q + 1 ELSE q + (q % 2))

Whole(a) == a % 2 = 0

(* What a call prints before it gives up, or "ok".                         *)
AmountSays(a) == IF a <= 0 \/ ~Whole(a) THEN "Invalid amount" ELSE "ok"

Says(o, a) ==
  IF AmountSays(a) # "ok" THEN AmountSays(a)
  ELSE IF a > 2 * ToFloat(o.studentAmount) THEN "Invalid student count"
  ELSE "ok"

-----------------------------------------------------------------------------
(* Ceil(n) is ceil(n * 0.05), the growth of a public school.               *)
Ceil(n) == -((-n) \div 20)

Admitted(o, a) ==
  IF AmountSays(a) # "ok" THEN o
  ELSE [o EXCEPT !.studentAmount = @ + a \div 2]

SchoolDropouts(o, a) ==
  IF Says(o, a) # "ok" THEN o
  ELSE [o EXCEPT !.studentAmount = @ - a \div 2]

(* A bug: the first dropout costs as well.                                 *)
PrivateDropoutsAtOnce(o, a) ==
  IF Says(o, a) # "ok" THEN o
  ELSE LET left == SchoolDropouts(o, a)
       IN  [left EXCEPT !.dropoutCount = @ + 1,
                        !.studentAmountNextYear = @ - 100]

PrivateDropouts(o, a) ==
  IF Says(o, a) # "ok" THEN o
  ELSE LET left == SchoolDropouts(o, a)
           count == left.dropoutCount + 1
       IN  [left EXCEPT !.dropoutCount = count,
                        !.studentAmountNextYear = IF count > 1 THEN @ - 100 ELSE @]

PublicDropouts(o, a) ==
  IF Says(o, a) # "ok" THEN o
  ELSE LET left == SchoolDropouts(o, a)
       IN  [left EXCEPT !.studentAmountNextYear = IF a > 200 THEN @ - Ceil(@) ELSE @]

(* The virtual call: the class of the object decides.                      *)
Dropped(kind, o, a) ==
  CASE kind = "School" -> SchoolDropouts(o, a)
    [] kind = "PrivateSchool" -> PrivateDropouts(o, a)
    [] kind = "PublicSchool" -> PublicDropouts(o, a)

(* A bug: transfer leaves the tests to the calls it makes.                 *)
TransferredUntested(objects, kind, from, to, a) ==
  LET left == [objects EXCEPT ![from] = Dropped(kind[from], @, a)]
  IN  [left EXCEPT ![to] = Admitted(@, a)]

(* transfer tests its argument, then runs two calls that test it again;    *)
(* "to" may be the same object.                                            *)
Transferred(objects, kind, from, to, a) ==
  IF Says(objects[from], a) # "ok" THEN objects
  ELSE LET left == [objects EXCEPT ![from] = Dropped(kind[from], @, a)]
       IN  [left EXCEPT ![to] = Admitted(@, a)]

(* Beyond 32 bits the addition is undefined: no programme gets there.      *)
MaxInt == 2147483647

Fits(o, a) == o.studentAmount >= 0 => a \div 2 <= MaxInt - o.studentAmount

Grown(o) == [o EXCEPT !.studentAmountNextYear = @ + Ceil(@)]

-----------------------------------------------------------------------------
NoCall == [op |-> "none", from |-> "none", to |-> "none", amount |-> 0, said |-> "ok"]

Ops == {"none", "admissions", "dropouts", "transfer", "apply_growth"}

SchoolInit ==
  /\ school = [s \in Schools |-> Construct(Start[s])]
  /\ call = NoCall
  /\ calls = 0
  /\ span = [s \in Schools |-> [least |-> Start[s], most |-> Start[s]]]

Answer(op, from, to, a, said) ==
  /\ calls < MaxCalls
  /\ calls' = calls + 1
  /\ call' = [op |-> op, from |-> from, to |-> to, amount |-> a, said |-> said]

Admissions(s, a) ==
  /\ Fits(school[s], a)
  /\ Answer("admissions", s, s, a, AmountSays(a))
  /\ school' = [school EXCEPT ![s] = Admitted(@, a)]

Dropouts(s, a) ==
  /\ Answer("dropouts", s, s, a, Says(school[s], a))
  /\ school' = [school EXCEPT ![s] = Dropped(Kind[s], @, a)]

Transfer(s, t, a) ==
  /\ Fits(school[t], a)
  /\ Answer("transfer", s, t, a, Says(school[s], a))
  /\ school' = Transferred(school, Kind, s, t, a)

ApplyGrowth(s) ==
  /\ Kind[s] = "PublicSchool"
  /\ Answer("apply_growth", s, s, 0, "ok")
  /\ school' = [school EXCEPT ![s] = Grown(@)]

(* The span follows the calls, not what they do: more than 100 students    *)
(* leave the school, by themselves or in a transfer, or it grows.          *)
Leaves(c, s) == c.from = s /\ c.said = "ok" /\ c.op \in {"dropouts", "transfer"} /\ c.amount > 200
Grows(c, s) == c.from = s /\ c.op = "apply_growth"

Spanning ==
  span' = [s \in Schools |->
             [least |-> IF Leaves(call', s) THEN span[s].least - Ceil(span[s].least) ELSE span[s].least,
              most |-> IF Grows(call', s) THEN span[s].most + Ceil(span[s].most) ELSE span[s].most]]

SchoolNext ==
  /\ \E s \in Schools :
       \/ \E a \in Amounts : Admissions(s, a)
       \/ \E a \in Amounts : Dropouts(s, a)
       \/ \E t \in Schools, a \in Amounts : Transfer(s, t, a)
       \/ ApplyGrowth(s)
  /\ Spanning

SchoolSpec == SchoolInit /\ [][SchoolNext]_schoolVars

-----------------------------------------------------------------------------
(* The fields have their types, and the last call is one the code offers.  *)
SchoolTypeOK ==
  /\ school \in [Schools -> Object]
  /\ call.op \in Ops
  /\ call.said \in {"ok", "Invalid amount", "Invalid student count"}
  /\ calls \in 0..MaxCalls
  /\ span \in [Schools -> [least : Int, most : Int]]

(* No call takes more students out of a school than it has: the guard of   *)
(* dropouts and transfer compares a float with an int, which is exact only *)
(* up to 2^24 students.                                                    *)
HeadcountsStayNatural ==
  [][\A s \in Schools :
        school[s].studentAmount \in 0..MaxExact => school'[s].studentAmount >= 0]_schoolVars

(* transfer is all or nothing although it is two virtual calls that could  *)
(* each refuse: the students that leave one school are those that arrive   *)
(* in the other, no third school is touched, and a refused call changes    *)
(* nothing.                                                                *)
Moved(s) == school'[s].studentAmount - school[s].studentAmount

TransferConserves ==
  [][/\ call'.said # "ok" => school' = school
     /\ (call'.op = "transfer" /\ call'.said = "ok") =>
          /\ \A s \in Schools \ {call'.from, call'.to} : school'[s] = school[s]
          /\ IF call'.from = call'.to THEN Moved(call'.from) = 0
             ELSE /\ 2 * Moved(call'.to) = call'.amount
                  /\ Moved(call'.from) = -Moved(call'.to)]_schoolVars

(* Next year's forecast, class by class.  A plain school keeps the number  *)
(* it was built with.  A private one loses 100 for every departure after   *)
(* the first, transfers included.  A public one gains and loses a share of *)
(* what it expects at the time, rounded up, so that the order of the calls *)
(* matters: whatever it is, the forecast is at least what the large        *)
(* departures alone would leave, at most what the growth alone would give, *)
(* and never negative.                                                     *)
ForecastFollowsDropouts ==
  \A s \in Schools :
    LET o == school[s] IN
    /\ Kind[s] = "School" => o.studentAmountNextYear = Start[s]
    /\ Kind[s] = "PrivateSchool" =>
         o.studentAmountNextYear =
           Start[s] - 100 * (IF o.dropoutCount = 0 THEN 0 ELSE o.dropoutCount - 1)
    /\ (Kind[s] = "PublicSchool" /\ Start[s] >= 0) =>
         /\ 0 <= span[s].least /\ span[s].least <= o.studentAmountNextYear
         /\ o.studentAmountNextYear <= span[s].most

(* Students neither vanish nor appear: no headcount falls below zero, and  *)
(* what a transfer takes from one school arrives in the other.             *)
StudentsConserved == HeadcountsStayNatural /\ TransferConserves
=============================================================================
