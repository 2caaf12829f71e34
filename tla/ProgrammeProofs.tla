--------------------------- MODULE ProgrammeProofs ---------------------------
(***************************************************************************)
(* What the programmes of the problem packages promise, for any objects,   *)
(* values and programmes of any length.                                    *)
(*                                                                         *)
(* School: the three kinds of dropouts are one as far as the head count    *)
(* goes (DroppedFacts), and each step changes the forecast of an object at *)
(* most through them or through apply_growth (Foretold, the forecast of    *)
(* one object with the count of dropouts it rests on, is inductive).       *)
(*                                                                         *)
(* Variant: Owned says what the reference counts achieve, who holds an     *)
(* address holds a live object there, and an address nobody holds is free. *)
(* There is one address more than there are variables, so that an object   *)
(* can always be made at an address no variable holds (FreshIsFree).       *)
(* WellValued adds what the conversions need: printing a number and        *)
(* reading the text gives the number but for the digits that are not       *)
(* printed, so that two values with one printed form have one Worth.       *)
(* Digits are recursive functions of positions, and what they compute is   *)
(* shown by a least counterexample.                                        *)
(*                                                                         *)
(* Slice: Looping says how far a loop has come and what it has seen,       *)
(* element by element, with Climbing and Descending for the two directions *)
(* of a range. map, filter, every, find_if and count_if are folds of the   *)
(* library, which folds over sets of places; FoldsExist gives each of them *)
(* its recursion over the places from the first on, and FilterIs, MapIs,   *)
(* EveryIs, FindIs and CountIs what it ends with.                          *)
(*                                                                         *)
(* Complex: what is held is a double, and what an operation computes is a  *)
(* fraction in lowest terms that is rounded (IsDouble, Rounding). Rounding *)
(* leaves a double as it is and turns its sign with its argument; each law *)
(* of AlgebraHolds follows from these two, with no exact arithmetic behind *)
(* it (AddFacts, MulFacts, DivFacts). Computing is the inductive           *)
(* invariant. A line that is read is given by how far the scan comes       *)
(* (Far).                                                                  *)
(***************************************************************************)
EXTENDS School, Complex, Slice, Variant, FiniteSetTheorems, TLAPS

\* A set of naturals that is not empty has a least element.
LEMMA LeastNumber ==
  ASSUME NEW S, S \subseteq Nat, S # {}
  PROVE  \E i \in S : \A j \in S : i <= j
<1> DEFINE Less == OpToRel(<, Nat)
<1>1. PICK i \in S : \A j \in S : <<j, i>> \notin Less
  <2> HIDE DEF Less
  <2>1. IsWellFoundedOn(Less, Nat)
    BY NatLessThanWellFounded DEF Less
  <2> QED
    BY <2>1, WFMin
<1>2. \A j \in S : j < i => <<j, i>> \in Less
  BY DEF OpToRel
<1>3. \A j \in S : ~(j < i)
  <2> HIDE DEF Less
  <2> QED
    BY <1>1, <1>2
<1>4. \A j \in S : i <= j
  <2> HIDE DEF Less
  <2> QED
    BY <1>3
<1> QED
  BY <1>4

-----------------------------------------------------------------------------
(* School: three classes behind one interface.                             *)

(* An object's numbers stay numbers, and a refused call changes nothing:   *)
(* in each class dropouts takes a/2 students or leaves the object alone.   *)
LEMMA DroppedFacts ==
  ASSUME NEW kind \in Classes, NEW o \in Object, NEW a \in Int
  PROVE  /\ Dropped(kind, o, a) \in Object
         /\ Says(o, a) # "ok" => Dropped(kind, o, a) = o
         /\ Says(o, a) = "ok" =>
              Dropped(kind, o, a).studentAmount = o.studentAmount - (a \div 2)
<1>1. \A n \in Int : Ceil(n) \in Int
  BY DEF Ceil
<1>2. /\ SchoolDropouts(o, a) \in Object
      /\ Says(o, a) # "ok" => SchoolDropouts(o, a) = o
      /\ Says(o, a) = "ok" =>
           SchoolDropouts(o, a).studentAmount = o.studentAmount - (a \div 2)
  BY DEF SchoolDropouts, Object
<1>3. CASE kind = "School"
  BY <1>2, <1>3 DEF Dropped
<1> DEFINE left == SchoolDropouts(o, a)
<1>4. CASE kind = "PrivateSchool"
  <2>1. Dropped(kind, o, a) = PrivateDropouts(o, a)
    BY <1>4 DEF Dropped
  <2> DEFINE next == IF left.dropoutCount + 1 > 1 THEN left.studentAmountNextYear - 100
                    ELSE left.studentAmountNextYear
  <2>2. PrivateDropouts(o, a) =
          IF Says(o, a) # "ok" THEN o
          ELSE [left EXCEPT !.dropoutCount = left.dropoutCount + 1,
                            !.studentAmountNextYear = next]
    BY DEF PrivateDropouts
  <2>3. left \in Object
    BY <1>2
  <2> HIDE DEF left
  <2>4. next \in Int /\ left.dropoutCount + 1 \in Int
    BY <2>3 DEF Object
  <2> HIDE DEF next
  <2>5. Says(o, a) # "ok" => Dropped(kind, o, a) = o
    BY <2>1, <2>2
  <2>6. ASSUME Says(o, a) = "ok"
        PROVE  /\ Dropped(kind, o, a) \in Object
               /\ Dropped(kind, o, a).studentAmount = left.studentAmount
    BY <2>1, <2>2, <2>3, <2>4, <2>6 DEF Object
  <2> QED
    BY <1>2, <2>5, <2>6 DEF left
<1>5. CASE kind = "PublicSchool"
  <2>1. Dropped(kind, o, a) = PublicDropouts(o, a)
    BY <1>5 DEF Dropped
  <2>2. PublicDropouts(o, a) =
          IF Says(o, a) # "ok" THEN o
          ELSE [left EXCEPT !.studentAmountNextYear = IF a > 200 THEN @ - Ceil(@) ELSE @]
    BY DEF PublicDropouts
  <2> HIDE DEF left
  <2>3. left \in Object
    BY <1>2 DEF left
  <2> QED
    BY <1>1, <1>2, <2>1, <2>2, <2>3 DEF Object, left
<1> QED
  BY <1>3, <1>4, <1>5 DEF Classes

LEMMA AdmittedFacts ==
  ASSUME NEW o \in Object, NEW a \in Int
  PROVE  /\ Admitted(o, a) \in Object
         /\ AmountSays(a) # "ok" => Admitted(o, a) = o
         /\ AmountSays(a) = "ok" =>
              Admitted(o, a) = [o EXCEPT !.studentAmount = @ + (a \div 2)]
BY DEF Admitted, Object

(* What a refusal means for the amount.                                    *)
LEMMA SaysFacts ==
  ASSUME NEW o \in Object, NEW a \in Int
  PROVE  /\ AmountSays(a) \in {"ok", "Invalid amount"}
         /\ Says(o, a) \in {"ok", "Invalid amount", "Invalid student count"}
         /\ AmountSays(a) = "ok" => a > 0 /\ 2 * (a \div 2) = a
         /\ Says(o, a) = "ok" => AmountSays(a) = "ok"
         /\ (Says(o, a) = "ok" /\ o.studentAmount \in 0..MaxExact) =>
              a <= 2 * o.studentAmount
<1>1. AmountSays(a) = "ok" => a > 0 /\ a % 2 = 0
  BY DEF AmountSays, Whole
<1>2. a % 2 = 0 => 2 * (a \div 2) = a
  OBVIOUS
<1>3. MaxExact \in Nat
  BY SMT DEF MaxExact
<1>4. o.studentAmount \in 0..MaxExact => ToFloat(o.studentAmount) = o.studentAmount
  BY <1>3 DEF ToFloat
<1> QED
  BY <1>1, <1>2, <1>3, <1>4 DEF Says, AmountSays, Object

LEMMA GrownFacts ==
  ASSUME NEW o \in Object
  PROVE  Grown(o) \in Object /\ Grown(o).studentAmount = o.studentAmount
BY DEF Grown, Object, Ceil

-----------------------------------------------------------------------------
(* The objects of a transfer, seen one by one.                             *)
LEMMA TransferredFacts ==
  ASSUME school \in [Schools -> Object], NEW s \in Schools, NEW t \in Schools, NEW a \in Int
  PROVE  LET then == Transferred(school, Kind, s, t, a)
             left == Dropped(Kind[s], school[s], a)
         IN  /\ then \in [Schools -> Object]
             /\ Says(school[s], a) # "ok" => then = school
             /\ Says(school[s], a) = "ok" =>
                  /\ \A u \in Schools \ {s, t} : then[u] = school[u]
                  /\ s = t => then[t] = Admitted(left, a)
                  /\ s # t => then[s] = left /\ then[t] = Admitted(school[t], a)
<1> DEFINE left == Dropped(Kind[s], school[s], a)
<1>1. left \in Object /\ school[s] \in Object /\ school[t] \in Object
  BY DroppedFacts, SchoolAssumption
<1>2. Admitted(left, a) \in Object /\ Admitted(school[t], a) \in Object
  BY <1>1, AdmittedFacts
<1> HIDE DEF left
<1>3. Transferred(school, Kind, s, t, a) =
        IF Says(school[s], a) # "ok" THEN school
        ELSE [[school EXCEPT ![s] = left] EXCEPT ![t] = Admitted(@, a)]
  BY DEF Transferred, left
<1> QED
  BY <1>1, <1>2, <1>3 DEF left

LEMMA SchoolInitTypes == SchoolInit => SchoolTypeOK
<1>1. \A s \in Schools : Construct(Start[s]) \in Object
  BY SchoolAssumption DEF Construct, Object
<1> QED
  BY <1>1, SchoolAssumption DEF SchoolInit, SchoolTypeOK, NoCall, Ops

Replies == {"ok", "Invalid amount", "Invalid student count"}

(* The last call, as Answer records it.                                    *)
LEMMA AnswerFacts ==
  ASSUME NEW op \in Ops, NEW s \in Schools, NEW t \in Schools, NEW a \in Int,
         NEW said \in Replies, Answer(op, s, t, a, said)
  PROVE  /\ calls \in 0..MaxCalls => calls' \in 0..MaxCalls
         /\ call'.op = op /\ call'.said = said /\ call'.amount = a
         /\ call'.from = s /\ call'.to = t
<1>1. calls' = calls + 1 /\ calls < MaxCalls
  BY DEF Answer
<1>2. call' = [op |-> op, from |-> s, to |-> t, amount |-> a, said |-> said]
  BY DEF Answer
<1>3. MaxCalls \in Int
  BY SchoolAssumption
<1> QED
  BY <1>1, <1>2, <1>3

LEMMA AnswerTypes ==
  ASSUME calls \in 0..MaxCalls, NEW op \in Ops, NEW s \in Schools, NEW t \in Schools,
         NEW a \in Int, NEW said \in Replies, Answer(op, s, t, a, said)
  PROVE  /\ calls' \in 0..MaxCalls /\ call'.op \in Ops
         /\ call'.said \in {"ok", "Invalid amount", "Invalid student count"}
<1>1. Replies = {"ok", "Invalid amount", "Invalid student count"}
  BY DEF Replies
<1> QED
  BY <1>1, AnswerFacts

(* A twentieth of a crowd, rounded up, is never more than the crowd.       *)
LEMMA CeilBounds == \A n \in Int : Ceil(n) \in Int /\ (n >= 0 => Ceil(n) >= 0 /\ Ceil(n) <= n)
BY DEF Ceil

LEMMA SpanTypes ==
  ASSUME span \in [Schools -> [least : Int, most : Int]], Spanning
  PROVE  span' \in [Schools -> [least : Int, most : Int]]
<1>1. ASSUME NEW s \in Schools
      PROVE  /\ (IF Leaves(call', s) THEN span[s].least - Ceil(span[s].least)
                 ELSE span[s].least) \in Int
             /\ (IF Grows(call', s) THEN span[s].most + Ceil(span[s].most)
                 ELSE span[s].most) \in Int
  <2>1. span[s].least \in Int /\ span[s].most \in Int
    OBVIOUS
  <2>2. Ceil(span[s].least) \in Int /\ Ceil(span[s].most) \in Int
    BY <2>1, CeilBounds
  <2> QED
    BY <2>1, <2>2
<1> QED
  BY <1>1, Zenon DEF Spanning

LEMMA SchoolTypesStep == SchoolTypeOK /\ [SchoolNext]_schoolVars => SchoolTypeOK'
<1> SUFFICES ASSUME SchoolTypeOK, [SchoolNext]_schoolVars PROVE SchoolTypeOK'
  OBVIOUS
<1> USE SchoolAssumption DEF SchoolTypeOK
<1> DEFINE Answered == /\ calls' \in 0..MaxCalls /\ call'.op \in Ops
                      /\ call'.said \in {"ok", "Invalid amount", "Invalid student count"}
<1>6. Spanning => span' \in [Schools -> [least : Int, most : Int]]
  BY SpanTypes
<1>1. ASSUME NEW s \in Schools, NEW a \in Amounts, Admissions(s, a), Spanning PROVE SchoolTypeOK'
  <2>1. a \in Int /\ school[s] \in Object
    OBVIOUS
  <2>2. Admitted(school[s], a) \in Object
    BY <2>1, AdmittedFacts
  <2>3. AmountSays(a) \in {"ok", "Invalid amount"}
    BY <2>1, SaysFacts
  <2>4. Answered
    <3> DEFINE said == AmountSays(a)
    <3>1. Answer("admissions", s, s, a, said) /\ "admissions" \in Ops /\ said \in Replies
      BY <1>1, <2>3 DEF Admissions, Ops, Replies
    <3> HIDE DEF said
    <3> QED
      BY <2>1, <3>1, AnswerTypes
  <2>5. school' \in [Schools -> Object]
    <3>1. /\ school' = [school EXCEPT ![s] = Admitted(school[s], a)]
          /\ school \in [Schools -> Object]
      BY <1>1 DEF Admissions
    <3> QED
      BY <2>2, <3>1, Zenon
  <2> QED
    BY <1>1, <1>6, <2>4, <2>5
<1>2. ASSUME NEW s \in Schools, NEW a \in Amounts, Dropouts(s, a), Spanning PROVE SchoolTypeOK'
  <2>1. a \in Int /\ school[s] \in Object /\ Kind[s] \in Classes
    OBVIOUS
  <2>2. Dropped(Kind[s], school[s], a) \in Object
    BY <2>1, DroppedFacts
  <2>3. Says(school[s], a) \in {"ok", "Invalid amount", "Invalid student count"}
    BY <2>1, SaysFacts
  <2>4. Answered
    <3> DEFINE said == Says(school[s], a)
    <3>1. Answer("dropouts", s, s, a, said) /\ "dropouts" \in Ops /\ said \in Replies
      BY <1>2, <2>3 DEF Dropouts, Ops, Replies
    <3> HIDE DEF said
    <3> QED
      BY <2>1, <3>1, AnswerTypes
  <2>5. school' \in [Schools -> Object]
    <3>1. /\ school' = [school EXCEPT ![s] = Dropped(Kind[s], school[s], a)]
          /\ school \in [Schools -> Object]
      BY <1>2 DEF Dropouts
    <3> QED
      BY <2>2, <3>1, Zenon
  <2> QED
    BY <1>2, <1>6, <2>4, <2>5
<1>3. ASSUME NEW s \in Schools, NEW t \in Schools, NEW a \in Amounts, Transfer(s, t, a), Spanning
      PROVE  SchoolTypeOK'
  <2>1. a \in Int /\ school[s] \in Object
    OBVIOUS
  <2>2. school' \in [Schools -> Object]
    BY <1>3, <2>1, TransferredFacts DEF Transfer
  <2>3. Says(school[s], a) \in {"ok", "Invalid amount", "Invalid student count"}
    BY <2>1, SaysFacts
  <2>5. /\ Answer("transfer", s, t, a, Says(school[s], a))
        /\ "transfer" \in Ops /\ Says(school[s], a) \in Replies
    BY <1>3, <2>3 DEF Transfer, Ops, Replies
  <2>4. Answered
    <3> DEFINE said == Says(school[s], a)
    <3>1. Answer("transfer", s, t, a, said) /\ "transfer" \in Ops /\ said \in Replies
      BY <2>5
    <3> HIDE DEF said
    <3> QED
      BY <2>1, <3>1, AnswerTypes
  <2> QED
    BY <1>3, <1>6, <2>2, <2>4
<1>4. ASSUME NEW s \in Schools, ApplyGrowth(s), Spanning PROVE SchoolTypeOK'
  <2>1. Grown(school[s]) \in Object
    BY GrownFacts
  <2>2. /\ calls < MaxCalls /\ calls' = calls + 1
        /\ call'.op = "apply_growth" /\ call'.said = "ok"
    BY <1>4 DEF ApplyGrowth, Answer
  <2>3. Answered
    <3>1. calls \in 0..MaxCalls
      BY Zenon
    <3> HIDE DEF SchoolTypeOK
    <3>2. calls' \in 0..MaxCalls
      BY <2>2, <3>1
    <3> QED
      BY <2>2, <3>2 DEF Ops
  <2> QED
    BY <1>4, <1>6, <2>1, <2>3 DEF ApplyGrowth
<1>5. CASE UNCHANGED schoolVars
  BY <1>5 DEF schoolVars
<1> QED
  BY <1>1, <1>2, <1>3, <1>4, <1>5 DEF SchoolNext

(* Every reachable state is well typed: the fields of the objects are whole *)
(* numbers whatever the programme does.                                    *)
THEOREM SchoolTypeCorrect == SchoolSpec => []SchoolTypeOK
BY SchoolInitTypes, SchoolTypesStep, PTL DEF SchoolSpec

-----------------------------------------------------------------------------
(* One object's forecast, with the count of dropouts a private school's    *)
(* rests on: the count is never negative.                                  *)
Foretold(kind, begun, o) ==
  /\ o.dropoutCount >= 0
  /\ kind = "School" => o.studentAmountNextYear = begun
  /\ kind = "PrivateSchool" =>
       o.studentAmountNextYear =
         begun - 100 * (IF o.dropoutCount = 0 THEN 0 ELSE o.dropoutCount - 1)
  /\ (kind = "PublicSchool" /\ begun >= 0) => o.studentAmountNextYear >= 0

AllForetold == \A s \in Schools : Foretold(Kind[s], Start[s], school[s])

LEMMA DroppedForetold ==
  ASSUME NEW kind \in Classes, NEW begun \in Int, NEW o \in Object, NEW a \in Int,
         Foretold(kind, begun, o)
  PROVE  Foretold(kind, begun, Dropped(kind, o, a))
<1> DEFINE left == SchoolDropouts(o, a)
<1>1. CASE Says(o, a) # "ok"
  BY <1>1, DroppedFacts
<1>2. CASE Says(o, a) = "ok"
  <2>1. left \in Object /\ left.dropoutCount = o.dropoutCount
        /\ left.studentAmountNextYear = o.studentAmountNextYear
    BY <1>2 DEF SchoolDropouts, Object
  <2>2. CASE kind = "School"
    <3>1. Dropped(kind, o, a) = left
      BY <2>2 DEF Dropped
    <3> HIDE DEF left
    <3> QED
      BY <2>1, <2>2, <3>1 DEF Foretold
  <2>3. CASE kind = "PrivateSchool"
    <3> DEFINE next == IF left.dropoutCount + 1 > 1 THEN left.studentAmountNextYear - 100
                      ELSE left.studentAmountNextYear
    <3>1. Dropped(kind, o, a) = PrivateDropouts(o, a)
      BY <2>3 DEF Dropped
    <3>2. PrivateDropouts(o, a) = [left EXCEPT !.dropoutCount = left.dropoutCount + 1,
                                               !.studentAmountNextYear = next]
      BY <1>2 DEF PrivateDropouts
    <3> HIDE DEF left
    <3>3. next \in Int /\ left.dropoutCount + 1 \in Int
      BY <2>1 DEF Object
    <3> HIDE DEF next
    <3>4. /\ Dropped(kind, o, a).dropoutCount = left.dropoutCount + 1
          /\ Dropped(kind, o, a).studentAmountNextYear = next
      BY <2>1, <3>1, <3>2, <3>3 DEF Object
    <3>5. left.dropoutCount \in Int /\ left.dropoutCount >= 0
      BY <2>1 DEF Foretold, Object
    <3>6. next = begun - 100 * left.dropoutCount
      BY <2>1, <2>3, <3>5 DEF Foretold, Object, next
    <3> QED
      BY <2>3, <3>4, <3>5, <3>6 DEF Foretold
  <2>4. CASE kind = "PublicSchool"
    <3> DEFINE next == IF a > 200
                      THEN left.studentAmountNextYear - Ceil(left.studentAmountNextYear)
                      ELSE left.studentAmountNextYear
    <3>1. Dropped(kind, o, a) = PublicDropouts(o, a)
      BY <2>4 DEF Dropped
    <3>2. PublicDropouts(o, a) = [left EXCEPT !.studentAmountNextYear = next]
      BY <1>2 DEF PublicDropouts
    <3> HIDE DEF left
    <3>3. /\ next \in Int
          /\ left.studentAmountNextYear >= 0 => next >= 0
      BY <2>1, CeilBounds DEF Object
    <3> HIDE DEF next
    <3>4. /\ Dropped(kind, o, a).dropoutCount = left.dropoutCount
          /\ Dropped(kind, o, a).studentAmountNextYear = next
      BY <2>1, <3>1, <3>2, <3>3 DEF Object
    <3> QED
      BY <2>1, <2>4, <3>3, <3>4 DEF Foretold
  <2> QED
    BY <2>2, <2>3, <2>4 DEF Classes
<1> QED
  BY <1>1, <1>2

LEMMA AdmittedForetold ==
  ASSUME NEW kind \in Classes, NEW begun \in Int, NEW o \in Object, NEW a \in Int,
         Foretold(kind, begun, o)
  PROVE  Foretold(kind, begun, Admitted(o, a))
<1>1. /\ Admitted(o, a).dropoutCount = o.dropoutCount
      /\ Admitted(o, a).studentAmountNextYear = o.studentAmountNextYear
  BY DEF Admitted, Object
<1> QED
  BY <1>1 DEF Foretold

LEMMA GrownForetold ==
  ASSUME NEW begun \in Int, NEW o \in Object, Foretold("PublicSchool", begun, o)
  PROVE  Foretold("PublicSchool", begun, Grown(o))
<1>1. /\ Grown(o).dropoutCount = o.dropoutCount
      /\ Grown(o).studentAmountNextYear
           = o.studentAmountNextYear + Ceil(o.studentAmountNextYear)
  BY DEF Grown, Object
<1>2. o.studentAmountNextYear \in Int
  BY DEF Object
<1> QED
  BY <1>1, <1>2, CeilBounds DEF Foretold

LEMMA ForetoldStep == SchoolTypeOK /\ AllForetold /\ [SchoolNext]_schoolVars => AllForetold'
<1> SUFFICES ASSUME SchoolTypeOK, AllForetold, [SchoolNext]_schoolVars,
                    NEW u \in Schools
             PROVE  Foretold(Kind[u], Start[u], school'[u])
  BY DEF AllForetold
<1>0. /\ \A s \in Schools : school[s] \in Object /\ Kind[s] \in Classes /\ Start[s] \in Int
      /\ \A s \in Schools : Foretold(Kind[s], Start[s], school[s])
      /\ school \in [Schools -> Object]
      /\ Amounts \subseteq Int
  BY SchoolAssumption DEF SchoolTypeOK, AllForetold
<1>1. ASSUME NEW s \in Schools, NEW a \in Amounts, Admissions(s, a)
      PROVE  Foretold(Kind[u], Start[u], school'[u])
  <2>1. school' = [school EXCEPT ![s] = Admitted(school[s], a)]
    BY <1>1 DEF Admissions
  <2>2. Foretold(Kind[s], Start[s], Admitted(school[s], a))
    BY <1>0, AdmittedForetold
  <2> QED
    BY <1>0, <2>1, <2>2
<1>2. ASSUME NEW s \in Schools, NEW a \in Amounts, Dropouts(s, a)
      PROVE  Foretold(Kind[u], Start[u], school'[u])
  <2>1. school' = [school EXCEPT ![s] = Dropped(Kind[s], school[s], a)]
    BY <1>2 DEF Dropouts
  <2>2. Foretold(Kind[s], Start[s], Dropped(Kind[s], school[s], a))
    BY <1>0, DroppedForetold
  <2> QED
    BY <1>0, <2>1, <2>2
<1>3. ASSUME NEW s \in Schools, NEW t \in Schools, NEW a \in Amounts, Transfer(s, t, a)
      PROVE  Foretold(Kind[u], Start[u], school'[u])
  <2> DEFINE left == Dropped(Kind[s], school[s], a)
  <2>1. school' = Transferred(school, Kind, s, t, a)
    BY <1>3 DEF Transfer
  <2>2. left \in Object /\ Foretold(Kind[s], Start[s], left)
    BY <1>0, DroppedFacts, DroppedForetold
  <2>3. /\ Foretold(Kind[s], Start[s], Admitted(left, a))
        /\ Foretold(Kind[t], Start[t], Admitted(school[t], a))
    <3> HIDE DEF left
    <3> QED
      BY <1>0, <2>2, AdmittedForetold
  <2>4. /\ Says(school[s], a) # "ok" => school' = school
        /\ Says(school[s], a) = "ok" =>
             /\ \A v \in Schools \ {s, t} : school'[v] = school[v]
             /\ s = t => school'[t] = Admitted(left, a)
             /\ s # t => school'[s] = left /\ school'[t] = Admitted(school[t], a)
    BY <1>0, <2>1, TransferredFacts
  <2> HIDE DEF left
  <2>5. CASE Says(school[s], a) # "ok"
    BY <1>0, <2>4, <2>5
  <2>6. CASE Says(school[s], a) = "ok" /\ u \notin {s, t}
    BY <1>0, <2>4, <2>6
  <2>7. CASE Says(school[s], a) = "ok" /\ s = t /\ u = t
    BY <2>3, <2>4, <2>7
  <2>8. CASE Says(school[s], a) = "ok" /\ s # t /\ u \in {s, t}
    BY <2>2, <2>3, <2>4, <2>8
  <2> QED
    BY <2>5, <2>6, <2>7, <2>8
<1>4. ASSUME NEW s \in Schools, ApplyGrowth(s)
      PROVE  Foretold(Kind[u], Start[u], school'[u])
  <2>1. Kind[s] = "PublicSchool" /\ school' = [school EXCEPT ![s] = Grown(school[s])]
    BY <1>4 DEF ApplyGrowth
  <2>2. Foretold(Kind[s], Start[s], Grown(school[s]))
    BY <1>0, <2>1, GrownForetold
  <2> QED
    BY <1>0, <2>1, <2>2
<1>5. CASE UNCHANGED schoolVars
  BY <1>0, <1>5 DEF schoolVars
<1> QED
  BY <1>1, <1>2, <1>3, <1>4, <1>5 DEF SchoolNext

(* A crowd of more people keeps more and gains more.                       *)
LEMMA CeilGrows ==
  ASSUME NEW m \in Int, NEW n \in Int, 0 <= m, m <= n
  PROVE  /\ m - Ceil(m) <= n - Ceil(n) /\ m + Ceil(m) <= n + Ceil(n)
         /\ 0 <= m - Ceil(m) /\ 0 <= Ceil(n)
BY DEF Ceil

LEMMA PublicFacts ==
  ASSUME NEW o \in Object, NEW a \in Int
  PROVE  /\ Dropped("PublicSchool", o, a).studentAmountNextYear =
              IF Says(o, a) = "ok" /\ a > 200
              THEN o.studentAmountNextYear - Ceil(o.studentAmountNextYear)
              ELSE o.studentAmountNextYear
         /\ Admitted(o, a).studentAmountNextYear = o.studentAmountNextYear
         /\ Grown(o).studentAmountNextYear
              = o.studentAmountNextYear + Ceil(o.studentAmountNextYear)
<1>1. Dropped("PublicSchool", o, a) = PublicDropouts(o, a)
  BY DEF Dropped
<1>2. Ceil(o.studentAmountNextYear) \in Int
  BY CeilBounds DEF Object
<1>3. CASE Says(o, a) = "ok"
  <2> DEFINE left == SchoolDropouts(o, a)
             next == IF a > 200 THEN left.studentAmountNextYear - Ceil(left.studentAmountNextYear)
                     ELSE left.studentAmountNextYear
  <2>1. left \in Object /\ left.studentAmountNextYear = o.studentAmountNextYear
    BY <1>3 DEF SchoolDropouts, Object
  <2>2. PublicDropouts(o, a) = [left EXCEPT !.studentAmountNextYear = next]
    BY <1>3 DEF PublicDropouts
  <2> HIDE DEF left
  <2>3. PublicDropouts(o, a).studentAmountNextYear = next
    BY <2>1, <2>2 DEF Object
  <2> QED
    BY <1>1, <1>3, <2>1, <2>3 DEF Admitted, Grown, Object
<1>4. CASE Says(o, a) # "ok"
  BY <1>1, <1>4 DEF PublicDropouts, Admitted, Grown, Object
<1> QED
  BY <1>3, <1>4

(* A public school's forecast keeps to its span, in any order of calls.    *)
Spanned(s) ==
  (Kind[s] = "PublicSchool" /\ Start[s] >= 0) =>
    /\ 0 <= span[s].least /\ span[s].least <= school[s].studentAmountNextYear
    /\ school[s].studentAmountNextYear <= span[s].most

LEMMA SpannedStep ==
  SchoolTypeOK /\ (\A s \in Schools : Spanned(s)) /\ [SchoolNext]_schoolVars
    => \A s \in Schools : Spanned(s)'
<1> SUFFICES ASSUME SchoolTypeOK, \A s \in Schools : Spanned(s), [SchoolNext]_schoolVars,
                    NEW u \in Schools, Kind[u] = "PublicSchool", Start[u] >= 0
             PROVE  Spanned(u)'
  BY DEF Spanned
<1> DEFINE f == school[u].studentAmountNextYear
           l == span[u].least
           m == span[u].most
           Lost == f' = f - Ceil(f) /\ l' = l - Ceil(l) /\ m' = m
           Won == f' = f + Ceil(f) /\ l' = l /\ m' = m + Ceil(m)
           Still == f' = f /\ l' = l /\ m' = m
<1>0. /\ school \in [Schools -> Object] /\ school[u] \in Object
      /\ Amounts \subseteq Int /\ f \in Int /\ l \in Int /\ m \in Int
      /\ \A s \in Schools : school[s] \in Object /\ Kind[s] \in Classes
  BY SchoolAssumption DEF SchoolTypeOK, Object
<1>1. 0 <= l /\ l <= f /\ f <= m
  BY DEF Spanned
<1>2. ASSUME Spanning
      PROVE  /\ l' = IF Leaves(call', u) THEN l - Ceil(l) ELSE l
             /\ m' = IF Grows(call', u) THEN m + Ceil(m) ELSE m
  BY <1>2 DEF Spanning
<1> HIDE DEF l, m
<1>3. ASSUME NEW s \in Schools, NEW a \in Amounts, Admissions(s, a), Spanning PROVE Still
  <2>1. AmountSays(a) \in Replies /\ "admissions" \in Ops /\ a \in Int
    BY <1>0, SaysFacts DEF Replies, Ops
  <2>2. call'.op = "admissions"
    BY <1>3, <2>1, AnswerFacts DEF Admissions
  <2>3. school'[u] = school[u] \/ school'[u] = Admitted(school[u], a)
    BY <1>0, <1>3 DEF Admissions
  <2>4. f' = f
    BY <1>0, <2>1, <2>3, PublicFacts
  <2> QED
    BY <1>2, <1>3, <2>2, <2>4 DEF Leaves, Grows
<1>4. ASSUME NEW s \in Schools, NEW a \in Amounts, Dropouts(s, a), Spanning PROVE Still \/ Lost
  <2>1. Says(school[s], a) \in Replies /\ "dropouts" \in Ops /\ a \in Int
    BY <1>0, SaysFacts DEF Replies, Ops
  <2>2. /\ call'.op = "dropouts" /\ call'.from = s /\ call'.amount = a
        /\ call'.said = Says(school[s], a)
    BY <1>4, <2>1, AnswerFacts DEF Dropouts
  <2>3. school'[u] = IF u = s THEN Dropped(Kind[u], school[u], a) ELSE school[u]
    BY <1>0, <1>4 DEF Dropouts
  <2>4. f' = IF u = s /\ Says(school[s], a) = "ok" /\ a > 200 THEN f - Ceil(f) ELSE f
    BY <1>0, <2>1, <2>3, PublicFacts
  <2>5. ~Grows(call', u) /\ (Leaves(call', u) <=> u = s /\ Says(school[s], a) = "ok" /\ a > 200)
    BY <2>2 DEF Leaves, Grows
  <2> QED
    BY <1>2, <1>4, <2>4, <2>5
<1>5. ASSUME NEW s \in Schools, NEW t \in Schools, NEW a \in Amounts, Transfer(s, t, a), Spanning
      PROVE  Still \/ Lost
  <2> DEFINE said == Says(school[s], a)
             left == Dropped(Kind[s], school[s], a)
  <2>1. said \in Replies /\ "transfer" \in Ops /\ a \in Int
    BY <1>0, SaysFacts DEF Replies, Ops
  <2>2. call'.op = "transfer" /\ call'.from = s /\ call'.amount = a /\ call'.said = said
    <3>1. Answer("transfer", s, t, a, said)
      BY <1>5 DEF Transfer
    <3> HIDE DEF said
    <3> QED
      BY <2>1, <3>1, AnswerFacts
  <2>3. /\ said # "ok" => school' = school
        /\ said = "ok" =>
             /\ \A v \in Schools \ {s, t} : school'[v] = school[v]
             /\ s = t => school'[t] = Admitted(left, a)
             /\ s # t => school'[s] = left /\ school'[t] = Admitted(school[t], a)
    BY <1>0, <1>5, TransferredFacts DEF Transfer
  <2>4. left \in Object
    BY <1>0, <2>1, DroppedFacts
  <2>5. u = s => left.studentAmountNextYear =
                   IF said = "ok" /\ a > 200 THEN f - Ceil(f) ELSE f
    BY <1>0, <2>1, PublicFacts
  <2>6. /\ Admitted(left, a).studentAmountNextYear = left.studentAmountNextYear
        /\ Admitted(school[u], a).studentAmountNextYear = f
    <3> HIDE DEF left
    <3> QED
      BY <1>0, <2>1, <2>4, PublicFacts
  <2> HIDE DEF left, said
  <2>7. f' = IF u = s /\ said = "ok" /\ a > 200 THEN f - Ceil(f) ELSE f
    <3>1. CASE said # "ok"
      BY <2>3, <3>1
    <3>2. CASE said = "ok" /\ u # s
      <4>1. school'[u] = school[u] \/ school'[u] = Admitted(school[u], a)
        BY <2>3, <3>2
      <4> QED
        BY <2>6, <3>2, <4>1
    <3>3. CASE said = "ok" /\ u = s
      <4>1. school'[u] = left \/ school'[u] = Admitted(left, a)
        BY <2>3, <3>3
      <4> QED
        BY <2>5, <2>6, <3>3, <4>1
    <3> QED
      BY <3>1, <3>2, <3>3
  <2>8. ~Grows(call', u) /\ (Leaves(call', u) <=> u = s /\ said = "ok" /\ a > 200)
    BY <2>2 DEF Leaves, Grows
  <2> QED
    BY <1>2, <1>5, <2>7, <2>8
<1>6. ASSUME NEW s \in Schools, ApplyGrowth(s), Spanning PROVE Still \/ Won
  <2>1. call'.op = "apply_growth" /\ call'.from = s
    BY <1>6 DEF ApplyGrowth, Answer
  <2>2. school'[u] = IF u = s THEN Grown(school[u]) ELSE school[u]
    BY <1>0, <1>6 DEF ApplyGrowth
  <2>3. f' = IF u = s THEN f + Ceil(f) ELSE f
    BY <1>0, <2>2, PublicFacts
  <2>4. ~Leaves(call', u) /\ (Grows(call', u) <=> u = s)
    BY <2>1 DEF Leaves, Grows
  <2> QED
    BY <1>2, <1>6, <2>3, <2>4
<1>7. CASE UNCHANGED schoolVars
  <2>1. Still
    BY <1>7 DEF schoolVars, l, m
  <2> QED
    BY <1>1, <2>1 DEF l, m, Spanned
<1>8. ASSUME Still \/ Lost \/ Won PROVE Spanned(u)'
  <2>1. \A n \in Int : Ceil(n) \in Int
    BY CeilBounds
  <2>2. 0 <= l' /\ l' <= f' /\ f' <= m'
    <3> HIDE DEF f
    <3>1. CASE Still
      BY <1>1, <3>1
    <3>2. CASE Lost
      <4>1. l - Ceil(l) <= f - Ceil(f) /\ 0 <= l - Ceil(l)
        BY <1>0, <1>1, CeilGrows
      <4>2. 0 <= Ceil(f)
        BY <1>0, <1>1, CeilGrows
      <4> QED
        BY <1>0, <1>1, <2>1, <3>2, <4>1, <4>2
    <3>3. CASE Won
      <4>1. 0 <= f
        BY <1>0, <1>1
      <4>2. f + Ceil(f) <= m + Ceil(m) /\ 0 <= Ceil(f)
        BY <1>0, <1>1, <4>1, CeilGrows
      <4> QED
        BY <1>0, <1>1, <2>1, <3>3, <4>2
    <3> QED
      BY <1>8, <3>1, <3>2, <3>3
  <2> QED
    BY <2>2 DEF l, m, Spanned
<1> QED
  BY <1>3, <1>4, <1>5, <1>6, <1>7, <1>8 DEF SchoolNext

(* The forecast of a plain and of a private school is the one its class    *)
(* and its own dropouts say; that of a public school stays in its span,    *)
(* in whatever order the programme admits, expels, transfers and grows.    *)
THEOREM ForecastIsTheClassRule == SchoolSpec => []ForecastFollowsDropouts
<1>1. SchoolInit => AllForetold /\ \A s \in Schools : Spanned(s)
  <2>1. \A s \in Schools : Kind[s] \in Classes /\ Start[s] \in Int
    BY SchoolAssumption
  <2>2. ASSUME NEW s \in Schools PROVE Foretold(Kind[s], Start[s], Construct(Start[s]))
    BY <2>1 DEF Foretold, Construct
  <2>3. ASSUME SchoolInit, NEW s \in Schools PROVE Spanned(s)
    <3>1. /\ school[s].studentAmountNextYear = Start[s]
          /\ span[s].least = Start[s] /\ span[s].most = Start[s]
      BY <2>3 DEF SchoolInit, Construct
    <3> QED
      BY <2>1, <3>1 DEF Spanned
  <2> QED
    BY <2>2, <2>3 DEF SchoolInit, AllForetold
<1>2. AllForetold /\ (\A s \in Schools : Spanned(s)) => ForecastFollowsDropouts
  BY DEF AllForetold, Foretold, Spanned, ForecastFollowsDropouts
<1> DEFINE All == \A s \in Schools : Spanned(s)
<1>3. SchoolTypeOK /\ All /\ [SchoolNext]_schoolVars => All'
  BY SpannedStep
<1> HIDE DEF All
<1>4. (SchoolInit => AllForetold /\ All) /\ (AllForetold /\ All => ForecastFollowsDropouts)
  BY <1>1, <1>2 DEF All
<1> QED
  BY <1>3, <1>4, SchoolInitTypes, SchoolTypesStep, ForetoldStep, PTL DEF SchoolSpec

-----------------------------------------------------------------------------
(* A call that goes through takes at most what is there, and a transfer    *)
(* adds to one school what it takes from the other.                        *)
Natural == \A s \in Schools :
              school[s].studentAmount \in 0..MaxExact => school'[s].studentAmount >= 0

Conserved == /\ call'.said # "ok" => school' = school
             /\ (call'.op = "transfer" /\ call'.said = "ok") =>
                  /\ \A s \in Schools \ {call'.from, call'.to} : school'[s] = school[s]
                  /\ IF call'.from = call'.to THEN Moved(call'.from) = 0
                     ELSE /\ 2 * Moved(call'.to) = call'.amount
                          /\ Moved(call'.from) = -Moved(call'.to)

(* The head counts after one call.                                         *)
LEMMA HeadsAfter ==
  ASSUME NEW kind \in Classes, NEW o \in Object, NEW a \in Int
  PROVE  /\ Admitted(o, a).studentAmount >= o.studentAmount
         /\ o.studentAmount \in 0..MaxExact => Dropped(kind, o, a).studentAmount >= 0
         /\ Says(o, a) = "ok" =>
              /\ Admitted(o, a).studentAmount = o.studentAmount + (a \div 2)
              /\ Dropped(kind, o, a).studentAmount = o.studentAmount - (a \div 2)
              /\ 2 * (a \div 2) = a
<1>1. o.studentAmount \in Int
  BY DEF Object
<1>2. AmountSays(a) = "ok" => Admitted(o, a).studentAmount = o.studentAmount + (a \div 2)
  BY AdmittedFacts DEF Object
<1>3. a \div 2 \in Int /\ (a > 0 => a \div 2 >= 0)
  OBVIOUS
<1>4. Admitted(o, a).studentAmount >= o.studentAmount
  <2>1. CASE AmountSays(a) = "ok"
    <3>1. a \div 2 \in Int /\ a \div 2 >= 0
      BY <1>3, <2>1, SaysFacts
    <3>2. Admitted(o, a).studentAmount = o.studentAmount + (a \div 2)
      BY <1>2, <2>1
    <3> QED
      BY <1>1, <3>1, <3>2
  <2>2. CASE AmountSays(a) # "ok"
    <3>1. Admitted(o, a) = o
      BY <2>2, AdmittedFacts
    <3> QED
      BY <1>1, <3>1
  <2> QED
    BY <2>1, <2>2
<1>5. ASSUME o.studentAmount \in 0..MaxExact PROVE Dropped(kind, o, a).studentAmount >= 0
  <2>0. o.studentAmount >= 0
    <3>1. MaxExact \in Nat
      BY SMT DEF MaxExact
    <3> QED
      BY <1>1, <1>5, <3>1
  <2>1. CASE Says(o, a) = "ok"
    <3>1. a <= 2 * o.studentAmount /\ 2 * (a \div 2) = a
      BY <1>5, <2>1, SaysFacts
    <3> QED
      BY <1>1, <1>3, <2>1, <3>1, DroppedFacts
  <2>2. CASE Says(o, a) # "ok"
    BY <2>0, <2>2, DroppedFacts
  <2> QED
    BY <2>1, <2>2
<1> QED
  BY <1>2, <1>4, <1>5, DroppedFacts, SaysFacts

LEMMA ConservedStep ==
  SchoolTypeOK /\ [SchoolNext]_schoolVars => [Natural /\ Conserved]_schoolVars
<1> SUFFICES ASSUME SchoolTypeOK, SchoolNext PROVE Natural /\ Conserved
  OBVIOUS
<1>0. /\ \A s \in Schools : school[s] \in Object /\ Kind[s] \in Classes
      /\ school \in [Schools -> Object]
      /\ Amounts \subseteq Int
  BY SchoolAssumption DEF SchoolTypeOK
<1>1. \A s \in Schools : school[s].studentAmount \in Int
  BY <1>0 DEF Object
<1>2. \A n \in 0..MaxExact : n >= 0
  <2>1. MaxExact \in Nat
    BY SMT DEF MaxExact
  <2> QED
    BY <2>1
<1>3. ASSUME NEW s \in Schools, NEW a \in Amounts, Admissions(s, a)
      PROVE  Natural /\ Conserved
  <2>1. /\ school' = [school EXCEPT ![s] = Admitted(school[s], a)]
        /\ call'.op = "admissions" /\ call'.said = AmountSays(a)
    BY <1>3 DEF Admissions, Answer
  <2>2. /\ Admitted(school[s], a).studentAmount >= school[s].studentAmount
        /\ AmountSays(a) # "ok" => Admitted(school[s], a) = school[s]
        /\ Admitted(school[s], a).studentAmount \in Int
    <3>1. Admitted(school[s], a) \in Object
      BY <1>0, AdmittedFacts
    <3>2. Admitted(school[s], a).studentAmount \in Int
      BY <3>1 DEF Object
    <3> QED
      BY <1>0, <3>2, AdmittedFacts, HeadsAfter
  <2>3. Natural
    BY <1>0, <1>1, <1>2, <2>1, <2>2 DEF Natural
  <2>4. Conserved
    BY <1>0, <2>1, <2>2 DEF Conserved
  <2> QED
    BY <2>3, <2>4
<1>4. ASSUME NEW s \in Schools, NEW a \in Amounts, Dropouts(s, a)
      PROVE  Natural /\ Conserved
  <2>1. /\ school' = [school EXCEPT ![s] = Dropped(Kind[s], school[s], a)]
        /\ call'.op = "dropouts" /\ call'.said = Says(school[s], a)
    BY <1>4 DEF Dropouts, Answer
  <2>2. /\ Says(school[s], a) # "ok" => Dropped(Kind[s], school[s], a) = school[s]
        /\ school[s].studentAmount \in 0..MaxExact =>
             Dropped(Kind[s], school[s], a).studentAmount >= 0
    BY <1>0, DroppedFacts, HeadsAfter
  <2>3. Natural
    BY <1>0, <1>2, <2>1, <2>2 DEF Natural
  <2>4. Conserved
    BY <1>0, <2>1, <2>2 DEF Conserved
  <2> QED
    BY <2>3, <2>4
<1>5. ASSUME NEW s \in Schools, NEW t \in Schools, NEW a \in Amounts, Transfer(s, t, a)
      PROVE  Natural /\ Conserved
  <2> DEFINE left == Dropped(Kind[s], school[s], a)
            half == a \div 2
  <2>1. /\ school' = Transferred(school, Kind, s, t, a)
        /\ call'.op = "transfer" /\ call'.said = Says(school[s], a)
        /\ call'.from = s /\ call'.to = t /\ call'.amount = a
    BY <1>5 DEF Transfer, Answer
  <2>2. /\ left \in Object
        /\ left.studentAmount \in Int
        /\ Says(school[s], a) = "ok" => AmountSays(a) = "ok"
        /\ school[s].studentAmount \in 0..MaxExact => left.studentAmount >= 0
        /\ Says(school[s], a) = "ok" =>
             left.studentAmount = school[s].studentAmount - half /\ 2 * half = a
    <3>1. left \in Object
      BY <1>0, DroppedFacts
    <3>2. left.studentAmount \in Int
      <4> HIDE DEF left
      <4> QED
        BY <3>1 DEF Object
    <3>3. school[s] \in Object /\ Kind[s] \in Classes /\ a \in Int
      BY <1>0
    <3>4. Says(school[s], a) = "ok" => AmountSays(a) = "ok"
      BY <3>3, SaysFacts
    <3> HIDE DEF left
    <3>5. /\ school[s].studentAmount \in 0..MaxExact => left.studentAmount >= 0
          /\ Says(school[s], a) = "ok" =>
               left.studentAmount = school[s].studentAmount - half /\ 2 * half = a
      BY <3>3, HeadsAfter DEF left
    <3> QED
      BY <3>1, <3>2, <3>4, <3>5
  <2>3. half \in Int /\ a \in Int
    BY <1>0
  <2>4. /\ Says(school[s], a) # "ok" => school' = school
        /\ Says(school[s], a) = "ok" =>
             /\ \A v \in Schools \ {s, t} : school'[v] = school[v]
             /\ s = t => school'[t] = Admitted(left, a)
             /\ s # t => school'[s] = left /\ school'[t] = Admitted(school[t], a)
    BY <1>0, <2>1, TransferredFacts
  <2>5. AmountSays(a) = "ok" =>
          /\ Admitted(left, a).studentAmount = left.studentAmount + half
          /\ Admitted(school[t], a).studentAmount = school[t].studentAmount + half
    <3> HIDE DEF left
    <3>1. \A o \in Object : AmountSays(a) = "ok" =>
             Admitted(o, a).studentAmount = o.studentAmount + half
      BY <2>3, AdmittedFacts DEF Object
    <3> QED
      BY <1>0, <2>2, <3>1
  <2>6. AmountSays(a) = "ok" => half >= 0
    <3>1. AmountSays(a) = "ok" => a > 0 /\ 2 * half = a
      BY <1>0, <2>3, SaysFacts
    <3> QED
      BY <2>3, <3>1
  <2> HIDE DEF left, half
  <2>7. Natural
    <3> SUFFICES ASSUME NEW u \in Schools, school[u].studentAmount \in 0..MaxExact
                 PROVE  school'[u].studentAmount >= 0
      BY DEF Natural
    <3>1. CASE Says(school[s], a) # "ok" \/ u \notin {s, t}
      BY <1>2, <2>4, <3>1
    <3>2. CASE Says(school[s], a) = "ok" /\ s = t /\ u = t
      BY <1>1, <1>2, <2>2, <2>3, <2>4, <2>5, <2>6, <3>2
    <3>3. CASE Says(school[s], a) = "ok" /\ s # t /\ u = s
      BY <2>2, <2>4, <3>3
    <3>4. CASE Says(school[s], a) = "ok" /\ s # t /\ u = t
      BY <1>1, <1>2, <2>2, <2>3, <2>4, <2>5, <2>6, <3>4
    <3> QED
      BY <3>1, <3>2, <3>3, <3>4
  <2>8. Conserved
    <3>1. CASE Says(school[s], a) # "ok"
      BY <2>1, <2>4, <3>1 DEF Conserved
    <3>2. CASE Says(school[s], a) = "ok" /\ s = t
      <4>1. Moved(t) = 0
        BY <1>1, <2>2, <2>3, <2>4, <2>5, <3>2 DEF Moved
      <4> QED
        BY <2>1, <2>4, <3>2, <4>1 DEF Conserved
    <3>3. CASE Says(school[s], a) = "ok" /\ s # t
      <4>1. Moved(t) = half /\ Moved(s) = -half
        BY <1>1, <2>2, <2>3, <2>4, <2>5, <3>3 DEF Moved
      <4> QED
        BY <2>1, <2>2, <2>3, <2>4, <3>3, <4>1 DEF Conserved
    <3> QED
      BY <3>1, <3>2, <3>3
  <2> QED
    BY <2>7, <2>8
<1>6. ASSUME NEW s \in Schools, ApplyGrowth(s) PROVE Natural /\ Conserved
  <2>1. /\ school' = [school EXCEPT ![s] = Grown(school[s])]
        /\ call'.op = "apply_growth" /\ call'.said = "ok"
    BY <1>6 DEF ApplyGrowth, Answer
  <2>2. Grown(school[s]).studentAmount = school[s].studentAmount
    BY <1>0, GrownFacts
  <2> QED
    BY <1>0, <1>2, <2>1, <2>2 DEF Natural, Conserved
<1> QED
  BY <1>3, <1>4, <1>5, <1>6 DEF SchoolNext

(* No programme, however long, takes out of a school more than it has, as  *)
(* long as the float is exact, or loses students on the way.               *)
THEOREM NoStudentLost == SchoolSpec => StudentsConserved
<1>1. SchoolTypeOK /\ [SchoolNext]_schoolVars
        => [\A s \in Schools :
              school[s].studentAmount \in 0..MaxExact => school'[s].studentAmount >= 0]_schoolVars
  BY ConservedStep DEF Natural
<1>2. SchoolSpec => HeadcountsStayNatural
  BY <1>1, SchoolInitTypes, SchoolTypesStep, PTL DEF SchoolSpec, HeadcountsStayNatural
<1>3. SchoolTypeOK /\ [SchoolNext]_schoolVars
        => [/\ call'.said # "ok" => school' = school
            /\ (call'.op = "transfer" /\ call'.said = "ok") =>
                 /\ \A s \in Schools \ {call'.from, call'.to} : school'[s] = school[s]
                 /\ IF call'.from = call'.to THEN Moved(call'.from) = 0
                    ELSE /\ 2 * Moved(call'.to) = call'.amount
                         /\ Moved(call'.from) = -Moved(call'.to)]_schoolVars
  BY ConservedStep DEF Conserved
<1>4. SchoolSpec => TransferConserves
  BY <1>3, SchoolInitTypes, SchoolTypesStep, PTL DEF SchoolSpec, TransferConserves
<1> QED
  BY <1>2, <1>4 DEF StudentsConserved

-----------------------------------------------------------------------------
(* Variant: variables that share objects behave as if each had its own.    *)


Live(v) == v.type # "freed"

HeldBy(held, a) == \E n \in Names : held[n] = a

Owned ==
  /\ dispatcher \in [Names -> Addresses]
  /\ \A n \in Names : Live(heap[dispatcher[n]])
  /\ \A a \in Addresses : ~HeldBy(dispatcher, a) => heap[a] = Freed

-----------------------------------------------------------------------------
LEMMA FreedIsDead == ~Live(Freed)
BY DEF Live, Freed

LEMMA LiteralsLive ==
  ASSUME NEW v \in Literals
  PROVE  Live(v)
<1>1. v \in Values
  BY VariantAssumption
<1>2. v.type \in Types
  BY <1>1 DEF Values
<1> QED
  BY <1>2 DEF Types, Live

(* The operators give strings and doubles.                                 *)
LEMMA ResultsLive ==
  ASSUME NEW op \in Operators, NEW l, NEW r
  PROVE  Live(Calculated(op, l, r).value)
<1>1. \A s : Live(Str(s))
  BY DEF Str, Live
<1>2. \A n : Live(Num("double", n))
  BY DEF Num, Live
<1>3. /\ \A what : Live(Error(what).value)
      /\ \A v : Gives(v).value = v
  BY <1>1 DEF Error, Gives
<1>4. \A n : Live(TRY_CALC(l, r, n).value)
  BY <1>2, <1>3 DEF TRY_CALC
<1>5. Live(AddVar(l, r).value)
  BY <1>1, <1>3, <1>4 DEF AddVar
<1>6. Live(SubVar(l, r).value) /\ Live(MulVar(l, r).value)
  BY <1>4 DEF SubVar, MulVar
<1>7. Live(DivVar(l, r).value)
  BY <1>3, <1>4 DEF DivVar
<1> QED
  BY <1>5, <1>6, <1>7 DEF Operators, Calculated

LEMMA OneAddressMore ==
  /\ IsFiniteSet(Names) /\ IsFiniteSet(Addresses)
  /\ Cardinality(Names) \in Nat /\ Cardinality(Addresses) = Cardinality(Names) + 1
<1>1. IsFiniteSet(Names)
  BY VariantAssumption
<1>2. Cardinality(Names) \in Nat
  BY <1>1, FS_CardinalityType
<1> QED
  BY <1>1, <1>2, FS_Interval DEF Addresses

(* Held addresses are as many as variables at most, so one is free.        *)
LEMMA FreshIsFree ==
  ASSUME Owned
  PROVE  /\ Fresh \in Addresses /\ heap[Fresh] = Freed
         /\ ~HeldBy(dispatcher, Fresh)
<1> DEFINE Held == {dispatcher[n] : n \in Names}
<1>1. dispatcher \in Surjection(Names, Held)
  BY DEF Owned, Surjection
<1>2. IsFiniteSet(Held) /\ Cardinality(Held) <= Cardinality(Names)
  BY <1>1, OneAddressMore, FS_Surjection
<1>3. ~(Addresses \subseteq Held)
  <2>1. SUFFICES ASSUME Addresses \subseteq Held PROVE FALSE
    OBVIOUS
  <2>2. Cardinality(Addresses) <= Cardinality(Held)
    BY <1>2, <2>1, FS_Subset
  <2>3. Cardinality(Held) \in Nat
    BY <1>2, FS_CardinalityType
  <2> QED
    BY <1>2, <2>2, <2>3, OneAddressMore
<1>4. PICK a \in Addresses : a \notin Held
  BY <1>3
<1>5. heap[a] = Freed
  BY <1>4 DEF Owned, HeldBy
<1>6. Fresh \in Addresses /\ heap[Fresh] = Freed
  BY <1>5 DEF Fresh
<1> QED
  BY <1>6, FreedIsDead DEF Owned, HeldBy

LEMMA KeptHeld ==
  ASSUME NEW objects, NEW held, NEW a \in Addresses
  PROVE  /\ HeldBy(held, a) => Kept(objects, held)[a] = objects[a]
         /\ ~HeldBy(held, a) => Kept(objects, held)[a] = Freed
BY DEF Kept, HeldBy

(* A new object: its variable holds it, the others keep their values.      *)
LEMMA MakeSharedFacts ==
  ASSUME Owned, DOMAIN heap = Addresses, NEW n \in Names, NEW v, Live(v), make_shared(n, v)
  PROVE  /\ Owned' /\ DOMAIN heap' = Addresses
         /\ Get(n)' = v /\ \A m \in Names \ {n} : Get(m)' = Get(m)
<1> DEFINE held == [dispatcher EXCEPT ![n] = Fresh]
           objects == [heap EXCEPT ![Fresh] = v]
<1>1. dispatcher' = held /\ heap' = Kept(objects, held)
  BY DEF make_shared
<1>2. /\ Fresh \in Addresses /\ dispatcher \in [Names -> Addresses]
      /\ \A m \in Names : dispatcher[m] # Fresh
  BY FreshIsFree DEF Owned, HeldBy
<1>3. /\ held \in [Names -> Addresses] /\ held[n] = Fresh
      /\ \A m \in Names \ {n} : held[m] = dispatcher[m]
  BY <1>2
<1>4. /\ objects[Fresh] = v
      /\ \A m \in Names : objects[dispatcher[m]] = heap[dispatcher[m]]
  BY <1>2
<1> HIDE DEF held, objects
<1>5. \A m \in Names : heap'[held[m]] = objects[held[m]]
  BY <1>1, <1>3, KeptHeld DEF HeldBy
<1>6. \A m \in Names \ {n} : heap'[held[m]] = heap[dispatcher[m]]
  BY <1>3, <1>4, <1>5
<1>7. \A m \in Names : Live(heap'[held[m]])
  BY <1>3, <1>4, <1>5, <1>6 DEF Owned
<1>8. \A a \in Addresses : ~HeldBy(held, a) => heap'[a] = Freed
  BY <1>1, KeptHeld
<1>9. DOMAIN heap' = Addresses
  BY <1>1 DEF Kept
<1>10. heap'[held[n]] = v
  BY <1>3, <1>4, <1>5
<1> QED
  BY <1>1, <1>3, <1>6, <1>7, <1>8, <1>9, <1>10 DEF Owned, Get, HeldBy

(* A copy: the copied object lives on, the others keep their values.       *)
LEMMA CopyFacts ==
  ASSUME Owned, NEW n \in Names, NEW m \in Names,
         dispatcher' = [dispatcher EXCEPT ![n] = dispatcher[m]],
         heap' = Kept(heap, dispatcher')
  PROVE  /\ Owned' /\ DOMAIN heap' = Addresses
         /\ Get(n)' = Get(m) /\ \A k \in Names \ {n} : Get(k)' = Get(k)
<1>1. /\ dispatcher \in [Names -> Addresses]
      /\ \A k \in Names : Live(heap[dispatcher[k]])
  BY DEF Owned
<1>2. /\ dispatcher' \in [Names -> Addresses] /\ dispatcher'[n] = dispatcher[m]
      /\ \A k \in Names \ {n} : dispatcher'[k] = dispatcher[k]
  BY <1>1
<1>3. \A k \in Names : heap'[dispatcher'[k]] = heap[dispatcher'[k]]
  <2>1. SUFFICES ASSUME NEW k \in Names
                 PROVE  heap'[dispatcher'[k]] = heap[dispatcher'[k]]
    OBVIOUS
  <2>2. dispatcher'[k] \in Addresses
    BY <1>2
  <2> QED
    BY <2>2 DEF Kept
<1>4. \A k \in Names : Live(heap'[dispatcher'[k]])
  BY <1>1, <1>2, <1>3
<1>5. \A a \in Addresses : ~HeldBy(dispatcher', a) => heap'[a] = Freed
  BY DEF Kept, HeldBy
<1>6. DOMAIN heap' = Addresses
  BY DEF Kept
<1> QED
  BY <1>2, <1>3, <1>4, <1>5, <1>6 DEF Owned, Get, HeldBy

-----------------------------------------------------------------------------
Sound == Owned /\ DOMAIN heap = Addresses

LEMMA VariantStarts ==
  ASSUME VariantInit
  PROVE  Sound
<1>1. PICK v \in Literals :
        /\ dispatcher = [n \in Names |-> 1]
        /\ heap = [a \in Addresses |-> IF a = 1 THEN v ELSE Freed]
  BY DEF VariantInit
<1>2. Live(v)
  BY LiteralsLive
<1>3. Names # {} => 1 \in Addresses
  <2>1. SUFFICES ASSUME Names # {} PROVE 1 \in Addresses
    OBVIOUS
  <2>2. Cardinality(Names) # 0
    BY <2>1, OneAddressMore, FS_EmptySet
  <2> QED
    BY <2>2, OneAddressMore DEF Addresses
<1>4. \A n \in Names : dispatcher[n] = 1 /\ 1 \in Addresses
  BY <1>1, <1>3
<1>5. dispatcher \in [Names -> Addresses]
  BY <1>1, <1>4
<1>6. \A n \in Names : Live(heap[dispatcher[n]])
  BY <1>1, <1>2, <1>4
<1>7. \A a \in Addresses : heap[a] = Freed \/ (a = 1 /\ heap[a] = v)
  BY <1>1
<1>8. \A a \in Addresses : ~HeldBy(dispatcher, a) => heap[a] = Freed
  <2>1. SUFFICES ASSUME NEW a \in Addresses, ~HeldBy(dispatcher, a), heap[a] # Freed
                 PROVE  FALSE
    OBVIOUS
  <2>2. a = 1
    BY <1>7, <2>1
  <2>3. Names = {}
    BY <1>4, <2>1, <2>2 DEF HeldBy
  <2>4. a = 0
    <3>1. Cardinality(Names) = 0
      BY <2>3, FS_EmptySet
    <3>2. a \in 0..0
      BY <2>1, <3>1 DEF Addresses
    <3> QED
      BY <3>2
  <2> QED
    BY <2>2, <2>4
<1>9. DOMAIN heap = Addresses
  BY <1>1
<1>10. Owned
  BY <1>5, <1>6, <1>8 DEF Owned
<1> QED
  BY <1>9, <1>10 DEF Sound

(* A step changes the value of one variable at most.                       *)
Independent ==
  /\ \A n, m \in Names : Get(n)' # Get(n) /\ Get(m)' # Get(m) => n = m
  /\ thrown' # "" => \A n \in Names : Get(n)' = Get(n)

LEMMA VariantSteps ==
  ASSUME Sound, VariantNext
  PROVE  Sound' /\ Independent
<1>1. CASE Assign
  <2>1. PICK n \in Names, v \in Literals : make_shared(n, v) /\ thrown' = ""
    BY <1>1 DEF Assign
  <2>2. Live(v)
    BY LiteralsLive
  <2> QED
    BY <2>1, <2>2, MakeSharedFacts DEF Sound, Independent
<1>2. CASE Copy
  <2>1. PICK n \in Names, m \in Names :
          /\ dispatcher' = [dispatcher EXCEPT ![n] = dispatcher[m]]
          /\ heap' = Kept(heap, dispatcher') /\ thrown' = ""
    BY <1>2 DEF Copy
  <2> QED
    BY <2>1, CopyFacts DEF Sound, Independent
<1>3. CASE Calculate
  <2>1. PICK n \in Names, l \in Names, r \in Names, op \in Operators :
          LET result == Calculated(op, Get(l), Get(r))
          IN  /\ thrown' = result.error
              /\ IF result.error = ""
                 THEN make_shared(n, result.value)
                 ELSE UNCHANGED <<dispatcher, heap, results>>
    BY <1>3 DEF Calculate
  <2> DEFINE result == Calculated(op, Get(l), Get(r))
  <2>2. Live(result.value)
    BY ResultsLive
  <2>3. /\ thrown' = result.error
        /\ IF result.error = "" THEN make_shared(n, result.value)
           ELSE UNCHANGED <<dispatcher, heap, results>>
    BY <2>1
  <2> HIDE DEF result
  <2>4. CASE result.error = ""
    BY <2>2, <2>3, <2>4, MakeSharedFacts DEF Sound, Independent
  <2>5. CASE result.error # ""
    BY <2>3, <2>5 DEF Sound, Owned, HeldBy, Independent, Get
  <2> QED
    BY <2>4, <2>5
<1> QED
  BY <1>1, <1>2, <1>3 DEF VariantNext

LEMMA VariantStays ==
  ASSUME Sound, UNCHANGED variantVars
  PROVE  Sound'
BY DEF Sound, Owned, HeldBy, variantVars

(* Assigning to a variable, or computing into it, never shows through in   *)
(* another that was copied from the same object, and an operator that      *)
(* throws leaves every variable as it was.                                 *)
THEOREM CopiesAreIndependent == VariantSpec => CopiesIndependent
<1>1. Sound /\ [VariantNext]_variantVars => Sound'
  BY VariantSteps, VariantStays
<1>2. Sound /\ [VariantNext]_variantVars
        => [/\ \A n, m \in Names : Get(n)' # Get(n) /\ Get(m)' # Get(m) => n = m
            /\ thrown' # "" => \A n \in Names : Get(n)' = Get(n)]_variantVars
  BY VariantSteps DEF Independent
<1> QED
  BY VariantStarts, <1>1, <1>2, PTL DEF VariantSpec, CopiesIndependent

-----------------------------------------------------------------------------
(* Variant: the digits of a number, and what is read from them.            *)

LEMMA DecimalFacts ==
  ASSUME NEW n \in Nat
  PROVE  /\ n \div 10 \in Nat /\ n % 10 \in 0..9
         /\ n = 10 * (n \div 10) + (n % 10)
         /\ n >= 10 => n \div 10 < n
<1>1. n \div 10 \in Int /\ n \div 10 >= 0
  OBVIOUS
<1>2. n % 10 \in 0..9
  OBVIOUS
<1>3. n = 10 * (n \div 10) + (n % 10)
  OBVIOUS
<1>4. n >= 10 => n \div 10 < n
  OBVIOUS
<1> QED
  BY <1>1, <1>2, <1>3, <1>4

Digit(n) == <<n>>

LEMMA DigitFacts ==
  ASSUME NEW S, NEW n \in S
  PROVE  Digit(n) \in Seq(S) /\ Len(Digit(n)) = 1 /\ Digit(n)[1] = n
BY DEF Digit

LEMMA AppendFacts ==
  ASSUME NEW S, NEW s \in Seq(S), NEW v \in S
  PROVE  /\ Append(s, v) \in Seq(S) /\ Len(Append(s, v)) = Len(s) + 1
         /\ \A i \in 1..Len(s) : Append(s, v)[i] = s[i]
         /\ Append(s, v)[Len(s) + 1] = v
OBVIOUS

\* One step of the division that writes a number.
Spelt(g, n) == IF n < 10 THEN Digit(n) ELSE Append(g[n \div 10], n % 10)

Spells(g, k) == \A n \in 0..k : g[n] = Spelt(g, n)

LEMMA SpellingsAgree ==
  ASSUME NEW k \in Nat, NEW j \in 0..k, NEW g, NEW h, Spells(g, j), Spells(h, k)
  PROVE  g[j] = h[j]
<1> DEFINE Differ == {n \in 0..j : g[n] # h[n]}
<1>1. Differ = {}
  <2> SUFFICES ASSUME Differ # {} PROVE FALSE
    OBVIOUS
  <2>1. PICK n \in Differ : \A m \in Differ : n <= m
    <3>1. Differ \subseteq Nat
      OBVIOUS
    <3> HIDE DEF Differ
    <3> QED
      BY <3>1, LeastNumber
  <2>2. n \in 0..j /\ n \in 0..k /\ n \in Nat /\ g[n] # h[n]
    OBVIOUS
  <2>3. g[n] = Spelt(g, n) /\ h[n] = Spelt(h, n)
    BY <2>2 DEF Spells
  <2>4. n >= 10
    BY <2>2, <2>3 DEF Spelt
  <2>5. n \div 10 \in 0..j /\ ~(n <= n \div 10)
    BY <2>2, <2>4, DecimalFacts
  <2>6. g[n \div 10] = h[n \div 10]
    BY <2>1, <2>5
  <2> QED
    BY <2>2, <2>3, <2>6 DEF Spelt
<1> QED
  BY <1>1

LEMMA SpellingsExist ==
  ASSUME NEW k \in Nat
  PROVE  \E g : Spells(g, k)
<1> DEFINE Good(m) == \E g : Spells(g, m)
           Bad == {m \in Nat : ~Good(m)}
<1>1. ASSUME NEW m \in Nat, m = 0 \/ Good(m - 1) PROVE Good(m)
  <2>1. CASE m = 0
    <3>1. Spells([n \in 0..0 |-> Digit(n)], 0)
      BY DEF Spells, Spelt
    <3> QED
      BY <2>1, <3>1
  <2>2. CASE m # 0
    <3>1. PICK g : Spells(g, m - 1)
      BY <1>1, <2>2
    <3> DEFINE h == [n \in 0..m |-> IF n = m THEN Spelt(g, n) ELSE g[n]]
    <3>2. \A n \in 0..m : n # m => n \in 0..(m - 1) /\ h[n] = g[n]
      OBVIOUS
    <3>3. m \in 0..m /\ h[m] = Spelt(g, m)
      OBVIOUS
    <3> HIDE DEF h
    <3>4. ASSUME NEW n \in 0..m PROVE h[n] = Spelt(g, n)
      BY <3>1, <3>2, <3>3 DEF Spells
    <3>5. ASSUME NEW n \in 0..m PROVE Spelt(g, n) = Spelt(h, n)
      <4>1. CASE n < 10
        BY <4>1 DEF Spelt
      <4>2. CASE n >= 10
        <5>1. n \in Nat
          OBVIOUS
        <5>2. n \div 10 \in 0..m /\ n \div 10 # m
          BY <4>2, <5>1, DecimalFacts
        <5> QED
          BY <3>2, <5>2 DEF Spelt
      <4> QED
        BY <4>1, <4>2
    <3>6. Spells(h, m)
      BY <3>4, <3>5 DEF Spells
    <3> QED
      BY <3>6
  <2> QED
    BY <2>1, <2>2
<1>2. Bad = {}
  <2> SUFFICES ASSUME Bad # {} PROVE FALSE
    OBVIOUS
  <2>1. PICK m \in Bad : \A j \in Bad : m <= j
    <3>1. Bad \subseteq Nat
      OBVIOUS
    <3> HIDE DEF Bad
    <3> QED
      BY <3>1, LeastNumber
  <2>2. m \in Nat /\ ~Good(m)
    OBVIOUS
  <2>3. m = 0 \/ (m - 1 \in Nat /\ ~(m <= m - 1))
    BY <2>2
  <2>4. m = 0 \/ Good(m - 1)
    BY <2>1, <2>3
  <2> HIDE DEF Good
  <2> QED
    BY <1>1, <2>2, <2>4
<1> HIDE DEF Good
<1>3. Good(k)
  BY <1>2
<1> QED
  BY <1>3 DEF Good

LEMMA DigitsSpelt ==
  ASSUME NEW n \in Nat
  PROVE  digits[n] = Spelt(digits, n)
<1> DEFINE Chosen(m) == CHOOSE g : Spells(g, m)
           D == [m \in Nat |-> Chosen(m)[m]]
<1>1. \A m \in Nat : Spells(Chosen(m), m)
  BY SpellingsExist
<1>2. ASSUME NEW m \in Nat PROVE D[m] = Spelt(D, m)
  <2>1. D[m] = Chosen(m)[m]
    OBVIOUS
  <2>2. m \in 0..m /\ Chosen(m)[m] = Spelt(Chosen(m), m)
    <3> HIDE DEF Chosen
    <3> QED
      BY <1>1 DEF Spells
  <2>3. CASE m < 10
    <3> HIDE DEF D, Chosen
    <3> QED
      BY <2>1, <2>2, <2>3 DEF Spelt
  <2>4. CASE m >= 10
    <3>1. m \div 10 \in Nat /\ m \div 10 \in 0..m
      BY <2>4, DecimalFacts
    <3>2. D[m \div 10] = Chosen(m \div 10)[m \div 10]
      BY <3>1
    <3>3. Spells(Chosen(m), m) /\ Spells(Chosen(m \div 10), m \div 10)
      <4> HIDE DEF Chosen
      <4> QED
        BY <1>1, <3>1
    <3>4. Chosen(m \div 10)[m \div 10] = Chosen(m)[m \div 10]
      <4> HIDE DEF Chosen
      <4> QED
        BY <3>1, <3>3, SpellingsAgree
    <3> HIDE DEF D, Chosen
    <3> QED
      BY <2>1, <2>2, <3>2, <3>4 DEF Spelt
  <2> QED
    BY <2>3, <2>4
<1>3. D = [m \in Nat |-> Spelt(D, m)]
  <2>1. [m \in Nat |-> D[m]] = D
    OBVIOUS
  <2> HIDE DEF D
  <2> QED
    BY <1>2, <2>1
<1> HIDE DEF D
<1>4. digits = CHOOSE d : d = [m \in Nat |-> Spelt(d, m)]
  BY DEF digits, Spelt, Digit
<1>5. digits = [m \in Nat |-> Spelt(digits, m)]
  BY <1>3, <1>4
<1> QED
  BY <1>5

\* Every number has at least one digit.
LEMMA DigitsType ==
  ASSUME NEW n \in Nat
  PROVE  digits[n] \in Seq(0..9) /\ Len(digits[n]) >= 1
<1> DEFINE Odd == {m \in Nat : ~(digits[m] \in Seq(0..9) /\ Len(digits[m]) >= 1)}
<1>1. Odd = {}
  <2> SUFFICES ASSUME Odd # {} PROVE FALSE
    OBVIOUS
  <2>1. PICK m \in Odd : \A j \in Odd : m <= j
    <3>1. Odd \subseteq Nat
      OBVIOUS
    <3> HIDE DEF Odd
    <3> QED
      BY <3>1, LeastNumber
  <2>2. m \in Nat /\ ~(digits[m] \in Seq(0..9) /\ Len(digits[m]) >= 1)
    OBVIOUS
  <2>3. CASE m < 10
    <3>1. digits[m] = Digit(m) /\ m \in 0..9
      BY <2>2, <2>3, DigitsSpelt DEF Spelt
    <3>2. Digit(m) \in Seq(0..9) /\ Len(Digit(m)) = 1
      BY <3>1, DigitFacts, Zenon
    <3>3. Len(Digit(m)) >= 1
      BY <3>2
    <3> QED
      BY <2>2, <3>1, <3>2, <3>3, Zenon
  <2>4. CASE m >= 10
    <3>1. digits[m] = Append(digits[m \div 10], m % 10)
      <4>1. digits[m] = Spelt(digits, m)
        BY <2>2, DigitsSpelt
      <4>2. ~(m < 10)
        BY <2>2, <2>4
      <4> QED
        BY <4>1, <4>2, Zenon DEF Spelt
    <3>2. m \div 10 \in Nat /\ ~(m <= m \div 10) /\ m % 10 \in 0..9
      BY <2>2, <2>4, DecimalFacts
    <3>3. digits[m \div 10] \in Seq(0..9) /\ Len(digits[m \div 10]) >= 1
      BY <2>1, <3>2
    <3> DEFINE s == digits[m \div 10]
               k == Len(s)
    <3>4. s \in Seq(0..9) /\ k \in Nat /\ k >= 1
      BY <3>3
    <3> HIDE DEF k
    <3>5. Append(s, m % 10) \in Seq(0..9)
      BY <3>2, <3>4, AppendFacts
    <3>6. Len(Append(s, m % 10)) = k + 1
      BY <3>2, <3>4, AppendFacts DEF k
    <3>7. k + 1 >= 1
      BY <3>4
    <3> QED
      BY <2>2, <3>1, <3>5, <3>6, <3>7
  <2> QED
    BY <2>2, <2>3, <2>4
<1> QED
  BY <1>1

LEMMA ConcatType ==
  ASSUME NEW S, NEW s \in Seq(S), NEW t \in Seq(S)
  PROVE  s \o t \in Seq(S) /\ Len(s \o t) = Len(s) + Len(t)
OBVIOUS

LEMMA ConcatLeft ==
  ASSUME NEW S, NEW s \in Seq(S), NEW t \in Seq(S), NEW i \in 1..Len(s)
  PROVE  (s \o t)[i] = s[i]
OBVIOUS

LEMMA ConcatRight ==
  ASSUME NEW S, NEW s \in Seq(S), NEW t \in Seq(S), NEW i \in 1..Len(t)
  PROVE  (s \o t)[Len(s) + i] = t[i]
OBVIOUS

LEMMA DigitFirst ==
  ASSUME NEW d \in Nat, NEW s \in Seq(Nat)
  PROVE  /\ Digit(d) \o s \in Seq(Nat) /\ Len(Digit(d) \o s) = 1 + Len(s)
         /\ (Digit(d) \o s)[1] = d
         /\ \A i \in 1..Len(s) : (Digit(d) \o s)[1 + i] = s[i]
<1> DEFINE g == Digit(d)
           t == g \o s
<1>1. g \in Seq(Nat) /\ Len(g) = 1 /\ g[1] = d /\ 1 \in 1..Len(g)
  BY DigitFacts
<1> HIDE DEF g
<1>2. t \in Seq(Nat) /\ Len(t) = Len(g) + Len(s)
  <2>1. g \in Seq(Nat)
    BY <1>1
  <2> QED
    BY <2>1, ConcatType
<1>3. t[1] = g[1]
  <2>1. g \in Seq(Nat) /\ 1 \in 1..Len(g)
    BY <1>1
  <2> QED
    BY <2>1, ConcatLeft
<1>4. \A i \in 1..Len(s) : t[Len(g) + i] = s[i]
  <2>1. g \in Seq(Nat)
    BY <1>1
  <2> QED
    BY <2>1, ConcatRight
<1> HIDE DEF t
<1>5. Len(t) = 1 + Len(s) /\ t[1] = d
  BY <1>1, <1>2, <1>3, Zenon
<1>6. \A i \in 1..Len(s) : t[1 + i] = s[i]
  BY <1>1, <1>4, Zenon
<1> QED
  BY <1>2, <1>5, <1>6 DEF g, t

\* What a sign in front of a text does to it.
LEMMA SignedFacts ==
  ASSUME NEW n \in Int, NEW s \in Seq(Nat), Len(s) >= 1, s[1] # MinusSign
  PROVE  /\ Signed(n, s) \in Seq(Nat)
         /\ Sign(Signed(n, s)) = IF n < 0 THEN 1 ELSE 0
         /\ Len(Signed(n, s)) = Sign(Signed(n, s)) + Len(s)
         /\ \A i \in 1..Len(s) : Signed(n, s)[Sign(Signed(n, s)) + i] = s[i]
<1> DEFINE k == Len(s)
<1>1. k \in Nat /\ k >= 1
  OBVIOUS
<1>2. CASE n < 0
  <2> DEFINE t == Digit(MinusSign) \o s
  <2>1. Signed(n, s) = t
    BY <1>2 DEF Signed, Digit
  <2>2. MinusSign \in Nat
    BY DEF MinusSign
  <2>3. t \in Seq(Nat) /\ Len(t) = 1 + k /\ t[1] = MinusSign
    BY <2>2, DigitFirst
  <2>4. \A i \in 1..k : t[1 + i] = s[i]
    BY <2>2, DigitFirst
  <2> HIDE DEF t
  <2>5. t # <<>>
    <3> HIDE DEF k
    <3> QED
      BY <1>1, <2>3
  <2>6. Sign(t) = 1
    BY <2>3, <2>5 DEF Sign
  <2>7. Sign(Signed(n, s)) = 1 /\ Signed(n, s) \in Seq(Nat) /\ Len(Signed(n, s)) = 1 + k
    BY <2>1, <2>3, <2>6
  <2>8. \A i \in 1..k : Signed(n, s)[1 + i] = s[i]
    BY <2>1, <2>4
  <2> HIDE DEF k
  <2> QED
    BY <1>2, <2>7, <2>8 DEF k
<1>3. CASE ~(n < 0)
  <2>1. Signed(n, s) = s /\ Sign(s) = 0
    BY <1>3 DEF Signed, Sign
  <2>2. \A i \in 1..k : s[0 + i] = s[i]
    OBVIOUS
  <2>3. Len(s) = 0 + Len(s)
    OBVIOUS
  <2> QED
    BY <1>3, <2>1, <2>2, <2>3
<1> QED
  BY <1>2, <1>3

\* f has the values read from the symbols of s so far, up to symbol k.
ReadAt(f, s, e) == IF e <= Sign(s) THEN 0 ELSE 10 * f[e - 1] + s[e]

ReadsUpTo(f, s, k) == \A e \in 0..k : f[e] = ReadAt(f, s, e)

LEMMA SignFacts == \A s : Sign(s) \in {0, 1}
BY DEF Sign

LEMMA ReadersExist ==
  ASSUME NEW s \in Seq(Nat), NEW k \in 0..Len(s)
  PROVE  \E f : f \in [0..k -> Nat] /\ ReadsUpTo(f, s, k)
<1> DEFINE Good(m) == \E f : f \in [0..m -> Nat] /\ ReadsUpTo(f, s, m)
           Bad == {m \in 0..k : ~Good(m)}
<1>0. Len(s) \in Nat /\ k \in Nat
  OBVIOUS
<1>1. ASSUME NEW m \in 0..k, m = 0 \/ Good(m - 1) PROVE Good(m)
  <2>1. CASE m = 0
    <3> DEFINE h == [e \in 0..m |-> 0]
    <3>1. h \in [0..m -> Nat] /\ \A e \in 0..m : h[e] = 0 /\ e <= Sign(s)
      BY <2>1, SignFacts
    <3>2. ReadsUpTo(h, s, m)
      BY <3>1 DEF ReadsUpTo, ReadAt
    <3> QED
      BY <3>1, <3>2
  <2>2. CASE m # 0
    <3>1. PICK f : f \in [0..(m - 1) -> Nat] /\ ReadsUpTo(f, s, m - 1)
      BY <1>1, <2>2
    <3>2. m - 1 \in 0..(m - 1) /\ m \in 1..Len(s)
      BY <1>0, <2>2
    <3>3. ReadAt(f, s, m) \in Nat
      <4>1. f[m - 1] \in Nat /\ s[m] \in Nat
        BY <3>1, <3>2
      <4> QED
        BY <4>1 DEF ReadAt
    <3> DEFINE h == [e \in 0..m |-> IF e = m THEN ReadAt(f, s, m) ELSE f[e]]
    <3>4. \A e \in 0..m : e # m => e \in 0..(m - 1) /\ h[e] = f[e]
      OBVIOUS
    <3>5. h \in [0..m -> Nat] /\ m \in 0..m /\ h[m] = ReadAt(f, s, m)
      BY <3>1, <3>3, <3>4
    <3> HIDE DEF h
    <3>6. ASSUME NEW e \in 0..m PROVE h[e] = ReadAt(f, s, e)
      BY <3>1, <3>4, <3>5 DEF ReadsUpTo
    <3>7. ASSUME NEW e \in 0..m PROVE ReadAt(f, s, e) = ReadAt(h, s, e)
      <4>1. CASE e <= Sign(s)
        BY <4>1 DEF ReadAt
      <4>2. CASE ~(e <= Sign(s))
        <5>1. e - 1 \in 0..m /\ e - 1 # m
          BY <4>2, SignFacts
        <5>2. h[e - 1] = f[e - 1]
          BY <3>4, <5>1
        <5> QED
          BY <5>2 DEF ReadAt
      <4> QED
        BY <4>1, <4>2
    <3>8. ReadsUpTo(h, s, m)
      BY <3>6, <3>7 DEF ReadsUpTo
    <3> QED
      BY <3>5, <3>8
  <2> QED
    BY <2>1, <2>2
<1>2. Bad = {}
  <2> SUFFICES ASSUME Bad # {} PROVE FALSE
    OBVIOUS
  <2>1. PICK m \in Bad : \A j \in Bad : m <= j
    <3>1. Bad \subseteq Nat
      OBVIOUS
    <3> HIDE DEF Bad
    <3> QED
      BY <3>1, LeastNumber
  <2>2. m \in 0..k /\ ~Good(m)
    OBVIOUS
  <2>3. m = 0 \/ (m - 1 \in 0..k /\ ~(m <= m - 1))
    BY <2>2
  <2>4. m = 0 \/ Good(m - 1)
    BY <2>1, <2>3
  <2> HIDE DEF Good
  <2> QED
    BY <1>1, <2>2, <2>4
<1> HIDE DEF Good
<1>3. Good(k)
  BY <1>0, <1>2
<1> QED
  BY <1>3 DEF Good

Reader(s) == CHOOSE f : f = [e \in 0..Len(s) |-> ReadAt(f, s, e)]

LEMMA ReaderReads ==
  ASSUME NEW s \in Seq(Nat)
  PROVE  ReadsUpTo(Reader(s), s, Len(s))
<1>1. PICK f : f \in [0..Len(s) -> Nat] /\ ReadsUpTo(f, s, Len(s))
  BY ReadersExist
<1>2. f = [e \in 0..Len(s) |-> ReadAt(f, s, e)]
  BY <1>1 DEF ReadsUpTo
<1>3. Reader(s) = [e \in 0..Len(s) |-> ReadAt(Reader(s), s, e)]
  BY <1>2 DEF Reader
<1>4. \A e \in 0..Len(s) : Reader(s)[e] = ReadAt(Reader(s), s, e)
  BY <1>3
<1> QED
  BY <1>4 DEF ReadsUpTo

LEMMA ReaderNatural ==
  ASSUME NEW s \in Seq(Nat), NEW e \in 0..Len(s)
  PROVE  Reader(s)[e] \in Nat
<1> DEFINE f == Reader(s)
           Odd == {m \in 0..Len(s) : f[m] \notin Nat}
<1>1. Odd = {}
  <2> SUFFICES ASSUME Odd # {} PROVE FALSE
    OBVIOUS
  <2>1. PICK m \in Odd : \A j \in Odd : m <= j
    <3>1. Odd \subseteq Nat
      OBVIOUS
    <3> HIDE DEF Odd
    <3> QED
      BY <3>1, LeastNumber
  <2>2. m \in 0..Len(s) /\ f[m] \notin Nat /\ Len(s) \in Nat
    OBVIOUS
  <2>3. f[m] = ReadAt(f, s, m)
    BY <2>2, ReaderReads DEF ReadsUpTo
  <2> HIDE DEF f
  <2>4. ~(m <= Sign(s)) /\ f[m] = 10 * f[m - 1] + s[m]
    BY <2>2, <2>3 DEF ReadAt
  <2>5. m - 1 \in 0..Len(s) /\ ~(m <= m - 1) /\ m \in 1..Len(s)
    BY <2>2, <2>4, SignFacts
  <2>6. f[m - 1] \in Nat /\ s[m] \in Nat
    BY <2>1, <2>5
  <2> QED
    BY <2>2, <2>4, <2>6
<1> QED
  BY <1>1

\* Reading the digits of a number gives the number.
LEMMA DigitsRead ==
  ASSUME NEW s \in Seq(Nat), NEW n \in Nat, Sign(s) + Len(digits[n]) <= Len(s),
         \A i \in 1..Len(digits[n]) : s[Sign(s) + i] = digits[n][i]
  PROVE  Reader(s)[Sign(s) + Len(digits[n])] = n
<1> DEFINE f == Reader(s)
           p == Sign(s)
           z == Len(s)
           L(m) == Len(digits[m])
           Spans(m) == p + L(m) <= z /\ \A i \in 1..L(m) : s[p + i] = digits[m][i]
           Wrong == {m \in Nat : Spans(m) /\ f[p + L(m)] # m}
<1>0. p \in Nat /\ z \in Nat /\ \A m \in Nat : L(m) \in Nat /\ L(m) >= 1
  <2>1. p \in Nat
    BY SignFacts
  <2>2. ASSUME NEW m \in Nat PROVE L(m) \in Nat /\ L(m) >= 1
    BY DigitsType
  <2> QED
    BY <2>1, <2>2
<1>1. \A e \in 0..z : ~(e <= p) => f[e] = 10 * f[e - 1] + s[e]
  BY ReaderReads DEF ReadsUpTo, ReadAt
<1>2. f[p] = 0 \/ ~(p <= z)
  BY <1>0, ReaderReads DEF ReadsUpTo, ReadAt
<1>3. Wrong = {}
  <2> SUFFICES ASSUME Wrong # {} PROVE FALSE
    OBVIOUS
  <2>1. PICK m \in Wrong : \A j \in Wrong : m <= j
    <3>1. Wrong \subseteq Nat
      OBVIOUS
    <3> HIDE DEF Wrong
    <3> QED
      BY <3>1, LeastNumber
  <2>2. m \in Nat /\ Spans(m) /\ f[p + L(m)] # m
    OBVIOUS
  <2>3. L(m) \in Nat /\ L(m) >= 1 /\ p + L(m) <= z
    BY <1>0, <2>2
  <2>4. p + L(m) \in 0..z /\ ~(p + L(m) <= p) /\ L(m) \in 1..L(m)
    <3> DEFINE k == L(m)
    <3>1. k \in Nat /\ k >= 1 /\ p + k <= z
      BY <2>3
    <3> HIDE DEF p, z, k
    <3>2. p + k \in 0..z /\ ~(p + k <= p) /\ k \in 1..k
      BY <1>0, <3>1
    <3> QED
      BY <3>2 DEF k
  <2>5. /\ f[p + L(m)] = 10 * f[(p + L(m)) - 1] + s[p + L(m)]
        /\ s[p + L(m)] = digits[m][L(m)]
    <3>1. s[p + L(m)] = digits[m][L(m)]
      BY <2>2, <2>4
    <3> HIDE DEF p, z, L, f
    <3> QED
      BY <1>1, <2>4, <3>1
  <2>6. CASE m < 10
    <3>1. digits[m] = Digit(m)
      BY <2>2, <2>6, DigitsSpelt DEF Spelt
    <3>2. L(m) = 1 /\ digits[m][1] = m
      BY <2>2, <3>1, DigitFacts
    <3>3. (p + 1) - 1 = p /\ p <= z
      <4> HIDE DEF p, z, L
      <4> QED
        BY <1>0, <2>3, <3>2
    <3>4. f[p] = 0
      BY <1>2, <3>3
    <3> HIDE DEF p, z, L, f, Spans
    <3> QED
      BY <2>2, <2>5, <3>2, <3>3, <3>4
  <2>7. CASE m >= 10
    <3> DEFINE q == m \div 10
               r == m % 10
    <3>1. q \in Nat /\ r \in 0..9 /\ m = 10 * q + r /\ q < m
      BY <2>2, <2>7, DecimalFacts
    <3>2. digits[m] = Append(digits[q], r)
      <4>1. ~(m < 10)
        BY <2>2, <2>7
      <4>2. digits[m] = Spelt(digits, m)
        BY <2>2, DigitsSpelt
      <4> QED
        BY <4>1, <4>2, Zenon DEF Spelt
    <3> HIDE DEF q, r
    <3>3. L(q) \in Nat /\ digits[q] \in Seq(0..9)
      BY <1>0, <3>1, DigitsType
    <3>4. /\ L(m) = L(q) + 1 /\ digits[m][L(q) + 1] = r
          /\ \A i \in 1..L(q) : digits[m][i] = digits[q][i]
      BY <3>1, <3>2, <3>3, AppendFacts
    <3> HIDE DEF L
    <3>5. \A i \in 1..L(q) : i \in 1..L(m)
      BY <3>3, <3>4
    <3>6. \A i \in 1..L(q) : s[p + i] = digits[q][i]
      BY <2>2, <3>4, <3>5
    <3>7. p + L(q) <= z /\ (p + L(m)) - 1 = p + L(q) /\ ~(m <= q)
      <4> DEFINE k == L(q)
      <4>1. k \in Nat /\ L(m) = k + 1 /\ p + (k + 1) <= z
        BY <2>3, <3>3, <3>4
      <4> HIDE DEF p, z, k
      <4>2. p + k <= z /\ (p + (k + 1)) - 1 = p + k /\ ~(m <= q)
        BY <1>0, <2>2, <3>1, <4>1
      <4> QED
        BY <4>1, <4>2 DEF k
    <3>8. Spans(q)
      BY <3>6, <3>7
    <3>9. f[p + L(q)] = q
      BY <2>1, <3>1, <3>7, <3>8
    <3> HIDE DEF p, z, f, Spans
    <3>10. f[p + L(m)] = 10 * q + r
      BY <2>5, <3>4, <3>7, <3>9
    <3> QED
      BY <2>2, <3>1, <3>10
  <2> QED
    BY <2>2, <2>6, <2>7
<1>4. Spans(n)
  OBVIOUS
<1> QED
  BY <1>3, <1>4

Ends(s, e) ==
  /\ \A i \in (Sign(s) + 1)..e : s[i] \in 0..9
  /\ e = Len(s) \/ s[e + 1] \notin 0..9

LEMMA DigitsEndIs == \A s : DigitsEnd(s) = CHOOSE e \in Sign(s)..Len(s) : Ends(s, e)
BY DEF DigitsEnd, Ends

LEMMA SignFits ==
  ASSUME NEW s \in Seq(Nat)
  PROVE  Sign(s) <= Len(s)
<1>1. s # <<>> => Len(s) >= 1
  OBVIOUS
<1> QED
  BY <1>1 DEF Sign

LEMMA DigitsEndFacts ==
  ASSUME NEW s \in Seq(Nat)
  PROVE  DigitsEnd(s) \in Sign(s)..Len(s)
<1> DEFINE z == Len(s)
           p == Sign(s)
           Stops == {e \in p..z : e = z \/ s[e + 1] \notin 0..9}
<1>1. p \in Nat /\ z \in Nat /\ p <= z
  BY SignFacts, SignFits
<1>2. z \in Stops /\ Stops \subseteq Nat
  <2> HIDE DEF p, z
  <2> QED
    BY <1>1
<1>3. PICK e \in Stops : \A j \in Stops : e <= j
  <2> HIDE DEF Stops
  <2> QED
    BY <1>2, LeastNumber
<1>4. e \in p..z /\ (e = z \/ s[e + 1] \notin 0..9)
  OBVIOUS
<1>5. ASSUME NEW i \in (p + 1)..e PROVE s[i] \in 0..9
  <2>1. i - 1 \in p..z /\ i - 1 # z /\ ~(e <= i - 1) /\ (i - 1) + 1 = i
    <3> HIDE DEF p, z
    <3> QED
      BY <1>1, <1>4
  <2>2. i - 1 \notin Stops
    BY <1>3, <2>1
  <2> HIDE DEF p, z
  <2> QED
    BY <2>1, <2>2
<1>6. Ends(s, e)
  BY <1>4, <1>5 DEF Ends
<1>7. \E d \in p..z : Ends(s, d)
  BY <1>4, <1>6
<1> QED
  BY <1>7, DigitsEndIs

LEMMA StodIs ==
  \A s : Stod(s) = IF Sign(s) = 1 THEN -Reader(s)[DigitsEnd(s)] ELSE Reader(s)[DigitsEnd(s)]
BY DEF Stod, Reader, ReadAt

LEMMA StodType ==
  ASSUME NEW s \in Seq(Nat)
  PROVE  Stod(s) \in Int
<1>1. DigitsEnd(s) \in 0..Len(s)
  BY DigitsEndFacts, SignFacts
<1>2. Reader(s)[DigitsEnd(s)] \in Nat
  BY <1>1, ReaderNatural
<1> QED
  BY <1>2, StodIs

LEMMA AbsFacts ==
  ASSUME NEW n \in Int
  PROVE  Abs(n) \in Nat /\ (n < 0 => Abs(n) = -n) /\ (~(n < 0) => Abs(n) = n)
BY DEF Abs

\* The text of a whole number is read as that number, to its last symbol.
LEMMA NumberReadBack ==
  ASSUME NEW n \in Int
  PROVE  LET t == Signed(n, digits[Abs(n)])
         IN  /\ t \in Seq(Nat) /\ Len(t) \in Nat \ {0} /\ t[Len(t)] \in 0..9
             /\ Stod(t) = n
<1> DEFINE s == digits[Abs(n)]
           t == Signed(n, s)
           p == Sign(t)
           k == Len(s)
           z == Len(t)
<1>1. Abs(n) \in Nat
  BY AbsFacts
<1>2. s \in Seq(0..9) /\ k >= 1
  BY <1>1, DigitsType
<1>3. s \in Seq(Nat) /\ k \in Nat /\ \A i \in 1..k : s[i] \in 0..9
  BY <1>2
<1>4. s[1] \in 0..9 /\ s[1] # MinusSign
  <2>1. 1 \in 1..k
    <3> HIDE DEF k
    <3> QED
      BY <1>2, <1>3
  <2>2. s[1] \in 0..9
    BY <1>3, <2>1
  <2> QED
    BY <2>2 DEF MinusSign
<1>5. t \in Seq(Nat) /\ p = IF n < 0 THEN 1 ELSE 0
  <2> HIDE DEF s
  <2> QED
    BY <1>2, <1>3, <1>4, SignedFacts
<1>6. z = p + k /\ \A i \in 1..k : t[p + i] = s[i]
  <2> HIDE DEF s
  <2> QED
    BY <1>2, <1>3, <1>4, SignedFacts
<1>7. p \in Nat
  BY SignFacts
<1>8. \A i \in (p + 1)..z : t[i] \in 0..9
  <2> SUFFICES ASSUME NEW i \in (p + 1)..z PROVE t[i] \in 0..9
    OBVIOUS
  <2>1. i - p \in 1..k /\ p + (i - p) = i
    <3> HIDE DEF p, k, z
    <3> QED
      BY <1>3, <1>6, <1>7
  <2>2. t[p + (i - p)] = s[i - p]
    BY <1>6, <2>1
  <2> HIDE DEF s, t, p, k, z
  <2> QED
    BY <1>3, <2>1, <2>2
<1>9. DigitsEnd(t) = z
  <2>1. z \in p..z /\ \A e \in p..z : e = z \/ e + 1 \in (p + 1)..z
    <3> HIDE DEF p, k, z
    <3> QED
      BY <1>3, <1>6, <1>7
  <2>2. Ends(t, z)
    BY <1>8 DEF Ends
  <2>3. \A e \in p..z : Ends(t, e) => e = z
    BY <1>8, <2>1 DEF Ends
  <2>4. DigitsEnd(t) = CHOOSE e \in p..z : Ends(t, e)
    BY DigitsEndIs
  <2> HIDE DEF t, z, p
  <2> QED
    BY <2>1, <2>2, <2>3, <2>4
<1>10. Reader(t)[p + k] = Abs(n)
  <2>1. p + k <= z
    <3> HIDE DEF p, k, z
    <3> QED
      BY <1>3, <1>6, <1>7
  <2> HIDE DEF t
  <2> QED
    BY <1>1, <1>5, <1>6, <2>1, DigitsRead
<1>11. Reader(t)[DigitsEnd(t)] = Abs(n)
  <2> HIDE DEF s, t, p, k, z
  <2> QED
    BY <1>6, <1>9, <1>10
<1>12. Stod(t) = n
  <2>1. Stod(t) = IF p = 1 THEN -Abs(n) ELSE Abs(n)
    <3> HIDE DEF t
    <3> QED
      BY <1>11, StodIs
  <2> HIDE DEF t, p
  <2> QED
    BY <1>5, <2>1, AbsFacts
<1>13. z \in Nat \ {0} /\ t[z] \in 0..9
  <2>1. z \in Nat /\ z >= 1 /\ z \in (p + 1)..z
    <3>1. k >= 1
      BY <1>2
    <3> HIDE DEF p, k, z
    <3> QED
      BY <1>3, <1>6, <1>7, <3>1
  <2> HIDE DEF z
  <2> QED
    BY <1>8, <2>1
<1> QED
  BY <1>5, <1>12, <1>13

-----------------------------------------------------------------------------
(* Variant: what six digits lose.                                          *)

Nearest(a, u) ==
  LET down == a \div u
      remains == 2 * (a % u)
      up   == remains > u \/ (remains = u /\ down % 2 = 1)
  IN  (down + (IF up THEN 1 ELSE 0)) * u

\* The nearest multiple, from the quotient and the remainder.
LEMMA NearestFacts ==
  ASSUME NEW a \in Nat, NEW u \in {10, 100}
  PROVE  /\ Nearest(a, u) \in Nat
         /\ Nearest(a, u) - a <= u \div 2 /\ a - Nearest(a, u) <= u \div 2
         /\ a >= 1000000 => Nearest(a, u) >= 1000000
<1> DEFINE q == a \div u
           r == a % u
           up == 2 * r > u \/ (2 * r = u /\ q % 2 = 1)
           c == IF up THEN 1 ELSE 0
           w == (q + c) * u
<1>1. Nearest(a, u) = w
  BY DEF Nearest
<1>2. q \in Int /\ q >= 0 /\ r \in 0..(u - 1)
  <2>1. CASE u = 10
    BY <2>1
  <2>2. CASE u = 100
    BY <2>2
  <2> QED
    BY <2>1, <2>2
<1>3. a = (q * u) + r
  <2>1. CASE u = 10
    BY <2>1
  <2>2. CASE u = 100
    BY <2>2
  <2> QED
    BY <2>1, <2>2
<1>4. c \in {0, 1} /\ (c = 1 => 2 * r >= u) /\ (c = 0 => 2 * r <= u)
  <2>1. up \in BOOLEAN
    OBVIOUS
  <2> HIDE DEF q
  <2>2. CASE up
    <3>1. 2 * r >= u
      <4> HIDE DEF r
      <4> QED
        BY <1>2, <2>2
    <3> HIDE DEF r, up
    <3> QED
      BY <2>2, <3>1
  <2>3. CASE ~up
    <3>1. 2 * r <= u
      <4> HIDE DEF r
      <4> QED
        BY <1>2, <2>3
    <3> HIDE DEF r, up
    <3> QED
      BY <2>3, <3>1
  <2> QED
    BY <2>2, <2>3
<1> HIDE DEF q, r, c
<1>5. CASE u = 10
  <2>1. w = (q * 10) + (c * 10)
    BY <1>2, <1>4, <1>5
  <2>2. a = (q * 10) + r /\ r \in 0..9 /\ u \div 2 = 5
    BY <1>2, <1>3, <1>5
  <2> HIDE DEF w
  <2>3. w \in Nat /\ w - a <= 5 /\ a - w <= 5
    BY <1>2, <1>4, <1>5, <2>1, <2>2
  <2>4. a >= 1000000 => w >= 1000000
    <3>1. a >= 1000000 => q >= 100000
      BY <1>2, <2>2
    <3> QED
      BY <1>2, <1>4, <2>1, <3>1
  <2> QED
    BY <1>1, <1>5, <2>2, <2>3, <2>4
<1>6. CASE u = 100
  <2>1. w = (q * 100) + (c * 100)
    BY <1>2, <1>4, <1>6
  <2>2. a = (q * 100) + r /\ r \in 0..99 /\ u \div 2 = 50
    BY <1>2, <1>3, <1>6
  <2> HIDE DEF w
  <2>3. w \in Nat /\ w - a <= 50 /\ a - w <= 50
    BY <1>2, <1>4, <1>6, <2>1, <2>2
  <2>4. a >= 1000000 => w >= 1000000
    <3>1. a >= 1000000 => q >= 10000
      BY <1>2, <2>2
    <3> QED
      BY <1>2, <1>4, <2>1, <3>1
  <2> QED
    BY <1>1, <1>6, <2>2, <2>3, <2>4
<1> QED
  BY <1>5, <1>6

LEMMA NearestOne ==
  ASSUME NEW a \in Nat
  PROVE  Nearest(a, 1) = a
<1>1. a \div 1 = a /\ a % 1 = 0
  OBVIOUS
<1>2. ~(2 * (a % 1) > 1 \/ (2 * (a % 1) = 1 /\ (a \div 1) % 2 = 1))
  BY <1>1
<1> QED
  BY <1>1, <1>2 DEF Nearest

LEMMA RoundedIs ==
  \A n : Rounded(n) = IF n < 0 THEN -Nearest(Abs(n), Unit(n)) ELSE Nearest(Abs(n), Unit(n))
BY DEF Rounded, Nearest

Lost(v) == IF v.type = "int" \/ Unit(v.number) = 1 THEN 0 ELSE Unit(v.number) \div 2

\* A stream prints n to the last digit, or with an exponent.
Short(n) == Abs(n) < 1000000
Long(n)  == Abs(Rounded(n)) >= 1000000

LEMMA RoundedFacts ==
  ASSUME NEW n \in Int
  PROVE  /\ Rounded(n) \in Int
         /\ Short(n) => Rounded(n) = n /\ Unit(n) = 1 /\ ~Long(n)
         /\ ~Short(n) =>
              /\ Long(n) /\ Abs(Rounded(n)) \in Nat /\ Abs(Rounded(n)) > 11
              /\ Rounded(n) = IF n < 0 THEN -Abs(Rounded(n)) ELSE Abs(Rounded(n))
              /\ Unit(n) \in {10, 100}
              /\ Abs(Rounded(n) - n) <= Unit(n) \div 2
<1> DEFINE a == Abs(n)
           u == Unit(n)
           r == Nearest(a, u)
<1>1. a \in Nat /\ (n < 0 => a = -n) /\ (~(n < 0) => a = n)
  BY AbsFacts
<1>2. Rounded(n) = IF n < 0 THEN -r ELSE r
  BY RoundedIs
<1>3. /\ a < 1000000 => u = 1
      /\ ~(a < 1000000) /\ a < 10000000 => u = 10
      /\ ~(a < 10000000) => u = 100
  <2>1. u = IF a < 1000000 THEN 1 ELSE IF a < 10000000 THEN 10 ELSE 100
    BY DEF Unit
  <2> HIDE DEF a, u
  <2> QED
    BY <1>1, <2>1
<1> HIDE DEF a, u
<1>4. CASE a < 1000000
  <2>1. r = a
    BY <1>1, <1>3, <1>4, NearestOne
  <2>2. Rounded(n) = n
    BY <1>1, <1>2, <2>1
  <2>3. Short(n)
    BY SMT, <1>4 DEF a, Short
  <2>4. ~Long(n)
    BY SMT, <1>1, <1>4, <2>2 DEF a, Long
  <2>5. Rounded(n) \in Int /\ Unit(n) = 1
    BY <1>3, <1>4, <2>2 DEF u
  <2> QED
    BY SMT, <2>2, <2>3, <2>4, <2>5
<1>5. CASE ~(a < 1000000)
  <2>1. u \in {10, 100}
    BY <1>1, <1>3, <1>5
  <2>2. r \in Nat /\ r - a <= u \div 2 /\ a - r <= u \div 2
    BY <1>1, <2>1, NearestFacts
  <2>3. r >= 1000000
    <3>1. a >= 1000000
      BY <1>1, <1>5
    <3> QED
      BY <1>1, <2>1, <3>1, NearestFacts
  <2> HIDE DEF r
  <2>4. Rounded(n) \in Int /\ Abs(Rounded(n)) = r
    BY <1>2, <2>2, <2>3, AbsFacts DEF Abs
  <2>5. Rounded(n) = IF n < 0 THEN -Abs(Rounded(n)) ELSE Abs(Rounded(n))
    BY <1>2, <2>4
  <2>6. Abs(Rounded(n) - n) <= u \div 2
    <3> DEFINE h == u \div 2
    <3>1. h \in Int /\ r - a <= h /\ a - r <= h
      BY <2>1, <2>2
    <3> HIDE DEF h
    <3>2. Rounded(n) - n <= h /\ n - Rounded(n) <= h
      BY <1>1, <1>2, <2>2, <3>1
    <3>3. Abs(Rounded(n) - n) <= h
      BY <2>4, <3>1, <3>2 DEF Abs
    <3> QED
      BY <3>3 DEF h
  <2> QED
    <3>1. ~Short(n)
      BY SMT, <1>5 DEF a, Short
    <3>2. Long(n)
      BY SMT, <2>3, <2>4 DEF Long
    <3>3. Abs(Rounded(n)) \in Nat /\ Abs(Rounded(n)) > 11
      BY SMT, <2>2, <2>3, <2>4
    <3>4. Unit(n) \in {10, 100} /\ Abs(Rounded(n) - n) <= Unit(n) \div 2
      BY <2>1, <2>6 DEF u
    <3> QED
      BY SMT, <2>4, <2>5, <3>1, <3>2, <3>3, <3>4
<1> QED
  BY <1>4, <1>5

-----------------------------------------------------------------------------
(* Variant: the printed form decides what a value is worth as a double.    *)

LEMMA ValueFacts ==
  ASSUME NEW v \in Values
  PROVE  v.type \in Types /\ v.number \in Int /\ v.text \in Seq(0..11)
BY DEF Values

LEMMA DoubleIsValue ==
  ASSUME NEW n \in Int
  PROVE  Num("double", n) \in Values /\ Num("double", n).number = n
BY DEF Values, Num, Types

LEMMA TextIsValue ==
  ASSUME NEW s \in Seq(0..11)
  PROVE  Str(s) \in Values
BY DEF Values, Str, Types

LEMMA TextIsNatural ==
  ASSUME NEW s \in Seq(0..11)
  PROVE  s \in Seq(Nat)
OBVIOUS

\* What a text is worth; a number is the last symbol only of a text that
\* was printed with an exponent.
Exponent(t) == Len(t) > 0 /\ t[Len(t)] > 11

Worth(t) ==
  IF ~Exponent(t) THEN Stod(t) ELSE IF Sign(t) = 1 THEN -t[Len(t)] ELSE t[Len(t)]

LEMMA TextWorth ==
  ASSUME NEW t \in Seq(0..11)
  PROVE  Worth(t) = Stod(t)
<1>1. Len(t) > 0 => t[Len(t)] \in 0..11
  OBVIOUS
<1>2. ~Exponent(t)
  BY <1>1 DEF Exponent
<1> QED
  BY <1>2 DEF Worth

LEMMA PlainWorth ==
  ASSUME NEW n \in Int
  PROVE  Worth(Signed(n, digits[Abs(n)])) = n
<1> DEFINE t == Signed(n, digits[Abs(n)])
<1>1. t[Len(t)] \in 0..9 /\ Stod(t) = n
  BY NumberReadBack
<1> HIDE DEF t
<1>2. ~Exponent(t)
  BY <1>1 DEF Exponent
<1>3. Worth(t) = n
  BY <1>1, <1>2 DEF Worth
<1> QED
  BY <1>3 DEF t

LEMMA ExponentWorth ==
  ASSUME NEW n \in Int, NEW r \in Nat, r > 11
  PROVE  Worth(Signed(n, Digit(r))) = IF n < 0 THEN -r ELSE r
<1> DEFINE s == Digit(r)
           t == Signed(n, s)
           p == Sign(t)
<1>1. s \in Seq(Nat) /\ Len(s) >= 1 /\ Len(s) = 1 /\ s[1] = r /\ s[1] # MinusSign
  BY DigitFacts DEF MinusSign
<1> HIDE DEF s
<1>2. /\ p = (IF n < 0 THEN 1 ELSE 0) /\ Len(t) = p + Len(s)
      /\ \A i \in 1..Len(s) : t[p + i] = s[i]
  BY <1>1, SignedFacts
<1> HIDE DEF t, p
<1>3. Len(t) = p + 1 /\ t[p + 1] = r
  <2>1. 1 \in 1..Len(s)
    BY <1>1
  <2>2. t[p + 1] = s[1]
    BY <1>2, <2>1
  <2> QED
    BY <1>1, <1>2, <2>2, Zenon
<1>4. p \in {0, 1}
  BY <1>2
<1>5. t[Len(t)] = r /\ Len(t) > 0
  <2> DEFINE z == Len(t)
  <2> HIDE DEF z
  <2>1. z = p + 1
    BY <1>3 DEF z
  <2>2. z > 0 /\ t[z] = r
    BY <1>3, <1>4, <2>1
  <2> QED
    BY <2>2 DEF z
<1>6. Exponent(t)
  BY <1>5 DEF Exponent
<1>7. Worth(t) = IF Sign(t) = 1 THEN -r ELSE r
  BY <1>5, <1>6 DEF Worth
<1>8. Worth(t) = IF n < 0 THEN -r ELSE r
  BY <1>2, <1>7 DEF p
<1> QED
  BY <1>8 DEF t, s

LEMMA ToStringIs ==
  \A v : toString(v) =
           IF isString(v.type) THEN v.text
           ELSE IF v.type \in {"float", "double"} /\ Long(v.number)
           THEN Signed(v.number, Digit(Abs(Rounded(v.number))))
           ELSE Signed(v.number, digits[Abs(v.number)])
BY SMT DEF toString, Long, Digit

\* The double that a number or a string becomes is in its printed form.
LEMMA DoubleIsWorth ==
  ASSUME NEW v \in Values, isNumeric(v.type) \/ isString(v.type)
  PROVE  toDouble(v) = Worth(toString(v))
<1> DEFINE n == v.number
           R == Abs(Rounded(n))
           plain == Signed(n, digits[Abs(n)])
<1>0. n \in Int /\ v.text \in Seq(0..11)
  BY ValueFacts
<1>1. Rounded(n) \in Int /\ R \in Nat
  BY <1>0, RoundedFacts, AbsFacts
<1>2. CASE v.type = "string"
  <2>1. toDouble(v) = Stod(v.text) /\ toString(v) = v.text
    BY <1>2, ToStringIs DEF toDouble, isString
  <2> QED
    BY <1>0, <2>1, TextWorth
<1>3. CASE v.type = "int"
  <2>1. toDouble(v) = n /\ toString(v) = plain
    BY <1>3, ToStringIs DEF toDouble, isString
  <2>2. Worth(plain) = n
    BY <1>0, PlainWorth
  <2> HIDE DEF plain, n
  <2> QED
    BY <2>1, <2>2
<1>4. CASE v.type \in {"float", "double"} /\ ~Long(n)
  <2>1. toDouble(v) = Rounded(n) /\ toString(v) = plain
    BY <1>4, ToStringIs DEF toDouble, isString
  <2>2. Rounded(n) = n
    BY <1>0, <1>4, RoundedFacts
  <2>3. Worth(plain) = n
    BY <1>0, PlainWorth
  <2> HIDE DEF plain, n
  <2> QED
    BY <2>1, <2>2, <2>3
<1>5. CASE v.type \in {"float", "double"} /\ Long(n)
  <2>1. toDouble(v) = Rounded(n) /\ toString(v) = Signed(n, Digit(R))
    BY <1>5, ToStringIs DEF toDouble, isString
  <2>2. ~Short(n)
    BY <1>0, <1>5, RoundedFacts
  <2>3. Rounded(n) = IF n < 0 THEN -R ELSE R
    BY <1>0, <2>2, RoundedFacts
  <2>4. R > 11
    BY <1>0, <2>2, RoundedFacts
  <2> HIDE DEF n, R
  <2>5. Worth(Signed(n, Digit(R))) = IF n < 0 THEN -R ELSE R
    BY <1>0, <1>1, <2>4, ExponentWorth
  <2> QED
    BY <2>1, <2>3, <2>5
<1> QED
  BY <1>2, <1>3, <1>4, <1>5 DEF isNumeric, isString

LEMMA DoubleType ==
  ASSUME NEW v \in Values
  PROVE  toDouble(v) \in Int
<1>1. v.number \in Int /\ v.text \in Seq(Nat)
  BY ValueFacts, TextIsNatural
<1>2. Rounded(v.number) \in Int /\ Stod(v.text) \in Int
  BY <1>1, RoundedFacts, StodType
<1> QED
  BY <1>1, <1>2 DEF toDouble

\* Two values that print the same are worth the same.
LEMMA ValuesCompare ==
  ASSUME NEW l \in Values, NEW r \in Values
  PROVE  /\ EqVar(l, r) = EqVar(r, l) /\ NeVar(l, r) = NeVar(r, l)
         /\ NeVar(l, r) \/ EqVar(l, r)
<1>1. (toString(l) = toString(r)) = (toString(r) = toString(l))
  OBVIOUS
<1>2. (toDouble(l) = toDouble(r)) = (toDouble(r) = toDouble(l))
  OBVIOUS
<1>3. EqVar(l, r) = EqVar(r, l)
  <2>1. CASE ToDoubleThrows(l) \/ ToDoubleThrows(r)
    BY <1>1, <2>1, Zenon DEF EqVar
  <2>2. CASE ~(ToDoubleThrows(l) \/ ToDoubleThrows(r))
    BY <1>2, <2>2, Zenon DEF EqVar
  <2> QED
    BY <2>1, <2>2
<1>4. NeVar(l, r) = NeVar(r, l)
  BY DEF NeVar
<1>5. ASSUME toString(l) = toString(r) PROVE EqVar(l, r)
  <2>1. CASE ToDoubleThrows(l) \/ ToDoubleThrows(r)
    BY <1>5, <2>1, Zenon DEF EqVar
  <2>2. CASE ~(ToDoubleThrows(l) \/ ToDoubleThrows(r))
    <3>1. /\ isNumeric(l.type) \/ isString(l.type)
          /\ isNumeric(r.type) \/ isString(r.type)
      BY <2>2, Zenon DEF ToDoubleThrows
    <3>2. toDouble(l) = Worth(toString(l)) /\ toDouble(r) = Worth(toString(r))
      BY <3>1, DoubleIsWorth
    <3>3. toDouble(l) = toDouble(r)
      BY <1>5, <3>2, Zenon
    <3> QED
      BY <2>2, <3>3, Zenon DEF EqVar
  <2> QED
    BY <2>1, <2>2
<1> QED
  BY <1>3, <1>4, <1>5 DEF NeVar

LEMMA SameSign ==
  ASSUME NEW a \in Nat, NEW b \in Nat, a > 11, b > 11, NEW n \in Int, NEW m \in Int,
         (IF n < 0 THEN -a ELSE a) = (IF m < 0 THEN -b ELSE b)
  PROVE  n < 0 <=> m < 0
OBVIOUS

\* Two values that are worth the same print the same, but for a string and
\* for an int beside a number that is not printed to the last digit.
LEMMA ContradictionsAreMixed ==
  ASSUME NEW l \in Values, NEW r \in Values, EqVar(l, r), NeVar(l, r)
  PROVE  \/ isString(l.type) \/ isString(r.type)
         \/ l.type = "int" /\ PrintedShort(r)
         \/ PrintedShort(l) /\ r.type = "int"
<1> DEFINE n == l.number
           m == r.number
           fl == {"float", "double"}
<1>1. ~ToDoubleThrows(l) /\ ~ToDoubleThrows(r) /\ toDouble(l) = toDouble(r) /\ toString(l) # toString(r)
  <2>1. toString(l) # toString(r)
    BY DEF NeVar
  <2>2. ~(ToDoubleThrows(l) \/ ToDoubleThrows(r))
    BY <2>1, Zenon DEF EqVar
  <2>3. toDouble(l) = toDouble(r)
    BY <2>2, Zenon DEF EqVar
  <2> QED
    BY <2>1, <2>2, <2>3
<1>2. n \in Int /\ m \in Int
  BY ValueFacts
<1> SUFFICES ASSUME ~isString(l.type), ~isString(r.type)
             PROVE  \/ l.type = "int" /\ PrintedShort(r)
                    \/ PrintedShort(l) /\ r.type = "int"
  OBVIOUS
<1>3. isNumeric(l.type) /\ isNumeric(r.type)
  BY <1>1, Zenon DEF ToDoubleThrows
<1>4. ASSUME NEW v \in Values, isNumeric(v.type)
      PROVE  /\ v.type = "int" =>
                  toDouble(v) = v.number /\ toString(v) = Signed(v.number, digits[Abs(v.number)])
             /\ v.type \in fl => toDouble(v) = Rounded(v.number)
             /\ (v.type \in fl /\ ~Long(v.number)) => toString(v) = Signed(v.number, digits[Abs(v.number)])
             /\ (v.type \in fl /\ Long(v.number)) =>
                  toString(v) = Signed(v.number, Digit(Abs(Rounded(v.number))))
  <2>1. v.type = "int" => toDouble(v) = v.number /\ toString(v) = Signed(v.number, digits[Abs(v.number)])
    BY ToStringIs DEF toDouble, isString
  <2>2. v.type \in fl => toDouble(v) = Rounded(v.number)
    BY DEF toDouble, isString
  <2>3. (v.type \in fl /\ ~Long(v.number)) => toString(v) = Signed(v.number, digits[Abs(v.number)])
    BY ToStringIs DEF isString
  <2>4. (v.type \in fl /\ Long(v.number)) => toString(v) = Signed(v.number, Digit(Abs(Rounded(v.number))))
    BY ToStringIs DEF isString
  <2> QED
    BY <2>1, <2>2, <2>3, <2>4
<1>5. (l.type = "int" \/ l.type \in fl) /\ (r.type = "int" \/ r.type \in fl)
  BY <1>3 DEF isNumeric
<1>6. \A k \in Int : /\ Rounded(k) \in Int
                     /\ ~Long(k) => Rounded(k) = k
                     /\ Long(k) => /\ Unit(k) > 1 /\ Abs(Rounded(k)) > 11 /\ Abs(Rounded(k)) \in Nat
                                   /\ Rounded(k) = IF k < 0 THEN -Abs(Rounded(k)) ELSE Abs(Rounded(k))
  <2>1. SUFFICES ASSUME NEW k \in Int
                 PROVE  /\ Rounded(k) \in Int
                        /\ ~Long(k) => Rounded(k) = k
                        /\ Long(k) => /\ Unit(k) > 1 /\ Abs(Rounded(k)) > 11 /\ Abs(Rounded(k)) \in Nat
                                      /\ Rounded(k) = IF k < 0 THEN -Abs(Rounded(k)) ELSE Abs(Rounded(k))
    OBVIOUS
  <2>2. CASE Short(k)
    BY <2>2, RoundedFacts
  <2>3. CASE ~Short(k)
    <3>1. Unit(k) > 1
      BY <2>3, RoundedFacts
    <3> QED
      BY <2>3, <3>1, RoundedFacts
  <2> QED
    BY <2>2, <2>3
<1>7. CASE l.type = "int" /\ r.type = "int"
  <2>1. n = m
    BY <1>1, <1>3, <1>4, <1>7
  <2> QED
    BY <1>1, <1>3, <1>4, <1>7, <2>1
<1>8. CASE l.type = "int" /\ r.type \in fl
  <2>1. CASE Long(m)
    BY <1>2, <1>6, <1>8, <2>1 DEF PrintedShort
  <2>2. CASE ~Long(m)
    <3>1. n = m
      BY <1>1, <1>2, <1>3, <1>4, <1>6, <1>8, <2>2
    <3> QED
      BY <1>1, <1>3, <1>4, <1>8, <2>2, <3>1
  <2> QED
    BY <2>1, <2>2
<1>9. CASE l.type \in fl /\ r.type = "int"
  <2>1. CASE Long(n)
    BY <1>2, <1>6, <1>9, <2>1 DEF PrintedShort
  <2>2. CASE ~Long(n)
    <3>1. n = m
      BY <1>1, <1>2, <1>3, <1>4, <1>6, <1>9, <2>2
    <3> QED
      BY <1>1, <1>3, <1>4, <1>9, <2>2, <3>1
  <2> QED
    BY <2>1, <2>2
<1>10. CASE l.type \in fl /\ r.type \in fl
  <2>1. Rounded(n) = Rounded(m)
    BY <1>1, <1>3, <1>4, <1>10
  <2>2. Long(n) <=> Long(m)
    BY <2>1 DEF Long
  <2>3. CASE ~Long(n)
    <3>1. n = m
      BY <1>2, <1>6, <2>1, <2>2, <2>3
    <3> QED
      BY <1>1, <1>3, <1>4, <1>10, <2>2, <2>3, <3>1
  <2>4. CASE Long(n)
    <3> DEFINE a == Abs(Rounded(n))
               b == Abs(Rounded(m))
    <3>1. a = b
      BY <2>1
    <3>2. /\ a \in Nat /\ a > 11 /\ Rounded(n) = (IF n < 0 THEN -a ELSE a)
          /\ b \in Nat /\ b > 11 /\ Rounded(m) = (IF m < 0 THEN -b ELSE b)
      BY <1>2, <1>6, <2>2, <2>4
    <3>3. toString(l) = Signed(n, Digit(a)) /\ toString(r) = Signed(m, Digit(b))
      BY <1>3, <1>4, <1>10, <2>2, <2>4
    <3>4. n < 0 <=> m < 0
      <4>1. (IF n < 0 THEN -a ELSE a) = (IF m < 0 THEN -b ELSE b)
        BY <2>1, <3>2, Zenon
      <4>2. a \in Nat /\ a > 11 /\ b \in Nat /\ b > 11
        BY <3>2
      <4> HIDE DEF a, b, n, m
      <4> QED
        BY <1>2, <4>1, <4>2, SameSign
    <3>5. toString(l) = toString(r)
      BY <3>1, <3>3, <3>4 DEF Signed
    <3> QED
      BY <1>1, <3>5
  <2> QED
    BY <2>3, <2>4
<1> QED
  BY <1>5, <1>7, <1>8, <1>9, <1>10

LEMMA SumIsClose ==
  ASSUME NEW l \in Values, NEW r \in Values, isNumeric(l.type), isNumeric(r.type)
  PROVE  /\ AddVar(l, r).error = ""
         /\ Abs(AddVar(l, r).value.number - (l.number + r.number)) <= Lost(l) + Lost(r)
<1>1. /\ ~ToDoubleThrows(l) /\ ~ToDoubleThrows(r) /\ isCalculated(l.type, r.type)
      /\ ~isString(l.type)
  BY DEF ToDoubleThrows, isCalculated, isBoolean, isString, isNumeric
<1>2. AddVar(l, r) = Gives(Num("double", toDouble(l) + toDouble(r)))
  BY <1>1, Zenon DEF AddVar, TRY_CALC
<1>3. /\ AddVar(l, r).error = ""
      /\ AddVar(l, r).value = Num("double", toDouble(l) + toDouble(r))
  <2>1. \A v : Gives(v).error = "" /\ Gives(v).value = v
    BY DEF Gives
  <2> QED
    BY <1>2, <2>1, Zenon
<1>4. toDouble(l) \in Int /\ toDouble(r) \in Int /\ l.number \in Int /\ r.number \in Int
  BY DoubleType, ValueFacts
<1>5. AddVar(l, r).value.number = toDouble(l) + toDouble(r)
  <2>1. toDouble(l) + toDouble(r) \in Int
    BY <1>4
  <2>2. Num("double", toDouble(l) + toDouble(r)).number = toDouble(l) + toDouble(r)
    BY <2>1, DoubleIsValue
  <2> QED
    BY <1>3, <2>2, Zenon
<1>6. ASSUME NEW v \in Values, isNumeric(v.type)
      PROVE  Lost(v) \in Int /\ Abs(toDouble(v) - v.number) <= Lost(v)
  <2> DEFINE n == v.number
  <2>1. n \in Int
    BY ValueFacts
  <2>2. CASE v.type = "int"
    <3>1. toDouble(v) = n /\ Lost(v) = 0
      BY <2>2 DEF toDouble, Lost, isString
    <3>2. Abs(n - n) <= 0
      BY <2>1 DEF Abs
    <3> QED
      BY <3>1, <3>2
  <2>3. CASE v.type # "int"
    <3>1. toDouble(v) = Rounded(n)
      BY <1>6, <2>3 DEF toDouble, isString, isNumeric
    <3>2. CASE Short(n)
      <4>1. Rounded(n) = n /\ Lost(v) = 0
        BY <2>1, <3>2, RoundedFacts DEF Lost
      <4>2. Abs(n - n) <= 0
        BY <2>1 DEF Abs
      <4> QED
        BY <3>1, <4>1, <4>2
    <3>3. CASE ~Short(n)
      <4>1. Unit(n) \in {10, 100} /\ Abs(Rounded(n) - n) <= Unit(n) \div 2
        BY <2>1, <3>3, RoundedFacts
      <4>2. Lost(v) = Unit(n) \div 2 /\ Lost(v) \in Int
        BY <2>3, <4>1 DEF Lost
      <4> QED
        BY <3>1, <4>1, <4>2
    <3> QED
      BY <3>2, <3>3
  <2> QED
    BY <2>2, <2>3
<1> DEFINE a == toDouble(l)
           b == toDouble(r)
           c == l.number
           d == r.number
           e == Lost(l)
           f == Lost(r)
<1>7. /\ a \in Int /\ b \in Int /\ c \in Int /\ d \in Int /\ e \in Int /\ f \in Int
      /\ Abs(a - c) <= e /\ Abs(b - d) <= f
  BY <1>4, <1>6
<1> HIDE DEF a, b, c, d, e, f
<1>8. Abs((a + b) - (c + d)) <= e + f
  <2>1. a - c <= e /\ c - a <= e /\ b - d <= f /\ d - b <= f
    BY <1>7 DEF Abs
  <2>2. (a + b) - (c + d) <= e + f /\ -((a + b) - (c + d)) <= e + f
    BY <1>7, <2>1
  <2> QED
    BY <1>7, <2>2 DEF Abs
<1> QED
  BY <1>3, <1>5, <1>8 DEF a, b, c, d, e, f

-----------------------------------------------------------------------------
(* Variant: every variable holds a value, whatever a programme computes.   *)

Errors == {"", "incompatible types", "convert failed", "not allow devide by 0"}

LEMMA CalculatedFacts ==
  ASSUME NEW op \in Operators, NEW l \in Values, NEW r \in Values
  PROVE  Calculated(op, l, r).value \in Values /\ Calculated(op, l, r).error \in Errors
<1> DEFINE Fine(result) == result.value \in Values /\ result.error \in Errors
<1>1. Str(<<>>) \in Values
  <2>1. <<>> \in Seq(0..11)
    OBVIOUS
  <2> QED
    BY <2>1, TextIsValue
<1>2. ASSUME NEW what \in Errors PROVE Fine(Error(what))
  BY <1>1 DEF Error
<1>3. ASSUME NEW v \in Values PROVE Fine(Gives(v))
  BY DEF Gives, Errors
<1> DEFINE a == toDouble(l)
           b == toDouble(r)
<1>4. a \in Int /\ b \in Int
  BY DoubleType
<1>5. ASSUME NEW n, isCalculated(l.type, r.type) /\ ~ToDoubleThrows(l) /\ ~ToDoubleThrows(r)
                      => n \in Int
      PROVE  Fine(TRY_CALC(l, r, n))
  <2>1. Fine(Error("incompatible types")) /\ Fine(Error("convert failed"))
    BY <1>2 DEF Errors
  <2>2. n \in Int => Fine(Gives(Num("double", n)))
    BY <1>3, DoubleIsValue
  <2> HIDE DEF Fine
  <2> QED
    BY <1>5, <2>1, <2>2 DEF TRY_CALC
<1>6. Fine(AddVar(l, r))
  <2>1. isString(l.type) /\ isString(r.type) => Fine(Gives(Str(toString(l) \o toString(r))))
    <3> SUFFICES ASSUME isString(l.type), isString(r.type)
                 PROVE  Fine(Gives(Str(toString(l) \o toString(r))))
      OBVIOUS
    <3>1. toString(l) = l.text /\ toString(r) = r.text
      BY ToStringIs
    <3>2. l.text \in Seq(0..11) /\ r.text \in Seq(0..11)
      BY ValueFacts
    <3>3. toString(l) \o toString(r) \in Seq(0..11)
      BY <3>1, <3>2, ConcatType
    <3> HIDE DEF Fine
    <3> QED
      BY <1>3, <3>3, TextIsValue
  <2>2. Fine(TRY_CALC(l, r, a + b))
    <3>1. a + b \in Int
      BY <1>4
    <3> HIDE DEF Fine, a, b
    <3> QED
      BY <1>5, <3>1
  <2> HIDE DEF Fine
  <2> QED
    BY <2>1, <2>2 DEF AddVar
<1>7. Fine(SubVar(l, r))
  <2>1. a - b \in Int
    BY <1>4
  <2> HIDE DEF Fine
  <2> QED
    BY <1>5, <2>1 DEF SubVar
<1>8. Fine(MulVar(l, r))
  <2>1. a * b \in Int
    BY <1>4
  <2> HIDE DEF Fine
  <2> QED
    BY <1>5, <2>1 DEF MulVar
<1>9. Fine(DivVar(l, r))
  <2> DEFINE n == IF b > 0 THEN a \div b ELSE (-a) \div (-b)
  <2>1. Fine(Error("not allow devide by 0"))
    BY <1>2 DEF Errors
  <2>2. b # 0 => n \in Int
    <3> HIDE DEF a, b
    <3>1. ASSUME b > 0 PROVE a \div b \in Int
      BY <1>4, <3>1
    <3>2. ASSUME b < 0 PROVE (-a) \div (-b) \in Int
      <4> DEFINE c == -a
                 d == -b
      <4>1. c \in Int /\ d \in Int /\ d > 0
        BY <1>4, <3>2
      <4> HIDE DEF c, d
      <4>2. c \div d \in Int
        BY <4>1
      <4> QED
        BY <4>2 DEF c, d
    <3> QED
      BY <1>4, <3>1, <3>2
  <2>3. CASE isCalculated(l.type, r.type) /\ ~ToDoubleThrows(r) /\ b = 0
    <3> HIDE DEF Fine
    <3> QED
      BY <2>1, <2>3 DEF DivVar
  <2>4. CASE ~(isCalculated(l.type, r.type) /\ ~ToDoubleThrows(r) /\ b = 0)
    <3>1. DivVar(l, r) = TRY_CALC(l, r, n)
      BY <2>4, Zenon DEF DivVar
    <3>2. isCalculated(l.type, r.type) /\ ~ToDoubleThrows(l) /\ ~ToDoubleThrows(r) => n \in Int
      BY <2>2, <2>4
    <3> HIDE DEF Fine, n
    <3> QED
      BY <1>5, <3>1, <3>2
  <2> QED
    BY <2>3, <2>4
<1> HIDE DEF Fine
<1>10. Fine(Calculated(op, l, r))
  BY <1>6, <1>7, <1>8, <1>9 DEF Calculated, Operators
<1> QED
  BY <1>10 DEF Fine

WellValued ==
  /\ Sound /\ results \in 0..MaxResults /\ thrown \in Errors
  /\ \A n \in Names : Get(n) \in Values

LEMMA ValuedStarts ==
  ASSUME VariantInit
  PROVE  WellValued
<1>1. PICK v \in Literals :
        /\ dispatcher = [n \in Names |-> 1]
        /\ heap = [a \in Addresses |-> IF a = 1 THEN v ELSE Freed]
  BY DEF VariantInit
<1>2. Sound
  BY VariantStarts
<1>3. \A n \in Names : dispatcher[n] = 1 /\ dispatcher[n] \in Addresses
  BY <1>1, <1>2 DEF Sound, Owned
<1>4. \A n \in Names : Get(n) = v
  BY <1>1, <1>3 DEF Get
<1>5. v \in Values /\ MaxResults \in Nat
  BY VariantAssumption
<1>6. thrown = "" /\ results = 0
  BY DEF VariantInit
<1>7. thrown \in Errors
  BY <1>6 DEF Errors
<1>8. results \in 0..MaxResults
  <2>1. 0 \in 0..MaxResults
    BY <1>5
  <2> QED
    BY <1>6, <2>1
<1> QED
  BY <1>2, <1>4, <1>5, <1>7, <1>8 DEF WellValued

LEMMA ValuedSteps ==
  ASSUME WellValued, VariantNext
  PROVE  WellValued'
<1>0. Sound /\ Sound' /\ MaxResults \in Nat /\ \A n \in Names : Get(n) \in Values
  BY VariantSteps, VariantAssumption DEF WellValued
<1>1. CASE Assign
  <2>1. PICK n \in Names, v \in Literals :
          make_shared(n, v) /\ thrown' = "" /\ results' = results
    BY <1>1 DEF Assign
  <2>2. v \in Values /\ Live(v)
    BY VariantAssumption, LiteralsLive
  <2>3. \A m \in Names : Get(m)' \in Values
    BY <1>0, <2>1, <2>2, MakeSharedFacts DEF Sound
  <2> QED
    BY <1>0, <2>1, <2>3 DEF WellValued, Errors
<1>2. CASE Copy
  <2>1. PICK n \in Names, m \in Names :
          /\ dispatcher' = [dispatcher EXCEPT ![n] = dispatcher[m]]
          /\ heap' = Kept(heap, dispatcher') /\ thrown' = "" /\ results' = results
    BY <1>2 DEF Copy
  <2>2. \A k \in Names : Get(k)' \in Values
    BY <1>0, <2>1, CopyFacts DEF Sound
  <2> QED
    BY <1>0, <2>1, <2>2 DEF WellValued, Errors
<1>3. CASE Calculate
  <2>1. PICK n \in Names, l \in Names, r \in Names, op \in Operators :
          LET result == Calculated(op, Get(l), Get(r))
          IN  /\ thrown' = result.error
              /\ IF result.error = ""
                 THEN /\ results < MaxResults /\ results' = results + 1
                      /\ make_shared(n, result.value)
                 ELSE UNCHANGED <<dispatcher, heap, results>>
    BY <1>3 DEF Calculate
  <2> DEFINE result == Calculated(op, Get(l), Get(r))
  <2>2. result.value \in Values /\ result.error \in Errors /\ Live(result.value)
    BY <1>0, CalculatedFacts, ResultsLive
  <2>3. /\ thrown' = result.error
        /\ IF result.error = ""
           THEN results < MaxResults /\ results' = results + 1 /\ make_shared(n, result.value)
           ELSE dispatcher' = dispatcher /\ heap' = heap /\ results' = results
    BY <2>1
  <2> HIDE DEF result
  <2>4. CASE result.error = ""
    <3>1. \A m \in Names : Get(m)' \in Values
      <4>1. make_shared(n, result.value) /\ Owned /\ DOMAIN heap = Addresses
        BY <1>0, <2>3, <2>4 DEF Sound
      <4>2. Get(n)' = result.value /\ \A m \in Names \ {n} : Get(m)' = Get(m)
        BY <2>2, <4>1, MakeSharedFacts
      <4> QED
        BY <1>0, <2>2, <4>2
    <3>2. results' \in 0..MaxResults
      <4>1. results \in 0..MaxResults /\ results < MaxResults /\ results' = results + 1
        BY <2>3, <2>4 DEF WellValued
      <4>2. results + 1 \in 0..MaxResults
        BY <1>0, <4>1
      <4> QED
        BY <4>1, <4>2
    <3> QED
      BY <1>0, <2>2, <2>3, <3>1, <3>2 DEF WellValued
  <2>5. CASE result.error # ""
    <3>1. \A m \in Names : Get(m)' = Get(m)
      BY <2>3, <2>5 DEF Get
    <3> QED
      BY <1>0, <2>2, <2>3, <2>5, <3>1 DEF WellValued
  <2> QED
    BY <2>4, <2>5
<1> QED
  BY <1>1, <1>2, <1>3 DEF VariantNext

LEMMA ValuedStutters ==
  ASSUME WellValued, UNCHANGED variantVars
  PROVE  WellValued'
BY VariantStays DEF WellValued, Get, variantVars

LEMMA ValuedAlways == VariantSpec => []WellValued
<1>1. WellValued /\ [VariantNext]_variantVars => WellValued'
  BY ValuedSteps, ValuedStutters
<1> QED
  BY ValuedStarts, <1>1, PTL DEF VariantSpec

(* However long the programme, a variable holds a value of one of the six  *)
(* types, what no variable holds is freed, and an operator throws one of   *)
(* its three errors or none.                                               *)
THEOREM VariantTypeCorrect == VariantSpec => []VariantTypeOK
<1>1. WellValued => VariantTypeOK
  <2> SUFFICES ASSUME WellValued PROVE VariantTypeOK
    OBVIOUS
  <2>1. \A n \in Names : dispatcher[n] \in Addresses /\ heap[dispatcher[n]] \in Values
    BY DEF WellValued, Sound, Owned, Get
  <2>2. \A a \in Addresses :
          IF \E n \in Names : dispatcher[n] = a THEN heap[a] \in Values ELSE heap[a] = Freed
    BY <2>1 DEF WellValued, Sound, Owned, HeldBy
  <2> QED
    BY <2>1, <2>2 DEF WellValued, VariantTypeOK, Errors
<1> QED
  BY ValuedAlways, <1>1, PTL

(* Whatever the variables hold, two values that are not unequal are equal. *)
(* Some are both, as 1 and "01" are, and then one is a string, or an int   *)
(* beside a number that a stream does not print to the last digit.  The    *)
(* sum of two numbers is off by no more than the digits that a stream does *)
(* not print of the two.                                                   *)
THEOREM ComparisonsAndSumsAgree == VariantSpec => []ConversionsAgree
<1>1. WellValued => ComparisonsAgree
  <2> SUFFICES ASSUME WellValued, NEW n \in Names, NEW m \in Names
               PROVE  LET l == Get(n)
                          r == Get(m)
                      IN  /\ EqVar(l, r) = EqVar(r, l) /\ NeVar(l, r) = NeVar(r, l)
                          /\ NeVar(l, r) \/ EqVar(l, r)
                          /\ Contradictory(l, r) =>
                               \/ isString(l.type) \/ isString(r.type)
                               \/ l.type = "int" /\ PrintedShort(r)
                               \/ PrintedShort(l) /\ r.type = "int"
    BY DEF ComparisonsAgree
  <2>1. Get(n) \in Values /\ Get(m) \in Values
    BY DEF WellValued
  <2> QED
    BY <2>1, ValuesCompare, ContradictionsAreMixed DEF Contradictory
<1>2. WellValued => SumsWithinPrecision
  <2> SUFFICES ASSUME WellValued, NEW n \in Names, NEW m \in Names,
                      isNumeric(Get(n).type), isNumeric(Get(m).type)
               PROVE  /\ AddVar(Get(n), Get(m)).error = ""
                      /\ Abs(AddVar(Get(n), Get(m)).value.number - (Get(n).number + Get(m).number))
                           <= Lost(Get(n)) + Lost(Get(m))
    BY DEF SumsWithinPrecision, Lost
  <2>1. Get(n) \in Values /\ Get(m) \in Values
    BY DEF WellValued
  <2> QED
    BY <2>1, SumIsClose
<1>3. WellValued => ConversionsAgree
  BY <1>1, <1>2 DEF ConversionsAgree
<1> QED
  BY ValuedAlways, <1>3, PTL

-----------------------------------------------------------------------------
(* Slice: what a loop has seen, element by element.                        *)

Size == Len(start)

(* A loop over a slice: it has seen the first elements, as they were, and  *)
(* written no other.                                                       *)
SliceLoop ==
  /\ start \in Seq(Int) /\ slice \in Seq(Int) /\ Len(slice) = Size
  /\ it \in 0..Size /\ last = Size
  /\ visited \in Seq(Int) /\ Len(visited) = it
  /\ \A i \in 1..it : visited[i] = start[i]
  /\ \A i \in it + 1..Size : slice[i] = start[i]

(* A loop over a range: it stands as far from the first number as it has   *)
(* seen numbers.                                                           *)
Climbing(at, seen) ==
  /\ at = range[1] + Len(seen) /\ at <= range[2] + 1
  /\ \A i \in 1..Len(seen) : seen[i] = range[1] + i - 1
Descending(at, seen) ==
  /\ at = range[1] - Len(seen) /\ at >= range[2] - 1
  /\ \A i \in 1..Len(seen) : seen[i] = range[1] - i + 1

Rising == range[2] >= range[1]

RangeLoop ==
  /\ range[1] \in Int /\ range[2] \in Int
  /\ last = RangeEnd(range[1], range[2])
  /\ visited \in Seq(Int) /\ Len(slice) = Len(start)
  /\ Rising => Climbing(it, visited)
  /\ ~Rising => Descending(it, visited)

Looping == (over = "slice" => SliceLoop) /\ (over # "slice" => over = "range" /\ RangeLoop)

LEMMA LoopStarts ==
  ASSUME SliceInit
  PROVE  Looping
<1>1. slice \in Seq(Int) /\ start = slice /\ visited = <<>> /\ over \in {"slice", "range"}
  BY SliceAssumption DEF SliceInit
<1>2. PICK from \in Bounds, to \in Bounds : range = <<from, to>>
  BY DEF SliceInit
<1>3. range[1] \in Int /\ range[2] \in Int
  BY <1>2, SliceAssumption
<1>4. Len(visited) = 0 /\ visited \in Seq(Int) /\ Len(start) \in Nat
  BY <1>1
<1>5. CASE over = "slice"
  <2>1. it = 0 /\ last = Len(start)
    BY <1>1, <1>4, <1>5 DEF SliceInit, BeginOf, EndOf
  <2> QED
    BY <1>1, <1>4, <1>5, <2>1 DEF Looping, SliceLoop, Size
<1>6. CASE over = "range"
  <2>1. it = range[1] /\ last = RangeEnd(range[1], range[2])
    BY <1>6 DEF SliceInit, RangeBegin
  <2>2. (Rising => Climbing(it, visited)) /\ (~Rising => Descending(it, visited))
    BY <1>3, <1>4, <2>1 DEF Rising, Climbing, Descending
  <2>3. RangeLoop
    BY <1>1, <1>3, <1>4, <2>1, <2>2 DEF RangeLoop
  <2> QED
    BY <1>6, <2>3 DEF Looping
<1> QED
  BY <1>1, <1>5, <1>6

LEMMA AppendedFacts ==
  ASSUME NEW s \in Seq(Int), NEW v \in Int
  PROVE  /\ Append(s, v) \in Seq(Int) /\ Len(Append(s, v)) = Len(s) + 1
         /\ \A i \in 1..Len(s) : Append(s, v)[i] = s[i]
         /\ Append(s, v)[Len(s) + 1] = v
OBVIOUS

LEMMA LoopSliceSteps ==
  ASSUME Looping, LoopSlice
  PROVE  Looping'
<1>1. over = "slice" /\ SliceLoop /\ it # last
  BY DEF Looping, LoopSlice
<1>2. /\ it \in 0..Size /\ it < Size /\ Size \in Nat /\ it' = it + 1
      /\ start' = start /\ last' = last /\ over' = over /\ Size' = Size
  BY <1>1 DEF SliceLoop, Size, LoopSlice, PlusPlus
<1>3. visited' = Append(visited, slice[it + 1])
  BY DEF LoopSlice, Deref
<1>4. it + 1 \in 1..Size /\ slice[it + 1] = start[it + 1] /\ slice[it + 1] \in Int
  BY <1>1, <1>2 DEF SliceLoop
<1>5. /\ visited' \in Seq(Int) /\ Len(visited') = it + 1
      /\ \A i \in 1..it : visited'[i] = visited[i]
      /\ visited'[it + 1] = start[it + 1]
  BY <1>1, <1>3, <1>4, AppendedFacts DEF SliceLoop
<1>6. \A i \in 1..(it + 1) : visited'[i] = start[i]
  <2> SUFFICES ASSUME NEW i \in 1..(it + 1) PROVE visited'[i] = start[i]
    OBVIOUS
  <2>1. CASE i = it + 1
    BY <1>5, <2>1
  <2>2. CASE i # it + 1
    <3>1. i \in 1..it
      BY <1>2, <2>2
    <3> QED
      BY <1>1, <1>5, <3>1 DEF SliceLoop
  <2> QED
    BY <2>1, <2>2
<1>7. /\ slice' \in Seq(Int) /\ Len(slice') = Size
      /\ \A i \in it + 2..Size : slice'[i] = start[i]
  <2>1. \A i \in it + 2..Size : slice[i] = start[i]
    BY <1>1, <1>2 DEF SliceLoop
  <2>2. CASE slice' = slice
    BY <1>1, <2>1, <2>2 DEF SliceLoop
  <2>3. CASE \E v \in Stored : slice' = [slice EXCEPT ![it + 1] = v]
    <3>1. PICK v \in Stored : slice' = [slice EXCEPT ![it + 1] = v]
      BY <2>3
    <3>2. v \in Int
      BY SliceAssumption
    <3>3. slice' \in Seq(Int) /\ Len(slice') = Size
      BY <1>1, <1>2, <3>1, <3>2 DEF SliceLoop
    <3>4. \A i \in it + 2..Size : slice'[i] = slice[i]
      BY <1>1, <1>2, <3>1 DEF SliceLoop
    <3> QED
      BY <2>1, <3>3, <3>4
  <2> QED
    BY <2>2, <2>3 DEF LoopSlice
<1>8. SliceLoop'
  <2>1. (it + 1) + 1 = it + 2 /\ it + 1 \in 0..Size
    BY <1>2
  <2>2. start \in Seq(Int) /\ last = Size
    BY <1>1 DEF SliceLoop
  <2> QED
    BY <1>2, <1>5, <1>6, <1>7, <2>1, <2>2 DEF SliceLoop
<1> QED
  BY <1>1, <1>2, <1>8 DEF Looping

LEMMA LoopRangeSteps ==
  ASSUME Looping, LoopRange
  PROVE  Looping'
<1>1. over = "range" /\ RangeLoop /\ it # last
  BY DEF Looping, LoopRange
<1>2. /\ over' = over /\ range' = range /\ last' = last /\ slice' = slice /\ start' = start
      /\ visited' = Append(visited, it)
      /\ it' = RangeNext(it, range[1], range[2])
  BY DEF LoopRange
<1> DEFINE from == range[1]
           to == range[2]
           n == Len(visited)
<1>3. from \in Int /\ to \in Int /\ n \in Nat /\ visited \in Seq(Int)
  BY <1>1 DEF RangeLoop
<1>4. it \in Int
  BY <1>1, <1>3 DEF RangeLoop, Rising, Climbing, Descending
<1>5. /\ visited' \in Seq(Int) /\ Len(visited') = n + 1
      /\ \A i \in 1..n : visited'[i] = visited[i]
      /\ visited'[n + 1] = it
  BY <1>2, <1>3, <1>4, AppendedFacts
<1>6. \A i \in 1..(n + 1) : i \in 1..n \/ i = n + 1
  BY <1>3
<1>7. Rising => Climbing(it', visited')
  <2> SUFFICES ASSUME to >= from PROVE Climbing(it', visited')
    BY DEF Rising
  <2>1. /\ it = from + n /\ it <= to + 1 /\ last = to + 1
        /\ \A i \in 1..n : visited[i] = from + i - 1
    BY <1>1 DEF RangeLoop, RangeEnd, Rising, Climbing
  <2>2. it' = from + (n + 1) /\ it' <= to + 1
    <3>1. it' = it + 1 /\ it # last
      BY <1>1, <1>2 DEF RangeNext
    <3>2. from \in Int /\ to \in Int /\ n \in Nat
      BY <1>3
    <3> HIDE DEF from, to, n
    <3> QED
      BY <2>1, <3>1, <3>2
  <2>3. \A i \in 1..(n + 1) : visited'[i] = from + i - 1
    <3> SUFFICES ASSUME NEW i \in 1..(n + 1) PROVE visited'[i] = from + i - 1
      OBVIOUS
    <3>1. CASE i \in 1..n
      BY <1>5, <2>1, <3>1
    <3>2. CASE i = n + 1
      <4>1. from + n = from + i - 1
        BY <1>3, <3>2
      <4> QED
        BY <1>5, <2>1, <3>2, <4>1
    <3> QED
      BY <1>6, <3>1, <3>2
  <2>4. it' = range[1] + Len(visited')
    BY <1>5, <2>2
  <2>5. \A i \in 1..Len(visited') : visited'[i] = range[1] + i - 1
    BY <1>5, <2>3
  <2> QED
    BY <2>2, <2>4, <2>5 DEF Climbing
<1>8. ~Rising => Descending(it', visited')
  <2> SUFFICES ASSUME ~(to >= from) PROVE Descending(it', visited')
    BY DEF Rising
  <2>1. /\ it = from - n /\ it >= to - 1 /\ last = to - 1
        /\ \A i \in 1..n : visited[i] = from - i + 1
    BY <1>1 DEF RangeLoop, RangeEnd, Rising, Descending
  <2>2. it' = from - (n + 1) /\ it' >= to - 1
    <3>1. it' = it - 1 /\ it # last
      BY <1>1, <1>2 DEF RangeNext
    <3>2. from \in Int /\ to \in Int /\ n \in Nat
      BY <1>3
    <3> HIDE DEF from, to, n
    <3> QED
      BY <2>1, <3>1, <3>2
  <2>3. \A i \in 1..(n + 1) : visited'[i] = from - i + 1
    <3> SUFFICES ASSUME NEW i \in 1..(n + 1) PROVE visited'[i] = from - i + 1
      OBVIOUS
    <3>1. CASE i \in 1..n
      BY <1>5, <2>1, <3>1
    <3>2. CASE i = n + 1
      <4>1. from - n = from - i + 1
        BY <1>3, <3>2
      <4> QED
        BY <1>5, <2>1, <3>2, <4>1
    <3> QED
      BY <1>6, <3>1, <3>2
  <2>4. it' = range[1] - Len(visited')
    BY <1>5, <2>2
  <2>5. \A i \in 1..Len(visited') : visited'[i] = range[1] - i + 1
    BY <1>5, <2>3
  <2> QED
    BY <2>2, <2>4, <2>5 DEF Descending
<1>9. (Rising => Climbing(it, visited))' /\ (~Rising => Descending(it, visited))'
  BY <1>2, <1>7, <1>8 DEF Rising, Climbing, Descending
<1>10. /\ (range[1] \in Int /\ range[2] \in Int)'
       /\ (last = RangeEnd(range[1], range[2]))' /\ (Len(slice) = Len(start))'
  BY <1>1, <1>2 DEF RangeLoop, RangeEnd
<1>11. RangeLoop'
  BY <1>5, <1>9, <1>10 DEF RangeLoop
<1> QED
  BY <1>1, <1>2, <1>11 DEF Looping

LEMMA LoopStutters ==
  ASSUME Looping, UNCHANGED sliceVars
  PROVE  Looping'
BY DEF Looping, SliceLoop, RangeLoop, Rising, Climbing, Descending, Size, sliceVars

LEMMA LoopAlways == SliceInit /\ [][SliceNext]_sliceVars => []Looping
<1>1. Looping /\ [SliceNext]_sliceVars => Looping'
  BY LoopSliceSteps, LoopRangeSteps, LoopStutters DEF SliceNext
<1> QED
  BY LoopStarts, <1>1, PTL DEF SliceSpec

LEMMA Prefix ==
  ASSUME NEW s \in Seq(Int), NEW k \in 0..Len(s), NEW t \in Seq(Int), Len(t) = k,
         \A i \in 1..k : t[i] = s[i]
  PROVE  t = SubSeq(s, 1, k)
<1>1. SubSeq(s, 1, k) \in Seq(Int) /\ Len(SubSeq(s, 1, k)) = k
  OBVIOUS
<1>2. \A i \in 1..k : SubSeq(s, 1, k)[i] = s[i]
  OBVIOUS
<1> QED
  BY <1>1, <1>2

LEMMA LoopingTyped == Looping => SliceTypeOK
<1> SUFFICES ASSUME Looping PROVE SliceTypeOK
  OBVIOUS
<1>1. CASE over = "slice"
  BY <1>1 DEF Looping, SliceLoop, SliceTypeOK, BeginOf, EndOf, Size
<1>2. CASE over # "slice"
  BY <1>2 DEF Looping, RangeLoop, SliceTypeOK
<1> QED
  BY <1>1, <1>2

(* The iterator of a loop over a slice never leaves it.                    *)
THEOREM SliceTypeCorrect == SliceSpec => []SliceTypeOK
BY LoopAlways, LoopingTyped, PTL DEF SliceSpec

(* Whatever the slice, and whatever the loop writes into it, a loop over   *)
(* it sees each element once, in order and as it was, and a loop over a    *)
(* range the numbers between its ends, both included, up or down.          *)
THEOREM LoopsVisitEachOnce == SliceSpec => [](LoopSeesEach /\ RangeIsInclusive)
<1>1. Looping => LoopSeesEach
  <2> SUFFICES ASSUME SliceLoop, over = "slice" PROVE LoopSeesEach
    BY DEF Looping, LoopSeesEach
  <2>1. visited = SubSeq(start, 1, it)
    BY Prefix DEF SliceLoop, Size
  <2> QED
    BY <2>1 DEF SliceLoop, LoopSeesEach, Size
<1>2. Looping => RangeIsInclusive
  <2> SUFFICES ASSUME RangeLoop, it = last PROVE RangeIsInclusive
    BY DEF Looping, RangeIsInclusive
  <2> DEFINE n == Len(visited)
             from == range[1]
             to == range[2]
  <2>1. n \in Nat /\ from \in Int /\ to \in Int
    BY DEF RangeLoop
  <2>2. CASE Rising
    <3>1. it = from + n /\ last = to + 1 /\ \A i \in 1..n : visited[i] = from + i - 1
      BY <2>2 DEF RangeLoop, Rising, Climbing, RangeEnd
    <3>2. n = to - from + 1
      <4>1. from + n = to + 1
        BY <3>1
      <4> HIDE DEF from, to, n
      <4> QED
        BY <2>1, <4>1
    <3>3. to >= from
      BY <2>2 DEF Rising
    <3>4. Len(visited) = (IF range[2] >= range[1] THEN range[2] - range[1] ELSE range[1] - range[2]) + 1
      BY <2>1, <3>2, <3>3
    <3>5. \A i \in 1..Len(visited) :
            visited[i] = IF range[2] >= range[1] THEN range[1] + i - 1 ELSE range[1] - i + 1
      BY <3>1, <3>3
    <3> QED
      BY <3>4, <3>5, Zenon DEF RangeIsInclusive
  <2>3. CASE ~Rising
    <3>1. it = from - n /\ last = to - 1 /\ \A i \in 1..n : visited[i] = from - i + 1
      BY <2>3 DEF RangeLoop, Rising, Descending, RangeEnd
    <3>2. n = from - to + 1
      <4>1. from - n = to - 1
        BY <3>1
      <4> HIDE DEF from, to, n
      <4> QED
        BY <2>1, <4>1
    <3>3. ~(to >= from)
      BY <2>3 DEF Rising
    <3>4. Len(visited) = (IF range[2] >= range[1] THEN range[2] - range[1] ELSE range[1] - range[2]) + 1
      BY <2>1, <3>2, <3>3
    <3>5. \A i \in 1..Len(visited) :
            visited[i] = IF range[2] >= range[1] THEN range[1] + i - 1 ELSE range[1] - i + 1
      BY <3>1, <3>3
    <3> QED
      BY <3>4, <3>5, Zenon DEF RangeIsInclusive
  <2> QED
    BY <2>2, <2>3
<1> QED
  BY LoopAlways, <1>1, <1>2, PTL DEF SliceSpec
-----------------------------------------------------------------------------
(* Slice: the loops over the storage are folds.  The library folds over    *)
(* the set of places, the last one first.                                  *)

\* What holds of 0, and of each number if of the one before, holds up to n.
LEMMA Upwards ==
  ASSUME NEW n \in Nat, NEW S, 0 \in S, \A i \in 1..n : i - 1 \in S => i \in S
  PROVE  0..n \subseteq S
<1> DEFINE Bad == {i \in 0..n : i \notin S}
<1>1. Bad = {}
  <2> SUFFICES ASSUME Bad # {} PROVE FALSE
    OBVIOUS
  <2>0. Bad \subseteq Nat
    OBVIOUS
  <2>1. PICK i \in Bad : \A j \in Bad : i <= j
    <3> HIDE DEF Bad
    <3> QED
      BY <2>0, LeastNumber
  <2>2. i \in 1..n
    BY <2>1
  <2>3. i - 1 \in S
    BY <2>1, <2>2
  <2> QED
    BY <2>1, <2>2, <2>3
<1> QED
  BY <1>1

MaxOf(S) == CHOOSE i \in S : \A j \in S : j <= i

LEMMA MaxOfInterval ==
  ASSUME NEW i \in Nat, i # 0
  PROVE  /\ MaxOf(1..i) = i /\ (1..i) \ {i} = 1..(i - 1) /\ 1..i # {}
<1>1. i \in 1..i /\ \A j \in 1..i : j <= i
  OBVIOUS
<1>2. \A k \in 1..i : (\A j \in 1..i : j <= k) => k = i
  BY <1>1
<1> QED
  BY <1>1, <1>2 DEF MaxOf

\* A fold with the values V, its steps as functions of the place.
Folds(h, n, base, step) ==
  h = [S \in SUBSET (1..n) |-> IF S = {} THEN base ELSE step[MaxOf(S)][h[S \ {MaxOf(S)}]]]

LEMMA MaxOfSets ==
  ASSUME NEW n \in Nat, NEW S, S \subseteq 1..n, S # {}
  PROVE  MaxOf(S) \in S /\ \A j \in S : j <= MaxOf(S)
<1> DEFINE T == {k \in 0..n : (n - k) \in S}
<1>1. PICK i \in S : TRUE
  OBVIOUS
<1>2. n - i \in T
  BY <1>1
<1>3. PICK k \in T : \A m \in T : k <= m
  <2>1. T \subseteq Nat
    OBVIOUS
  <2> HIDE DEF T
  <2> QED
    BY <1>2, <2>1, LeastNumber
<1>4. n - k \in S
  BY <1>3
<1>5. \A j \in S : j <= n - k
  <2> SUFFICES ASSUME NEW j \in S PROVE j <= n - k
    OBVIOUS
  <2>1. n - j \in T /\ j \in 1..n /\ k \in 0..n
    OBVIOUS
  <2>2. k <= n - j
    BY <1>3, <2>1
  <2> HIDE DEF T
  <2> QED
    BY <2>1, <2>2
<1> QED
  BY <1>4, <1>5 DEF MaxOf

LEMMA FoldsExist ==
  ASSUME NEW n \in Nat, NEW V, NEW base \in V, NEW step \in [1..n -> [V -> V]]
  PROVE  \E h : Folds(h, n, base, step) /\ \A S \in SUBSET (1..n) : h[S] \in V
<1> DEFINE Good(k) == \E h : Folds(h, k, base, step) /\ \A S \in SUBSET (1..k) : h[S] \in V
           All == {k \in 0..n : Good(k)}
<1>1. Good(0)
  <2> DEFINE h == [S \in SUBSET (1..0) |-> base]
  <2>1. \A S \in SUBSET (1..0) : S = {}
    OBVIOUS
  <2>2. Folds(h, 0, base, step)
    BY <2>1 DEF Folds
  <2>3. \A S \in SUBSET (1..0) : h[S] \in V
    OBVIOUS
  <2> HIDE DEF h
  <2> QED
    BY <2>2, <2>3
<1>2. ASSUME NEW k \in 1..n, Good(k - 1) PROVE Good(k)
  <2>1. PICK g : Folds(g, k - 1, base, step) /\ \A S \in SUBSET (1..(k - 1)) : g[S] \in V
    BY <1>2
  <2> DEFINE top(S) == IF S = {} THEN base ELSE step[MaxOf(S)][g[S \ {MaxOf(S)}]]
             h == [S \in SUBSET (1..k) |-> top(S)]
  <2>2. \A S \in SUBSET (1..(k - 1)) : g[S] = top(S)
    <3> SUFFICES ASSUME NEW S \in SUBSET (1..(k - 1)) PROVE g[S] = top(S)
      OBVIOUS
    <3>1. g = [R \in SUBSET (1..(k - 1)) |-> top(R)]
      BY <2>1 DEF Folds
    <3> HIDE DEF top
    <3> QED
      BY <3>1, Zenon
  <2>3. \A S \in SUBSET (1..(k - 1)) : S \in SUBSET (1..k) /\ h[S] = g[S]
    <3>1. SUBSET (1..(k - 1)) \subseteq SUBSET (1..k)
      OBVIOUS
    <3>2. \A S \in SUBSET (1..k) : h[S] = top(S)
      OBVIOUS
    <3> HIDE DEF h, top
    <3> QED
      BY <2>2, <3>1, <3>2
  <2>4. \A S \in SUBSET (1..k) : S # {} => MaxOf(S) \in 1..k /\ S \ {MaxOf(S)} \in SUBSET (1..(k - 1))
    <3> SUFFICES ASSUME NEW S \in SUBSET (1..k), S # {}
                 PROVE  MaxOf(S) \in 1..k /\ \A j \in S \ {MaxOf(S)} : j \in 1..(k - 1)
      OBVIOUS
    <3>0. k \in Nat /\ S \subseteq 1..k
      OBVIOUS
    <3>1. MaxOf(S) \in S /\ \A j \in S : j <= MaxOf(S)
      BY <3>0, MaxOfSets
    <3> DEFINE m == MaxOf(S)
    <3>2. m \in 1..k /\ \A j \in S \ {m} : j \in 1..k /\ j <= m /\ j # m
      BY <3>0, <3>1
    <3> HIDE DEF m
    <3>3. m \in 1..k /\ \A j \in S \ {m} : j \in 1..(k - 1)
      BY <3>2
    <3> QED
      BY <3>3 DEF m
  <2>5. \A S \in SUBSET (1..k) : S # {} => h[S \ {MaxOf(S)}] = g[S \ {MaxOf(S)}]
    BY <2>3, <2>4
  <2>6. \A S \in SUBSET (1..k) :
          h[S] = IF S = {} THEN base ELSE step[MaxOf(S)][h[S \ {MaxOf(S)}]]
    <3>1. \A S \in SUBSET (1..k) : h[S] = top(S)
      OBVIOUS
    <3> HIDE DEF h
    <3> QED
      BY <2>5, <3>1
  <2>7. h = [S \in SUBSET (1..k) |-> h[S]]
    OBVIOUS
  <2>8. \A S \in SUBSET (1..k) : h[S] \in V
    <3> SUFFICES ASSUME NEW S \in SUBSET (1..k) PROVE top(S) \in V
      OBVIOUS
    <3>1. CASE S = {}
      BY <3>1
    <3>2. CASE S # {}
      <4>1. MaxOf(S) \in 1..n /\ g[S \ {MaxOf(S)}] \in V
        BY <2>1, <2>4, <3>2
      <4> QED
        BY <3>2, <4>1
    <3> QED
      BY <3>1, <3>2
  <2> HIDE DEF h
  <2>9. Folds(h, k, base, step)
    BY <2>6, <2>7 DEF Folds
  <2> QED
    BY <2>8, <2>9
<1> HIDE DEF Good
<1>3. 0 \in All
  BY <1>1
<1>4. \A k \in 1..n : k - 1 \in All => k \in All
  BY <1>2
<1>5. 0..n \subseteq All
  <2> HIDE DEF All
  <2> QED
    BY <1>3, <1>4, Upwards
<1>6. Good(n)
  BY <1>5
<1> QED
  BY <1>6 DEF Good

\* The fold of every ...
EveryFold(h, s, func) ==
  h = [S \in SUBSET DOMAIN s |->
         IF S = {} THEN TRUE ELSE h[S \ {MaxOf(S)}] /\ func[s[MaxOf(S)]]]

LEMMA EveryFolds ==
  ASSUME NEW s \in Seq(Int), NEW func \in [Int -> BOOLEAN]
  PROVE  \E h : /\ Every(s, func) = h[1..Len(s)] /\ h[1..0] = TRUE
                /\ \A i \in 1..Len(s) : h[1..i] = (h[1..(i - 1)] /\ func[s[i]])
<1> DEFINE n == Len(s)
           g == CHOOSE h : EveryFold(h, s, func)
           step == [i \in 1..n |-> [v \in BOOLEAN |-> v /\ func[s[i]]]]
<1>1. n \in Nat /\ DOMAIN s = 1..n /\ \A i \in 1..n : func[s[i]] \in BOOLEAN
  OBVIOUS
<1> HIDE DEF n
<1>2. Every(s, func) = g[1..n]
  BY <1>1 DEF Every, SeqsExt!FoldLeft, SeqsExt!MapThenFoldSet, SeqsExt!Max, MaxOf, EveryFold
<1>3. step \in [1..n -> [BOOLEAN -> BOOLEAN]]
  BY <1>1
<1>4. PICK h : Folds(h, n, TRUE, step) /\ \A S \in SUBSET (1..n) : h[S] \in BOOLEAN
  <2> HIDE DEF step
  <2> QED
    BY <1>1, <1>3, FoldsExist
<1>5. \A S \in SUBSET (1..n) : S # {} =>
        /\ MaxOf(S) \in 1..n /\ h[S \ {MaxOf(S)}] \in BOOLEAN
        /\ step[MaxOf(S)][h[S \ {MaxOf(S)}]] = (h[S \ {MaxOf(S)}] /\ func[s[MaxOf(S)]])
  BY <1>1, <1>4, MaxOfSets
<1>6. EveryFold(h, s, func)
  <2> HIDE DEF step
  <2> QED
    BY <1>1, <1>4, <1>5 DEF EveryFold, Folds
<1>7. EveryFold(g, s, func)
  BY <1>6
<1> HIDE DEF g, step
<1>8. g[1..0] = TRUE
  BY <1>1, <1>7 DEF EveryFold
<1>9. ASSUME NEW i \in 1..n PROVE g[1..i] = (g[1..(i - 1)] /\ func[s[i]])
  <2>1. 1..i \in SUBSET (1..n) /\ i \in Nat /\ i # 0
    BY <1>1
  <2>2. g[1..i] = (g[(1..i) \ {MaxOf(1..i)}] /\ func[s[MaxOf(1..i)]])
    BY <1>1, <1>7, <2>1, MaxOfInterval DEF EveryFold
  <2> QED
    BY <2>1, <2>2, MaxOfInterval
<1> QED
  BY <1>2, <1>8, <1>9 DEF n

\* ... of map ...
MapFold(h, s, callback) ==
  h = [S \in SUBSET DOMAIN s |->
         IF S = {} THEN <<>> ELSE Append(h[S \ {MaxOf(S)}], callback[s[MaxOf(S)]])]

LEMMA MapFolds ==
  ASSUME NEW s \in Seq(Int), NEW callback \in [Int -> Int]
  PROVE  \E h : /\ Map(s, callback) = h[1..Len(s)] /\ h[1..0] = <<>>
                /\ \A i \in 1..Len(s) : h[1..i] = Append(h[1..(i - 1)], callback[s[i]])
<1> DEFINE n == Len(s)
           g == CHOOSE h : MapFold(h, s, callback)
           step == [i \in 1..n |-> [v \in Seq(Int) |-> Append(v, callback[s[i]])]]
<1>0. n \in Nat /\ DOMAIN s = 1..n /\ \A i \in 1..n : s[i] \in Int
  OBVIOUS
<1>1. n \in Nat /\ DOMAIN s = 1..n /\ \A i \in 1..n : callback[s[i]] \in Int
  BY <1>0
<1> HIDE DEF n
<1>2. Map(s, callback) = g[1..n]
  BY <1>1 DEF Map, SeqsExt!FoldLeft, SeqsExt!MapThenFoldSet, SeqsExt!Max, MaxOf, MapFold
<1>3. step \in [1..n -> [Seq(Int) -> Seq(Int)]]
  BY <1>1
<1>4. PICK h : Folds(h, n, <<>>, step) /\ \A S \in SUBSET (1..n) : h[S] \in Seq(Int)
  <2> HIDE DEF step
  <2>1. <<>> \in Seq(Int)
    OBVIOUS
  <2> QED
    BY <1>1, <1>3, <2>1, FoldsExist
<1>5. \A S \in SUBSET (1..n) : S # {} =>
        /\ MaxOf(S) \in 1..n /\ h[S \ {MaxOf(S)}] \in Seq(Int)
        /\ step[MaxOf(S)][h[S \ {MaxOf(S)}]] = Append(h[S \ {MaxOf(S)}], callback[s[MaxOf(S)]])
  BY <1>1, <1>4, MaxOfSets
<1>6. MapFold(h, s, callback)
  <2> HIDE DEF step
  <2> QED
    BY <1>1, <1>4, <1>5 DEF MapFold, Folds
<1>7. MapFold(g, s, callback)
  BY <1>6
<1> HIDE DEF g, step
<1>8. g[1..0] = <<>>
  BY <1>1, <1>7 DEF MapFold
<1>9. ASSUME NEW i \in 1..n PROVE g[1..i] = Append(g[1..(i - 1)], callback[s[i]])
  <2>1. 1..i \in SUBSET (1..n) /\ i \in Nat /\ i # 0
    BY <1>1
  <2>2. g[1..i] = Append(g[(1..i) \ {MaxOf(1..i)}], callback[s[MaxOf(1..i)]])
    BY <1>1, <1>7, <2>1, MaxOfInterval DEF MapFold
  <2> QED
    BY <2>1, <2>2, MaxOfInterval
<1> QED
  BY <1>2, <1>8, <1>9 DEF n

\* ... of filter ...
FilterFold(h, s, func) ==
  h = [S \in SUBSET DOMAIN s |->
         IF S = {} THEN <<>>
         ELSE IF func[s[MaxOf(S)]] THEN Append(h[S \ {MaxOf(S)}], s[MaxOf(S)])
              ELSE h[S \ {MaxOf(S)}]]

LEMMA FilterFolds ==
  ASSUME NEW s \in Seq(Int), NEW func \in [Int -> BOOLEAN]
  PROVE  \E h : /\ Filter(s, func) = h[1..Len(s)] /\ h[1..0] = <<>>
                /\ \A i \in 1..Len(s) :
                     h[1..i] = IF func[s[i]] THEN Append(h[1..(i - 1)], s[i]) ELSE h[1..(i - 1)]
<1> DEFINE n == Len(s)
           g == CHOOSE h : FilterFold(h, s, func)
           step == [i \in 1..n |-> [v \in Seq(Int) |-> IF func[s[i]] THEN Append(v, s[i]) ELSE v]]
<1>1. n \in Nat /\ DOMAIN s = 1..n /\ \A i \in 1..n : s[i] \in Int
  OBVIOUS
<1> HIDE DEF n
<1>2. Filter(s, func) = g[1..n]
  BY <1>1 DEF Filter, SeqsExt!FoldLeft, SeqsExt!MapThenFoldSet, SeqsExt!Max, MaxOf, FilterFold
<1>3. step \in [1..n -> [Seq(Int) -> Seq(Int)]]
  BY <1>1
<1>4. PICK h : Folds(h, n, <<>>, step) /\ \A S \in SUBSET (1..n) : h[S] \in Seq(Int)
  <2> HIDE DEF step
  <2>1. <<>> \in Seq(Int)
    OBVIOUS
  <2> QED
    BY <1>1, <1>3, <2>1, FoldsExist
<1>5. \A S \in SUBSET (1..n) : S # {} =>
        /\ MaxOf(S) \in 1..n /\ h[S \ {MaxOf(S)}] \in Seq(Int)
        /\ step[MaxOf(S)][h[S \ {MaxOf(S)}]] =
             IF func[s[MaxOf(S)]] THEN Append(h[S \ {MaxOf(S)}], s[MaxOf(S)])
             ELSE h[S \ {MaxOf(S)}]
  BY <1>1, <1>4, MaxOfSets
<1>6. FilterFold(h, s, func)
  <2> HIDE DEF step
  <2> QED
    BY <1>1, <1>4, <1>5 DEF FilterFold, Folds
<1>7. FilterFold(g, s, func)
  BY <1>6
<1> HIDE DEF g, step
<1>8. g[1..0] = <<>>
  BY <1>1, <1>7 DEF FilterFold
<1>9. ASSUME NEW i \in 1..n
      PROVE  g[1..i] = IF func[s[i]] THEN Append(g[1..(i - 1)], s[i]) ELSE g[1..(i - 1)]
  <2>0. 1..i \in SUBSET (1..n) /\ i \in Nat /\ i # 0
    BY <1>1
  <2>1. 1..i \in SUBSET (1..n) /\ i \in Nat /\ i # 0 /\ 1..i # {}
    BY <2>0, MaxOfInterval
  <2>2. g[1..i] = IF func[s[MaxOf(1..i)]] THEN Append(g[(1..i) \ {MaxOf(1..i)}], s[MaxOf(1..i)])
                  ELSE g[(1..i) \ {MaxOf(1..i)}]
    BY <1>1, <1>7, <2>1 DEF FilterFold
  <2>3. MaxOf(1..i) = i /\ (1..i) \ {i} = 1..(i - 1)
    BY <2>1, MaxOfInterval
  <2> QED
    BY <2>2, <2>3, Zenon
<1> QED
  BY <1>2, <1>8, <1>9 DEF n

-----------------------------------------------------------------------------
\* The places that the iterators of a search run over.
Places(s) == [j \in 1..Difference(EndOf(s), BeginOf(s)) |-> PlusN(BeginOf(s), j - 1)]

LEMMA PlacesAre ==
  ASSUME NEW s \in Seq(Int)
  PROVE  Places(s) = [j \in 1..Len(s) |-> j - 1]
BY DEF Places, Difference, EndOf, BeginOf, PlusN

\* ... of find_if, over those places ...
FindFold(h, t, end, s, p) ==
  h = [S \in SUBSET DOMAIN t |->
         IF S = {} THEN end
         ELSE IF h[S \ {MaxOf(S)}] = end /\ p[Deref(s, t[MaxOf(S)])] THEN t[MaxOf(S)]
              ELSE h[S \ {MaxOf(S)}]]

LEMMA FindFolds ==
  ASSUME NEW s \in Seq(Int), NEW p \in [Int -> BOOLEAN]
  PROVE  \E h : /\ FindIf(s, BeginOf(s), EndOf(s), p) = h[1..Len(s)] /\ h[1..0] = Len(s)
                /\ \A i \in 1..Len(s) :
                     h[1..i] = IF h[1..(i - 1)] = Len(s) /\ p[s[i]] THEN i - 1 ELSE h[1..(i - 1)]
<1> DEFINE n == Len(s)
           t == [j \in 1..n |-> j - 1]
           g == CHOOSE h : FindFold(h, t, n, s, p)
<1>1. n \in Nat
  OBVIOUS
<1>2. FindIf(s, BeginOf(s), EndOf(s), p) = g[DOMAIN t]
  <2>1. EndOf(s) = n /\ Places(s) = t
    BY PlacesAre DEF EndOf, BeginOf
  <2> HIDE DEF n, t
  <2>2. FindIf(s, BeginOf(s), EndOf(s), p)
          = (CHOOSE h : FindFold(h, Places(s), EndOf(s), s, p))[DOMAIN Places(s)]
    BY DEF FindIf, Places, SeqsExt!FoldLeft, SeqsExt!MapThenFoldSet, SeqsExt!Max, MaxOf, FindFold
  <2> QED
    BY <2>1, <2>2, Zenon
<1>3. DOMAIN t = 1..n /\ \A i \in 1..n : t[i] = i - 1 /\ Deref(s, t[i]) = s[i]
  <2>1. \A i \in Int : (i - 1) + 1 = i
    OBVIOUS
  <2>2. DOMAIN t = 1..n /\ \A i \in 1..n : t[i] = i - 1
    OBVIOUS
  <2>3. \A i \in 1..n : (i - 1) + 1 = i
    BY <2>1
  <2> HIDE DEF t, n
  <2> QED
    BY <2>2, <2>3 DEF Deref
<1> DEFINE step == [i \in 1..n |-> [v \in 0..n |-> IF v = n /\ p[s[i]] THEN i - 1 ELSE v]]
<1>4. step \in [1..n -> [0..n -> 0..n]]
  BY <1>1
<1>5. PICK h : Folds(h, n, n, step) /\ \A S \in SUBSET (1..n) : h[S] \in 0..n
  <2> HIDE DEF step
  <2>1. n \in 0..n
    BY <1>1
  <2> QED
    BY <1>1, <1>4, <2>1, FoldsExist
<1> HIDE DEF n
<1>6. \A S \in SUBSET (1..n) : S # {} =>
        /\ MaxOf(S) \in 1..n /\ h[S \ {MaxOf(S)}] \in 0..n
        /\ step[MaxOf(S)][h[S \ {MaxOf(S)}]] =
             IF h[S \ {MaxOf(S)}] = n /\ p[s[MaxOf(S)]] THEN MaxOf(S) - 1
             ELSE h[S \ {MaxOf(S)}]
  BY <1>1, <1>5, MaxOfSets
<1> HIDE DEF step, t
<1>7. FindFold(h, t, n, s, p)
  <2>1. \A S \in SUBSET (1..n) : S # {} =>
          t[MaxOf(S)] = MaxOf(S) - 1 /\ Deref(s, t[MaxOf(S)]) = s[MaxOf(S)]
    BY <1>3, <1>6
  <2> QED
    BY <1>3, <1>5, <1>6, <2>1 DEF FindFold, Folds
<1>8. FindFold(g, t, n, s, p)
  BY <1>7
<1> HIDE DEF g
<1>9. g[1..0] = n
  BY <1>1, <1>3, <1>8 DEF FindFold
<1>10. ASSUME NEW i \in 1..n
       PROVE  g[1..i] = IF g[1..(i - 1)] = n /\ p[s[i]] THEN i - 1 ELSE g[1..(i - 1)]
  <2>0. 1..i \in SUBSET (1..n) /\ i \in Nat /\ i # 0
    BY <1>1
  <2>1. 1..i \in SUBSET (1..n) /\ i \in Nat /\ i # 0 /\ 1..i # {}
    BY <2>0, MaxOfInterval
  <2>2. g[1..i] = IF g[(1..i) \ {MaxOf(1..i)}] = n /\ p[Deref(s, t[MaxOf(1..i)])] THEN t[MaxOf(1..i)]
                  ELSE g[(1..i) \ {MaxOf(1..i)}]
    BY <1>3, <1>8, <2>1 DEF FindFold
  <2>3. MaxOf(1..i) = i /\ (1..i) \ {i} = 1..(i - 1)
    BY <2>1, MaxOfInterval
  <2>4. t[i] = i - 1 /\ Deref(s, t[i]) = s[i]
    BY <1>3
  <2> QED
    BY <2>2, <2>3, <2>4, Zenon
<1>11. DOMAIN t = 1..n
  BY <1>3
<1> QED
  BY <1>2, <1>9, <1>10, <1>11 DEF n

\* ... and of count_if.
CountFold(h, t, s, p) ==
  h = [S \in SUBSET DOMAIN t |->
         IF S = {} THEN 0
         ELSE IF p[Deref(s, t[MaxOf(S)])] THEN h[S \ {MaxOf(S)}] + 1 ELSE h[S \ {MaxOf(S)}]]

LEMMA CountFolds ==
  ASSUME NEW s \in Seq(Int), NEW p \in [Int -> BOOLEAN]
  PROVE  \E h : /\ CountIf(s, BeginOf(s), EndOf(s), p) = h[1..Len(s)] /\ h[1..0] = 0
                /\ \A i \in 1..Len(s) :
                     h[1..i] = IF p[s[i]] THEN h[1..(i - 1)] + 1 ELSE h[1..(i - 1)]
<1> DEFINE n == Len(s)
           t == [j \in 1..n |-> j - 1]
           g == CHOOSE h : CountFold(h, t, s, p)
<1>1. n \in Nat
  OBVIOUS
<1>2. CountIf(s, BeginOf(s), EndOf(s), p) = g[DOMAIN t]
  <2>1. Places(s) = t
    BY PlacesAre
  <2> HIDE DEF n, t
  <2>2. CountIf(s, BeginOf(s), EndOf(s), p)
          = (CHOOSE h : CountFold(h, Places(s), s, p))[DOMAIN Places(s)]
    BY DEF CountIf, Places, SeqsExt!FoldLeft, SeqsExt!MapThenFoldSet, SeqsExt!Max, MaxOf, CountFold
  <2> QED
    BY <2>1, <2>2, Zenon
<1>3. DOMAIN t = 1..n /\ \A i \in 1..n : Deref(s, t[i]) = s[i]
  <2>1. \A i \in Int : (i - 1) + 1 = i
    OBVIOUS
  <2>2. DOMAIN t = 1..n /\ \A i \in 1..n : t[i] = i - 1
    OBVIOUS
  <2>3. \A i \in 1..n : (i - 1) + 1 = i
    BY <2>1
  <2> HIDE DEF t, n
  <2> QED
    BY <2>2, <2>3 DEF Deref
<1> DEFINE step == [i \in 1..n |-> [v \in Nat |-> IF p[s[i]] THEN v + 1 ELSE v]]
<1>4. step \in [1..n -> [Nat -> Nat]]
  BY <1>1
<1>5. PICK h : Folds(h, n, 0, step) /\ \A S \in SUBSET (1..n) : h[S] \in Nat
  <2> HIDE DEF step
  <2>1. 0 \in Nat
    OBVIOUS
  <2> QED
    BY <1>1, <1>4, <2>1, FoldsExist
<1> HIDE DEF n
<1>6. \A S \in SUBSET (1..n) : S # {} =>
        /\ MaxOf(S) \in 1..n /\ h[S \ {MaxOf(S)}] \in Nat
        /\ step[MaxOf(S)][h[S \ {MaxOf(S)}]] =
             IF p[s[MaxOf(S)]] THEN h[S \ {MaxOf(S)}] + 1 ELSE h[S \ {MaxOf(S)}]
  BY <1>1, <1>5, MaxOfSets
<1> HIDE DEF step, t
<1>7. CountFold(h, t, s, p)
  <2>1. \A S \in SUBSET (1..n) : S # {} => Deref(s, t[MaxOf(S)]) = s[MaxOf(S)]
    BY <1>3, <1>6
  <2>2. ASSUME NEW S \in SUBSET (1..n)
        PROVE  (IF S = {} THEN 0 ELSE step[MaxOf(S)][h[S \ {MaxOf(S)}]])
               = IF S = {} THEN 0
                 ELSE IF p[Deref(s, t[MaxOf(S)])] THEN h[S \ {MaxOf(S)}] + 1 ELSE h[S \ {MaxOf(S)}]
    BY <1>6, <2>1
  <2>3. h = [S \in SUBSET (1..n) |-> IF S = {} THEN 0 ELSE step[MaxOf(S)][h[S \ {MaxOf(S)}]]]
    BY <1>5 DEF Folds
  <2>4. h = [S \in SUBSET (1..n) |->
               IF S = {} THEN 0
               ELSE IF p[Deref(s, t[MaxOf(S)])] THEN h[S \ {MaxOf(S)}] + 1 ELSE h[S \ {MaxOf(S)}]]
    BY <2>2, <2>3, Zenon
  <2> QED
    BY <1>3, <2>4, Zenon DEF CountFold
<1>8. CountFold(g, t, s, p)
  BY <1>7
<1> HIDE DEF g
<1>9. g[1..0] = 0
  BY <1>1, <1>3, <1>8 DEF CountFold
<1>10. ASSUME NEW i \in 1..n
       PROVE  g[1..i] = IF p[s[i]] THEN g[1..(i - 1)] + 1 ELSE g[1..(i - 1)]
  <2>0. 1..i \in SUBSET (1..n) /\ i \in Nat /\ i # 0
    BY <1>1
  <2>1. 1..i \in SUBSET (1..n) /\ i \in Nat /\ i # 0 /\ 1..i # {}
    BY <2>0, MaxOfInterval
  <2>2. g[1..i] = IF p[Deref(s, t[MaxOf(1..i)])] THEN g[(1..i) \ {MaxOf(1..i)}] + 1
                  ELSE g[(1..i) \ {MaxOf(1..i)}]
    BY <1>3, <1>8, <2>1 DEF CountFold
  <2>3. MaxOf(1..i) = i /\ (1..i) \ {i} = 1..(i - 1)
    BY <2>1, MaxOfInterval
  <2>4. Deref(s, t[i]) = s[i]
    BY <1>3
  <2> QED
    BY <2>2, <2>3, <2>4, Zenon
<1>11. DOMAIN t = 1..n
  BY <1>3
<1> QED
  BY <1>2, <1>9, <1>10, <1>11 DEF n

\* every asks each element ...
LEMMA EveryIs ==
  ASSUME NEW s \in Seq(Int), NEW func \in [Int -> BOOLEAN]
  PROVE  Every(s, func) <=> \A i \in 1..Len(s) : func[s[i]]
<1> DEFINE n == Len(s)
<1>1. n \in Nat
  OBVIOUS
<1>2. PICK h : /\ Every(s, func) = h[1..n] /\ h[1..0] = TRUE
               /\ \A i \in 1..n : h[1..i] = (h[1..(i - 1)] /\ func[s[i]])
  BY EveryFolds
<1> HIDE DEF n
<1> DEFINE All == {k \in 0..n : h[1..k] <=> \A i \in 1..k : func[s[i]]}
<1>3. 0 \in All
  BY <1>1, <1>2
<1>4. ASSUME NEW k \in 1..n, k - 1 \in All PROVE k \in All
  <2>1. h[1..(k - 1)] <=> \A i \in 1..(k - 1) : func[s[i]]
    BY <1>4
  <2>2. h[1..k] <=> h[1..(k - 1)] /\ func[s[k]]
    BY <1>2
  <2>3. (\A i \in 1..k : func[s[i]]) <=> (\A i \in 1..(k - 1) : func[s[i]]) /\ func[s[k]]
    <3>1. 1..k = (1..(k - 1)) \cup {k}
      BY <1>1
    <3> QED
      BY <3>1
  <2> QED
    BY <1>1, <2>1, <2>2, <2>3
<1>5. 0..n \subseteq All
  <2> HIDE DEF All
  <2> QED
    BY <1>1, <1>3, <1>4, Upwards
<1>6. n \in All
  BY <1>1, <1>5
<1> QED
  BY <1>2, <1>6 DEF n

\* ... map answers for each ...
LEMMA MapIs ==
  ASSUME NEW s \in Seq(Int), NEW callback \in [Int -> Int]
  PROVE  Map(s, callback) = [i \in DOMAIN s |-> callback[s[i]]]
<1> DEFINE n == Len(s)
<1>1. n \in Nat /\ DOMAIN s = 1..n /\ \A i \in 1..n : s[i] \in Int
  OBVIOUS
<1>2. PICK h : /\ Map(s, callback) = h[1..n] /\ h[1..0] = <<>>
               /\ \A i \in 1..n : h[1..i] = Append(h[1..(i - 1)], callback[s[i]])
  BY MapFolds
<1> HIDE DEF n
<1> DEFINE Mapped(q, k) == q \in Seq(Int) /\ Len(q) = k /\ \A i \in 1..k : q[i] = callback[s[i]]
           All == {k \in 0..n : Mapped(h[1..k], k)}
<1>3. 0 \in All
  <2>1. Mapped(<<>>, 0)
    OBVIOUS
  <2>2. h[1..0] = <<>> /\ 0 \in 0..n
    BY <1>1, <1>2
  <2> HIDE DEF Mapped
  <2> QED
    BY <2>1, <2>2
<1>4. ASSUME NEW k \in 1..n, k - 1 \in All PROVE k \in All
  <2> DEFINE q == h[1..(k - 1)]
             v == callback[s[k]]
  <2>1. q \in Seq(Int) /\ Len(q) = k - 1 /\ \A i \in 1..(k - 1) : q[i] = callback[s[i]]
    BY <1>4
  <2>2. h[1..k] = Append(q, v) /\ v \in Int
    BY <1>1, <1>2
  <2> HIDE DEF q
  <2>3. /\ Append(q, v) \in Seq(Int) /\ Len(Append(q, v)) = Len(q) + 1
        /\ \A i \in 1..Len(q) : Append(q, v)[i] = q[i]
        /\ Append(q, v)[Len(q) + 1] = v
    BY <2>1, <2>2, AppendedFacts
  <2>4. (k - 1) + 1 = k /\ \A i \in 1..k : i \in 1..(k - 1) \/ i = k
    BY <1>1
  <2>5. Mapped(Append(q, v), k)
    BY <2>1, <2>3, <2>4
  <2>6. Mapped(h[1..k], k) /\ k \in 0..n
    <3> HIDE DEF Mapped
    <3> QED
      BY <1>1, <2>2, <2>5
  <2> HIDE DEF Mapped
  <2> QED
    BY <2>6
<1>5. 0..n \subseteq All
  <2> HIDE DEF All
  <2> QED
    BY <1>1, <1>3, <1>4, Upwards
<1>6. Mapped(Map(s, callback), n)
  <2>1. n \in 0..n
    BY <1>1
  <2> HIDE DEF Mapped
  <2>2. Mapped(h[1..n], n)
    BY <1>5, <2>1
  <2> QED
    BY <1>2, <2>2
<1> QED
  BY <1>1, <1>6

\* ... and filter keeps those it is asked to, in their order.
Chosen(s, func, k) == {i \in 1..k : func[s[i]]}

LEMMA KeptFacts ==
  ASSUME NEW s \in Seq(Int), NEW func \in [Int -> BOOLEAN], NEW k \in 1..Len(s)
  PROVE  /\ IsFiniteSet(Chosen(s, func, k - 1)) /\ IsFiniteSet(Chosen(s, func, k))
         /\ Cardinality(Chosen(s, func, k - 1)) \in Nat
         /\ Cardinality(Chosen(s, func, k)) =
              Cardinality(Chosen(s, func, k - 1)) + (IF func[s[k]] THEN 1 ELSE 0)
<1>1. k \in Int /\ k - 1 \in Int /\ 1 \in Int
  OBVIOUS
<1>2. IsFiniteSet(1..k) /\ IsFiniteSet(1..(k - 1))
  BY <1>1, FS_Interval
<1>3. IsFiniteSet(Chosen(s, func, k - 1)) /\ IsFiniteSet(Chosen(s, func, k))
  BY <1>2, FS_Subset DEF Chosen
<1>4. Cardinality(Chosen(s, func, k - 1)) \in Nat
  BY <1>3, FS_CardinalityType
<1>5. 1..k = (1..(k - 1)) \cup {k} /\ k \notin 1..(k - 1)
  OBVIOUS
<1>6. CASE func[s[k]]
  <2>1. Chosen(s, func, k) = Chosen(s, func, k - 1) \cup {k} /\ k \notin Chosen(s, func, k - 1)
    BY <1>5, <1>6 DEF Chosen
  <2>2. Cardinality(Chosen(s, func, k)) = Cardinality(Chosen(s, func, k - 1)) + 1
    BY <1>3, <2>1, FS_AddElement
  <2> QED
    BY <1>3, <1>4, <1>6, <2>2
<1>7. CASE ~func[s[k]]
  <2>1. Chosen(s, func, k) = Chosen(s, func, k - 1)
    BY <1>5, <1>7 DEF Chosen
  <2> QED
    BY <1>3, <1>4, <1>7, <2>1
<1> QED
  BY <1>6, <1>7

LEMMA KeptNone ==
  ASSUME NEW s, NEW func
  PROVE  Chosen(s, func, 0) = {} /\ Cardinality(Chosen(s, func, 0)) = 0
BY FS_EmptySet DEF Chosen

LEMMA KeptRank ==
  ASSUME NEW s \in Seq(Int), NEW func \in [Int -> BOOLEAN], NEW k \in 0..Len(s),
         NEW i \in Chosen(s, func, k)
  PROVE  Cardinality(Chosen(s, func, i)) \in 1..Cardinality(Chosen(s, func, k))
<1>1. i \in 1..k /\ i \in Chosen(s, func, i) /\ Chosen(s, func, i) \subseteq Chosen(s, func, k)
  BY DEF Chosen
<1>2. IsFiniteSet(Chosen(s, func, k))
  <2>1. IsFiniteSet(1..k)
    BY FS_Interval
  <2> QED
    BY <2>1, FS_Subset DEF Chosen
<1> DEFINE S == Chosen(s, func, i)
           T == Chosen(s, func, k)
<1>3. IsFiniteSet(S) /\ Cardinality(S) <= Cardinality(T)
  <2> HIDE DEF S, T
  <2> QED
    BY <1>1, <1>2, FS_Subset DEF S, T
<1>4. Cardinality(S) \in Nat /\ Cardinality(T) \in Nat
  BY <1>2, <1>3, FS_CardinalityType
<1>5. Cardinality(S) # 0
  BY <1>1, <1>3, FS_EmptySet
<1> QED
  BY <1>3, <1>4, <1>5

Filtered(q, s, func, k) ==
  /\ q \in Seq(Int) /\ Len(q) = Cardinality(Chosen(s, func, k))
  /\ \A i \in Chosen(s, func, k) : q[Cardinality(Chosen(s, func, i))] = s[i]
  /\ \A j \in 1..Len(q) : func[q[j]]

LEMMA FilterIs ==
  ASSUME NEW s \in Seq(Int), NEW func \in [Int -> BOOLEAN]
  PROVE  Filtered(Filter(s, func), s, func, Len(s))
<1> DEFINE n == Len(s)
<1>1. n \in Nat /\ \A i \in 1..n : s[i] \in Int
  OBVIOUS
<1>2. PICK h : /\ Filter(s, func) = h[1..n] /\ h[1..0] = <<>>
               /\ \A i \in 1..n :
                    h[1..i] = IF func[s[i]] THEN Append(h[1..(i - 1)], s[i]) ELSE h[1..(i - 1)]
  BY FilterFolds
<1> DEFINE All == {k \in 0..n : Filtered(h[1..k], s, func, k)}
<1>3. 0 \in All
  <2>1. Filtered(<<>>, s, func, 0)
    BY KeptNone DEF Filtered
  <2> QED
    BY <1>1, <1>2, <2>1
<1>4. ASSUME NEW k \in 1..n, k - 1 \in All PROVE k \in All
  <2> DEFINE q == h[1..(k - 1)]
             c == Cardinality(Chosen(s, func, k - 1))
             v == s[k]
  <2>1. Filtered(q, s, func, k - 1)
    BY <1>4
  <2>2. h[1..k] = IF func[v] THEN Append(q, v) ELSE q
    BY <1>2
  <2> HIDE DEF q
  <2>3. /\ q \in Seq(Int) /\ Len(q) = c
        /\ \A i \in Chosen(s, func, k - 1) : q[Cardinality(Chosen(s, func, i))] = s[i]
        /\ \A j \in 1..c : func[q[j]]
    BY <2>1 DEF Filtered
  <2>4. c \in Nat /\ Cardinality(Chosen(s, func, k)) = c + (IF func[v] THEN 1 ELSE 0)
    BY KeptFacts
  <2>5. 1..k = (1..(k - 1)) \cup {k}
    BY <1>1
  <2>6. v \in Int
    BY <1>1
  <2>7. k - 1 \in 0..Len(s)
    BY <1>1
  <2>8. \A i \in Chosen(s, func, k - 1) : Cardinality(Chosen(s, func, i)) \in 1..c
    BY <2>7, KeptRank
  <2> HIDE DEF c, v
  <2>9. CASE func[v]
    <3> DEFINE r == Append(q, v)
    <3>1. /\ r \in Seq(Int) /\ Len(r) = c + 1
          /\ \A i \in 1..c : r[i] = q[i]
          /\ r[c + 1] = v
      BY <2>3, <2>6, AppendedFacts
    <3> HIDE DEF r
    <3>2. Cardinality(Chosen(s, func, k)) = c + 1
      BY <2>4, <2>9
    <3>3. \A i \in Chosen(s, func, k) : r[Cardinality(Chosen(s, func, i))] = s[i]
      <4> SUFFICES ASSUME NEW i \in Chosen(s, func, k) PROVE r[Cardinality(Chosen(s, func, i))] = s[i]
        OBVIOUS
      <4>1. i \in Chosen(s, func, k - 1) \/ i = k
        BY <2>5 DEF Chosen
      <4>2. CASE i \in Chosen(s, func, k - 1)
        BY <2>3, <2>8, <3>1, <4>2
      <4>3. CASE i = k
        BY <3>1, <3>2, <4>3 DEF v
      <4> QED
        BY <4>1, <4>2, <4>3
    <3>4. \A j \in 1..(c + 1) : func[r[j]]
      <4> SUFFICES ASSUME NEW j \in 1..(c + 1) PROVE func[r[j]]
        OBVIOUS
      <4>1. j \in 1..c \/ j = c + 1
        BY <2>4
      <4> QED
        BY <2>3, <2>9, <3>1, <4>1
    <3>5. Filtered(r, s, func, k)
      BY <3>1, <3>2, <3>3, <3>4 DEF Filtered
    <3>6. h[1..k] = r /\ k \in 0..n
      BY <1>1, <2>2, <2>9 DEF r
    <3> QED
      BY <3>5, <3>6
  <2>10. CASE ~func[v]
    <3>1. Cardinality(Chosen(s, func, k)) = c
      BY <2>4, <2>10
    <3>2. Chosen(s, func, k) = Chosen(s, func, k - 1)
      BY <2>5, <2>10 DEF Chosen, v
    <3>3. Filtered(q, s, func, k)
      BY <2>3, <3>1, <3>2 DEF Filtered
    <3> QED
      BY <1>1, <2>2, <2>10, <3>3
  <2> QED
    BY <2>9, <2>10
<1>5. 0..n \subseteq All
  <2> HIDE DEF All, n
  <2> QED
    BY <1>1, <1>3, <1>4, Upwards
<1>6. n \in 0..n
  BY <1>1
<1> QED
  BY <1>2, <1>5, <1>6

\* The search stops at the first element that satisfies.
LEMMA FindIs ==
  ASSUME NEW s \in Seq(Int), NEW p \in [Int -> BOOLEAN]
  PROVE  LET found == FindIf(s, BeginOf(s), EndOf(s), p)
         IN  \/ found = Len(s) /\ \A i \in 1..Len(s) : ~p[s[i]]
             \/ found \in 0..(Len(s) - 1) /\ p[s[found + 1]] /\ \A i \in 1..found : ~p[s[i]]
<1> DEFINE n == Len(s)
<1>1. n \in Nat
  OBVIOUS
<1>2. PICK h : /\ FindIf(s, BeginOf(s), EndOf(s), p) = h[1..n] /\ h[1..0] = n
               /\ \A i \in 1..n :
                    h[1..i] = IF h[1..(i - 1)] = n /\ p[s[i]] THEN i - 1 ELSE h[1..(i - 1)]
  BY FindFolds
<1> HIDE DEF n
<1> DEFINE None(at, k) == at = n /\ \A i \in 1..k : ~p[s[i]]
           FirstAt(at, k) == at \in 0..(k - 1) /\ p[s[at + 1]] /\ \A i \in 1..at : ~p[s[i]]
           All == {k \in 0..n : None(h[1..k], k) \/ FirstAt(h[1..k], k)}
<1>3. 0 \in All
  BY <1>1, <1>2
<1>4. ASSUME NEW k \in 1..n, k - 1 \in All PROVE k \in All
  <2> DEFINE m == h[1..(k - 1)]
  <2>1. None(m, k - 1) \/ FirstAt(m, k - 1)
    BY <1>4
  <2>2. h[1..k] = IF m = n /\ p[s[k]] THEN k - 1 ELSE m
    BY <1>2
  <2> HIDE DEF m
  <2>3. 1..k = (1..(k - 1)) \cup {k} /\ (k - 1) + 1 = k
    BY <1>1
  <2>4. CASE None(m, k - 1) /\ p[s[k]]
    <3>1. h[1..k] = k - 1
      BY <2>2, <2>4
    <3>2. FirstAt(k - 1, k)
      BY <1>1, <2>3, <2>4
    <3> QED
      BY <1>1, <3>1, <3>2
  <2>5. CASE None(m, k - 1) /\ ~p[s[k]]
    <3>1. h[1..k] = m
      BY <2>2, <2>5
    <3>2. None(m, k)
      BY <2>3, <2>5
    <3> QED
      BY <1>1, <3>1, <3>2
  <2>6. CASE FirstAt(m, k - 1)
    <3>1. h[1..k] = m
      BY <1>1, <2>2, <2>6
    <3>2. FirstAt(m, k)
      BY <1>1, <2>6
    <3> QED
      BY <1>1, <3>1, <3>2
  <2> QED
    BY <2>1, <2>4, <2>5, <2>6
<1>5. 0..n \subseteq All
  <2> HIDE DEF All
  <2> QED
    BY <1>1, <1>3, <1>4, Upwards
<1>6. None(h[1..n], n) \/ FirstAt(h[1..n], n)
  BY <1>1, <1>5
<1> QED
  BY <1>2, <1>6 DEF n

\* The count is the number of elements that do.
LEMMA CountIs ==
  ASSUME NEW s \in Seq(Int), NEW p \in [Int -> BOOLEAN]
  PROVE  CountIf(s, BeginOf(s), EndOf(s), p) = Cardinality(Chosen(s, p, Len(s)))
<1> DEFINE n == Len(s)
<1>1. n \in Nat
  OBVIOUS
<1>2. PICK h : /\ CountIf(s, BeginOf(s), EndOf(s), p) = h[1..n] /\ h[1..0] = 0
               /\ \A i \in 1..n : h[1..i] = IF p[s[i]] THEN h[1..(i - 1)] + 1 ELSE h[1..(i - 1)]
  BY CountFolds
<1> DEFINE All == {k \in 0..n : h[1..k] = Cardinality(Chosen(s, p, k))}
<1>3. 0 \in All
  BY <1>1, <1>2, KeptNone
<1>4. ASSUME NEW k \in 1..n, k - 1 \in All PROVE k \in All
  <2>1. h[1..(k - 1)] = Cardinality(Chosen(s, p, k - 1))
    BY <1>4
  <2>2. /\ Cardinality(Chosen(s, p, k - 1)) \in Nat
        /\ Cardinality(Chosen(s, p, k)) = Cardinality(Chosen(s, p, k - 1)) + (IF p[s[k]] THEN 1 ELSE 0)
    BY KeptFacts
  <2>3. h[1..k] = Cardinality(Chosen(s, p, k))
    BY <1>2, <2>1, <2>2
  <2> QED
    BY <1>1, <2>3
<1>5. 0..n \subseteq All
  <2> HIDE DEF All, n
  <2> QED
    BY <1>1, <1>3, <1>4, Upwards
<1>6. n \in 0..n
  BY <1>1
<1> QED
  BY <1>2, <1>5, <1>6

(* What the loop is over, and what was derived from it: a write of the     *)
(* loop lands in the slice and nowhere else.                               *)
Held ==
  /\ start \in Seq(Int) /\ slice \in Seq(Int)
  /\ derived = Filter(start, IsEven)

LEMMA HeldAlways == SliceSpec => []Held
<1>1. SliceInit => Held
  BY SliceAssumption DEF SliceInit, Held
<1>2. Looping /\ Held /\ [SliceNext]_sliceVars => Held'
  <2> SUFFICES ASSUME Looping, Held, [SliceNext]_sliceVars PROVE Held'
    OBVIOUS
  <2>1. start' = start /\ derived' = derived
    BY DEF SliceNext, LoopSlice, LoopRange, sliceVars
  <2>2. slice' \in Seq(Int)
    <3>1. CASE slice' = slice
      BY <3>1 DEF Held
    <3>2. CASE LoopSlice /\ \E v \in Stored : slice' = [slice EXCEPT ![it + 1] = v]
      <4>1. PICK v \in Stored : slice' = [slice EXCEPT ![it + 1] = v]
        BY <3>2
      <4>2. v \in Int
        BY SliceAssumption
      <4>3. Len(slice) \in Nat /\ it + 1 \in 1..Len(slice)
        BY <3>2 DEF Looping, SliceLoop, LoopSlice
      <4> QED
        BY <4>1, <4>2, <4>3 DEF Held
    <3> QED
      BY <3>1, <3>2 DEF SliceNext, LoopSlice, LoopRange, sliceVars
  <2> QED
    BY <2>1, <2>2 DEF Held
<1> QED
  BY <1>1, <1>2, LoopAlways, PTL DEF SliceSpec

LEMMA Callbacks ==
  /\ IsEven \in [Int -> BOOLEAN] /\ Square \in [Int -> Int]
  /\ [m \in Int |-> ~IsEven[m]] \in [Int -> BOOLEAN]
  /\ \A k \in Int : [m \in Int |-> ~IsEven[m]][k] = ~IsEven[k]
BY DEF IsEven, Square

LEMMA DerivedIsKept ==
  ASSUME Held
  PROVE  DerivedStays
<1> DEFINE kept == {i \in DOMAIN start : IsEven[start[i]]}
           n == Len(start)
<1>1. n \in Nat /\ DOMAIN start = 1..n /\ start \in Seq(Int) /\ slice \in Seq(Int)
  BY DEF Held
<1>2. Filtered(derived, start, IsEven, n)
  BY <1>1, Callbacks, FilterIs DEF Held
<1>3. kept = Chosen(start, IsEven, n)
  BY <1>1 DEF Chosen
<1>4. \A i \in kept : {j \in kept : j <= i} = Chosen(start, IsEven, i)
  BY <1>1 DEF Chosen
<1>5. /\ derived \in Seq(Int) /\ Len(derived) = Cardinality(kept)
      /\ \A i \in kept : derived[Cardinality(Chosen(start, IsEven, i))] = start[i]
      /\ \A j \in 1..Len(derived) : IsEven[derived[j]]
  BY <1>2, <1>3 DEF Filtered
<1>6. \A i \in kept : derived[Cardinality({j \in kept : j <= i})] = start[i]
  <2> HIDE DEF kept
  <2> QED
    BY <1>4, <1>5
<1>7. Every(derived, IsEven)
  BY <1>5, Callbacks, EveryIs
<1>8. Map(slice, Square) = [i \in DOMAIN slice |-> Square[slice[i]]]
  BY <1>1, Callbacks, MapIs
<1> QED
  BY <1>5, <1>6, <1>7, <1>8, Zenon DEF DerivedStays

LEMMA SearchesAgree ==
  ASSUME Held
  PROVE  AlgorithmsAgree
<1> DEFINE n == Len(slice)
           odd == [m \in Int |-> ~IsEven[m]]
           found == FindIf(slice, BeginOf(slice), EndOf(slice), IsEven)
<1>1. n \in Nat /\ slice \in Seq(Int) /\ \A i \in 1..n : slice[i] \in Int
  BY DEF Held
<1>2. BeginOf(slice) = 0 /\ EndOf(slice) = n
  BY <1>1 DEF BeginOf, EndOf
<1>3. Every(slice, odd) <=> \A i \in 1..n : ~IsEven[slice[i]]
  <2>1. Every(slice, odd) <=> \A i \in 1..n : odd[slice[i]]
    <3>1. odd \in [Int -> BOOLEAN]
      BY Callbacks
    <3> HIDE DEF odd
    <3> QED
      BY <1>1, <3>1, EveryIs
  <2> QED
    BY <1>1, <2>1
<1>4. \/ found = n /\ \A i \in 1..n : ~IsEven[slice[i]]
      \/ found \in 0..(n - 1) /\ IsEven[slice[found + 1]] /\ \A i \in 1..found : ~IsEven[slice[i]]
  BY <1>1, Callbacks, FindIs
<1> HIDE DEF found, odd, n
<1>5. IF Every(slice, odd) THEN found = EndOf(slice)
      ELSE /\ IsEven[Deref(slice, found)]
           /\ \A i \in 0..found - 1 : ~IsEven[Deref(slice, i)]
  <2>1. CASE \A i \in 1..n : ~IsEven[slice[i]]
    <3>1. found = n
      BY <1>1, <1>4, <2>1
    <3> QED
      BY <1>2, <1>3, <2>1, <3>1
  <2>2. CASE ~(\A i \in 1..n : ~IsEven[slice[i]])
    <3>1. found \in 0..(n - 1) /\ IsEven[slice[found + 1]] /\ \A i \in 1..found : ~IsEven[slice[i]]
      BY <1>4, <2>2
    <3>2. \A i \in 0..found - 1 : i + 1 \in 1..found
      BY <1>1, <3>1
    <3>3. \A i \in 0..found - 1 : ~IsEven[slice[i + 1]]
      BY <3>1, <3>2
    <3> QED
      BY <1>3, <2>2, <3>1, <3>3 DEF Deref
  <2> QED
    BY <2>1, <2>2
<1>6. CountIf(slice, BeginOf(slice), EndOf(slice), IsEven) = Len(Filter(slice, IsEven))
  <2>1. CountIf(slice, BeginOf(slice), EndOf(slice), IsEven) = Cardinality(Chosen(slice, IsEven, Len(slice)))
    BY <1>1, Callbacks, CountIs
  <2>2. Filtered(Filter(slice, IsEven), slice, IsEven, Len(slice))
    BY <1>1, Callbacks, FilterIs
  <2> QED
    BY <2>1, <2>2 DEF Filtered
<1>7. \A i, j \in BeginOf(slice)..EndOf(slice) :
        /\ PlusN(i, Difference(j, i)) = j /\ MinusN(j, Difference(j, i)) = i
        /\ NMinus(j, i) = MinusN(i, j)
        /\ j < EndOf(slice) => Subscript(slice, i, Difference(j, i)) = Deref(slice, j)
  <2> SUFFICES ASSUME NEW i \in 0..n, NEW j \in 0..n
               PROVE  /\ PlusN(i, Difference(j, i)) = j /\ MinusN(j, Difference(j, i)) = i
                      /\ NMinus(j, i) = MinusN(i, j)
                      /\ Subscript(slice, i, Difference(j, i)) = Deref(slice, j)
    BY <1>2
  <2>1. i + (j - i) = j /\ j - (j - i) = i /\ (i + (j - i)) + 1 = j + 1
    BY <1>1
  <2> QED
    BY <2>1 DEF PlusN, MinusN, NMinus, Difference, Subscript, Deref
<1> QED
  BY <1>5, <1>6, <1>7 DEF AlgorithmsAgree, found, odd

(* Loops and algorithms see what the containers hold, all of it and once:  *)
(* for any contents, any numbers of a range and any writes of a loop, the  *)
(* loop sees each element or number, what filter kept from the slice stays *)
(* its even elements in their order, map answers for each element, and     *)
(* find_if and count_if over the iterators find the first element that     *)
(* satisfies and count all that do.                                        *)
THEOREM LoopsMissNothing == SliceSpec => []LoopsAreExact
<1>1. Held => DerivedStays /\ AlgorithmsAgree
  BY DerivedIsKept, SearchesAgree
<1> QED
  BY HeldAlways, LoopsVisitEachOnce, <1>1, PTL DEF LoopsAreExact

-----------------------------------------------------------------------------
(* Complex: >> reads a whole line or does not touch the imaginary part.    *)

\* The first n conversions of the scanf format match the words of l.
Scans(l, n) == n <= Len(l) /\ \A i \in 1..n : Matches(l, i)

\* They match, and the next one does not.
Far(l, n) == (n = 0 \/ Scans(l, n)) /\ (n = 5 \/ ~Scans(l, n + 1))

\* Scanned looks for the number of conversions that match: Far names it.
LEMMA ScannedIs ==
  ASSUME NEW l, Len(l) \in Nat, NEW k \in 0..5, Far(l, k)
  PROVE  Scanned(l) = k
<1> DEFINE z == Len(l)
<1> HIDE DEF z
<1>1. \A m, n \in 0..6 : m <= n /\ Scans(l, n) => Scans(l, m)
  <2> SUFFICES ASSUME NEW m \in 0..6, NEW n \in 0..6, m <= n, Scans(l, n) PROVE Scans(l, m)
    OBVIOUS
  <2>1. n <= z /\ z \in Nat /\ \A i \in 1..n : Matches(l, i)
    BY DEF Scans, z
  <2>2. m <= z /\ \A i \in 1..m : i \in 1..n
    BY <2>1
  <2> QED
    BY <2>1, <2>2 DEF Scans, z
<1>2. Scanned(l) = CHOOSE n \in 0..5 : Far(l, n)
  BY DEF Scanned, Far, Scans
<1>3. \A n \in 0..5 : Far(l, n) => n = k
  <2> SUFFICES ASSUME NEW n \in 0..5, Far(l, n), n # k PROVE FALSE
    OBVIOUS
  <2>1. CASE n < k
    <3>1. n + 1 \in 0..6 /\ k \in 0..6 /\ n + 1 <= k /\ n # 5 /\ k # 0
      BY <2>1
    <3> QED
      BY <1>1, <3>1 DEF Far
  <2>2. CASE k < n
    <3>1. k + 1 \in 0..6 /\ n \in 0..6 /\ k + 1 <= n /\ k # 5 /\ n # 0
      BY <2>2
    <3> QED
      BY <1>1, <3>1 DEF Far
  <2> QED
    BY <2>1, <2>2
<1> QED
  BY <1>2, <1>3

\* The words of a line are different words, and a rational is a number.
LEMMA WordFacts ==
  ASSUME NEW n \in Int
  PROVE  /\ Number(Frac(n)) /\ Frac(n) # X /\ XY # X /\ MINUS # PLUS
<1>1. Number(Frac(n))
  BY DEF Number, Frac
<1>2. Frac(n) # X
  BY DEF Frac, X
<1>3. XY # X
  BY DEF XY, X
<1>4. MINUS # PLUS
  BY DEF MINUS, PLUS
<1> QED
  BY <1>1, <1>2, <1>3, <1>4

\* The words of a full line, one by one.
LEMMA SixWords ==
  ASSUME NEW a, NEW b, NEW c, NEW d, NEW e, NEW f
  PROVE  LET l == <<a, b, c, d, e, f>>
         IN  Len(l) = 6 /\ l[1] = a /\ l[2] = b /\ l[3] = c /\ l[4] = d /\ l[5] = e
OBVIOUS

\* The words of a shorter one.
LEMMA FewWords ==
  ASSUME NEW a, NEW b, NEW c, NEW d
  PROVE  /\ Len(<<a, b, c>>) = 3 /\ <<a, b, c>>[1] = a /\ <<a, b, c>>[2] = b /\ <<a, b, c>>[3] = c
         /\ Len(<<a, b, c, d>>) = 4 /\ <<a, b, c, d>>[1] = a
OBVIOUS

\* What each conversion asks of the word at its place.
LEMMA MatchFacts ==
  ASSUME NEW l
  PROVE  /\ Matches(l, 1) <=> l[1] = X
         /\ Matches(l, 2) <=> l[2] = EQ
         /\ Matches(l, 3) <=> Number(l[3])
         /\ Matches(l, 4) <=> l[4] = PLUS
         /\ Matches(l, 5) <=> Number(l[5])
BY DEF Matches

\* Two sequences with the same elements are one.
LEMMA SameSequence ==
  ASSUME NEW S, NEW p \in Seq(S), NEW q \in Seq(S), Len(p) = Len(q),
         \A i \in 1..Len(p) : p[i] = q[i]
  PROVE  p = q
OBVIOUS

\* What << writes, behind the words it lacks to be read back.
LEMMA Prefixed ==
  ASSUME NEW r, NEW i
  PROVE  <<X, EQ>> \o Written(Complex2(r, i)) = <<X, EQ, r, PLUS, i, I>>
<1> DEFINE S == {X, EQ, r, PLUS, i, I}
           s == <<X, EQ>>
           t == <<r, PLUS, i, I>>
           l == <<X, EQ, r, PLUS, i, I>>
<1>1. Written(Complex2(r, i)) = t
  BY DEF Written, Complex2
<1>2. s \in Seq(S) /\ t \in Seq(S) /\ l \in Seq(S)
  OBVIOUS
<1>3. Len(s) = 2 /\ Len(t) = 4 /\ Len(l) = 6
  OBVIOUS
<1>4. s[1] = l[1] /\ s[2] = l[2] /\ t[1] = l[3] /\ t[2] = l[4] /\ t[3] = l[5] /\ t[4] = l[6]
  OBVIOUS
<1> HIDE DEF S, s, t, l
<1>5. s \o t \in Seq(S) /\ Len(s \o t) = Len(s) + Len(t)
  BY <1>2, ConcatType
<1>6. \A k \in 1..Len(s) : (s \o t)[k] = s[k]
  BY <1>2, ConcatLeft
<1>7. \A k \in 1..Len(t) : (s \o t)[Len(s) + k] = t[k]
  BY <1>2, ConcatRight
<1>8. (\A k \in 1..2 : (s \o t)[k] = s[k]) /\ (\A k \in 1..4 : (s \o t)[2 + k] = t[k])
  BY <1>3, <1>6, <1>7, Zenon
<1> DEFINE c == s \o t
<1>9. Len(c) = 2 + 4
  BY <1>3, <1>5, Zenon
<1> HIDE DEF c
<1>10. \A k \in 1..6 : c[k] = l[k]
  <2> SUFFICES ASSUME NEW k \in 1..6 PROVE c[k] = l[k]
    OBVIOUS
  <2>1. CASE k \in 1..2
    <3>1. k = 1 \/ k = 2
      BY <2>1
    <3>2. c[k] = s[k]
      BY <1>8, <2>1 DEF c
    <3> QED
      BY <1>4, <3>1, <3>2
  <2>2. CASE k \in 3..6
    <3>1. k - 2 \in 1..4 /\ 2 + (k - 2) = k
      BY <2>2
    <3>2. c[k] = t[k - 2]
      BY <1>8, <3>1 DEF c
    <3>3. k - 2 \in {1, 2, 3, 4} /\ k = (k - 2) + 2
      BY <3>1
    <3> QED
      BY <1>4, <3>2, <3>3
  <2> QED
    BY <2>1, <2>2
<1>11. c \in Seq(S) /\ Len(c) = Len(l)
  BY <1>3, <1>5, <1>9 DEF c
<1>12. \A k \in 1..Len(c) : c[k] = l[k]
  BY <1>3, <1>10, <1>11
<1>13. c = l
  BY <1>2, <1>11, <1>12, SameSequence
<1> QED
  BY <1>1, <1>13 DEF c, s, l

\* An object with the two fields and no other.
IsComplex(c) == c = Complex2(c.realValue, c.imaginaryValue)

\* What the constructor makes of its two parts.
LEMMA ComplexFacts ==
  \A r, i : /\ IsComplex(Complex2(r, i)) /\ Complex2(r, i).realValue = r
            /\ Complex2(r, i).imaginaryValue = i
BY DEF IsComplex, Complex2

\* Every operator returns an object the constructor made.
LEMMA ResultsAreComplex ==
  ASSUME NEW a, NEW c, NEW d
  PROVE  /\ IsComplex(Plus(a, c)) /\ IsComplex(Minus(a, c))
         /\ IsComplex(Times(a, c)) /\ IsComplex(Over(a, c))
         /\ IsComplex(DPlus(d, c)) /\ IsComplex(DMinus(d, c))
         /\ IsComplex(DTimes(d, c)) /\ IsComplex(DOver(d, c))
         /\ IsComplex(PlusD(c, d)) /\ IsComplex(MinusD(c, d))
         /\ IsComplex(TimesD(c, d)) /\ IsComplex(OverD(c, d))
<1>1. IsComplex(Plus(a, c)) /\ IsComplex(Minus(a, c)) /\ IsComplex(Times(a, c))
  BY ComplexFacts DEF Plus, Minus, Times
<1>2. \A b : IsComplex(Over(b, c))
  BY ComplexFacts DEF Over
<1>3. IsComplex(DPlus(d, c)) /\ IsComplex(DMinus(d, c)) /\ IsComplex(DTimes(d, c))
  BY ComplexFacts DEF DPlus, DMinus, DTimes
<1>4. IsComplex(DOver(d, c))
  BY <1>2 DEF DOver
<1>5. IsComplex(PlusD(c, d)) /\ IsComplex(MinusD(c, d)) /\ IsComplex(TimesD(c, d))
  BY ComplexFacts DEF PlusD, MinusD, TimesD
<1>6. IsComplex(OverD(c, d))
  BY ComplexFacts DEF OverD
<1> QED
  BY <1>1, <1>2, <1>3, <1>4, <1>5, <1>6

(* What a read of each kind of line leaves in an object.                   *)
LEMMA ReadFacts ==
  ASSUME NEW c, NEW l, Len(l) \in Nat
  PROVE  /\ Far(l, 5) => ReadInto(c, l) = Complex2(l[3], l[5])
         /\ Far(l, 3) => /\ ReadInto(c, l).realValue = l[3]
                         /\ ReadInto(c, l).imaginaryValue = c.imaginaryValue
         /\ Far(l, 0) => ReadInto(c, l) = Complex2(c.realValue, c.imaginaryValue)
<1>1. Far(l, 5) => Scanned(l) = 5
  BY ScannedIs
<1>2. Far(l, 3) => Scanned(l) = 3
  BY ScannedIs
<1>3. Far(l, 0) => Scanned(l) = 0
  BY ScannedIs
<1> QED
  BY <1>1, <1>2, <1>3 DEF ReadInto, Complex2

\* The line that a read of both parts needs.
Full(l) == \E r, i \in Doubles : l = <<X, EQ>> \o Written(Complex2(Frac(r), Frac(i)))

\* Such a line, word by word.
LEMMA FullIs ==
  \A l : Full(l) <=> \E r, i \in Doubles : l = <<X, EQ, Frac(r), PLUS, Frac(i), I>>
BY Prefixed DEF Full

\* What a read of l has to leave in c.
Answered(c, l) ==
  IF Full(l) THEN ReadInto(c, l) = Complex2(l[3], l[5])
  ELSE /\ ReadInto(c, l).imaginaryValue = c.imaginaryValue
       /\ Len(l) = 4 => ReadInto(c, l) = c

\* A line is read whole, or up to its sign, or not at all.
LineRead(l, r, i) == Far(l, 5) /\ Full(l) /\ l[3] = r /\ l[5] = i
LineCut(l, r) == Far(l, 3) /\ ~Full(l) /\ l[3] = r /\ Len(l) # 4
LineMissed(l) == Far(l, 0) /\ ~Full(l)

\* One of the three is true of each kind of line the judge's input may hold.
LEMMA LineKinds ==
  ASSUME NEW n \in Doubles, NEW m \in Doubles, NEW l \in Lines(Frac(n), Frac(m))
  PROVE  Len(l) \in Nat /\ (LineRead(l, Frac(n), Frac(m)) \/ LineCut(l, Frac(n)) \/ LineMissed(l))
<1> DEFINE r == Frac(n)
           i == Frac(m)
<1>0. n \in Int /\ m \in Int
  BY ComplexAssumption
<1>1. Number(r) /\ Number(i) /\ r # X /\ XY # X /\ MINUS # PLUS
  BY <1>0, WordFacts
<1>2. \/ l = <<X, EQ, r, PLUS, i, I>> \/ l = <<XY, EQ, r, PLUS, i, I>>
      \/ l = <<X, EQ, r, MINUS, i, I>> \/ l = <<X, EQ, r>>
      \/ l = <<r, PLUS, i, I>> \/ l = <<>>
  BY DEF Lines, Written, Complex2
<1>3. Full(l) => Len(l) = 6 /\ l[1] = X /\ l[4] = PLUS
  BY FullIs, SixWords
<1>4. CASE l = <<X, EQ, r, PLUS, i, I>>
  <2>1. Full(l)
    BY <1>4, FullIs
  <2>2. Len(l) = 6 /\ l[1] = X /\ l[2] = EQ /\ l[3] = r /\ l[4] = PLUS /\ l[5] = i
    BY <1>4, SixWords
  <2>3. Scans(l, 5)
    BY <1>1, <2>2, MatchFacts DEF Scans
  <2>4. Far(l, 5)
    BY <2>3 DEF Far
  <2> QED
    BY <2>1, <2>2, <2>4 DEF LineRead
<1>5. CASE l = <<XY, EQ, r, PLUS, i, I>>
  <2>1. Len(l) = 6 /\ l[1] = XY
    BY <1>5, SixWords
  <2>2. ~Full(l) /\ Far(l, 0)
    BY <1>1, <1>3, <2>1, MatchFacts DEF Far, Scans
  <2> QED
    BY <2>1, <2>2 DEF LineMissed
<1>6. CASE l = <<X, EQ, r, MINUS, i, I>>
  <2>1. Len(l) = 6 /\ l[1] = X /\ l[2] = EQ /\ l[3] = r /\ l[4] = MINUS
    BY <1>6, SixWords
  <2>2. Scans(l, 3) /\ ~Scans(l, 4)
    BY <1>1, <2>1, MatchFacts DEF Scans
  <2>3. ~Full(l) /\ Far(l, 3)
    BY <1>1, <1>3, <2>1, <2>2 DEF Far
  <2> QED
    BY <2>1, <2>3 DEF LineCut
<1>7. CASE l = <<X, EQ, r>>
  <2>1. Len(l) = 3 /\ l[1] = X /\ l[2] = EQ /\ l[3] = r
    BY <1>7, FewWords
  <2>2. Scans(l, 3) /\ ~Scans(l, 4)
    BY <1>1, <2>1, MatchFacts DEF Scans
  <2>3. ~Full(l) /\ Far(l, 3)
    BY <1>1, <1>3, <2>1, <2>2 DEF Far
  <2> QED
    BY <2>1, <2>3 DEF LineCut
<1>8. CASE l = <<r, PLUS, i, I>>
  <2>1. Len(l) = 4 /\ l[1] = r
    BY <1>8, FewWords
  <2>2. ~Full(l) /\ Far(l, 0)
    BY <1>1, <1>3, <2>1, MatchFacts DEF Far, Scans
  <2> QED
    BY <2>1, <2>2 DEF LineMissed
<1>9. CASE l = <<>>
  <2>1. Len(l) = 0
    BY <1>9
  <2>2. ~Full(l) /\ Far(l, 0)
    BY <1>3, <2>1 DEF Far, Scans
  <2> QED
    BY <2>1, <2>2 DEF LineMissed
<1> QED
  BY <1>2, <1>4, <1>5, <1>6, <1>7, <1>8, <1>9

\* A read of such a line leaves what it has to.
LEMMA LinesAnswered ==
  ASSUME NEW c, IsComplex(c), NEW n \in Doubles, NEW m \in Doubles,
         NEW l \in Lines(Frac(n), Frac(m))
  PROVE  Answered(c, l)
<1>1. Len(l) \in Nat /\ (LineRead(l, Frac(n), Frac(m)) \/ LineCut(l, Frac(n)) \/ LineMissed(l))
  BY LineKinds
<1>2. CASE LineRead(l, Frac(n), Frac(m))
  BY <1>1, <1>2, ReadFacts DEF Answered, LineRead
<1>3. CASE LineCut(l, Frac(n))
  BY <1>1, <1>3, ReadFacts DEF Answered, LineCut
<1>4. CASE LineMissed(l)
  BY <1>1, <1>4, ReadFacts, ComplexFacts DEF Answered, LineMissed, IsComplex
<1> QED
  BY <1>1, <1>2, <1>3, <1>4

\* No operation makes anything else, and a read leaves what Answered says.
LEMMA ComplexSteps ==
  ASSUME IsComplex(x), ComplexNext
  PROVE  IsComplex(x') /\ (line' # NoLine => x' = ReadInto(x, line') /\ Answered(x, line'))
<1>1. CASE ComplexOperator
  <2>1. line' = NoLine /\ x' \in {Plus(x, y), Minus(x, y), Times(x, y), Over(x, y)}
    BY <1>1 DEF ComplexOperator, Compute
  <2> QED
    BY <2>1, ResultsAreComplex
<1>2. CASE DoubleLeft
  <2>1. PICK d \in Doubles :
          /\ line' = NoLine
          /\ x' \in {DPlus(Frac(d), x), DMinus(Frac(d), x), DTimes(Frac(d), x), DOver(Frac(d), x)}
    BY <1>2 DEF DoubleLeft, Compute
  <2> QED
    BY <2>1, ResultsAreComplex
<1>3. CASE DoubleRight
  <2>1. PICK d \in Doubles :
          /\ line' = NoLine
          /\ x' \in {PlusD(x, Frac(d)), MinusD(x, Frac(d)), TimesD(x, Frac(d)), OverD(x, Frac(d))}
    BY <1>3 DEF DoubleRight, Compute
  <2> QED
    BY <2>1, ResultsAreComplex
<1>4. CASE ReadLine
  <2>1. PICK r \in Doubles, i \in Doubles : \E l \in Lines(Frac(r), Frac(i)) :
          x' = ReadInto(x, l) /\ line' = l
    BY <1>4 DEF ReadLine
  <2>2. x' = ReadInto(x, line') /\ Answered(x, line')
    BY <2>1, LinesAnswered
  <2>3. IsComplex(ReadInto(x, line'))
    BY DEF IsComplex, ReadInto, Complex2
  <2> QED
    BY <2>2, <2>3
<1> QED
  BY <1>1, <1>2, <1>3, <1>4 DEF ComplexNext

(* Whatever was computed before, reading a line either takes both parts    *)
(* from it or leaves the imaginary part alone, and the text that << writes *)
(* is no line that >> understands: it changes nothing.                     *)
THEOREM PrefixedLinesAreReadWhole == ComplexSpec => ReadBack
<1>1. ComplexInit => IsComplex(x)
  BY ComplexFacts DEF ComplexInit, Complex0
<1>2. IsComplex(x) /\ [ComplexNext]_complexVars => IsComplex(x)'
  BY ComplexSteps DEF complexVars
<1>3. IsComplex(x) /\ [ComplexNext]_complexVars
        => [line' # NoLine =>
              IF \E r, i \in Doubles : line' = <<X, EQ>> \o Written(Complex2(Frac(r), Frac(i)))
              THEN x' = Complex2(line'[3], line'[5])
              ELSE /\ x'.imaginaryValue = x.imaginaryValue
                   /\ (Len(line') = 4 => x' = x)]_complexVars
  <2> SUFFICES ASSUME IsComplex(x), ComplexNext, line' # NoLine
               PROVE  IF Full(line') THEN x' = Complex2(line'[3], line'[5])
                      ELSE /\ x'.imaginaryValue = x.imaginaryValue
                           /\ (Len(line') = 4 => x' = x)
    BY DEF Full
  <2>1. x' = ReadInto(x, line') /\ Answered(x, line')
    BY ComplexSteps
  <2> QED
    BY <2>1 DEF Answered
<1> QED
  BY <1>1, <1>2, <1>3, PTL DEF ComplexSpec, ReadBack

-----------------------------------------------------------------------------
(* Complex: the operators are one arithmetic. Euclid's algorithm first:    *)
(* gcd is it, and a fraction of integers has one form in lowest terms.     *)

\* One step of Euclid's algorithm.
Euclid(g, p) == IF p[2] = 0 THEN p[1] ELSE g[<<p[2], p[1] % p[2]>>]

\* The arguments of gcd.
NatPairs == Nat \X Nat

\* A function that is Euclid's algorithm as far as k.
EuclidTo(g, k) == \A p \in NatPairs : p[2] <= k => g[p] = Euclid(g, p)

\* Division with a remainder.
LEMMA ModFacts ==
  ASSUME NEW m \in Nat, NEW n \in Nat, n # 0
  PROVE  /\ m \div n \in Nat /\ m % n \in Nat /\ m % n < n
         /\ m = n * (m \div n) + (m % n)
<1>1. m % n \in Nat
  OBVIOUS
<1>2. m % n < n
  OBVIOUS
<1>3. m = n * (m \div n) + (m % n)
  OBVIOUS
<1>4. m \div n \in Nat
  OBVIOUS
<1> QED
  BY <1>1, <1>2, <1>3, <1>4

(* The pair the next step of Euclid's algorithm works on.                  *)
NextOf(p) == <<p[2], p[1] % p[2]>>

\* The second number falls at every step.
LEMMA NextPair ==
  ASSUME NEW p \in NatPairs, p[2] # 0
  PROVE  NextOf(p) \in NatPairs /\ NextOf(p)[1] = p[2] /\ NextOf(p)[2] = p[1] % p[2] /\ NextOf(p)[2] < p[2]
BY ModFacts DEF NatPairs, NextOf

\* The step by its two cases.
LEMMA EuclidIs ==
  ASSUME NEW g, NEW p
  PROVE  Euclid(g, p) = IF p[2] = 0 THEN p[1] ELSE g[NextOf(p)]
BY DEF Euclid, NextOf

\* Two such functions agree: the least second number on which they do not
\* would have one below it.
LEMMA EuclidsAgree ==
  ASSUME NEW k \in Nat, NEW g, NEW h, EuclidTo(g, k), EuclidTo(h, k),
         NEW p \in NatPairs, p[2] <= k
  PROVE  g[p] = h[p]
<1> DEFINE Differ(n) == \E q \in NatPairs : q[2] = n /\ g[q] # h[q]
           Bad == {n \in 0..k : Differ(n)}
<1>1. Bad = {}
  <2> SUFFICES ASSUME Bad # {} PROVE FALSE
    OBVIOUS
  <2>1. PICK n \in Bad : \A m \in Bad : n <= m
    <3>1. Bad \subseteq Nat
      OBVIOUS
    <3> HIDE DEF Bad
    <3> QED
      BY <3>1, LeastNumber
  <2>2. n \in 0..k /\ Differ(n)
    OBVIOUS
  <2>3. PICK q \in NatPairs : q[2] = n /\ g[q] # h[q]
    BY <2>2
  <2>4. g[q] = Euclid(g, q) /\ h[q] = Euclid(h, q)
    BY <2>2, <2>3 DEF EuclidTo
  <2>5. n # 0
    BY <2>3, <2>4, EuclidIs
  <2> DEFINE r == NextOf(q)
  <2>6. r \in NatPairs /\ r[2] < n
    BY <2>3, <2>5, NextPair
  <2>7. g[q] = g[r] /\ h[q] = h[r]
    BY <2>3, <2>4, <2>5, EuclidIs
  <2> HIDE DEF r
  <2>8. r[2] \in 0..k /\ ~(n <= r[2])
    BY <2>2, <2>6 DEF NatPairs
  <2>9. ~Differ(r[2])
    BY <2>1, <2>8
  <2> QED
    BY <2>3, <2>6, <2>7, <2>9
<1>2. p[2] \in 0..k
  BY DEF NatPairs
<1> QED
  BY <1>1, <1>2

\* There is one for every k, by adding a row to the one below.
LEMMA EuclidsExist ==
  ASSUME NEW k \in Nat
  PROVE  \E g : EuclidTo(g, k)
<1> DEFINE Good(m) == \E g : EuclidTo(g, m)
           Bad == {m \in Nat : ~Good(m)}
<1>1. ASSUME NEW m \in Nat, m = 0 \/ Good(m - 1) PROVE Good(m)
  <2>1. CASE m = 0
    <3> DEFINE h == [p \in NatPairs |-> p[1]]
    <3>1. ASSUME NEW p \in NatPairs, p[2] <= 0 PROVE h[p] = Euclid(h, p)
      <4>1. p[2] = 0 /\ h[p] = p[1]
        BY <3>1 DEF NatPairs
      <4> QED
        BY <4>1, EuclidIs
    <3>2. EuclidTo(h, 0)
      BY <3>1 DEF EuclidTo
    <3> QED
      BY <2>1, <3>2
  <2>2. CASE m # 0
    <3>1. PICK g : EuclidTo(g, m - 1)
      BY <1>1, <2>2
    <3> DEFINE h == [p \in NatPairs |-> IF p[2] = m THEN Euclid(g, p) ELSE g[p]]
    <3>2. \A p \in NatPairs : h[p] = IF p[2] = m THEN Euclid(g, p) ELSE g[p]
      OBVIOUS
    <3> HIDE DEF h
    <3>3. ASSUME NEW p \in NatPairs, p[2] <= m PROVE h[p] = Euclid(h, p)
      <4>1. h[p] = Euclid(g, p)
        <5>1. CASE p[2] = m
          BY <3>2, <5>1
        <5>2. CASE p[2] # m
          <6>1. p[2] <= m - 1
            BY <3>3, <5>2 DEF NatPairs
          <6>2. g[p] = Euclid(g, p)
            BY <3>1, <6>1 DEF EuclidTo
          <6> QED
            BY <3>2, <5>2, <6>2
        <5> QED
          BY <5>1, <5>2
      <4>2. CASE p[2] = 0
        BY <4>1, <4>2, EuclidIs
      <4>3. CASE p[2] # 0
        <5> DEFINE r == NextOf(p)
        <5>1. r \in NatPairs /\ r[2] < p[2]
          BY <4>3, NextPair
        <5>2. Euclid(g, p) = g[r] /\ Euclid(h, p) = h[r]
          BY <4>3, EuclidIs
        <5> HIDE DEF r
        <5>3. r[2] # m
          BY <3>3, <5>1 DEF NatPairs
        <5>4. h[r] = g[r]
          BY <3>2, <5>1, <5>3
        <5> QED
          BY <4>1, <5>2, <5>4
      <4> QED
        BY <4>2, <4>3
    <3>4. EuclidTo(h, m)
      BY <3>3 DEF EuclidTo
    <3> QED
      BY <3>4
  <2> QED
    BY <2>1, <2>2
<1>2. Bad = {}
  <2> SUFFICES ASSUME Bad # {} PROVE FALSE
    OBVIOUS
  <2>1. PICK m \in Bad : \A j \in Bad : m <= j
    <3>1. Bad \subseteq Nat
      OBVIOUS
    <3> HIDE DEF Bad
    <3> QED
      BY <3>1, LeastNumber
  <2>2. m \in Nat /\ ~Good(m)
    OBVIOUS
  <2>3. m = 0 \/ (m - 1 \in Nat /\ ~(m <= m - 1))
    BY <2>2
  <2>4. m = 0 \/ Good(m - 1)
    BY <2>1, <2>3
  <2> HIDE DEF Good
  <2> QED
    BY <1>1, <2>2, <2>4
<1> HIDE DEF Good
<1>3. Good(k)
  BY <1>2
<1> QED
  BY <1>3 DEF Good

(* The function gcd is Euclid's algorithm.                                 *)
LEMMA GcdIs ==
  ASSUME NEW p \in NatPairs
  PROVE  gcd[p] = Euclid(gcd, p)
<1> DEFINE E(k) == CHOOSE g : EuclidTo(g, k)
           h == [q \in NatPairs |-> E(q[2])[q]]
<1>1. ASSUME NEW k \in Nat PROVE EuclidTo(E(k), k)
  BY EuclidsExist
<1>2. \A q \in NatPairs : h[q] = E(q[2])[q]
  OBVIOUS
<1>3. DOMAIN h = NatPairs
  OBVIOUS
<1> HIDE DEF E, h
<1>4. ASSUME NEW q \in NatPairs PROVE h[q] = Euclid(h, q)
  <2> DEFINE n == q[2]
  <2>1. n \in Nat
    BY DEF NatPairs
  <2>2. h[q] = Euclid(E(n), q)
    <3>1. E(n)[q] = Euclid(E(n), q)
      BY <1>1, <2>1 DEF EuclidTo
    <3> QED
      BY <1>2, <3>1
  <2>3. CASE n = 0
    BY <2>2, <2>3, EuclidIs
  <2>4. CASE n # 0
    <3> DEFINE r == NextOf(q)
               m == r[2]
    <3>1. r \in NatPairs /\ m < n
      BY <2>4, NextPair
    <3>2. Euclid(E(n), q) = E(n)[r] /\ Euclid(h, q) = h[r]
      BY <2>4, EuclidIs
    <3>3. h[r] = E(m)[r]
      BY <1>2, <3>1
    <3>4. m \in Nat /\ m <= n
      BY <2>1, <3>1 DEF NatPairs
    <3>5. EuclidTo(E(m), m) /\ EuclidTo(E(n), n)
      BY <1>1, <2>1, <3>4
    <3> HIDE DEF r
    <3>6. EuclidTo(E(n), m)
      <4> SUFFICES ASSUME NEW s \in NatPairs, s[2] <= m PROVE E(n)[s] = Euclid(E(n), s)
        BY DEF EuclidTo
      <4>1. s[2] \in Nat
        BY DEF NatPairs
      <4> HIDE DEF m, n
      <4>2. s[2] <= n
        BY <2>1, <3>4, <4>1
      <4> QED
        BY <3>5, <4>2 DEF EuclidTo
    <3>7. E(m)[r] = E(n)[r]
      BY <3>1, <3>4, <3>5, <3>6, EuclidsAgree
    <3> QED
      BY <2>2, <3>2, <3>3, <3>7
  <2> QED
    BY <2>3, <2>4
<1>5. h = [q \in NatPairs |-> Euclid(h, q)]
  <2>1. h = [q \in NatPairs |-> h[q]]
    BY <1>3 DEF h
  <2> QED
    BY <1>4, <2>1
<1>6. gcd = CHOOSE g : g = [q \in NatPairs |-> Euclid(g, q)]
  BY DEF gcd, Euclid, NatPairs
<1>7. gcd = [q \in NatPairs |-> Euclid(gcd, q)]
  BY <1>5, <1>6
<1> QED
  BY <1>7

(* What holds of a pair whose second number is 0, and of one whenever it   *)
(* holds of the next, holds of all.                                        *)
LEMMA PairInduction ==
  ASSUME NEW S, \A p \in NatPairs : p[2] = 0 => p \in S,
         \A p \in NatPairs : p[2] # 0 /\ NextOf(p) \in S => p \in S
  PROVE  NatPairs \subseteq S
<1> DEFINE Bad == {n \in Nat : \E p \in NatPairs : p[2] = n /\ p \notin S}
<1>1. Bad = {}
  <2> SUFFICES ASSUME Bad # {} PROVE FALSE
    OBVIOUS
  <2>1. PICK n \in Bad : \A m \in Bad : n <= m
    <3>1. Bad \subseteq Nat
      OBVIOUS
    <3> HIDE DEF Bad
    <3> QED
      BY <3>1, LeastNumber
  <2>2. PICK p \in NatPairs : p[2] = n /\ p \notin S
    OBVIOUS
  <2>3. n \in Nat /\ p[2] # 0 /\ NextOf(p) \notin S
    BY <2>2
  <2>4. NextOf(p) \in NatPairs /\ NextOf(p)[2] < n
    BY <2>2, <2>3, NextPair
  <2>5. NextOf(p)[2] \in Nat
    BY <2>4 DEF NatPairs
  <2>6. ~(n <= NextOf(p)[2])
    BY <2>3, <2>4, <2>5
  <2> QED
    BY <2>1, <2>3, <2>4, <2>5, <2>6
<1>2. \A p \in NatPairs : p[2] \in Nat
  BY DEF NatPairs
<1> QED
  BY <1>1, <1>2

\* The pair as an operator, so that the provers need not take it apart.
PairOf(m, n) == <<m, n>>

\* A pair of naturals and its parts.
LEMMA PairFacts ==
  ASSUME NEW m \in Nat, NEW n \in Nat
  PROVE  PairOf(m, n) \in NatPairs /\ PairOf(m, n)[1] = m /\ PairOf(m, n)[2] = n
BY DEF PairOf, NatPairs

\* The greatest common divisor is a natural number, 0 only of two zeros, it
\* divides both, and it grows with them.
Divides(p) ==
  /\ gcd[p] \in Nat
  /\ p[1] # 0 \/ p[2] # 0 => gcd[p] # 0
  /\ \E a, b \in Nat : p[1] = a * gcd[p] /\ p[2] = b * gcd[p]

\* All of it is true of every pair.
LEMMA GcdDivides ==
  ASSUME NEW p \in NatPairs
  PROVE  Divides(p)
<1> DEFINE S == {q \in NatPairs : Divides(q)}
<1>1. ASSUME NEW q \in NatPairs, q[2] = 0 PROVE q \in S
  <2> DEFINE m == q[1]
             g == gcd[q]
  <2>1. g = m /\ m \in Nat
    BY <1>1, GcdIs, EuclidIs DEF NatPairs
  <2> HIDE DEF m, g
  <2>2. m = 1 * g /\ 0 = 0 * g
    BY <2>1
  <2>3. Divides(q)
    BY <1>1, <2>1, <2>2 DEF Divides, m, g
  <2> QED
    BY <2>3
<1>2. ASSUME NEW q \in NatPairs, q[2] # 0, NextOf(q) \in S PROVE q \in S
  <2> DEFINE m == q[1]
             n == q[2]
             g == gcd[q]
             d == m \div n
             r == m % n
  <2>1. m \in Nat /\ n \in Nat /\ n # 0
    BY <1>2 DEF NatPairs
  <2>2. d \in Nat /\ r \in Nat /\ m = n * d + r
    BY <2>1, ModFacts
  <2>3. g = gcd[NextOf(q)]
    BY <1>2, GcdIs, EuclidIs
  <2>4. NextOf(q)[1] = n /\ NextOf(q)[2] = r
    BY <1>2, NextPair
  <2>5. Divides(NextOf(q))
    BY <1>2
  <2>6. g \in Nat /\ g # 0
    BY <2>1, <2>3, <2>4, <2>5 DEF Divides
  <2>7. PICK a \in Nat, b \in Nat : n = a * g /\ r = b * g
    BY <2>3, <2>4, <2>5 DEF Divides
  <2> HIDE DEF m, n, g, d, r
  <2>8. a * d + b \in Nat /\ m = (a * d + b) * g
    BY <2>2, <2>6, <2>7
  <2>9. Divides(q)
    BY <2>6, <2>7, <2>8 DEF Divides, m, n, g
  <2> QED
    BY <2>9
<1> HIDE DEF S
<1>3. NatPairs \subseteq S
  BY <1>1, <1>2, PairInduction
<1> QED
  BY <1>3 DEF S

\* The denominators of finite numbers.
Positive == Nat \ {0}

\* A number without its sign.
Unsigned(n) == IF n < 0 THEN -n ELSE n

\* It is natural and the same for both signs.
LEMMA UnsignedFacts ==
  ASSUME NEW n \in Int
  PROVE  Unsigned(n) \in Nat /\ Unsigned(-n) = Unsigned(n)
BY DEF Unsigned

\* A division that leaves nothing.
LEMMA ProductOver ==
  ASSUME NEW c \in Int, NEW g \in Positive
  PROVE  (c * g) \div g = c
BY DEF Positive

\* What Reduced returns for a finite number.
LEMMA ReducedIs ==
  ASSUME NEW n, NEW d, d # 0
  PROVE  Reduced(n, d) = PairOf(n \div gcd[PairOf(Unsigned(n), d)], d \div gcd[PairOf(Unsigned(n), d)])
BY DEF Reduced, PairOf, Unsigned

(* A fraction in lowest terms is the fraction with its common divisor      *)
(* taken out, and so is the one of the opposite sign.                      *)
LEMMA Reduction ==
  ASSUME NEW n \in Int, NEW d \in Positive
  PROVE  \E a \in Int, b \in Positive, g \in Positive :
           /\ n = a * g /\ d = b * g
           /\ Reduced(n, d) = PairOf(a, b) /\ Reduced(-n, d) = PairOf(-a, b)
<1> DEFINE m == Unsigned(n)
           t == PairOf(m, d)
           g == gcd[t]
<1>1. m \in Nat /\ d \in Nat /\ d # 0 /\ Unsigned(-n) = m
  BY UnsignedFacts DEF Positive
<1> HIDE DEF m
<1>2. t \in NatPairs /\ t[1] = m /\ t[2] = d
  BY <1>1, PairFacts
<1> HIDE DEF t
<1>3. Divides(t)
  BY <1>2, GcdDivides
<1>4. g \in Positive
  BY <1>1, <1>2, <1>3 DEF Divides, Positive
<1>5. PICK c \in Nat, b \in Nat : m = c * g /\ d = b * g
  BY <1>2, <1>3 DEF Divides
<1> HIDE DEF g
<1>6. b \in Positive
  BY <1>1, <1>4, <1>5 DEF Positive
<1> DEFINE a == IF n < 0 THEN -c ELSE c
<1>7. a \in Int /\ n = a * g /\ -n = (-a) * g
  BY <1>4, <1>5 DEF Positive, m, Unsigned
<1> HIDE DEF a
<1>8. n \div g = a /\ (-n) \div g = -a /\ d \div g = b
  <2>1. (a * g) \div g = a /\ ((-a) * g) \div g = -a /\ (b * g) \div g = b
    BY <1>4, <1>6, <1>7, ProductOver DEF Positive
  <2> QED
    BY <1>5, <1>7, <2>1, Zenon
<1>9. Reduced(n, d) = PairOf(n \div g, d \div g) /\ Reduced(-n, d) = PairOf((-n) \div g, d \div g)
  BY <1>1, ReducedIs DEF g, t, m
<1>10. Reduced(n, d) = PairOf(a, b) /\ Reduced(-n, d) = PairOf(-a, b)
  BY <1>8, <1>9, Zenon
<1> QED
  BY <1>4, <1>5, <1>6, <1>7, <1>10

\* A number: its two parts are all there is of it.
InParts(p) == p = PairOf(p[1], p[2]) /\ p[1] \in Int /\ p[2] \in Nat

\* The values that are no finite number.
Special(p) == p = <<1, 0>> \/ p = <<-1, 0>> \/ p = <<0, 0>>

\* A double, with its parts.
IsDouble(p) == InParts(p) /\ Machine(p) /\ (p[2] = 0 => Special(p)) /\ p = Reduced(p[1], p[2])

\* A number and its opposite.
LEMMA NegInParts ==
  ASSUME NEW p, InParts(p)
  PROVE  /\ InParts(Neg(p)) /\ Neg(Neg(p)) = p /\ Neg(p)[1] = -p[1] /\ Neg(p)[2] = p[2]
         /\ p[1] = 0 => Neg(p) = p
BY DEF InParts, Neg, PairOf

\* The special values are what Reduced makes of a denominator 0.
LEMMA SpecialFacts ==
  ASSUME NEW n \in Int
  PROVE  /\ Special(Reduced(n, 0)) /\ InParts(Reduced(n, 0)) /\ Reduced(n, 0)[2] = 0
         /\ Reduced(-n, 0) = Neg(Reduced(n, 0))
         /\ n = 0 <=> Reduced(n, 0) = <<0, 0>>
         /\ Reduced(Reduced(n, 0)[1], 0) = Reduced(n, 0)
<1>1. CASE n > 0
  <2>1. Reduced(n, 0) = <<1, 0>> /\ Reduced(-n, 0) = <<-1, 0>> /\ Reduced(1, 0) = <<1, 0>>
    BY <1>1 DEF Reduced
  <2> QED
    BY <1>1, <2>1 DEF Special, InParts, PairOf, Neg
<1>2. CASE n < 0
  <2>1. Reduced(n, 0) = <<-1, 0>> /\ Reduced(-n, 0) = <<1, 0>> /\ Reduced(-1, 0) = <<-1, 0>>
    BY <1>2 DEF Reduced
  <2> QED
    BY <1>2, <2>1 DEF Special, InParts, PairOf, Neg
<1>3. CASE n = 0
  <2>1. Reduced(n, 0) = <<0, 0>> /\ Reduced(-n, 0) = <<0, 0>> /\ Reduced(0, 0) = <<0, 0>>
    BY <1>3 DEF Reduced
  <2> QED
    BY <1>3, <2>1 DEF Special, InParts, PairOf, Neg
<1> QED
  BY <1>1, <1>2, <1>3

\* What Reduced makes of any fraction, and of the opposite one.
LEMMA ReducedFacts ==
  ASSUME NEW n \in Int, NEW d \in Nat
  PROVE  LET p == Reduced(n, d)
         IN  /\ InParts(p) /\ (p[2] = 0 <=> d = 0) /\ (d = 0 => Special(p))
             /\ Reduced(-n, d) = Neg(p)
             /\ d # 0 => (n = 0 <=> p = Frac(0)) /\ (n = 0 <=> p[1] = 0)
             /\ (n = d /\ d # 0) => p = Frac(1)
<1>1. CASE d = 0
  BY <1>1, SpecialFacts
<1>2. CASE d # 0
  <2>0. d \in Positive
    BY <1>2 DEF Positive
  <2>1. PICK a \in Int, b \in Positive, g \in Positive :
          /\ n = a * g /\ d = b * g
          /\ Reduced(n, d) = PairOf(a, b) /\ Reduced(-n, d) = PairOf(-a, b)
    BY <2>0, Reduction
  <2>2. InParts(Reduced(n, d)) /\ Reduced(n, d)[2] # 0 /\ Reduced(-n, d) = Neg(Reduced(n, d))
    <3>1. PairOf(a, b)[1] = a /\ PairOf(a, b)[2] = b /\ PairOf(a, b) = <<a, b>> /\ b \in Nat /\ b # 0
      BY DEF PairOf, Positive
    <3>2. InParts(PairOf(a, b))
      BY <3>1 DEF InParts, PairOf
    <3>3. PairOf(-a, b) = Neg(PairOf(a, b))
      BY <3>1 DEF Neg, PairOf
    <3> QED
      BY <2>1, <3>1, <3>2, <3>3
  <2>3. \A m \in Nat : PairOf(m, d) \in NatPairs /\ PairOf(m, d)[1] = m /\ PairOf(m, d)[2] = d
    BY PairFacts
  <2>4. ASSUME NEW m \in {0, d} PROVE gcd[PairOf(m, d)] = d
    <3> DEFINE t == PairOf(m, d)
    <3>1. t \in NatPairs /\ t[1] = m /\ t[2] = d /\ m \in Nat
      BY <2>3
    <3> HIDE DEF t
    <3>2. gcd[t] = gcd[NextOf(t)] /\ NextOf(t) \in NatPairs /\ NextOf(t)[1] = d
          /\ NextOf(t)[2] = m % d
      BY <1>2, <3>1, GcdIs, EuclidIs, NextPair
    <3>3. m % d = 0
      <4>1. 0 % d = 0 /\ d % d = 0
        BY <2>0 DEF Positive
      <4> QED
        BY <4>1
    <3>4. gcd[NextOf(t)] = d
      BY <3>2, <3>3, GcdIs, EuclidIs
    <3> QED
      BY <3>2, <3>4 DEF t
  <2>5. n = 0 => Reduced(n, d) = PairOf(0, 1)
    <3>1. Unsigned(0) = 0 /\ 0 \div d = 0 /\ d \div d = 1
      BY <2>0 DEF Unsigned, Positive
    <3> QED
      BY <1>2, <2>4, <3>1, ReducedIs
  <2>6. n = d => Reduced(n, d) = PairOf(1, 1)
    <3>1. n = d => Unsigned(n) = d /\ n \div d = 1 /\ d \div d = 1
      BY <2>0 DEF Unsigned, Positive
    <3> QED
      BY <1>2, <2>4, <3>1, ReducedIs
  <2>7. n = 0 => Reduced(n, d) = Frac(0) /\ Reduced(n, d)[1] = 0
    BY <2>5 DEF PairOf, Frac
  <2>8. Reduced(n, d)[1] = 0 => n = 0
    <3>1. Reduced(n, d)[1] = a
      BY <2>1 DEF PairOf
    <3>2. g \in Nat
      BY DEF Positive
    <3> QED
      BY <2>1, <3>1, <3>2
  <2>9. Reduced(n, d) = Frac(0) => Reduced(n, d)[1] = 0
    BY DEF Frac
  <2>10. n = d => Reduced(n, d) = Frac(1)
    BY <2>6 DEF PairOf, Frac
  <2> QED
    BY <1>2, <2>2, <2>7, <2>8, <2>9, <2>10
<1> QED
  BY <1>1, <1>2

\* The parts of the doubles from 0 on.
LEMMA FloatFacts ==
  ASSUME NEW p \in Floats
  PROVE  InParts(p) /\ p[1] \in Nat /\ p[2] \in Nat \ {0} /\ p = Reduced(p[1], p[2])
<1>1. PICK k \in 0..(Top - 1) : p = Float[k]
  BY DEF Floats
<1>2. k \in 0..Top
  BY ComplexAssumption
<1>3. Float[k] \in Nat \X (Nat \ {0}) /\ Float[k] = Reduced(Float[k][1], Float[k][2])
  BY <1>2, ComplexAssumption
<1> QED
  BY <1>1, <1>3 DEF InParts, PairOf

\* What NearestFloat returns, whether or not it is the nearest.
LEMMA NearestDouble ==
  ASSUME NEW p, InParts(p), 0 <= p[1], p[2] # 0
  PROVE  NearestFloat(p) \in Floats \/ NearestFloat(p) = <<1, 0>>
<1> DEFINE k == LastBelow(p)
           m == PlaceOf(p, k)
<1>1. NearestFloat(p) = IF ~Smaller(p, Float[Top]) \/ m = Top THEN <<1, 0>> ELSE Float[m]
  BY DEF NearestFloat, FloatAt
<1>2. Top \in Nat /\ Float[0] = Frac(0)
  BY ComplexAssumption
<1>3. ~Smaller(p, Float[0])
  BY <1>2 DEF Smaller, Frac, InParts
<1>4. ASSUME Smaller(p, Float[Top]) PROVE k \in 0..(Top - 1)
  <2> DEFINE S == {j \in 0..Top : Smaller(p, Float[j])}
  <2>1. PICK j \in S : \A i \in S : j <= i
    <3>1. S \subseteq Nat /\ Top \in S
      BY <1>2, <1>4
    <3> HIDE DEF S
    <3> QED
      BY <3>1, LeastNumber
  <2>2. j \in 0..Top /\ Smaller(p, Float[j]) /\ j # 0
    BY <1>3
  <2>3. j - 1 \in 0..(Top - 1) /\ j - 1 \in 0..Top /\ ~(j <= j - 1) /\ (j - 1) + 1 = j
    BY <1>2, <2>2
  <2>4. ~Smaller(p, Float[j - 1])
    BY <2>1, <2>3
  <2>5. \E i \in 0..(Top - 1) : ~Smaller(p, Float[i]) /\ Smaller(p, Float[i + 1])
    BY <2>2, <2>3, <2>4
  <2> QED
    BY <2>5 DEF LastBelow
<1> HIDE DEF k
<1>5. ASSUME Smaller(p, Float[Top]), m # Top PROVE m \in 0..(Top - 1)
  <2>1. k \in 0..(Top - 1) /\ (m = k \/ m = k + 1)
    BY <1>4, <1>5 DEF PlaceOf, Nearer
  <2> HIDE DEF m
  <2> QED
    BY <1>2, <1>5, <2>1
<1> HIDE DEF m
<1> QED
  BY <1>1, <1>5 DEF Floats

\* A double stays as it is, its opposite is one too, and rounding gives one.
LEMMA DoubleFacts ==
  ASSUME NEW p, IsDouble(p)
  PROVE  Round(p) = p /\ IsDouble(Neg(p))
<1>1. InParts(p) /\ Machine(p) /\ p = Reduced(p[1], p[2])
  BY DEF IsDouble
<1>2. Round(p) = p
  BY <1>1 DEF Round
<1>3. InParts(Neg(p)) /\ Neg(Neg(p)) = p /\ Neg(p)[1] = -p[1] /\ Neg(p)[2] = p[2]
  BY <1>1, NegInParts
<1>4. Machine(Neg(p))
  BY <1>1, <1>3 DEF Machine, Finite
<1>5. Neg(p) = Reduced(Neg(p)[1], Neg(p)[2])
  <2>1. p[1] \in Int /\ p[2] \in Nat
    BY <1>1 DEF InParts
  <2>2. Reduced(-p[1], p[2]) = Neg(Reduced(p[1], p[2]))
    BY <2>1, ReducedFacts
  <2> QED
    BY <1>1, <1>3, <2>2
<1>6. Neg(p)[2] = 0 => Special(Neg(p))
  BY <1>3 DEF IsDouble, Special, Neg
<1> QED
  BY <1>2, <1>3, <1>4, <1>5, <1>6 DEF IsDouble

\* What is held is in lowest terms.
LEMMA MachineIsDouble ==
  ASSUME NEW p, InParts(p), Machine(p), p[2] = 0 => Special(p)
  PROVE  IsDouble(p)
<1>1. CASE p[2] = 0
  <2>1. Special(p)
    BY <1>1
  <2>2. p = Reduced(p[1], p[2])
    BY <2>1 DEF Special, Reduced
  <2> QED
    BY <2>2 DEF IsDouble
<1>2. CASE p \in Floats
  BY <1>2, FloatFacts DEF IsDouble
<1>3. CASE Neg(p) \in Floats
  <2> DEFINE q == Neg(p)
  <2>1. InParts(q) /\ q = Reduced(q[1], q[2]) /\ q[2] # 0
    BY <1>3, FloatFacts
  <2>2. IsDouble(q)
    BY <1>3, <2>1 DEF IsDouble, Machine
  <2>3. Neg(q) = p
    BY NegInParts
  <2> HIDE DEF q
  <2> QED
    BY <2>2, <2>3, DoubleFacts
<1> QED
  BY <1>1, <1>2, <1>3 DEF Machine, Finite

\* The doubles that are named in the code.
LEMMA KnownDoubles ==
  /\ IsDouble(<<1, 0>>) /\ \A p \in Floats : IsDouble(p)
  /\ IsDouble(Frac(0)) /\ IsDouble(Frac(1))
  /\ \A n \in Doubles : n \in Int /\ IsDouble(Frac(n))
<1>1. \A p \in Floats : IsDouble(p)
  BY FloatFacts DEF IsDouble, Machine
<1>2. Frac(0) \in Floats /\ Frac(1) \in Floats
  <2>1. 0 \in 0..(Top - 1)
    BY ComplexAssumption
  <2> QED
    BY <2>1, ComplexAssumption DEF Floats
<1>3. IsDouble(<<1, 0>>)
  BY DEF IsDouble, InParts, PairOf, Machine, Finite, Special, Reduced
<1>4. ASSUME NEW n \in Doubles PROVE n \in Int /\ IsDouble(Frac(n))
  <2>1. n \in Int /\ Frac(IF n < 0 THEN -n ELSE n) \in Floats
    BY ComplexAssumption
  <2>2. CASE n < 0
    <3>1. IsDouble(Frac(-n)) /\ Neg(Frac(-n)) = Frac(n)
      BY <1>1, <2>1, <2>2 DEF Neg, Frac
    <3> QED
      BY <2>1, <3>1, DoubleFacts
  <2>3. CASE ~(n < 0)
    BY <1>1, <2>1, <2>3
  <2> QED
    BY <2>1, <2>2, <2>3
<1> QED
  BY <1>1, <1>2, <1>3, <1>4

(* Rounding is odd and ends at a double.                                   *)
LEMMA Rounding ==
  ASSUME NEW n \in Int, NEW d \in Nat
  PROVE  /\ IsDouble(Round(Reduced(n, d)))
         /\ Round(Reduced(-n, d)) = Neg(Round(Reduced(n, d)))
<1> DEFINE p == Reduced(n, d)
           q == Reduced(-n, d)
<1>1. InParts(p) /\ (p[2] = 0 <=> d = 0) /\ (d = 0 => Special(p)) /\ q = Neg(p)
  BY ReducedFacts
<1>2. p[1] = 0 /\ d # 0 => p = Frac(0)
  BY ReducedFacts
<1> HIDE DEF p, q
<1>3. InParts(q) /\ Neg(q) = p /\ q[1] = -p[1] /\ q[2] = p[2] /\ (p[1] = 0 => q = p)
  BY <1>1, NegInParts
<1>4. Machine(p) <=> Machine(q)
  BY <1>1, <1>3 DEF Machine, Finite
<1>5. CASE Machine(p)
  <2>1. Round(p) = p /\ Round(q) = q
    BY <1>4, <1>5 DEF Round
  <2>2. IsDouble(p)
    BY <1>1, <1>5, MachineIsDouble
  <2> QED
    BY <1>1, <2>1, <2>2 DEF p, q
<1>6. CASE ~Machine(p)
  <2>1. p[2] # 0 /\ q[2] # 0 /\ p[1] \in Int
    BY <1>1, <1>3, <1>6 DEF Machine, Finite, InParts
  <2>2. ASSUME NEW r, InParts(r), 0 <= r[1], r[2] # 0
        PROVE  /\ IsDouble(NearestFloat(r)) /\ IsDouble(Neg(NearestFloat(r)))
               /\ Neg(Neg(NearestFloat(r))) = NearestFloat(r)
    <3>1. IsDouble(NearestFloat(r))
      BY <2>2, NearestDouble, KnownDoubles
    <3> QED
      BY <3>1, DoubleFacts, NegInParts DEF IsDouble
  <2>3. CASE p[1] < 0
    <3>1. Round(p) = Neg(NearestFloat(q)) /\ Round(q) = NearestFloat(q)
      <4>1. 0 <= q[1]
        BY <1>3, <2>1, <2>3
      <4> QED
        BY <1>1, <1>4, <1>6, <2>3, <4>1, <1>3, <2>1 DEF Round, WithSign
    <3>2. 0 <= q[1]
      BY <1>3, <2>1, <2>3
    <3> QED
      BY <1>3, <2>1, <2>2, <3>1, <3>2 DEF p, q
  <2>4. CASE p[1] > 0
    <3>1. Round(q) = Neg(NearestFloat(p)) /\ Round(p) = NearestFloat(p)
      <4>1. q[1] < 0
        BY <1>3, <2>1, <2>4
      <4> QED
        BY <1>1, <1>3, <1>4, <1>6, <2>1, <2>4, <4>1 DEF Round, WithSign
    <3> QED
      BY <1>1, <2>1, <2>2, <2>4, <3>1 DEF p, q
  <2>5. p[1] # 0
    <3>1. p[1] = 0 => p = Frac(0)
      BY <1>1, <1>2, <2>1
    <3>2. Machine(Frac(0))
      BY KnownDoubles DEF IsDouble
    <3> QED
      BY <1>6, <3>1, <3>2
  <2> QED
    BY <2>1, <2>3, <2>4, <2>5
<1> QED
  BY <1>5, <1>6

\* Sums of doubles.
LEMMA AddFacts ==
  ASSUME NEW p, IsDouble(p), NEW q, IsDouble(q)
  PROVE  /\ IsDouble(Add(p, q)) /\ Add(p, q) = Add(q, p)
         /\ Add(p, Frac(0)) = p /\ Add(Frac(0), p) = p
         /\ Add(Neg(p), Neg(q)) = Neg(Add(p, q))
         /\ Finite(p) => Add(p, Neg(p)) = Frac(0) /\ Add(Neg(p), p) = Frac(0)
<1>1. /\ p[1] \in Int /\ p[2] \in Nat /\ q[1] \in Int /\ q[2] \in Nat
      /\ p = Reduced(p[1], p[2]) /\ InParts(p) /\ InParts(q)
  BY DEF IsDouble, InParts
<1> DEFINE Top1(r, s) == r[1] * s[2] + s[1] * r[2]
           Sum(r, s) == Round(Reduced(Top1(r, s), r[2] * s[2]))
<1>2. \A r, s : Add(r, s) = IF r = s /\ ~Finite(r) THEN r ELSE Sum(r, s)
  BY DEF Add
<1>3. /\ Top1(p, q) = Top1(q, p) /\ p[2] * q[2] = q[2] * p[2]
      /\ Top1(p, q) \in Int /\ p[2] * q[2] \in Nat
  BY <1>1
<1>4. IsDouble(Sum(p, q))
  BY <1>3, Rounding
<1>5. IsDouble(Add(p, q)) /\ Add(p, q) = Add(q, p)
  <2>1. Sum(p, q) = Sum(q, p)
    BY <1>3
  <2> HIDE DEF Sum
  <2> QED
    BY <1>2, <1>4, <2>1
<1>6. Add(p, Frac(0)) = p /\ Add(Frac(0), p) = p
  <2>1. Top1(p, Frac(0)) = p[1] /\ Top1(Frac(0), p) = p[1]
        /\ p[2] * Frac(0)[2] = p[2] /\ Frac(0)[2] * p[2] = p[2]
    BY <1>1 DEF Frac
  <2>2. Sum(p, Frac(0)) = p /\ Sum(Frac(0), p) = p
    BY <1>1, <2>1, DoubleFacts
  <2>3. Finite(Frac(0))
    BY DEF Finite, Frac
  <2> HIDE DEF Sum
  <2> QED
    BY <1>2, <2>2, <2>3
<1>7. Add(Neg(p), Neg(q)) = Neg(Add(p, q))
  <2>1. /\ Neg(p)[1] = -p[1] /\ Neg(p)[2] = p[2] /\ Neg(q)[1] = -q[1] /\ Neg(q)[2] = q[2]
        /\ Neg(Neg(p)) = p /\ Neg(Neg(q)) = q
    BY <1>1, NegInParts
  <2>2. Top1(Neg(p), Neg(q)) = -Top1(p, q)
    BY <1>1, <2>1
  <2>3. Sum(Neg(p), Neg(q)) = Neg(Sum(p, q))
    <3>1. Sum(Neg(p), Neg(q)) = Round(Reduced(-Top1(p, q), p[2] * q[2]))
      BY <2>1, <2>2
    <3> HIDE DEF Top1
    <3> QED
      BY <1>3, <3>1, Rounding
  <2>4. (Neg(p) = Neg(q) <=> p = q) /\ (Finite(Neg(p)) <=> Finite(p))
    BY <2>1 DEF Finite
  <2> HIDE DEF Sum
  <2> QED
    BY <1>2, <2>3, <2>4
<1>8. ASSUME Finite(p) PROVE Add(p, Neg(p)) = Frac(0) /\ Add(Neg(p), p) = Frac(0)
  <2>1. Neg(p)[1] = -p[1] /\ Neg(p)[2] = p[2]
    BY <1>1, NegInParts
  <2>2. p[2] # 0 /\ p[2] * p[2] \in Nat /\ p[2] * p[2] # 0
    BY <1>1, <1>8 DEF Finite
  <2>3. Top1(p, Neg(p)) = 0 /\ Top1(Neg(p), p) = 0
    BY <1>1, <2>1
  <2>4. Reduced(0, p[2] * p[2]) = Frac(0)
    BY <2>2, ReducedFacts
  <2>5. Round(Frac(0)) = Frac(0)
    BY KnownDoubles, DoubleFacts
  <2>6. Sum(p, Neg(p)) = Frac(0) /\ Sum(Neg(p), p) = Frac(0)
    BY <2>1, <2>3, <2>4, <2>5
  <2>7. Finite(Neg(p))
    BY <2>1, <2>2 DEF Finite
  <2> HIDE DEF Sum
  <2> QED
    BY <1>2, <1>8, <2>6, <2>7
<1> QED
  BY <1>5, <1>6, <1>7, <1>8

\* Products of doubles.
LEMMA MulFacts ==
  ASSUME NEW p, IsDouble(p), NEW q, IsDouble(q)
  PROVE  /\ IsDouble(Mul(p, q)) /\ Mul(p, q) = Mul(q, p)
         /\ Finite(p) => Mul(p, Frac(0)) = Frac(0) /\ Mul(Frac(0), p) = Frac(0)
         /\ Mul(p, Neg(q)) = Neg(Mul(p, q))
<1>1. p[1] \in Int /\ p[2] \in Nat /\ q[1] \in Int /\ q[2] \in Nat /\ InParts(q)
  BY DEF IsDouble, InParts
<1>2. /\ p[1] * q[1] = q[1] * p[1] /\ p[2] * q[2] = q[2] * p[2]
      /\ p[1] * q[1] \in Int /\ p[2] * q[2] \in Nat
  BY <1>1
<1>3. IsDouble(Mul(p, q)) /\ Mul(p, q) = Mul(q, p)
  BY <1>2, Rounding DEF Mul
<1>4. ASSUME Finite(p) PROVE Mul(p, Frac(0)) = Frac(0) /\ Mul(Frac(0), p) = Frac(0)
  <2>1. /\ p[1] * Frac(0)[1] = 0 /\ Frac(0)[1] * p[1] = 0
        /\ p[2] * Frac(0)[2] = p[2] /\ Frac(0)[2] * p[2] = p[2] /\ p[2] # 0
    BY <1>1, <1>4 DEF Frac, Finite
  <2>2. Reduced(0, p[2]) = Frac(0)
    BY <1>1, <2>1, ReducedFacts
  <2>3. Round(Frac(0)) = Frac(0)
    BY KnownDoubles, DoubleFacts
  <2> QED
    BY <2>1, <2>2, <2>3 DEF Mul
<1>5. Mul(p, Neg(q)) = Neg(Mul(p, q))
  <2>1. Neg(q)[1] = -q[1] /\ Neg(q)[2] = q[2]
    BY <1>1, NegInParts
  <2>2. p[1] * (-q[1]) = -(p[1] * q[1])
    BY <1>1
  <2>3. Mul(p, Neg(q)) = Round(Reduced(-(p[1] * q[1]), p[2] * q[2]))
    BY <2>1, <2>2 DEF Mul
  <2> QED
    BY <1>2, <2>3, Rounding DEF Mul
<1> QED
  BY <1>3, <1>4, <1>5

\* Quotients of doubles.
LEMMA DivFacts ==
  ASSUME NEW p, IsDouble(p), NEW q, IsDouble(q)
  PROVE  /\ IsDouble(Div(p, q))
         /\ (Finite(p) /\ p[1] # 0) => Div(p, p) = Frac(1)
         /\ Div(Frac(0), Frac(0)) = <<0, 0>>
         /\ (Finite(p) /\ p[1] # 0) => Div(Frac(0), p) = Frac(0)
         /\ (Finite(p) /\ p[1] # 0) => Div(p, Frac(0)) # <<0, 0>>
<1>1. p[1] \in Int /\ p[2] \in Nat /\ q[1] \in Int /\ q[2] \in Nat
  BY DEF IsDouble, InParts
<1>2. IsDouble(Div(p, q))
  <2>1. CASE q[1] < 0
    <3>1. -p[1] * q[2] \in Int /\ -p[2] * q[1] \in Nat
      BY <1>1, <2>1
    <3> QED
      BY <2>1, <3>1, Rounding DEF Div
  <2>2. CASE ~(q[1] < 0)
    <3>1. p[1] * q[2] \in Int /\ p[2] * q[1] \in Nat
      BY <1>1, <2>2
    <3> QED
      BY <2>2, <3>1, Rounding DEF Div
  <2> QED
    BY <2>1, <2>2
<1>3. ASSUME Finite(p), p[1] # 0 PROVE Div(p, p) = Frac(1)
  <2>0. p[2] # 0
    BY <1>3 DEF Finite
  <2>1. ASSUME NEW m \in Int, NEW n \in Nat, n # 0, m = n PROVE Round(Reduced(m, n)) = Frac(1)
    <3>1. Reduced(m, n) = Frac(1)
      BY <2>1, ReducedFacts
    <3> QED
      BY <3>1, KnownDoubles, DoubleFacts
  <2>2. CASE p[1] < 0
    <3> DEFINE m == -p[1] * p[2]
               n == -p[2] * p[1]
    <3>1. m \in Int /\ n \in Nat /\ n # 0 /\ m = n
      BY <1>1, <1>3, <2>0, <2>2
    <3>2. Div(p, p) = Round(Reduced(m, n))
      BY <2>2 DEF Div
    <3> HIDE DEF m, n
    <3> QED
      BY <2>1, <3>1, <3>2
  <2>3. CASE ~(p[1] < 0)
    <3> DEFINE m == p[1] * p[2]
               n == p[2] * p[1]
    <3>1. m \in Int /\ n \in Nat /\ n # 0 /\ m = n
      BY <1>1, <1>3, <2>0, <2>3
    <3>2. Div(p, p) = Round(Reduced(m, n))
      BY <2>3 DEF Div
    <3> HIDE DEF m, n
    <3> QED
      BY <2>1, <3>1, <3>2
  <2> QED
    BY <2>2, <2>3
<1>4. Frac(0)[1] = 0 /\ Frac(0)[2] = 1
  BY DEF Frac
<1>5. \A n \in Int : Round(Reduced(n, 0)) = Reduced(n, 0)
  BY SpecialFacts DEF Round, Machine, Finite
<1>6. Div(Frac(0), Frac(0)) = <<0, 0>>
  <2>1. Div(Frac(0), Frac(0)) = Round(Reduced(0, 0))
    BY <1>4 DEF Div
  <2> QED
    BY <1>5, <2>1, SpecialFacts
<1>7. ASSUME p[1] # 0 PROVE Div(p, Frac(0)) # <<0, 0>>
  <2>1. p[1] * 1 = p[1] /\ p[2] * 0 = 0
    BY <1>1
  <2>2. Div(p, Frac(0)) = Round(Reduced(p[1], 0))
    BY <1>4, <2>1 DEF Div
  <2> QED
    BY <1>1, <1>5, <1>7, <2>2, SpecialFacts
<1>8. ASSUME Finite(p), p[1] # 0 PROVE Div(Frac(0), p) = Frac(0)
  <2>1. ASSUME NEW n \in Nat, n # 0 PROVE Round(Reduced(0, n)) = Frac(0)
    <3>1. Reduced(0, n) = Frac(0)
      BY <2>1, ReducedFacts
    <3> QED
      BY <3>1, KnownDoubles, DoubleFacts
  <2>2. CASE p[1] < 0
    <3>1. -1 * p[1] \in Nat /\ -1 * p[1] # 0 /\ -0 * p[2] = 0
      BY <1>1, <2>2
    <3> QED
      BY <1>4, <2>1, <2>2, <3>1 DEF Div
  <2>3. CASE ~(p[1] < 0)
    <3>1. 1 * p[1] \in Nat /\ 1 * p[1] # 0 /\ 0 * p[2] = 0
      BY <1>1, <1>8, <2>3
    <3> QED
      BY <1>4, <2>1, <2>3, <3>1 DEF Div
  <2> QED
    BY <2>2, <2>3
<1> QED
  BY <1>2, <1>3, <1>6, <1>7, <1>8

\* An object of two doubles.
TwoDoubles(c) == IsComplex(c) /\ IsDouble(c.realValue) /\ IsDouble(c.imaginaryValue)

\* What the constructor makes of two doubles.
LEMMA Made ==
  ASSUME NEW r, IsDouble(r), NEW i, IsDouble(i)
  PROVE  TwoDoubles(Complex2(r, i))
BY ComplexFacts DEF TwoDoubles

\* There is one zero.
LEMMA NegZero == Neg(Frac(0)) = Frac(0)
<1>1. InParts(Frac(0)) /\ Frac(0)[1] = 0
  BY KnownDoubles DEF IsDouble, Frac
<1> QED
  BY <1>1, NegInParts

\* The opposite and the difference of doubles.
LEMMA SubFacts ==
  ASSUME NEW p, IsDouble(p), NEW q, IsDouble(q)
  PROVE  /\ IsDouble(Neg(p)) /\ IsDouble(Sub(p, q)) /\ Neg(Neg(p)) = p /\ Sub(p, Frac(0)) = p
         /\ Sub(Frac(0), p) = Neg(p)
         /\ Sub(q, p) = Neg(Sub(p, q)) /\ (Finite(p) => Sub(p, p) = Frac(0))
<1>1. IsDouble(Neg(p)) /\ IsDouble(Neg(q))
  BY DoubleFacts
<1>2. Neg(Neg(p)) = p /\ Neg(Neg(q)) = q
  BY NegInParts DEF IsDouble
<1>3. Neg(Frac(0)) = Frac(0)
  BY NegZero
<1>4. Sub(p, q) = Add(p, Neg(q)) /\ Sub(q, p) = Add(q, Neg(p)) /\ Sub(p, Frac(0)) = Add(p, Frac(0))
      /\ Sub(p, p) = Add(p, Neg(p)) /\ Sub(Frac(0), p) = Add(Frac(0), Neg(p))
  BY <1>3 DEF Sub
<1>5. Add(q, Neg(p)) = Neg(Add(Neg(q), p)) /\ Add(Neg(q), p) = Add(p, Neg(q))
  <2>1. Add(Neg(Neg(q)), Neg(p)) = Neg(Add(Neg(q), p))
    BY <1>1, AddFacts
  <2> QED
    BY <1>1, <1>2, <2>1, AddFacts
<1> QED
  BY <1>1, <1>2, <1>4, <1>5, AddFacts

\* Every operator returns two doubles.
LEMMA OperatorsMake ==
  ASSUME NEW a, TwoDoubles(a), NEW c, TwoDoubles(c), NEW d, IsDouble(d)
  PROVE  /\ TwoDoubles(Plus(a, c)) /\ TwoDoubles(Minus(a, c))
         /\ TwoDoubles(Times(a, c)) /\ TwoDoubles(Over(a, c))
         /\ TwoDoubles(DPlus(d, c)) /\ TwoDoubles(DMinus(d, c))
         /\ TwoDoubles(DTimes(d, c)) /\ TwoDoubles(DOver(d, c))
         /\ TwoDoubles(PlusD(c, d)) /\ TwoDoubles(MinusD(c, d))
         /\ TwoDoubles(TimesD(c, d)) /\ TwoDoubles(OverD(c, d))
<1>1. /\ IsDouble(a.realValue) /\ IsDouble(a.imaginaryValue)
      /\ IsDouble(c.realValue) /\ IsDouble(c.imaginaryValue) /\ IsDouble(Frac(0))
  BY KnownDoubles DEF TwoDoubles
<1>2. \A p, q : IsDouble(p) /\ IsDouble(q) =>
        IsDouble(Add(p, q)) /\ IsDouble(Sub(p, q)) /\ IsDouble(Mul(p, q)) /\ IsDouble(Div(p, q))
        /\ IsDouble(Neg(p))
  BY AddFacts, SubFacts, MulFacts, DivFacts, DoubleFacts
<1>3. \A r, i : IsDouble(r) /\ IsDouble(i) => TwoDoubles(Complex2(r, i))
  BY Made
<1>4. ASSUME NEW b, TwoDoubles(b), NEW e, TwoDoubles(e) PROVE TwoDoubles(Times(b, e))
  <2>1. /\ IsDouble(b.realValue) /\ IsDouble(b.imaginaryValue)
        /\ IsDouble(e.realValue) /\ IsDouble(e.imaginaryValue)
    BY <1>4 DEF TwoDoubles
  <2> QED
    BY <1>2, <1>3, <2>1 DEF Times
<1>5. ASSUME NEW b, TwoDoubles(b) PROVE TwoDoubles(Over(b, c))
  <2> DEFINE conj == Complex2(c.realValue, Neg(c.imaginaryValue))
             nume == Times(b, conj)
             den == NormSquared(c)
  <2>1. TwoDoubles(conj)
    BY <1>1, <1>2, <1>3
  <2>2. TwoDoubles(nume)
    BY <1>4, <1>5, <2>1
  <2>3. IsDouble(den)
    BY <1>1, <1>2 DEF NormSquared
  <2>4. Over(b, c) = Complex2(Div(nume.realValue, den), Div(nume.imaginaryValue, den))
    BY DEF Over
  <2> HIDE DEF nume, den
  <2>5. IsDouble(nume.realValue) /\ IsDouble(nume.imaginaryValue)
    BY <2>2 DEF TwoDoubles
  <2> QED
    BY <1>2, <1>3, <2>3, <2>4, <2>5
<1>6. TwoDoubles(Complex1(d))
  BY <1>1, <1>3 DEF Complex1
<1>7. TwoDoubles(Plus(a, c)) /\ TwoDoubles(Minus(a, c)) /\ TwoDoubles(Times(a, c)) /\ TwoDoubles(Over(a, c))
  BY <1>1, <1>2, <1>3, <1>4, <1>5 DEF Plus, Minus
<1>8. /\ TwoDoubles(DPlus(d, c)) /\ TwoDoubles(DMinus(d, c))
      /\ TwoDoubles(DTimes(d, c)) /\ TwoDoubles(DOver(d, c))
  BY <1>1, <1>2, <1>3, <1>5, <1>6 DEF DPlus, DMinus, DTimes, DOver
<1>9. /\ TwoDoubles(PlusD(c, d)) /\ TwoDoubles(MinusD(c, d))
      /\ TwoDoubles(TimesD(c, d)) /\ TwoDoubles(OverD(c, d))
  BY <1>1, <1>2, <1>3 DEF PlusD, MinusD, TimesD, OverD
<1> QED
  BY <1>7, <1>8, <1>9

(* A double on one side does what the complex number it is would do: the   *)
(* products with the imaginary part 0 are 0, and adding 0 rounds nothing.  *)
LEMMA MixedLaws ==
  ASSUME NEW z, TwoDoubles(z), AllFinite(z), NEW d, IsDouble(d), Finite(d)
  PROVE  LET c == Complex1(d)
         IN  /\ DPlus(d, z) = Plus(c, z) /\ PlusD(z, d) = Plus(z, c)
             /\ DMinus(d, z) = Minus(c, z) /\ MinusD(z, d) = Minus(z, c)
             /\ DTimes(d, z) = Times(c, z) /\ TimesD(z, d) = Times(z, c)
<1> DEFINE r == z.realValue
           i == z.imaginaryValue
           c == Complex1(d)
<1>1. IsDouble(r) /\ IsDouble(i) /\ Finite(r) /\ Finite(i)
  BY DEF TwoDoubles, AllFinite
<1>2. c.realValue = d /\ c.imaginaryValue = Frac(0)
  BY DEF Complex1, Complex2
<1> HIDE DEF r, i, c
<1>3. IsDouble(Frac(0))
  BY KnownDoubles
<1>4. DPlus(d, z) = Plus(c, z) /\ PlusD(z, d) = Plus(z, c)
  <2>1. Add(Frac(0), i) = i /\ Add(i, Frac(0)) = i /\ Add(d, r) = Add(r, d)
    BY <1>1, AddFacts
  <2> QED
    BY <1>2, <2>1 DEF DPlus, PlusD, Plus, r, i
<1>5. DMinus(d, z) = Minus(c, z) /\ MinusD(z, d) = Minus(z, c)
  <2>1. Sub(Frac(0), i) = Neg(i) /\ Sub(i, Frac(0)) = i
    BY <1>1, SubFacts
  <2> QED
    BY <1>2, <2>1 DEF DMinus, MinusD, Minus, r, i
<1>6. /\ IsDouble(Mul(d, r)) /\ Mul(d, r) = Mul(r, d)
      /\ Mul(Frac(0), r) = Frac(0) /\ Mul(r, Frac(0)) = Frac(0)
      /\ IsDouble(Mul(d, i)) /\ Mul(d, i) = Mul(i, d)
      /\ Mul(Frac(0), i) = Frac(0) /\ Mul(i, Frac(0)) = Frac(0)
  BY <1>1, MulFacts
<1>7. /\ Sub(Mul(d, r), Frac(0)) = Mul(d, r)
      /\ Add(Mul(d, i), Frac(0)) = Mul(d, i) /\ Add(Frac(0), Mul(d, i)) = Mul(d, i)
  BY <1>3, <1>6, AddFacts, SubFacts
<1>8. DTimes(d, z) = Times(c, z) /\ TimesD(z, d) = Times(z, c)
  BY <1>2, <1>6, <1>7 DEF DTimes, TimesD, Times, r, i
<1> QED
  BY <1>4, <1>5, <1>8 DEF c

\* Division by 0: the member operator divides 0 by 0, the free one does not.
LEMMA OverZero ==
  ASSUME NEW z, TwoDoubles(z), AllFinite(z)
  PROVE  LET c == Complex1(Frac(0))
         IN  /\ ~Equal(Over(z, c), Over(z, c))
             /\ z.realValue[1] # 0 => /\ ~Same(OverD(z, Frac(0)).realValue, Over(z, c).realValue)
                                      /\ OverD(z, Frac(0)).realValue # <<0, 0>>
<1> DEFINE r == z.realValue
           i == z.imaginaryValue
           c == Complex1(Frac(0))
           o == Complex2(c.realValue, Neg(c.imaginaryValue))
           nume == Times(z, o)
           den == NormSquared(c)
<1>1. IsDouble(r) /\ IsDouble(i) /\ Finite(r) /\ Finite(i)
  BY DEF TwoDoubles, AllFinite
<1>2. c.realValue = Frac(0) /\ c.imaginaryValue = Frac(0) /\ Neg(Frac(0)) = Frac(0)
  BY NegZero DEF Complex1, Complex2
<1>3. o.realValue = Frac(0) /\ o.imaginaryValue = Frac(0)
  BY <1>2 DEF Complex2
<1>4. IsDouble(Frac(0)) /\ Finite(Frac(0))
  BY KnownDoubles DEF Finite, Frac
<1>5. /\ Mul(Frac(0), Frac(0)) = Frac(0) /\ Add(Frac(0), Frac(0)) = Frac(0) /\ Sub(Frac(0), Frac(0)) = Frac(0)
      /\ Mul(r, Frac(0)) = Frac(0) /\ Mul(i, Frac(0)) = Frac(0)
  BY <1>1, <1>4, AddFacts, SubFacts, MulFacts
<1> HIDE DEF r, i, c, o
<1>6. den = Frac(0)
  BY <1>2, <1>5 DEF NormSquared
<1>7. nume.realValue = Frac(0)
  BY <1>3, <1>5 DEF Times, Complex2, r, i
<1>8. Over(z, c).realValue = Div(nume.realValue, den)
  BY DEF Over, Complex2, o
<1>9. Over(z, c).realValue = <<0, 0>>
  <2>1. Div(Frac(0), Frac(0)) = <<0, 0>>
    BY <1>4, DivFacts
  <2> HIDE DEF nume, den
  <2> QED
    BY <1>6, <1>7, <1>8, <2>1
<1>10. OverD(z, Frac(0)).realValue = Div(r, Frac(0))
  BY DEF OverD, Complex2, r
<1>11. r[1] # 0 => Div(r, Frac(0)) # <<0, 0>>
  BY <1>1, DivFacts
<1> QED
  BY <1>9, <1>10, <1>11 DEF Equal, Same, r, c

\* The laws that rounding leaves.
LEMMA Survivors ==
  ASSUME NEW a, TwoDoubles(a), NEW c, TwoDoubles(c), AllFinite(a), AllFinite(c)
  PROVE  /\ Plus(a, c) = Plus(c, a) /\ Times(a, c) = Times(c, a)
         /\ Minus(c, a) = Complex2(Neg(Minus(a, c).realValue), Neg(Minus(a, c).imaginaryValue))
         /\ Minus(a, a) = Complex0
<1> DEFINE r == a.realValue
           i == a.imaginaryValue
           s == c.realValue
           j == c.imaginaryValue
<1>1. /\ IsDouble(r) /\ IsDouble(i) /\ IsDouble(s) /\ IsDouble(j) /\ Finite(r) /\ Finite(i)
  BY DEF TwoDoubles, AllFinite
<1> HIDE DEF r, i, s, j
<1>2. Add(r, s) = Add(s, r) /\ Add(i, j) = Add(j, i)
  BY <1>1, AddFacts
<1>3. Plus(a, c) = Plus(c, a)
  BY <1>2 DEF Plus, r, i, s, j
<1>4. /\ Mul(r, s) = Mul(s, r) /\ Mul(i, j) = Mul(j, i) /\ Mul(r, j) = Mul(j, r) /\ Mul(i, s) = Mul(s, i)
      /\ IsDouble(Mul(r, j)) /\ IsDouble(Mul(i, s))
  BY <1>1, MulFacts
<1>5. Add(Mul(r, j), Mul(i, s)) = Add(Mul(s, i), Mul(j, r))
  BY <1>4, AddFacts
<1>6. Times(a, c) = Times(c, a)
  BY <1>4, <1>5 DEF Times, r, i, s, j
<1>7. Sub(s, r) = Neg(Sub(r, s)) /\ Sub(j, i) = Neg(Sub(i, j)) /\ Sub(r, r) = Frac(0) /\ Sub(i, i) = Frac(0)
  BY <1>1, SubFacts
<1>8. Minus(c, a) = Complex2(Neg(Minus(a, c).realValue), Neg(Minus(a, c).imaginaryValue))
  BY <1>7, ComplexFacts DEF Minus, r, i, s, j
<1>9. Minus(a, a) = Complex0
  BY <1>7 DEF Minus, Complex0, r, i
<1> QED
  BY <1>3, <1>6, <1>8, <1>9

\* A number, its conjugate and its norm.
LEMMA OverItself ==
  ASSUME NEW a, TwoDoubles(a), AllFinite(a)
  PROVE  LET square == Times(a, Conjugate(a))
         IN  /\ square.realValue = NormSquared(a)
             /\ AllFinite(square) =>
                  /\ square.imaginaryValue = Frac(0)
                  /\ square.realValue[1] # 0 => Over(a, a) = Complex1(Frac(1))
<1> DEFINE r == a.realValue
           i == a.imaginaryValue
           o == Conjugate(a)
           square == Times(a, o)
           den == NormSquared(a)
           m == Mul(r, i)
<1>1. IsDouble(r) /\ IsDouble(i) /\ IsDouble(Neg(i))
  BY DoubleFacts DEF TwoDoubles
<1>2. o = Complex2(r, Neg(i)) /\ o.realValue = r /\ o.imaginaryValue = Neg(i)
  BY DEF Conjugate, Complex2
<1>3. /\ square.realValue = Sub(Mul(r, r), Mul(i, Neg(i)))
      /\ square.imaginaryValue = Add(Mul(r, Neg(i)), Mul(i, r))
  BY <1>2 DEF Times, Complex2
<1>4. den = Add(Mul(r, r), Mul(i, i))
  BY DEF NormSquared
<1>5. Over(a, a) = Complex2(Div(square.realValue, den), Div(square.imaginaryValue, den))
  BY <1>2 DEF Over
<1> HIDE DEF r, i, o, square, den
<1>6. /\ IsDouble(Mul(r, r)) /\ IsDouble(Mul(i, i)) /\ Mul(i, Neg(i)) = Neg(Mul(i, i))
      /\ IsDouble(m) /\ Mul(r, Neg(i)) = Neg(m) /\ Mul(i, r) = m
  BY <1>1, MulFacts
<1> HIDE DEF m
<1>7. square.realValue = den
  <2>1. Neg(Neg(Mul(i, i))) = Mul(i, i)
    BY <1>6, SubFacts
  <2> QED
    BY <1>3, <1>4, <1>6, <2>1 DEF Sub
<1>8. IsDouble(den)
  BY <1>4, <1>6, AddFacts
<1>9. square.imaginaryValue = Add(Neg(m), m)
  BY <1>3, <1>6
<1>10. ASSUME AllFinite(square) PROVE square.imaginaryValue = Frac(0)
  <2>1. CASE Finite(m)
    BY <1>6, <1>9, <2>1, AddFacts
  <2>2. CASE ~Finite(m)
    <3>1. Neg(m)[2] = 0 /\ m[2] = 0 /\ m[1] \in Int /\ Neg(m)[1] \in Int
      BY <1>6, <2>2, NegInParts DEF Finite, IsDouble, InParts
    <3>2. ~Finite(Add(Neg(m), m))
      <4>1. CASE Neg(m) = m
        BY <2>2, <4>1 DEF Add
      <4>2. CASE Neg(m) # m
        <5> DEFINE n == Neg(m)[1] * m[2] + m[1] * Neg(m)[2]
                   d == Neg(m)[2] * m[2]
        <5>1. n = 0 /\ d = 0
          BY <3>1
        <5>2. Add(Neg(m), m) = Round(Reduced(n, d))
          BY <4>2 DEF Add
        <5> HIDE DEF n, d
        <5>3. ~Finite(Reduced(0, 0))
          BY SpecialFacts DEF Finite
        <5> QED
          BY <5>1, <5>2, <5>3 DEF Round, Machine
      <4> QED
        BY <4>1, <4>2
    <3> QED
      BY <1>9, <1>10, <3>2 DEF AllFinite
  <2> QED
    BY <2>1, <2>2
<1>11. ASSUME AllFinite(square), den[1] # 0 PROVE Over(a, a) = Complex1(Frac(1))
  <2>1. Finite(den)
    BY <1>7, <1>11 DEF AllFinite
  <2>2. Div(den, den) = Frac(1)
    BY <1>8, <1>11, <2>1, DivFacts
  <2>3. Div(Frac(0), den) = Frac(0)
    BY <1>8, <1>11, <2>1, DivFacts
  <2> QED
    BY <1>5, <1>7, <1>10, <1>11, <2>2, <2>3 DEF Complex1
<1> QED
  BY <1>7, <1>10, <1>11 DEF square, o, den

\* The inductive invariant: two doubles in each object.
Computing == TwoDoubles(x) /\ TwoDoubles(y) /\ ops \in 0..MaxOps

\* A read takes each part of the object from the line or leaves it.
LEMMA ReadMakes ==
  ASSUME NEW c, TwoDoubles(c), NEW n \in Doubles, NEW m \in Doubles,
         NEW l \in Lines(Frac(n), Frac(m))
  PROVE  TwoDoubles(ReadInto(c, l))
<1> DEFINE r == Frac(n)
           i == Frac(m)
           z == ReadInto(c, l)
<1>1. Len(l) \in Nat /\ (LineRead(l, r, i) \/ LineCut(l, r) \/ LineMissed(l))
  BY LineKinds
<1>2. \/ z.realValue = r /\ z.imaginaryValue = i
      \/ z.realValue = r /\ z.imaginaryValue = c.imaginaryValue
      \/ z.realValue = c.realValue /\ z.imaginaryValue = c.imaginaryValue
  BY <1>1, ReadFacts, ComplexFacts DEF LineRead, LineCut, LineMissed
<1>3. IsComplex(z)
  BY ComplexFacts DEF ReadInto, IsComplex, Complex2
<1>4. IsDouble(r) /\ IsDouble(i)
  BY KnownDoubles
<1> QED
  BY <1>2, <1>3, <1>4 DEF TwoDoubles

\* The invariant is kept by every operation ...
LEMMA ComputingKept ==
  ASSUME Computing, [ComplexNext]_complexVars
  PROVE  Computing'
<1>1. ASSUME ops < MaxOps, ops' = ops + 1, y' = y, TwoDoubles(x)' PROVE Computing'
  <2>1. ops' \in 0..MaxOps
    BY <1>1, ComplexAssumption DEF Computing
  <2> QED
    BY <1>1, <2>1 DEF Computing
<1>0. TwoDoubles(x) /\ TwoDoubles(y) /\ \A d \in Doubles : IsDouble(Frac(d))
  BY KnownDoubles DEF Computing
<1>2. CASE ComplexOperator
  <2>1. /\ x' \in {Plus(x, y), Minus(x, y), Times(x, y), Over(x, y)}
        /\ ops < MaxOps /\ ops' = ops + 1 /\ y' = y
    BY <1>2 DEF ComplexOperator, Compute
  <2>2. IsDouble(Frac(0))
    BY KnownDoubles
  <2>3. TwoDoubles(Plus(x, y)) /\ TwoDoubles(Minus(x, y)) /\ TwoDoubles(Times(x, y)) /\ TwoDoubles(Over(x, y))
    BY <1>0, <2>2, OperatorsMake
  <2> QED
    BY <1>1, <2>1, <2>3
<1>3. CASE DoubleLeft
  <2>1. PICK d \in Doubles :
          /\ x' \in {DPlus(Frac(d), x), DMinus(Frac(d), x), DTimes(Frac(d), x), DOver(Frac(d), x)}
          /\ ops < MaxOps /\ ops' = ops + 1 /\ y' = y
    BY <1>3 DEF DoubleLeft, Compute
  <2>2. /\ TwoDoubles(DPlus(Frac(d), x)) /\ TwoDoubles(DMinus(Frac(d), x))
        /\ TwoDoubles(DTimes(Frac(d), x)) /\ TwoDoubles(DOver(Frac(d), x))
    BY <1>0, OperatorsMake
  <2> QED
    BY <1>1, <2>1, <2>2
<1>4. CASE DoubleRight
  <2>1. PICK d \in Doubles :
          /\ x' \in {PlusD(x, Frac(d)), MinusD(x, Frac(d)), TimesD(x, Frac(d)), OverD(x, Frac(d))}
          /\ ops < MaxOps /\ ops' = ops + 1 /\ y' = y
    BY <1>4 DEF DoubleRight, Compute
  <2>2. /\ TwoDoubles(PlusD(x, Frac(d))) /\ TwoDoubles(MinusD(x, Frac(d)))
        /\ TwoDoubles(TimesD(x, Frac(d))) /\ TwoDoubles(OverD(x, Frac(d)))
    BY <1>0, OperatorsMake
  <2> QED
    BY <1>1, <2>1, <2>2
<1>5. CASE ReadLine
  <2>1. ops < MaxOps /\ ops' = ops + 1 /\ y' = y
    BY <1>5 DEF ReadLine
  <2>2. PICK n \in Doubles, m \in Doubles : \E l \in Lines(Frac(n), Frac(m)) : x' = ReadInto(x, l)
    BY <1>5 DEF ReadLine
  <2>3. PICK l \in Lines(Frac(n), Frac(m)) : x' = ReadInto(x, l)
    BY <2>2
  <2>4. TwoDoubles(ReadInto(x, l))
    BY <1>0, ReadMakes
  <2> QED
    BY <1>1, <2>1, <2>3, <2>4
<1>6. CASE UNCHANGED complexVars
  BY <1>6 DEF Computing, complexVars
<1> QED
  BY <1>2, <1>3, <1>4, <1>5, <1>6 DEF ComplexNext

\* ... and true at the start.
LEMMA ComputingStarts == ComplexInit => Computing
<1> SUFFICES ASSUME ComplexInit PROVE Computing
  OBVIOUS
<1>1. PICK n \in Doubles, m \in Doubles : y = Complex2(Frac(n), Frac(m))
  BY DEF ComplexInit
<1>2. IsDouble(Frac(n)) /\ IsDouble(Frac(m)) /\ IsDouble(Frac(0))
  BY KnownDoubles
<1>3. TwoDoubles(y)
  BY <1>1, <1>2, Made
<1>4. TwoDoubles(x)
  BY <1>2, Made DEF ComplexInit, Complex0
<1>5. ops \in 0..MaxOps
  BY ComplexAssumption DEF ComplexInit
<1> QED
  BY <1>3, <1>4, <1>5 DEF Computing

(* Whatever a programme computes, divides by and reads, the two objects    *)
(* hold two doubles each: no operation hands on a value that is not        *)
(* rounded, past the largest double it is an infinity.                     *)
THEOREM ComplexTypeCorrect == ComplexSpec => []ComplexTypeOK
<1>1. Computing => ComplexTypeOK
  <2> SUFFICES ASSUME Computing PROVE ComplexTypeOK
    OBVIOUS
  <2>1. \A c \in {x, y} : /\ c = Complex2(c.realValue, c.imaginaryValue)
                          /\ Machine(c.realValue) /\ Machine(c.imaginaryValue)
    BY DEF Computing, TwoDoubles, IsComplex, IsDouble
  <2> QED
    BY <2>1 DEF Computing, ComplexTypeOK
<1>2. Computing /\ [ComplexNext]_complexVars => Computing'
  BY ComputingKept
<1> QED
  BY <1>1, <1>2, ComputingStarts, PTL DEF ComplexSpec

(* In every state, an operator with a double on either side gives what the *)
(* operator on the complex number that the double is gives, to the last    *)
(* bit, and the laws of FieldLaws hold, whatever doubles the machine has   *)
(* and however many operations led to the operands.                        *)
THEOREM OneArithmetic == ComplexSpec => []AlgebraHolds
<1>1. Computing => MixedAgree
  <2> SUFFICES ASSUME Computing, AllFinite(x), NEW n \in Doubles
               PROVE  LET d == Frac(n)
                          c == Complex1(d)
                      IN  /\ DPlus(d, x) = Plus(c, x) /\ PlusD(x, d) = Plus(x, c)
                          /\ DMinus(d, x) = Minus(c, x) /\ MinusD(x, d) = Minus(x, c)
                          /\ DTimes(d, x) = Times(c, x) /\ TimesD(x, d) = Times(x, c)
                          /\ n = 0 => /\ ~Equal(Over(x, c), Over(x, c))
                                      /\ x.realValue[1] # 0 =>
                                           /\ ~Same(OverD(x, d).realValue, Over(x, c).realValue)
                                           /\ OverD(x, d).realValue # <<0, 0>>
    BY DEF MixedAgree
  <2>1. TwoDoubles(x) /\ IsDouble(Frac(n)) /\ Finite(Frac(n))
    BY KnownDoubles DEF Computing, Finite, Frac
  <2> QED
    BY <2>1, MixedLaws, OverZero
<1>2. Computing => FieldLaws
  <2> SUFFICES ASSUME TwoDoubles(x), TwoDoubles(y), AllFinite(x), AllFinite(y) PROVE FieldLaws
    BY DEF Computing, FieldLaws
  <2> QED
    BY Survivors, OverItself DEF FieldLaws
<1>3. Computing => AlgebraHolds
  BY <1>1, <1>2 DEF AlgebraHolds
<1>4. Computing /\ [ComplexNext]_complexVars => Computing'
  BY ComputingKept
<1> QED
  BY <1>3, <1>4, ComputingStarts, PTL DEF ComplexSpec
=============================================================================
