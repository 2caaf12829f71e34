------------------------------- MODULE Variant -------------------------------
(***************************************************************************)
(* The programme of final exercise 006: a variable whose type is decided   *)
(* at run time (113final006/solution/include: variable.h, value.h and      *)
(* operator.h), under a test programme that assigns, copies and computes.  *)
(*                                                                         *)
(* Numbers are whole and at most 2^24, so that float, double and int hold  *)
(* them exactly; what loses digits is the way a number takes to become a   *)
(* double, through its printed form.  A negative zero is left out.         *)
(***************************************************************************)
EXTENDS Integers, Sequences, FiniteSets

CONSTANTS Names,      \* the variables of the programme
          Literals,   \* the values it assigns
          MaxLength,  \* bound on the length of a string
          MaxResults  \* bound on the calculations that give a value

MaxNumber == 16777216
Types == {"int", "float", "double", "bool", "long", "string"}

-----------------------------------------------------------------------------
(* A text is a sequence of symbols: a digit, MinusSign, Letter, or the number  *)
(* itself where a double is printed with an exponent.                      *)
MinusSign == 10
Letter == 11

Values == [type : Types, number : Int, text : Seq(0..11)]
Num(t, n) == [type |-> t, number |-> n, text |-> <<>>]
Str(s) == [type |-> "string", number |-> 0, text |-> s]

ASSUME VariantAssumption ==
  /\ IsFiniteSet(Names)
  /\ {MaxLength, MaxResults} \subseteq Nat
  /\ Literals \subseteq Values
  /\ \A v \in Literals : v.number \in (-MaxNumber)..MaxNumber /\ Len(v.text) <= MaxLength

isNumeric(t) == t \in {"int", "float", "double"}
isString(t) == t = "string"
isBoolean(t) == t = "bool"
isCalculated(t, u) == ~isBoolean(t) /\ ~isBoolean(u)

Abs(n) == IF n < 0 THEN -n ELSE n

(* The six significant digits of a stream, the seventh rounded half to     *)
(* even.                                                                   *)
Unit(n) == IF Abs(n) < 1000000 THEN 1 ELSE IF Abs(n) < 10000000 THEN 10 ELSE 100

Rounded(n) ==
  LET u    == Unit(n)
      down == Abs(n) \div u
      rest == 2 * (Abs(n) % u)
      up   == rest > u \/ (rest = u /\ down % 2 = 1)
      r    == (down + (IF up THEN 1 ELSE 0)) * u
  IN  IF n < 0 THEN -r ELSE r

digits[n \in Nat] == IF n < 10 THEN <<n>> ELSE Append(digits[n \div 10], n % 10)

Signed(n, s) == IF n < 0 THEN <<MinusSign>> \o s ELSE s

toString(v) ==
  IF isString(v.type) THEN v.text
  ELSE IF v.type \in {"float", "double"} /\ Abs(Rounded(v.number)) >= 1000000
  THEN Signed(v.number, <<Abs(Rounded(v.number))>>)
  ELSE Signed(v.number, digits[Abs(v.number)])

(* std::stod reads a sign and the digits after it and leaves the rest; it  *)
(* throws when there is no digit.                                          *)
Sign(s) == IF s # <<>> /\ s[1] = MinusSign THEN 1 ELSE 0

DigitsEnd(s) ==
  CHOOSE e \in Sign(s)..Len(s) :
    /\ \A i \in (Sign(s) + 1)..e : s[i] \in 0..9
    /\ e = Len(s) \/ s[e + 1] \notin 0..9

StodThrows(s) == DigitsEnd(s) = Sign(s)

Stod(s) ==
  LET read[e \in 0..Len(s)] == IF e <= Sign(s) THEN 0 ELSE 10 * read[e - 1] + s[e]
      n == read[DigitsEnd(s)]
  IN  IF Sign(s) = 1 THEN -n ELSE n

(* Value<T>::toDouble: a number goes through its printed form.             *)
ToDoubleThrows(v) ==
  ~isNumeric(v.type) /\ (isString(v.type) => StodThrows(v.text))

toDouble(v) ==
  IF isString(v.type) THEN Stod(v.text)
  ELSE IF v.type = "int" THEN v.number
  ELSE Rounded(v.number)

-----------------------------------------------------------------------------
(* The operators, on what the two variables hold.                          *)
Error(what) == [error |-> what, value |-> Str(<<>>)]
Gives(v) == [error |-> "", value |-> v]

TRY_CALC(l, r, n) ==
  IF ~isCalculated(l.type, r.type) THEN Error("incompatible types")
  ELSE IF ToDoubleThrows(l) \/ ToDoubleThrows(r) THEN Error("convert failed")
  ELSE Gives(Num("double", n))

AddVar(l, r) ==
  IF isString(l.type) /\ isString(r.type) THEN Gives(Str(toString(l) \o toString(r)))
  ELSE TRY_CALC(l, r, toDouble(l) + toDouble(r))

SubVar(l, r) == TRY_CALC(l, r, toDouble(l) - toDouble(r))

MulVar(l, r) == TRY_CALC(l, r, toDouble(l) * toDouble(r))

DivVar(l, r) ==
  IF isCalculated(l.type, r.type) /\ ~ToDoubleThrows(r) /\ toDouble(r) = 0
  THEN Error("not allow devide by 0")
  ELSE TRY_CALC(l, r, IF toDouble(r) > 0 THEN toDouble(l) \div toDouble(r)
                      ELSE (-toDouble(l)) \div (-toDouble(r)))

(* A bug: only the left side is tried for a number.                        *)
EqLeft(l, r) ==
  IF ToDoubleThrows(l) THEN toString(l) = toString(r) ELSE toDouble(l) = toDouble(r)

EqVar(l, r) ==
  IF ToDoubleThrows(l) \/ ToDoubleThrows(r) THEN toString(l) = toString(r)
  ELSE toDouble(l) = toDouble(r)

NeVar(l, r) == toString(l) # toString(r)

(* The results this model can hold: whole numbers that fit, no -0.         *)
Holds(op, l, r) ==
  LET a == toDouble(l)
      b == toDouble(r)
  IN  CASE op = "+" -> IF isString(l.type) /\ isString(r.type)
                       THEN Len(l.text) + Len(r.text) <= MaxLength
                       ELSE Abs(a + b) <= MaxNumber
        [] op = "-" -> Abs(a - b) <= MaxNumber
        [] op = "*" -> /\ a # 0 => Abs(b) <= MaxNumber \div Abs(a)
                       /\ 0 \in {a, b} => a >= 0 /\ b >= 0
        [] op = "/" -> b # 0 => /\ Abs(a) % Abs(b) = 0
                                /\ a = 0 => b > 0

Calculated(op, l, r) ==
  CASE op = "+" -> AddVar(l, r)
    [] op = "-" -> SubVar(l, r)
    [] op = "*" -> MulVar(l, r)
    [] op = "/" -> DivVar(l, r)

Operators == {"+", "-", "*", "/"}

-----------------------------------------------------------------------------
(* A var holds a shared_ptr to an immutable value: copying a var shares    *)
(* the object, assigning to one makes a new object, and the last var that  *)
(* lets go of an object frees it.                                          *)
VARIABLES dispatcher,  \* the address that each var holds
          heap,        \* the value at each address, or Freed
          thrown,      \* what the last calculation threw, "" if nothing
          results      \* how many calculations gave a value

variantVars == <<dispatcher, heap, thrown, results>>

Freed == [type |-> "freed", number |-> 0, text |-> <<>>]
Addresses == 0..Cardinality(Names)

Get(n) == heap[dispatcher[n]]

Fresh == CHOOSE a \in Addresses : heap[a] = Freed

(* What remains on the heap when the vars hold the addresses of held.      *)
Kept(objects, held) ==
  [a \in Addresses |-> IF \E n \in Names : held[n] = a THEN objects[a] ELSE Freed]

(* A bug: the object that the copies share is written.                     *)
write_shared(n, v) ==
  /\ UNCHANGED dispatcher
  /\ heap' = [heap EXCEPT ![dispatcher[n]] = v]

make_shared(n, v) ==
  LET held == [dispatcher EXCEPT ![n] = Fresh]
  IN  /\ dispatcher' = held
      /\ heap' = Kept([heap EXCEPT ![Fresh] = v], held)

VariantInit ==
  /\ \E v \in Literals :
       /\ dispatcher = [n \in Names |-> 1]
       /\ heap = [a \in Addresses |-> IF a = 1 THEN v ELSE Freed]
  /\ thrown = "" /\ results = 0

Assign ==
  \E n \in Names, v \in Literals :
    /\ make_shared(n, v)
    /\ thrown' = "" /\ UNCHANGED results

Copy ==
  \E n, m \in Names :
    /\ dispatcher' = [dispatcher EXCEPT ![n] = dispatcher[m]]
    /\ heap' = Kept(heap, dispatcher')
    /\ thrown' = "" /\ UNCHANGED results

(* n = l op r: when the operator throws, nothing is assigned.              *)
Calculate ==
  \E n, l, r \in Names, op \in Operators :
    /\ Holds(op, Get(l), Get(r))
    /\ LET result == Calculated(op, Get(l), Get(r))
       IN  /\ thrown' = result.error
           /\ IF result.error = ""
              THEN /\ results < MaxResults /\ results' = results + 1
                   /\ make_shared(n, result.value)
              ELSE UNCHANGED <<dispatcher, heap, results>>

VariantNext == Assign \/ Copy \/ Calculate

VariantSpec == VariantInit /\ [][VariantNext]_variantVars

-----------------------------------------------------------------------------
(* Every var holds a live object and no object outlives the vars that hold *)
(* it.                                                                     *)
VariantTypeOK ==
  /\ \A a \in Addresses :
       IF \E n \in Names : dispatcher[n] = a THEN heap[a] \in Values ELSE heap[a] = Freed
  /\ \A n \in Names : dispatcher[n] \in Addresses
  /\ results \in 0..MaxResults
  /\ thrown \in {"", "incompatible types", "convert failed", "not allow devide by 0"}

(* Although copies share an object, a step changes the value of one        *)
(* variable at most, and a calculation that throws changes none.           *)
CopiesIndependent ==
  [][/\ \A n, m \in Names : Get(n)' # Get(n) /\ Get(m)' # Get(m) => n = m
     /\ thrown' # "" => \A n \in Names : Get(n)' = Get(n)]_variantVars

(* == compares two doubles when both sides can be read as one, and texts   *)
(* otherwise; != compares texts always and is not the negation of == that  *)
(* the template of the exercise has.  Two values can be equal and unequal, *)
(* such as 1 and "01": that takes a string, or an int beside a float that  *)
(* a stream does not print to the last digit.  They are never neither, and *)
(* the order of the sides does not matter.                                 *)
Contradictory(l, r) == EqVar(l, r) /\ NeVar(l, r)

PrintedShort(v) == v.type \in {"float", "double"} /\ Unit(v.number) > 1

ComparisonsAgree ==
  \A n, m \in Names :
    LET l == Get(n)
        r == Get(m)
    IN  /\ EqVar(l, r) = EqVar(r, l) /\ NeVar(l, r) = NeVar(r, l)
        /\ NeVar(l, r) \/ EqVar(l, r)
        /\ Contradictory(l, r) =>
             \/ isString(l.type) \/ isString(r.type)
             \/ l.type = "int" /\ PrintedShort(r)
             \/ PrintedShort(l) /\ r.type = "int"

(* Six digits bound what a sum may lose: nothing below a million, half a   *)
(* unit of the sixth digit of each operand that is no int above it.        *)
SumsWithinPrecision ==
  \A n, m \in Names :
    LET l == Get(n)
        r == Get(m)
        lost(v) == IF v.type = "int" \/ Unit(v.number) = 1 THEN 0 ELSE Unit(v.number) \div 2
        sum == AddVar(l, r)
    IN  isNumeric(l.type) /\ isNumeric(r.type) =>
          /\ sum.error = ""
          /\ Abs(sum.value.number - (l.number + r.number)) <= lost(l) + lost(r)

(* What the ways a value takes to become a double or a text preserve: the  *)
(* comparisons contradict each other only beside a string or a number that *)
(* a stream prints short, and sums lose only the digits it does not print. *)
ConversionsAgree == ComparisonsAgree /\ SumsWithinPrecision
=============================================================================
