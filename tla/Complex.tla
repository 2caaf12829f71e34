------------------------------- MODULE Complex -------------------------------
(***************************************************************************)
(* The programme of final exercise 001: the class Complex                  *)
(* (113final001/solution/Complex.cpp) under a test programme that computes *)
(* with two objects, compares them and reads them from a stream.           *)
(*                                                                         *)
(* A double is a fraction here, and each operation rounds its exact        *)
(* result to a double as IEEE 754 does: to the nearest one, of two at the  *)
(* same distance to the even one, and to infinity past the largest.  Left  *)
(* out are the sign of zero and fused multiply-adds, which the compiler    *)
(* may use on processors that have them.                                   *)
(***************************************************************************)
EXTENDS Integers, Sequences

CONSTANTS Doubles,    \* the integers a programme passes as doubles
          MaxOps,     \* bound on the operations of a programme
          Top, Float  \* the doubles from 0 on in ascending order, which is that of
                      \* their bits: Float[Top] would be the first past the largest

(* A number is a fraction <<n, d>> in lowest terms; with d = 0 it is +inf, *)
(* -inf or, with n = 0 too, nan.                                           *)
gcd[p \in Nat \X Nat] == IF p[2] = 0 THEN p[1] ELSE gcd[<<p[2], p[1] % p[2]>>]

Reduced(n, d) ==
  IF d = 0 THEN <<IF n > 0 THEN 1 ELSE IF n < 0 THEN -1 ELSE 0, 0>>
  ELSE LET g == gcd[<<IF n < 0 THEN -n ELSE n, d>>] IN <<n \div g, d \div g>>

Frac(n) == <<n, 1>>
Finite(p) == p[2] # 0
Neg(p) == <<-p[1], p[2]>>
Smaller(p, q) == p[1] * q[2] < q[1] * p[2]

(* The doubles: those from 0 on, their opposites, the infinities and nan.  *)
Floats == {Float[k] : k \in 0..(Top - 1)}
Machine(p) == ~Finite(p) \/ p \in Floats \/ Neg(p) \in Floats

ASSUME ComplexAssumption ==
  /\ Doubles \subseteq Int /\ MaxOps \in Nat
  /\ Top \in Nat \ {0} /\ Float \in [0..Top -> Nat \X (Nat \ {0})]
  /\ Float[0] = Frac(0) /\ Frac(1) \in Floats
  /\ \A k \in 0..Top : Float[k] = Reduced(Float[k][1], Float[k][2])
  /\ \A k \in 0..Top : \A m \in 0..(k - 1) : Smaller(Float[m], Float[k])
  /\ \A n \in Doubles : Frac(IF n < 0 THEN -n ELSE n) \in Floats

Middle(p, q) == Reduced(p[1] * q[2] + q[1] * p[2], 2 * p[2] * q[2])

(* The place of the last double that is not above p.                       *)
LastBelow(p) == CHOOSE k \in 0..(Top - 1) : ~Smaller(p, Float[k]) /\ Smaller(p, Float[k + 1])

(* Of the places k and k + 1, with half between their doubles, the one     *)
(* that is nearer to p, or even.                                           *)
Nearer(p, k, half) ==
  IF Smaller(half, p) \/ (~Smaller(p, half) /\ k % 2 = 1) THEN k + 1 ELSE k

FloatAt(k) == IF k = Top THEN <<1, 0>> ELSE Float[k]

(* The double nearest to p, which is not negative.                         *)
PlaceOf(p, k) == Nearer(p, k, Middle(Float[k], Float[k + 1]))

NearestFloat(p) == IF Smaller(p, Float[Top]) THEN FloatAt(PlaceOf(p, LastBelow(p))) ELSE <<1, 0>>

WithSign(p, f) == IF p[1] < 0 THEN Neg(f) ELSE f

Round(p) == IF Machine(p) THEN p ELSE WithSign(p, NearestFloat(WithSign(p, p)))

Add(p, q) == IF p = q /\ ~Finite(p) THEN p
             ELSE Round(Reduced(p[1] * q[2] + q[1] * p[2], p[2] * q[2]))
Sub(p, q) == Add(p, Neg(q))
Mul(p, q) == Round(Reduced(p[1] * q[1], p[2] * q[2]))
Div(p, q) == Round(IF q[1] < 0 THEN Reduced(-p[1] * q[2], -p[2] * q[1])
                   ELSE Reduced(p[1] * q[2], p[2] * q[1]))

(* nan equals nothing, itself included.                                    *)
Same(p, q) == p = q /\ p # <<0, 0>>

-----------------------------------------------------------------------------
Complex2(r, i) == [realValue |-> r, imaginaryValue |-> i]
Complex1(r) == Complex2(r, Frac(0))
Complex0 == Complex2(Frac(0), Frac(0))

NormSquared(c) == Add(Mul(c.realValue, c.realValue), Mul(c.imaginaryValue, c.imaginaryValue))

(* The member operators, both operands Complex.                            *)
Plus(a, c) == Complex2(Add(a.realValue, c.realValue), Add(a.imaginaryValue, c.imaginaryValue))
Minus(a, c) == Complex2(Sub(a.realValue, c.realValue), Sub(a.imaginaryValue, c.imaginaryValue))

Times(a, c) ==
  Complex2(Sub(Mul(a.realValue, c.realValue), Mul(a.imaginaryValue, c.imaginaryValue)),
           Add(Mul(a.realValue, c.imaginaryValue), Mul(a.imaginaryValue, c.realValue)))

(* A bug: the divisor is not conjugated.                                   *)
OverUnconjugated(a, c) ==
  LET den  == NormSquared(c)
      nume == Times(a, c)
  IN  Complex2(Div(nume.realValue, den), Div(nume.imaginaryValue, den))

Over(a, c) ==
  LET den  == NormSquared(c)
      nume == Times(a, Complex2(c.realValue, Neg(c.imaginaryValue)))
  IN  Complex2(Div(nume.realValue, den), Div(nume.imaginaryValue, den))

(* The free operators with a double on the left ...                        *)
DPlus(d, c)  == Complex2(Add(d, c.realValue), c.imaginaryValue)
(* A bug: the imaginary part keeps its sign.                               *)
DMinusReal(d, c) == Complex2(Sub(d, c.realValue), c.imaginaryValue)

DMinus(d, c) == Complex2(Sub(d, c.realValue), Neg(c.imaginaryValue))
DTimes(d, c) == Complex2(Mul(d, c.realValue), Mul(d, c.imaginaryValue))
DOver(d, c)  == Over(Complex1(d), c)

(* ... and on the right.                                                   *)
PlusD(c, d)  == Complex2(Add(d, c.realValue), c.imaginaryValue)
MinusD(c, d) == Complex2(Sub(c.realValue, d), c.imaginaryValue)
TimesD(c, d) == Complex2(Mul(d, c.realValue), Mul(d, c.imaginaryValue))
OverD(c, d)  == Complex2(Div(c.realValue, d), Div(c.imaginaryValue, d))

Equal(a, c) ==
  Same(a.realValue, c.realValue) /\ Same(a.imaginaryValue, c.imaginaryValue)

AllFinite(c) == Finite(c.realValue) /\ Finite(c.imaginaryValue)

-----------------------------------------------------------------------------
(* A line is a sequence of words: a name of one character or a longer one, *)
(* a sign, "*i", or a fraction, the only words of length 2.                *)
X == <<"x">>
XY == <<"xy">>
EQ == <<"=">>
PLUS == <<"+">>
MINUS == <<"-">>
I == <<"*i">>
NoLine == <<<<"none">>>>

Number(w) == Len(w) = 2

(* operator<< writes real + imag*i and no name in front.                   *)
Written(c) == <<c.realValue, PLUS, c.imaginaryValue, I>>

(* operator>> takes one line and scans it with "%*c = %lf + %lf*i": a      *)
(* character is skipped, then each word must match, and what was converted *)
(* before the first mismatch stays converted.                              *)
Matches(l, i) ==
  CASE i = 1 -> l[1] = X
    [] i = 2 -> l[2] = EQ
    [] i = 4 -> l[4] = PLUS
    [] OTHER -> Number(l[i])

Scanned(l) ==
  LET ok(n) == n <= Len(l) /\ \A i \in 1..n : Matches(l, i)
  IN  CHOOSE n \in 0..5 : /\ n = 0 \/ ok(n)
                          /\ n = 5 \/ ~ok(n + 1)

(* A bug: the object is reset before the scan.                             *)
ReadAfresh(c, l) ==
  [realValue      |-> IF Scanned(l) >= 3 THEN l[3] ELSE c.realValue,
   imaginaryValue |-> IF Scanned(l) = 5 THEN l[5] ELSE Frac(0)]

ReadInto(c, l) ==
  [realValue      |-> IF Scanned(l) >= 3 THEN l[3] ELSE c.realValue,
   imaginaryValue |-> IF Scanned(l) = 5 THEN l[5] ELSE c.imaginaryValue]

Lines(r, i) ==
  {<<X, EQ, r, PLUS, i, I>>,    \* as the exercise writes it
   <<XY, EQ, r, PLUS, i, I>>,   \* a longer name
   <<X, EQ, r, MINUS, i, I>>,   \* a minus sign between the parts
   <<X, EQ, r>>,                \* no imaginary part
   Written(Complex2(r, i)),     \* what << wrote
   <<>>}

VARIABLES x, y,    \* the programme's two objects
          line,    \* the last line read into x, or NoLine
          ops      \* how many operations were made

complexVars == <<x, y, line, ops>>

ComplexInit ==
  /\ x = Complex0
  /\ \E r, i \in Doubles : y = Complex2(Frac(r), Frac(i))
  /\ line = NoLine
  /\ ops = 0

Compute(result) ==
  /\ ops < MaxOps
  /\ AllFinite(x) /\ AllFinite(y)
  /\ ops' = ops + 1
  /\ x' = result
  /\ line' = NoLine
  /\ UNCHANGED y

ComplexOperator ==
  \E f \in 1..4 :
    Compute(CASE f = 1 -> Plus(x, y) [] f = 2 -> Minus(x, y)
           [] f = 3 -> Times(x, y) [] f = 4 -> Over(x, y))

DoubleLeft ==
  \E d \in Doubles, f \in 1..4 :
    Compute(CASE f = 1 -> DPlus(Frac(d), x) [] f = 2 -> DMinus(Frac(d), x)
           [] f = 3 -> DTimes(Frac(d), x) [] f = 4 -> DOver(Frac(d), x))

DoubleRight ==
  \E d \in Doubles, f \in 1..4 :
    Compute(CASE f = 1 -> PlusD(x, Frac(d)) [] f = 2 -> MinusD(x, Frac(d))
           [] f = 3 -> TimesD(x, Frac(d)) [] f = 4 -> OverD(x, Frac(d)))

ReadLine ==
  \E r, i \in Doubles : \E l \in Lines(Frac(r), Frac(i)) :
    /\ ops < MaxOps
    /\ ops' = ops + 1
    /\ x' = ReadInto(x, l)
    /\ line' = l
    /\ UNCHANGED y

ComplexNext == ComplexOperator \/ DoubleLeft \/ DoubleRight \/ ReadLine

ComplexSpec == ComplexInit /\ [][ComplexNext]_complexVars

-----------------------------------------------------------------------------
(* The two objects hold two doubles each: no operation leaves an unrounded *)
(* value behind.                                                           *)
ComplexTypeOK ==
  /\ \A c \in {x, y} : /\ c = Complex2(c.realValue, c.imaginaryValue)
                       /\ Machine(c.realValue) /\ Machine(c.imaginaryValue)
  /\ ops \in 0..MaxOps

(* An operator with a double on one side is the member operator on the two *)
(* Complex values, to the last bit, although it leaves the terms with the  *)
(* imaginary part 0 out.  The division by a double is the exception: it    *)
(* divides each part, which gives infinities where the member operator     *)
(* divides 0 by 0.                                                         *)
MixedAgree ==
  AllFinite(x) =>
    \A n \in Doubles :
      LET d == Frac(n)
          c == Complex1(d)
      IN  /\ DPlus(d, x) = Plus(c, x) /\ PlusD(x, d) = Plus(x, c)
          /\ DMinus(d, x) = Minus(c, x) /\ MinusD(x, d) = Minus(x, c)
          /\ DTimes(d, x) = Times(c, x) /\ TimesD(x, d) = Times(x, c)
          /\ n = 0 => /\ ~Equal(Over(x, c), Over(x, c))
                      /\ x.realValue[1] # 0 => ~Same(OverD(x, d).realValue, Over(x, c).realValue)
                                               /\ OverD(x, d).realValue # <<0, 0>>

(* Of the laws of a field these survive the rounding: the sum and the      *)
(* product commute, a difference turns its sign with its operands and is 0 *)
(* for equal ones, and a number times its conjugate is its squared norm,   *)
(* so that a number divided by itself is 1 unless that norm has over- or   *)
(* underflowed.                                                            *)
Conjugate(c) == Complex2(c.realValue, Neg(c.imaginaryValue))

FieldLaws ==
  (AllFinite(x) /\ AllFinite(y)) =>
    /\ Plus(x, y) = Plus(y, x) /\ Times(x, y) = Times(y, x)
    /\ Minus(y, x) = Complex2(Neg(Minus(x, y).realValue), Neg(Minus(x, y).imaginaryValue))
    /\ Minus(x, x) = Complex0
    /\ LET square == Times(x, Conjugate(x))
       IN  /\ square.realValue = NormSquared(x)
           /\ AllFinite(square) =>
                /\ square.imaginaryValue = Frac(0)
                /\ square.realValue[1] # 0 => Over(x, x) = Complex1(Frac(1))

(* A read takes both parts from its line or, when the line is not of the   *)
(* form "x = re + im*i", leaves the imaginary part of the value that was   *)
(* there: the text << writes is not such a line and changes nothing.       *)
ReadBack ==
  [][line' # NoLine =>
       IF \E r, i \in Doubles : line' = <<X, EQ>> \o Written(Complex2(Frac(r), Frac(i)))
       THEN x' = Complex2(line'[3], line'[5])
       ELSE /\ x'.imaginaryValue = x.imaginaryValue
            /\ (Len(line') = 4 => x' = x)]_complexVars

(* The operators are one arithmetic whatever the types of their operands,  *)
(* and keep the laws that rounding leaves.                                 *)
AlgebraHolds == MixedAgree /\ FieldLaws
=============================================================================
