---------------------------- MODULE ComplexCases -----------------------------
(***************************************************************************)
(* The test cases shipped with final exercise 001 (solution/case.h).       *)
(* A literal is the double nearest to what is written, and doctest's       *)
(* Approx, which allows more, is equality to it.                           *)
(***************************************************************************)
EXTENDS Complex

Literal(n, d) == Round(Reduced(n, d))

C(r, i) == Complex2(Frac(r), Frac(i))

ComplexCase1 ==
  /\ Equal(Complex0, C(0, 0))
  /\ Equal(Complex1(Frac(100)), C(100, 0))
  /\ C(-200, 300).realValue = Frac(-200)
  /\ C(-200, 300).imaginaryValue = Frac(300)

ComplexCase2 ==
  LET a == C(3, -4)
      b == C(1, -1)
      d == Frac(2)
      q == Complex2(Literal(24, 100), Literal(32, 100))
      four == Literal(45, 10)
      first == ReadInto(a, <<X, EQ, Frac(10), PLUS, four, I>>)
      second == ReadInto(b, <<X, EQ, Frac(5), PLUS, Frac(6), I>>)
  IN  /\ Same(NormSquared(a), Frac(25))
      /\ ~Equal(a, b)
      /\ Equal(Plus(a, b), C(4, -5))
      /\ Equal(Times(a, b), C(-1, -7))
      /\ Equal(Minus(a, b), C(2, -3))
      /\ Equal(Over(a, b), Complex2(Literal(35, 10), Literal(-5, 10)))
      /\ Equal(PlusD(a, d), C(5, -4))
      /\ Equal(MinusD(a, d), C(1, -4))
      /\ Equal(TimesD(a, d), C(6, -8))
      /\ Equal(OverD(a, d), Complex2(Literal(15, 10), Frac(-2)))
      /\ Equal(DPlus(d, a), C(5, -4))
      /\ Equal(DMinus(d, a), C(-1, 4))
      /\ Equal(DTimes(d, a), C(6, -8))
      /\ Equal(DOver(d, a), q)
      /\ Equal(Over(C(2, 0), a), q)
      /\ Equal(first, Complex2(Frac(10), four))
      /\ Equal(second, C(5, 6))
=============================================================================
