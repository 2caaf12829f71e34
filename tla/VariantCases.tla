---------------------------- MODULE VariantCases -----------------------------
(***************************************************************************)
(* The test cases shipped with final exercise 006 (solution/runtime/       *)
(* case.h), the third without its fractions.  Catch's Approx is equality   *)
(* on whole numbers.                                                       *)
(***************************************************************************)
EXTENDS Variant

Digits(s) == Str(s)
Of(outcome) == outcome.value

VariantCase1 ==
  LET str1 == Digits(<<1, 2, 3, 4>>)
      str2 == AddVar(str1, Digits(<<5, 6, 7, 8>>))
  IN  /\ EqVar(Of(str2), Digits(<<1, 2, 3, 4, 5, 6, 7, 8>>))
      /\ EqVar(Of(AddVar(str1, Num("int", 100))), Num("int", 1334))

VariantCase2 ==
  LET a == Num("double", 10)
      b == Num("int", 5)
      x == Of(AddVar(a, b))
      y == Of(SubVar(x, b))
      z == Of(MulVar(y, Digits(<<2>>)))
      yes == Num("bool", 1)
  IN  /\ toDouble(x) = 15
      /\ toDouble(y) = 10
      /\ EqVar(z, Num("int", 20))
      /\ AddVar(yes, yes).error = "incompatible types"
      /\ DivVar(a, Num("int", 0)).error = "not allow devide by 0"
      /\ MulVar(Str(<<Letter, Letter, Letter>>), Num("int", 3)).error = "convert failed"

VariantCase3 ==
  LET coeffs == <<Num("int", 1), Num("int", 2), Num("int", -3)>>
      values == <<Num("int", 1), Num("int", 2), Num("int", 3)>>
      result[i \in 0..3] ==
        IF i = 0 THEN Num("int", 0)
        ELSE Of(AddVar(result[i - 1], Of(MulVar(coeffs[i], values[i]))))
  IN  /\ toString(coeffs[3]) = <<MinusSign, 3>>
      /\ toDouble(result[3]) = -4
=============================================================================
