----------------------------- MODULE SliceCases ------------------------------
(***************************************************************************)
(* The test cases shipped with final exercise 005 (solution/case.h) and    *)
(* the two loops of hint.h's iterator_example.                             *)
(***************************************************************************)
EXTENDS Slice

Points == [x : Int, y : Int]

SliceCase1 ==
  LET original == <<1, 2, 3, 4, 5, 6>>
      squared  == Map(original, Square)
      filtered == Filter(squared, [x \in Int |-> x > 10])
  IN  /\ Len(squared) = 6 /\ squared[1] = 1 /\ squared[6] = 36
      /\ filtered = <<16, 25, 36>>
      /\ ~Every(filtered, IsEven)
      /\ Every(Filter(Map(original, Square), [x \in Int |-> x > 10]), [x \in Int |-> x > 5])

(* The loop "for (auto v : s)" as a fold over the places from begin to end. *)
SliceCase2 ==
  LET s == [i \in 1..15 |-> i]
      places == [j \in 1..Difference(EndOf(s), BeginOf(s)) |-> PlusN(BeginOf(s), j - 1)]
      sum == SeqsExt!FoldLeft(LAMBDA n, i : n + Deref(s, i), 0, places)
  IN  /\ \A count \in 1..15 : Deref(s, places[count]) = count
      /\ sum = 120

SliceCase3 ==
  LET points == [i \in 1..10 |-> [x |-> i - 1, y |-> 2 * (i - 1)]]
      first == BeginOf(points)
      end   == EndOf(points)
      found == FindIf(points, first, end, [p \in Points |-> p.x = 3])
      xs    == Map(points, [p \in Points |-> p.x])
  IN  /\ found # end /\ Deref(points, found).y = 6
      /\ FindIf(points, first, end, [p \in Points |-> ~IsEven[p.y]]) = end
      /\ FindIf(points, first, end, [p \in Points |-> p.x > 8]) # end
      /\ CountIf(points, first, end, [p \in Points |-> p.x % 2 = 1]) = 5
      /\ SeqsExt!FoldLeft(LAMBDA n, p : n + p.y, 0, points) = 90
      /\ Len(xs) = 10 /\ xs[1] = 0 /\ xs[10] = 9

HintExample ==
  /\ 18 \in RangeBegin(15, 25)..RangeEnd(15, 25) - 1
  /\ RangeNext(RangeNext(RangeNext(RangeBegin(3, 5), 3, 5), 3, 5), 3, 5) = RangeEnd(3, 5)
=============================================================================
