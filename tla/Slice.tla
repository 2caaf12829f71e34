-------------------------------- MODULE Slice --------------------------------
(***************************************************************************)
(* The containers of final exercise 005: Slice (113final005/solution/      *)
(* slice.h) with its random-access Iterator (iterator.h), and the Range of *)
(* the hint (hint.h), under a programme that derives a slice from another  *)
(* and then loops over one of them or over a range, writing as it goes.    *)
(*                                                                         *)
(* A pointer into a slice is an offset from its first element.             *)
(***************************************************************************)
EXTENDS Integers, Sequences, FiniteSets
SeqsExt == INSTANCE SequencesExt

CONSTANTS Data,      \* the contents a slice is constructed with
          Bounds,    \* the template arguments of Range
          Stored,    \* the values a loop body writes
          MaxVisits  \* bound on the visits of a loop, beyond what one that ends makes

ASSUME SliceAssumption ==
  /\ \A d \in Data : d \in Seq(Int)
  /\ Bounds \subseteq Int
  /\ Stored \subseteq Int
  /\ MaxVisits \in Nat
  /\ \A d \in Data : Len(d) < MaxVisits
  /\ \A from, to \in Bounds : to - from + 1 < MaxVisits

IsEven == [x \in Int |-> x % 2 = 0]
Square == [x \in Int |-> x * x]

-----------------------------------------------------------------------------
(* map, filter and every are loops over the storage that build a new one   *)
(* or stop at the first element that fails.  A callback is a function.     *)
Map(s, callback) == SeqsExt!FoldLeft(LAMBDA result, item : Append(result, callback[item]), <<>>, s)

Filter(s, func) ==
  SeqsExt!FoldLeft(LAMBDA result, item : IF func[item] THEN Append(result, item) ELSE result, <<>>, s)

Every(s, func) == SeqsExt!FoldLeft(LAMBDA ok, item : ok /\ func[item], TRUE, s)

(* begin() and end(); for an empty slice both are the same pointer.        *)
BeginOf(s) == 0
EndOf(s) == BeginOf(s) + Len(s)

(* Iterator: the operators that move, measure and read.  "n - it" is        *)
(* defined as "it - n".                                                    *)
PlusPlus(it) == it + 1
MinusMinus(it) == it - 1
PlusN(it, n) == it + n
MinusN(it, n) == it - n
NMinus(n, it) == MinusN(it, n)
Difference(it, other) == it - other
Deref(s, it) == s[it + 1]
Subscript(s, it, n) == s[it + n + 1]

(* The loop of std::find_if: the first place that satisfies, or last.      *)
FindIf(s, first, last, p) ==
  SeqsExt!FoldLeft(LAMBDA it, i : IF it = last /\ p[Deref(s, i)] THEN i ELSE it, last,
           [j \in 1..Difference(last, first) |-> PlusN(first, j - 1)])

CountIf(s, first, last, p) ==
  SeqsExt!FoldLeft(LAMBDA n, i : IF p[Deref(s, i)] THEN n + 1 ELSE n, 0,
           [j \in 1..Difference(last, first) |-> PlusN(first, j - 1)])

(* Bugs: a range that only goes up, and one without its last number.       *)
RangeUpwards(num, from, to) == num + 1
RangeShort(from, to) == to

(* Range<FROM, TO>: up or down, both ends included.                        *)
RangeNext(num, from, to) == IF to >= from THEN num + 1 ELSE num - 1
RangeBegin(from, to) == from
RangeEnd(from, to) == IF to >= from THEN to + 1 ELSE to - 1

-----------------------------------------------------------------------------
VARIABLES slice,     \* the slice that is looped over
          derived,   \* the slice that was filtered from it before the loop
          start,     \* what the slice held when the loop began
          range,     \* <<FROM, TO>>
          over,      \* what the loop runs over: "slice" or "range"
          it,        \* the loop's iterator
          last,      \* what end() returned
          visited    \* the values the loop has seen

sliceVars == <<slice, derived, start, range, over, it, last, visited>>

SliceInit ==
  /\ slice \in Data
  /\ start = slice
  /\ derived = Filter(slice, IsEven)
  /\ \E from, to \in Bounds : range = <<from, to>>
  /\ over \in {"slice", "range"}
  /\ it = IF over = "slice" THEN BeginOf(slice) ELSE RangeBegin(range[1], range[2])
  /\ last = IF over = "slice" THEN EndOf(slice) ELSE RangeEnd(range[1], range[2])
  /\ visited = <<>>

(* for (auto& v : slice): the reference may be written through.            *)
LoopSlice ==
  /\ over = "slice" /\ it # last /\ Len(visited) < MaxVisits
  /\ visited' = Append(visited, Deref(slice, it))
  /\ \/ UNCHANGED slice
     \/ \E v \in Stored : slice' = [slice EXCEPT ![it + 1] = v]
  /\ it' = PlusPlus(it)
  /\ UNCHANGED <<derived, start, range, over, last>>

LoopRange ==
  /\ over = "range" /\ it # last /\ Len(visited) < MaxVisits
  /\ visited' = Append(visited, it)
  /\ it' = RangeNext(it, range[1], range[2])
  /\ UNCHANGED <<slice, derived, start, range, over, last>>

SliceNext == LoopSlice \/ LoopRange

SliceSpec == SliceInit /\ [][SliceNext]_sliceVars /\ WF_sliceVars(SliceNext)

-----------------------------------------------------------------------------
(* The iterator of a loop over a slice stays between begin and end.        *)
SliceTypeOK ==
  /\ Len(slice) = Len(start)
  /\ over = "slice" => it \in BeginOf(slice)..EndOf(slice)

(* A loop over a slice sees each element once, in order, as it was before  *)
(* the loop came to it; its writes land on elements it has seen.           *)
LoopSeesEach ==
  over = "slice" =>
    /\ visited = SubSeq(start, 1, it)
    /\ it = last => Len(visited) = Len(start)
    /\ \A i \in it + 1..Len(start) : slice[i] = start[i]

(* The slice that was derived before holds the even elements in their      *)
(* order, each at the place that those before it leave it: no write of the *)
(* loop lands in it.                                                       *)
DerivedStays ==
  /\ LET kept == {i \in DOMAIN start : IsEven[start[i]]}
     IN  /\ Len(derived) = Cardinality(kept)
         /\ \A i \in kept : derived[Cardinality({j \in kept : j <= i})] = start[i]
  /\ Every(derived, IsEven)
  /\ Map(slice, Square) = [i \in DOMAIN slice |-> Square[slice[i]]]

(* A loop over Range<FROM, TO> sees exactly the numbers from FROM to TO,   *)
(* both included, in the direction of TO.                                  *)
RangeIsInclusive ==
  (over = "range" /\ it = last) =>
    LET up == range[2] >= range[1] IN
    /\ Len(visited) = (IF up THEN range[2] - range[1] ELSE range[1] - range[2]) + 1
    /\ \A i \in 1..Len(visited) : visited[i] = IF up THEN range[1] + i - 1 ELSE range[1] - i + 1

(* The loops end: "it != end()" is the only test, so that an iterator that *)
(* stepped over the end would run for ever.                                *)
LoopEnds == <>(it = last)

(* What the algorithms of the standard library rely on: searching and      *)
(* counting with the iterators is searching and counting the elements, and *)
(* the random-access operators agree with each other.                      *)
AlgorithmsAgree ==
  /\ LET found == FindIf(slice, BeginOf(slice), EndOf(slice), IsEven)
     IN  IF Every(slice, [x \in Int |-> ~IsEven[x]]) THEN found = EndOf(slice)
         ELSE /\ IsEven[Deref(slice, found)]
              /\ \A i \in 0..found - 1 : ~IsEven[Deref(slice, i)]
  /\ CountIf(slice, BeginOf(slice), EndOf(slice), IsEven) = Len(Filter(slice, IsEven))
  /\ \A i, j \in BeginOf(slice)..EndOf(slice) :
       /\ PlusN(i, Difference(j, i)) = j /\ MinusN(j, Difference(j, i)) = i
       /\ NMinus(j, i) = MinusN(i, j)
       /\ j < EndOf(slice) => Subscript(slice, i, Difference(j, i)) = Deref(slice, j)

(* Loops and algorithms see what the containers hold, all of it and once.  *)
LoopsAreExact == LoopSeesEach /\ DerivedStays /\ RangeIsInclusive /\ AlgorithmsAgree
=============================================================================
