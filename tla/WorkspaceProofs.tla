-------------------------- MODULE WorkspaceProofs ---------------------------
(***************************************************************************)
(* What module Workspace promises of a submission's source directory, for  *)
(* archives of any length whose entries have any paths and sizes.          *)
(*                                                                         *)
(* RejudgingExtractsTheSame is not inductive: it speaks of the end of an   *)
(* extraction only. WorkInv says in addition what is there on the way.     *)
(* Accounted: nothing but the archive's own files and what                 *)
(* flattenSingleRoot makes of them. Extracted: all the entries so far.     *)
(* Raising, while entries are moved up: each file of the archive is either *)
(* still below the single directory and to be moved, or above: HalfRaised. *)
(* Settled: between the extractions the tree is flattened to the end or    *)
(* not begun. An extraction over what an earlier one left therefore meets  *)
(* only paths of its own archive, and can be refused for no reason but     *)
(* those the archive has in itself (Excused).                              *)
(*                                                                         *)
(* For the disk, DiskWithinLimits is not inductive either: the total is    *)
(* checked only after a file has been written. Guarded adds that an        *)
(* extraction which goes on has not passed it.                             *)
(***************************************************************************)
EXTENDS MCFiles, ProblemStoreProofs, WellFoundedInduction, TLAPS

-----------------------------------------------------------------------------
(* Paths.                                                                  *)

LEMMA PathFacts ==
  ASSUME NEW p \in Paths
  PROVE  /\ p \in Seq(STRING) /\ Len(p) \in Nat /\ Len(p) >= 1
         /\ \A i \in 1..Len(p) : p[i] \in STRING
         /\ p[1] \in STRING
BY DEF Paths

LEMMA TailFacts ==
  ASSUME NEW p \in Paths, Len(p) > 1
  PROVE  /\ Tail(p) \in Paths
         /\ Len(Tail(p)) = Len(p) - 1
         /\ \A i \in 1..(Len(p) - 1) : Tail(p)[i] = p[i + 1]
         /\ Tail(p)[1] = p[2]
<1>1. p \in Seq(STRING) /\ Len(p) \in Nat
  BY PathFacts
<1>2. /\ Tail(p) \in Seq(STRING) /\ Len(Tail(p)) = Len(p) - 1
      /\ \A i \in 1..(Len(p) - 1) : Tail(p)[i] = p[i + 1]
  BY <1>1
<1> QED
  BY <1>1, <1>2 DEF Paths

LEMMA SingletonFacts ==
  ASSUME NEW S, NEW x \in S
  PROVE  /\ <<x>> \in Seq(S) /\ Len(<<x>>) = 1 /\ <<x>>[1] = x
         /\ \A p \in Seq(S) : Len(p) = 1 /\ p[1] = x => p = <<x>>
OBVIOUS

LEMMA ShortPath ==
  ASSUME NEW p, p \in Seq(STRING), Len(p) = 1
  PROVE  p \in Paths
BY DEF Paths

\* A path of one name.
LEMMA OneName ==
  ASSUME NEW x \in STRING
  PROVE  /\ <<x>> \in Paths /\ Len(<<x>>) = 1 /\ <<x>>[1] = x
         /\ \A p \in Paths : Len(p) = 1 /\ p[1] = x => p = <<x>>
<1>1. <<x>> \in Seq(STRING) /\ Len(<<x>>) = 1
  BY SingletonFacts
<1>2. <<x>> \in Paths
  BY <1>1, ShortPath
<1>3. <<x>>[1] = x
  OBVIOUS
<1>4. \A p \in Paths : Len(p) = 1 /\ p[1] = x => p = <<x>>
  <2>1. \A p \in Paths : p \in Seq(STRING)
    BY DEF Paths
  <2> QED
    BY <2>1, SingletonFacts
<1> QED
  BY <1>1, <1>2, <1>3, <1>4

\* The directories of a path.
LEMMA PrefixFacts ==
  ASSUME NEW p \in Paths, NEW k \in 1..(Len(p) - 1)
  PROVE  /\ SubSeq(p, 1, k) \in Paths
         /\ Len(SubSeq(p, 1, k)) = k
         /\ \A i \in 1..k : SubSeq(p, 1, k)[i] = p[i]
<1>1. p \in Seq(STRING) /\ Len(p) \in Nat
  BY PathFacts
<1>2. /\ SubSeq(p, 1, k) \in Seq(STRING) /\ Len(SubSeq(p, 1, k)) = k
      /\ \A i \in 1..k : SubSeq(p, 1, k)[i] = p[i]
  BY <1>1
<1> QED
  BY <1>2 DEF Paths

\* Two paths of the same names are the same.
LEMMA SamePath ==
  ASSUME NEW p \in Paths, NEW q \in Paths, Len(p) = Len(q),
         \A i \in 1..Len(p) : p[i] = q[i]
  PROVE  p = q
BY DEF Paths

LEMMA AppendFacts ==
  ASSUME NEW S, NEW s \in Seq(S), NEW y \in S
  PROVE  /\ Append(s, y) \in Seq(S) /\ Len(Append(s, y)) = Len(s) + 1
         /\ \A i \in 1..Len(s) : Append(s, y)[i] = s[i]
         /\ Append(s, y)[Len(s) + 1] = y
OBVIOUS

\* A path of two names.
LEMMA TwoNames ==
  ASSUME NEW x \in STRING, NEW y \in STRING
  PROVE  /\ Append(<<x>>, y) \in Paths /\ Len(Append(<<x>>, y)) = 2
         /\ Append(<<x>>, y)[1] = x /\ Append(<<x>>, y)[2] = y
         /\ \A p \in Paths : Len(p) = 2 /\ p[1] = x /\ p[2] = y => p = Append(<<x>>, y)
<1> DEFINE s == <<x>>
<1>1. s \in Seq(STRING) /\ Len(s) = 1 /\ s[1] = x
  BY SingletonFacts
<1> HIDE DEF s
<1>2. /\ Append(s, y) \in Seq(STRING) /\ Len(Append(s, y)) = Len(s) + 1
      /\ \A i \in 1..Len(s) : Append(s, y)[i] = s[i]
      /\ Append(s, y)[Len(s) + 1] = y
  BY <1>1, AppendFacts
<1> DEFINE t == Append(s, y)
<1> HIDE DEF t
<1>3. t \in Seq(STRING) /\ Len(t) = 2 /\ t[1] = x /\ t[2] = y
  <2>1. 1 \in 1..Len(s) /\ Len(s) + 1 = 2
    BY <1>1
  <2> QED
    BY <1>1, <1>2, <2>1 DEF t
<1>4. t \in Paths
  BY <1>3 DEF Paths
<1>5. \A p \in Paths : Len(p) = 2 /\ p[1] = x /\ p[2] = y => p = t
  <2> SUFFICES ASSUME NEW p \in Paths, Len(p) = 2, p[1] = x, p[2] = y PROVE p = t
    OBVIOUS
  <2>1. \A i \in 1..Len(p) : i = 1 \/ i = 2
    OBVIOUS
  <2>2. \A i \in 1..Len(p) : p[i] = t[i]
    BY <1>3, <2>1
  <2> QED
    BY <1>3, <1>4, <2>2, SamePath
<1> QED
  BY <1>3, <1>4, <1>5 DEF s, t

\* The directories a path is in.
LEMMA ParentsOf ==
  ASSUME NEW p \in Paths
  PROVE  /\ \A q \in Parents(p) :
              /\ q \in Paths /\ Len(q) < Len(p) /\ q[1] = p[1]
              /\ Len(q) > 1 => q[2] = p[2]
              /\ Parents(q) \subseteq Parents(p)
         /\ Len(p) > 1 => <<p[1]>> \in Parents(p)
         /\ Len(p) > 2 => Append(<<p[1]>>, p[2]) \in Parents(p)
<1>0. p \in Seq(STRING) /\ Len(p) \in Nat /\ \A i \in 1..Len(p) : p[i] \in STRING
  BY PathFacts
<1>1. ASSUME NEW q \in Parents(p)
      PROVE  /\ q \in Paths /\ Len(q) < Len(p) /\ q[1] = p[1]
             /\ Len(q) > 1 => q[2] = p[2]
             /\ Parents(q) \subseteq Parents(p)
  <2>1. PICK k \in 1..(Len(p) - 1) : q = SubSeq(p, 1, k)
    BY DEF Parents
  <2>2. /\ q \in Paths /\ Len(q) = k
        /\ \A i \in 1..k : q[i] = p[i]
    BY <2>1, PrefixFacts
  <2>3. q[1] = p[1] /\ (Len(q) > 1 => q[2] = p[2]) /\ Len(q) < Len(p)
    BY <1>0, <2>2
  <2>4. ASSUME NEW r \in Parents(q) PROVE r \in Parents(p)
    <3>1. PICK j \in 1..(Len(q) - 1) : r = SubSeq(q, 1, j)
      BY DEF Parents
    <3>2. j \in 1..(Len(p) - 1)
      BY <1>0, <2>2
    <3>3. SubSeq(q, 1, j) = SubSeq(p, 1, j)
      <4>1. /\ SubSeq(q, 1, j) \in Paths /\ Len(SubSeq(q, 1, j)) = j
            /\ \A i \in 1..j : SubSeq(q, 1, j)[i] = q[i]
        BY <2>2, PrefixFacts
      <4>2. /\ SubSeq(p, 1, j) \in Paths /\ Len(SubSeq(p, 1, j)) = j
            /\ \A i \in 1..j : SubSeq(p, 1, j)[i] = p[i]
        BY <3>2, PrefixFacts
      <4>3. \A i \in 1..j : q[i] = p[i]
        BY <2>2
      <4> QED
        BY <4>1, <4>2, <4>3, SamePath
    <3> QED
      BY <3>1, <3>2, <3>3 DEF Parents
  <2> QED
    BY <2>2, <2>3, <2>4
<1>2. ASSUME Len(p) > 1 PROVE <<p[1]>> \in Parents(p)
  <2>1. /\ 1 \in 1..(Len(p) - 1)
        /\ SubSeq(p, 1, 1) \in Paths /\ Len(SubSeq(p, 1, 1)) = 1
        /\ \A i \in 1..1 : SubSeq(p, 1, 1)[i] = p[i]
    BY <1>0, <1>2, PrefixFacts
  <2>2. SubSeq(p, 1, 1)[1] = p[1] /\ p[1] \in STRING
    BY <1>0, <1>2, <2>1
  <2>3. SubSeq(p, 1, 1) = <<p[1]>>
    BY <2>1, <2>2, OneName
  <2>4. SubSeq(p, 1, 1) \in Parents(p)
    BY <2>1 DEF Parents
  <2> QED
    BY <2>3, <2>4, Zenon
<1>3. ASSUME Len(p) > 2 PROVE Append(<<p[1]>>, p[2]) \in Parents(p)
  <2>1. /\ 2 \in 1..(Len(p) - 1)
        /\ SubSeq(p, 1, 2) \in Paths /\ Len(SubSeq(p, 1, 2)) = 2
        /\ \A i \in 1..2 : SubSeq(p, 1, 2)[i] = p[i]
    BY <1>0, <1>3, PrefixFacts
  <2>2. /\ SubSeq(p, 1, 2)[1] = p[1] /\ p[1] \in STRING
        /\ SubSeq(p, 1, 2)[2] = p[2] /\ p[2] \in STRING
    BY <1>0, <1>3, <2>1
  <2>3. \A z \in Paths : Len(z) = 2 /\ z[1] = p[1] /\ z[2] = p[2]
          => z = Append(<<p[1]>>, p[2])
    BY <2>2, TwoNames
  <2>4. SubSeq(p, 1, 2) = Append(<<p[1]>>, p[2])
    BY <2>1, <2>2, <2>3
  <2>5. SubSeq(p, 1, 2) \in Parents(p)
    BY <2>1 DEF Parents
  <2> QED
    BY <2>4, <2>5, Zenon
<1> QED
  BY <1>1, <1>2, <1>3

\* The directories of a path that has lost its first name have lost theirs.
LEMMA ParentsOfTail ==
  ASSUME NEW p \in Paths, Len(p) > 1, NEW q \in Parents(Tail(p))
  PROVE  \E r \in Parents(p) : Len(r) > 1 /\ q = Tail(r)
<1>1. /\ Tail(p) \in Paths /\ Len(Tail(p)) = Len(p) - 1 /\ Len(p) \in Nat
      /\ \A i \in 1..(Len(p) - 1) : Tail(p)[i] = p[i + 1]
  BY TailFacts, PathFacts
<1>2. PICK k \in 1..(Len(Tail(p)) - 1) : q = SubSeq(Tail(p), 1, k)
  BY DEF Parents
<1>3. k + 1 \in 1..(Len(p) - 1) /\ k \in Nat /\ k >= 1
  BY <1>1
<1> DEFINE r == SubSeq(p, 1, k + 1)
<1>4. /\ r \in Paths /\ Len(r) = k + 1
      /\ \A i \in 1..(k + 1) : r[i] = p[i]
  BY <1>3, PrefixFacts
<1>5. r \in Parents(p)
  BY <1>3 DEF Parents
<1> HIDE DEF r
<1>6. /\ Tail(r) \in Paths /\ Len(Tail(r)) = k
      /\ \A i \in 1..k : Tail(r)[i] = r[i + 1]
  <2>1. Len(r) > 1 /\ Len(r) - 1 = k
    BY <1>3, <1>4
  <2> QED
    BY <1>4, <2>1, TailFacts
<1>7. /\ q \in Paths /\ Len(q) = k /\ \A i \in 1..k : q[i] = Tail(p)[i]
  BY <1>1, <1>2, PrefixFacts
<1>8. q = Tail(r)
  <2>1. ASSUME NEW i \in 1..k PROVE q[i] = Tail(r)[i]
    <3>1. i \in 1..(Len(p) - 1) /\ i + 1 \in 1..(k + 1)
      BY <1>1, <1>3
    <3> QED
      BY <1>1, <1>4, <1>6, <1>7, <3>1
  <2> QED
    BY <1>6, <1>7, <2>1, SamePath
<1> QED
  BY <1>3, <1>4, <1>5, <1>8

-----------------------------------------------------------------------------
(* What the helpers of the module say of paths.                            *)

LEMMA BelowOne ==
  ASSUME NEW n \in STRING, NEW p \in Paths
  PROVE  Below(<<n>>, p) <=> Len(p) > 1 /\ p[1] = n
<1> DEFINE s == <<n>>
<1>1. s \in Paths /\ Len(s) = 1 /\ s[1] = n
  BY OneName
<1> HIDE DEF s
<1>2. p \in Seq(STRING) /\ Len(p) \in Nat
  BY PathFacts
<1>3. ASSUME Len(p) > 1 PROVE SubSeq(p, 1, 1) = s <=> p[1] = n
  <2>1. 1 \in 1..(Len(p) - 1)
    BY <1>2, <1>3
  <2>2. /\ SubSeq(p, 1, 1) \in Paths /\ Len(SubSeq(p, 1, 1)) = 1
        /\ \A i \in 1..1 : SubSeq(p, 1, 1)[i] = p[i]
    BY <2>1, PrefixFacts
  <2>3. SubSeq(p, 1, 1)[1] = p[1]
    BY <2>2
  <2>4. p[1] = n => SubSeq(p, 1, 1) = s
    <3>1. \A z \in Paths : Len(z) = 1 /\ z[1] = n => z = s
      BY OneName DEF s
    <3> QED
      BY <2>2, <2>3, <3>1
  <2> QED
    BY <1>1, <2>3, <2>4
<1>4. Below(s, p) <=> Len(p) > 1 /\ p[1] = n
  BY <1>1, <1>2, <1>3 DEF Below
<1> QED
  BY <1>4 DEF s

\* What is renamed when <<n, x>> is: the paths that begin with it.
LEMMA BelowTwo ==
  ASSUME NEW n \in STRING, NEW x \in STRING, NEW p \in Paths
  PROVE  p = Append(<<n>>, x) \/ Below(Append(<<n>>, x), p)
           <=> Len(p) > 1 /\ p[1] = n /\ p[2] = x
<1> DEFINE s == Append(<<n>>, x)
<1>1. /\ s \in Paths /\ Len(s) = 2 /\ s[1] = n /\ s[2] = x
      /\ \A z \in Paths : Len(z) = 2 /\ z[1] = n /\ z[2] = x => z = s
  BY TwoNames
<1> HIDE DEF s
<1>2. p \in Seq(STRING) /\ Len(p) \in Nat /\ Len(p) >= 1
  BY PathFacts
<1>3. ASSUME Len(p) > 2 PROVE SubSeq(p, 1, 2) = s <=> p[1] = n /\ p[2] = x
  <2>1. 2 \in 1..(Len(p) - 1)
    BY <1>2, <1>3
  <2>2. /\ SubSeq(p, 1, 2) \in Paths /\ Len(SubSeq(p, 1, 2)) = 2
        /\ \A i \in 1..2 : SubSeq(p, 1, 2)[i] = p[i]
    BY <2>1, PrefixFacts
  <2>3. SubSeq(p, 1, 2)[1] = p[1] /\ SubSeq(p, 1, 2)[2] = p[2]
    BY <2>2
  <2> QED
    BY <1>1, <2>2, <2>3
<1>4. Below(s, p) <=> Len(p) > 2 /\ p[1] = n /\ p[2] = x
  BY <1>1, <1>2, <1>3 DEF Below
<1>5. p = s <=> Len(p) = 2 /\ p[1] = n /\ p[2] = x
  BY <1>1
<1>6. p = s \/ Below(s, p) <=> Len(p) > 1 /\ p[1] = n /\ p[2] = x
  <2> DEFINE m == Len(p)
  <2>1. m \in Nat /\ m >= 1
    BY <1>2
  <2> HIDE DEF m
  <2>2. m > 1 <=> m = 2 \/ m > 2
    BY <2>1
  <2>3. Len(p) > 1 <=> Len(p) = 2 \/ Len(p) > 2
    BY <2>2 DEF m
  <2> QED
    BY <1>4, <1>5, <2>3, Zenon
<1> QED
  BY <1>6 DEF s

Tops(paths) == {p[1] : p \in paths}

LEMMA NamesAtTop ==
  ASSUME NEW S \in SUBSET Paths
  PROVE  Names(<<>>, S) = Tops(S)
<1>1. ASSUME NEW p \in Paths PROVE Below(<<>>, p)
  <2>1. p \in Seq(STRING) /\ Len(p) \in Nat /\ Len(p) >= 1
    BY PathFacts
  <2> QED
    BY <2>1 DEF Below
<1>2. Len(<<>>) + 1 = 1
  OBVIOUS
<1> QED
  BY <1>1, <1>2 DEF Names, Tops

LEMMA NamesBelow ==
  ASSUME NEW n \in STRING, NEW S \in SUBSET Paths
  PROVE  Names(<<n>>, S) = {p[2] : p \in {q \in S : Len(q) > 1 /\ q[1] = n}}
<1>1. Len(<<n>>) + 1 = 2
  OBVIOUS
<1>2. \A p \in S : Below(<<n>>, p) <=> Len(p) > 1 /\ p[1] = n
  BY BelowOne
<1>3. Names(<<n>>, S) = {p[2] : p \in {q \in S : Below(<<n>>, q)}}
  BY <1>1 DEF Names
<1>4. {q \in S : Below(<<n>>, q)} = {q \in S : Len(q) > 1 /\ q[1] = n}
  BY <1>2
<1> QED
  BY <1>3, <1>4, Zenon

LEMMA LengthOf ==
  ASSUME NEW S, NEW p \in Seq(S)
  PROVE  Len(p) \in Nat
OBVIOUS

\* What follows the second of its elements.
LEMMA SuffixIs ==
  ASSUME NEW S, NEW p \in Seq(S), Len(p) > 1
  PROVE  SubSeq(p, 3, Len(p)) \in Seq(S)
OBVIOUS

LEMMA SuffixLength ==
  ASSUME NEW S, NEW p \in Seq(S), Len(p) > 1
  PROVE  Len(SubSeq(p, 3, Len(p))) = Len(p) - 2
<1>1. Len(p) \in Nat
  BY LengthOf
<1>2. Len(SubSeq(p, 3, Len(p))) = IF 3 <= Len(p) THEN Len(p) - 3 + 1 ELSE 0
  BY <1>1
<1> DEFINE m == Len(p)
           k == Len(SubSeq(p, 3, Len(p)))
<1>3. m \in Nat /\ m > 1 /\ k = IF 3 <= m THEN m - 3 + 1 ELSE 0
  BY <1>1, <1>2, Zenon
<1> HIDE DEF m, k
<1>4. k = m - 2
  BY <1>3
<1> QED
  BY <1>4 DEF m, k

LEMMA SuffixElement ==
  ASSUME NEW S, NEW p \in Seq(S), Len(p) > 1, NEW i \in 1..(Len(p) - 2)
  PROVE  SubSeq(p, 3, Len(p))[i] = p[i + 2]
OBVIOUS

LEMMA TailElements ==
  ASSUME NEW S, NEW p \in Seq(S), Len(p) > 1
  PROVE  /\ Tail(p) \in Seq(S) /\ Len(Tail(p)) = Len(p) - 1
         /\ \A i \in 1..(Len(p) - 1) : Tail(p)[i] = p[i + 1]
OBVIOUS

LEMMA ConcatIs ==
  ASSUME NEW S, NEW s \in Seq(S), NEW r \in Seq(S)
  PROVE  s \o r \in Seq(S) /\ Len(s \o r) = Len(s) + Len(r)
OBVIOUS

LEMMA ConcatElement ==
  ASSUME NEW S, NEW s \in Seq(S), NEW r \in Seq(S), NEW i \in 1..(Len(s) + Len(r))
  PROVE  (s \o r)[i] = IF i <= Len(s) THEN s[i] ELSE r[i - Len(s)]
OBVIOUS

LEMMA SameSequence ==
  ASSUME NEW S, NEW p \in Seq(S), NEW q \in Seq(S), Len(p) = Len(q),
         \A i \in 1..Len(p) : p[i] = q[i]
  PROVE  p = q
OBVIOUS

LEMMA Respelled ==
  ASSUME NEW S, NEW p \in Seq(S), NEW s \in Seq(S), Len(p) > 1, Len(s) = 1, s[1] = p[2]
  PROVE  s \o SubSeq(p, 3, Len(p)) = Tail(p)
<1> DEFINE r == SubSeq(p, 3, Len(p))
<1>1. r \in Seq(S)
  BY SuffixIs
<1>2. Len(r) = Len(p) - 2
  BY SuffixLength
<1>3. \A i \in 1..(Len(p) - 2) : r[i] = p[i + 2]
  BY SuffixElement
<1> HIDE DEF r
<1>4. Len(p) \in Nat
  BY LengthOf
<1>5. /\ Tail(p) \in Seq(S) /\ Len(Tail(p)) = Len(p) - 1
      /\ \A i \in 1..(Len(p) - 1) : Tail(p)[i] = p[i + 1]
  BY TailElements
<1>6. s \o r \in Seq(S) /\ Len(s \o r) = Len(p) - 1
  <2>1. s \o r \in Seq(S) /\ Len(s \o r) = Len(s) + Len(r)
    BY <1>1, ConcatIs
  <2>2. Len(s) + Len(r) = Len(p) - 1
    BY <1>2, <1>4
  <2> QED
    BY <2>1, <2>2, Zenon
<1>7. ASSUME NEW i \in 1..(Len(p) - 1) PROVE (s \o r)[i] = Tail(p)[i]
  <2>1. i \in 1..(Len(s) + Len(r))
    BY <1>2, <1>4
  <2>2. (s \o r)[i] = IF i <= Len(s) THEN s[i] ELSE r[i - Len(s)]
    BY <1>1, <2>1, ConcatElement
  <2>3. CASE i = 1
    BY <1>4, <1>5, <2>2, <2>3
  <2>4. CASE i # 1
    <3>1. i - 1 \in 1..(Len(p) - 2) /\ (i - 1) + 2 = i + 1 /\ ~(i <= 1)
      BY <1>4, <2>4
    <3>2. (s \o r)[i] = r[i - 1]
      BY <2>2, <3>1
    <3>3. r[i - 1] = p[i + 1]
      BY <1>3, <3>1
    <3> QED
      BY <1>5, <3>2, <3>3
  <2> QED
    BY <2>3, <2>4
<1> DEFINE t == s \o r
<1> HIDE DEF t
<1>8. t \in Seq(S) /\ Len(t) = Len(p) - 1 /\ \A i \in 1..(Len(p) - 1) : t[i] = Tail(p)[i]
  BY <1>6, <1>7 DEF t
<1>9. t = Tail(p)
  BY <1>5, <1>8, SameSequence
<1> QED
  BY <1>9 DEF t, r

\* A rename of <<n, x>> to <<x>> takes the first name off what it renames.
LEMMA RenamedPath ==
  ASSUME NEW x \in STRING, NEW p \in Paths, Len(p) > 1, p[2] = x
  PROVE  <<x>> \o SubSeq(p, 3, Len(p)) = Tail(p)
<1> DEFINE s == <<x>>
<1>1. s \in Seq(STRING) /\ Len(s) = 1 /\ s[1] = x
  BY SingletonFacts
<1> HIDE DEF s
<1>2. p \in Seq(STRING)
  BY PathFacts
<1>3. s \o SubSeq(p, 3, Len(p)) = Tail(p)
  BY <1>1, <1>2, Respelled
<1> QED
  BY <1>3 DEF s

\* A path that moves, or stays.
Lifted(p, n, x) == IF Len(p) > 1 /\ p[1] = n /\ p[2] = x THEN Tail(p) ELSE p

LEMMA MovedPaths ==
  ASSUME NEW n \in STRING, NEW x \in STRING, NEW S \in SUBSET Paths
  PROVE  Moved(S, Append(<<n>>, x), <<x>>) = {Lifted(p, n, x) : p \in S}
<1>1. Len(Append(<<n>>, x)) + 1 = 3
  BY TwoNames
<1>2. \A p \in S : p = Append(<<n>>, x) \/ Below(Append(<<n>>, x), p)
                     <=> Len(p) > 1 /\ p[1] = n /\ p[2] = x
  BY BelowTwo
<1>3. \A p \in S : Len(p) > 1 /\ p[2] = x => <<x>> \o SubSeq(p, 3, Len(p)) = Tail(p)
  BY RenamedPath
<1>4. \A p \in S :
        (IF p = Append(<<n>>, x) \/ Below(Append(<<n>>, x), p)
         THEN <<x>> \o SubSeq(p, Len(Append(<<n>>, x)) + 1, Len(p)) ELSE p)
          = Lifted(p, n, x)
  BY <1>1, <1>2, <1>3 DEF Lifted
<1> QED
  BY <1>4 DEF Moved
-----------------------------------------------------------------------------
(* Totals: it is a function, its values are naturals and grow.             *)

\* A set of naturals that is not empty has a least element.
LEMMA LeastNatural ==
  ASSUME NEW S, S \subseteq Nat, S # {}
  PROVE  \E i \in S : \A j \in S : i <= j
<1> DEFINE Less == OpToRel(<, Nat)
<1>1. PICK i \in S : \A j \in S : <<j, i>> \notin Less
  <2> HIDE DEF Less
  <2>1. IsWellFoundedOn(Less, Nat)
    BY NatLessThanWellFounded DEF Less
  <2> QED
    BY <2>1, WFMin
<1>2. \A j \in S : j < i => <<j, i>> \in Less
  BY DEF OpToRel
<1>3. \A j \in S : ~(j < i)
  <2> HIDE DEF Less
  <2> QED
    BY <1>1, <1>2
<1>4. \A j \in S : i <= j
  <2> HIDE DEF Less
  <2> QED
    BY <1>3
<1> QED
  BY <1>4

\* g has the sums of the first values of w.
Sums(g, n, w) == g[0] = 0 /\ \A i \in 1..n : g[i] = g[i - 1] + w[i]

LEMMA SumsExist ==
  ASSUME NEW n \in Nat, NEW w, \A i \in 1..n : w[i] \in Nat
  PROVE  \E g \in [0..n -> Nat] : Sums(g, n, w)
<1> DEFINE Good(k) == \E g \in [0..k -> Nat] : Sums(g, k, w)
           Bad == {k \in 0..n : ~Good(k)}
<1>1. Good(0)
  <2>1. [i \in 0..0 |-> 0] \in [0..0 -> Nat]
    OBVIOUS
  <2>2. Sums([i \in 0..0 |-> 0], 0, w)
    BY DEF Sums
  <2> QED
    BY <2>1, <2>2
<1>2. ASSUME NEW k \in 0..n, k < n, Good(k) PROVE Good(k + 1)
  <2>1. PICK g \in [0..k -> Nat] : Sums(g, k, w)
    BY <1>2
  <2> DEFINE h == [i \in 0..(k + 1) |-> IF i = k + 1 THEN g[k] + w[k + 1] ELSE g[i]]
  <2>2. h \in [0..(k + 1) -> Nat]
    <3>1. k + 1 \in 1..n /\ k \in 0..k
      BY <1>2
    <3>2. g[k] + w[k + 1] \in Nat
      BY <3>1
    <3> QED
      BY <3>2
  <2>3. Sums(h, k + 1, w)
    <3>1. k \in Nat /\ 0 \in 0..k /\ g[0] = 0 /\ \A i \in 1..k : g[i] = g[i - 1] + w[i]
      BY <2>1 DEF Sums
    <3>2. h[0] = 0
      BY <3>1
    <3>3. ASSUME NEW i \in 1..(k + 1) PROVE h[i] = h[i - 1] + w[i]
      <4>1. CASE i = k + 1
        BY <3>1, <4>1
      <4>2. CASE i # k + 1
        <5>1. i \in 1..k /\ i - 1 \in 0..k /\ i - 1 # k + 1 /\ i \in 0..(k + 1) /\ i - 1 \in 0..(k + 1)
          BY <3>1, <4>2
        <5> QED
          BY <3>1, <4>2, <5>1
      <4> QED
        BY <4>1, <4>2
    <3> HIDE DEF h
    <3> QED
      BY <3>2, <3>3 DEF Sums
  <2> QED
    BY <2>2, <2>3
<1>3. Bad = {}
  <2> SUFFICES ASSUME Bad # {} PROVE FALSE
    OBVIOUS
  <2>1. PICK k \in Bad : \A j \in Bad : k <= j
    <3>1. Bad \subseteq Nat
      OBVIOUS
    <3> HIDE DEF Bad
    <3> QED
      BY <3>1, LeastNatural
  <2>2. k \in 0..n /\ ~Good(k)
    OBVIOUS
  <2>3. k # 0
    BY <1>1, <2>2
  <2>4. k - 1 \in 0..n /\ k - 1 < n /\ (k - 1) + 1 = k /\ ~(k <= k - 1)
    BY <2>2, <2>3
  <2>5. Good(k - 1)
    BY <2>1, <2>4
  <2> HIDE DEF Good
  <2>6. Good((k - 1) + 1)
    BY <1>2, <2>4, <2>5
  <2> QED
    BY <2>2, <2>4, <2>6
<1>4. Good(n)
  <2> HIDE DEF Good
  <2> QED
    BY <1>3
<1> QED
  BY <1>4

LEMMA SumsGrow ==
  ASSUME NEW n \in Nat, NEW w, \A i \in 1..n : w[i] \in Nat, NEW g, Sums(g, n, w)
  PROVE  \A i \in 0..n : g[i] \in Nat /\ g[i] <= g[n]
<1> DEFINE Odd == {i \in 0..n : g[i] \notin Nat}
           Above == {k \in 0..n : ~(g[n - k] <= g[n])}
<1>1. Odd = {}
  <2> SUFFICES ASSUME Odd # {} PROVE FALSE
    OBVIOUS
  <2>1. PICK k \in Odd : \A j \in Odd : k <= j
    <3>1. Odd \subseteq Nat
      OBVIOUS
    <3> HIDE DEF Odd
    <3> QED
      BY <3>1, LeastNatural
  <2>2. k # 0
    BY DEF Sums
  <2>3. k \in 1..n /\ k - 1 \in 0..n /\ ~(k <= k - 1)
    BY <2>2
  <2>4. g[k - 1] \in Nat
    BY <2>1, <2>3
  <2>5. g[k] = g[k - 1] + w[k] /\ w[k] \in Nat
    BY <2>3 DEF Sums
  <2> QED
    BY <2>4, <2>5
<1>2. \A i \in 0..n : g[i] \in Nat
  BY <1>1
<1>3. Above = {}
  <2> SUFFICES ASSUME Above # {} PROVE FALSE
    OBVIOUS
  <2>1. PICK k \in Above : \A j \in Above : k <= j
    <3>1. Above \subseteq Nat
      OBVIOUS
    <3> HIDE DEF Above
    <3> QED
      BY <3>1, LeastNatural
  <2>2. k \in 0..n /\ ~(g[n - k] <= g[n])
    OBVIOUS
  <2>3. k # 0
    BY <1>2, <2>2
  <2>4. k - 1 \in 0..n /\ ~(k <= k - 1) /\ n - (k - 1) \in 1..n /\ (n - (k - 1)) - 1 = n - k
    BY <2>2, <2>3
  <2>5. g[n - (k - 1)] <= g[n]
    BY <2>1, <2>4
  <2>6. g[n - (k - 1)] = g[n - k] + w[n - (k - 1)] /\ w[n - (k - 1)] \in Nat
    BY <2>4 DEF Sums
  <2>7. n - k \in 0..n /\ n - (k - 1) \in 0..n /\ n \in 0..n
    BY <2>2, <2>4
  <2>8. g[n - k] \in Nat /\ g[n - (k - 1)] \in Nat /\ g[n] \in Nat
    BY <1>2, <2>7
  <2> QED
    BY <2>2, <2>5, <2>6, <2>8
<1>4. ASSUME NEW i \in 0..n PROVE g[i] <= g[n]
  <2>1. n - i \in 0..n /\ n - (n - i) = i
    OBVIOUS
  <2>2. g[n - (n - i)] <= g[n]
    BY <1>3, <2>1
  <2> QED
    BY <2>1, <2>2
<1> QED
  BY <1>2, <1>4

Weights(a) == [i \in 1..Len(a) |-> IF a[i].size = Directory THEN 0 ELSE a[i].size]

LEMMA ArchiveFacts ==
  ASSUME NEW a \in Archives
  PROVE  /\ Len(a) \in Nat /\ DOMAIN a = 1..Len(a)
         /\ \A i \in 1..Len(a) : /\ a[i].path \in Paths
                                 /\ a[i].size # Directory => a[i].size \in Nat
         /\ \A i \in 1..Len(a) : Weights(a)[i] \in Nat
BY WorkspaceAssumption DEF Weights

\* The total of an archive is no less than that of its first entries.
LEMMA TotalsGrow ==
  ASSUME NEW a \in Archives
  PROVE  /\ Totals(a)[0] = 0
         /\ \A i \in 1..Len(a) : /\ Totals(a)[i] = Totals(a)[i - 1] + Weights(a)[i]
         /\ \A i \in 0..Len(a) : Totals(a)[i] \in Nat /\ Totals(a)[i] <= Totals(a)[Len(a)]
<1> DEFINE n == Len(a)
           w == Weights(a)
           Body(g) == [i \in 0..n |-> IF i = 0 THEN 0
                                      ELSE g[i - 1] + (IF a[i].size = Directory THEN 0 ELSE a[i].size)]
<1>1. n \in Nat /\ \A i \in 1..n : w[i] \in Nat
  BY ArchiveFacts
<1>2. \A i \in 1..n : w[i] = IF a[i].size = Directory THEN 0 ELSE a[i].size
  BY DEF Weights
<1>3. Totals(a) = CHOOSE g : g = Body(g)
  BY DEF Totals
<1>4. \E g : g = Body(g)
  <2> HIDE DEF n, w
  <2>1. PICK g \in [0..n -> Nat] : Sums(g, n, w)
    BY <1>1, SumsExist
  <2>2. ASSUME NEW i \in 0..n PROVE g[i] = Body(g)[i]
    <3>1. CASE i = 0
      BY <2>1, <3>1 DEF Sums
    <3>2. CASE i # 0
      <4>1. i \in 1..n
        BY <1>1, <3>2
      <4> QED
        BY <1>2, <2>1, <3>2, <4>1 DEF Sums
    <3> QED
      BY <3>1, <3>2
  <2>3. g = Body(g)
    BY <2>2
  <2> QED
    BY <2>3
<1> DEFINE t == Totals(a)
<1>5. t = Body(t)
  <2> HIDE DEF Body
  <2> QED
    BY <1>3, <1>4
<1> HIDE DEF n, w, t
<1>6. Sums(t, n, w)
  <2>1. 0 \in 0..n /\ \A i \in 1..n : i \in 0..n /\ i # 0
    BY <1>1
  <2>2. t[0] = 0
    BY <1>5, <2>1
  <2>3. ASSUME NEW i \in 1..n PROVE t[i] = t[i - 1] + w[i]
    <3>1. t[i] = t[i - 1] + (IF a[i].size = Directory THEN 0 ELSE a[i].size)
      BY <1>5, <2>1
    <3> QED
      BY <1>2, <3>1
  <2> QED
    BY <2>2, <2>3 DEF Sums
<1>7. \A i \in 0..n : t[i] \in Nat /\ t[i] <= t[n]
  BY <1>1, <1>6, SumsGrow
<1>8. t[0] = 0 /\ \A i \in 1..n : t[i] = t[i - 1] + w[i]
  BY <1>6 DEF Sums
<1> QED
  BY <1>7, <1>8 DEF n, w, t
-----------------------------------------------------------------------------
(* What is in an archive, and what may be below src/ because of it.        *)

One(n) == <<n>>
Two(n, x) == Append(<<n>>, x)

\* The single directory of the archive is n.
Sole(a, n) ==
  /\ Tops(Kept(FilesOf(a) \cup FoldersOf(a))) = {n}
  /\ One(n) \notin FilesOf(a)

\* The paths of the archive, and those that its flattening gives them.
Up(a, paths) ==
  paths \cup
    IF SingleRoot(a) THEN {Tail(p) : p \in {q \in Kept(paths) : Len(q) > 1 /\ q[2] # q[1]}}
                     ELSE {}

LEMMA OneFacts ==
  ASSUME NEW x \in STRING
  PROVE  /\ One(x) \in Paths /\ Len(One(x)) = 1 /\ One(x)[1] = x
         /\ \A p \in Paths : Len(p) = 1 /\ p[1] = x => p = One(x)
BY OneName DEF One

LEMMA TwoFacts ==
  ASSUME NEW x \in STRING, NEW y \in STRING
  PROVE  /\ Two(x, y) \in Paths /\ Len(Two(x, y)) = 2
         /\ Two(x, y)[1] = x /\ Two(x, y)[2] = y
         /\ \A p \in Paths : Len(p) = 2 /\ p[1] = x /\ p[2] = y => p = Two(x, y)
BY TwoNames DEF Two

LEMMA ParentFacts ==
  ASSUME NEW p \in Paths
  PROVE  /\ \A q \in Parents(p) :
              /\ q \in Paths /\ Len(q) < Len(p) /\ q[1] = p[1]
              /\ Len(q) > 1 => q[2] = p[2]
              /\ Parents(q) \subseteq Parents(p)
         /\ Len(p) > 1 => One(p[1]) \in Parents(p)
BY ParentsOf DEF One

LEMMA TopsAreNames ==
  ASSUME NEW S \in SUBSET Paths
  PROVE  /\ \A n \in Tops(S) : n \in STRING
         /\ \A p \in S : p[1] \in Tops(S)
BY PathFacts DEF Tops

LEMMA KeptFacts ==
  ASSUME NEW S \in SUBSET Paths
  PROVE  Kept(S) \subseteq S /\ Kept(S) \in SUBSET Paths
BY DEF Kept

LEMMA ArchivePaths ==
  ASSUME NEW a \in Archives
  PROVE  /\ FilesOf(a) \in SUBSET Paths /\ FoldersOf(a) \in SUBSET Paths
         /\ \A p \in FilesOf(a) \cup FoldersOf(a) : Parents(p) \subseteq FoldersOf(a)
         /\ \A i \in 1..Len(a) :
              /\ Parents(a[i].path) \subseteq FoldersOf(a)
              /\ a[i].size = Directory => a[i].path \in FoldersOf(a)
              /\ a[i].size # Directory => a[i].path \in FilesOf(a)
<1>1. DOMAIN a = 1..Len(a) /\ \A i \in DOMAIN a : a[i].path \in Paths
  BY ArchiveFacts
<1>2. FilesOf(a) \in SUBSET Paths
  BY <1>1 DEF FilesOf
<1>3. ASSUME NEW i \in DOMAIN a PROVE Parents(a[i].path) \subseteq FoldersOf(a)
  BY <1>3 DEF FoldersOf
<1>4. \A i \in DOMAIN a : /\ a[i].size = Directory => a[i].path \in FoldersOf(a)
                          /\ a[i].size # Directory => a[i].path \in FilesOf(a)
  BY DEF FoldersOf, FilesOf
<1>5. ASSUME NEW p \in FoldersOf(a) PROVE p \in Paths /\ Parents(p) \subseteq FoldersOf(a)
  <2>1. CASE \E i \in DOMAIN a : p = a[i].path
    BY <1>1, <1>3, <2>1
  <2>2. CASE \E i \in DOMAIN a : p \in Parents(a[i].path)
    <3>1. PICK i \in DOMAIN a : p \in Parents(a[i].path)
      BY <2>2
    <3>2. p \in Paths /\ Parents(p) \subseteq Parents(a[i].path)
      BY <1>1, <3>1, ParentFacts
    <3> QED
      BY <1>3, <3>2
  <2> QED
    BY <2>1, <2>2 DEF FoldersOf
<1>6. \A p \in FilesOf(a) : Parents(p) \subseteq FoldersOf(a)
  BY <1>3 DEF FilesOf
<1> QED
  BY <1>1, <1>2, <1>3, <1>4, <1>5, <1>6

\* The paths of the archive without the junk.
LEMMA KeptOfArchive ==
  ASSUME NEW a \in Archives
  PROVE  /\ Kept(FilesOf(a) \cup FoldersOf(a)) \in SUBSET Paths
         /\ Kept(FilesOf(a)) \in SUBSET Paths
         /\ Kept(FilesOf(a)) \subseteq Kept(FilesOf(a) \cup FoldersOf(a))
         /\ Kept(FoldersOf(a)) \subseteq Kept(FilesOf(a) \cup FoldersOf(a))
         /\ Kept(FilesOf(a)) \subseteq FilesOf(a)
<1>1. FilesOf(a) \in SUBSET Paths /\ FoldersOf(a) \in SUBSET Paths
  BY ArchivePaths
<1> QED
  BY <1>1 DEF Kept

LEMMA SingleRootIs ==
  ASSUME NEW a \in Archives
  PROVE  SingleRoot(a) <=> \E n \in STRING : Sole(a, n)
<1> DEFINE K == Kept(FilesOf(a) \cup FoldersOf(a))
<1>1. K \in SUBSET Paths
  BY KeptOfArchive
<1>2. Names(<<>>, K) = Tops(K)
  BY <1>1, NamesAtTop
<1>3. \A n \in Tops(K) : n \in STRING
  BY <1>1, TopsAreNames
<1>4. SingleRoot(a) <=> \E n \in Tops(K) : Tops(K) = {n} /\ One(n) \notin FilesOf(a)
  BY <1>2 DEF SingleRoot, One
<1> HIDE DEF K
<1>5. \A n : Sole(a, n) <=> Tops(K) = {n} /\ One(n) \notin FilesOf(a)
  BY DEF Sole, K
<1> QED
  BY <1>3, <1>4, <1>5

\* An archive with a single directory.
LEMMA SoleFacts ==
  ASSUME NEW a \in Archives, NEW n, Sole(a, n)
  PROVE  /\ SingleRoot(a) /\ n \in STRING /\ n \notin Junk
         /\ One(n) \in FoldersOf(a) /\ n \in Tops(FoldersOf(a))
         /\ \A p \in Kept(FilesOf(a) \cup FoldersOf(a)) : p[1] = n
         /\ \A p \in Kept(FilesOf(a)) : Len(p) > 1
         /\ \A m : Sole(a, m) => m = n
<1> DEFINE K == Kept(FilesOf(a) \cup FoldersOf(a))
<1>1. K \in SUBSET Paths /\ Kept(FilesOf(a)) \subseteq K /\ Kept(FilesOf(a)) \subseteq FilesOf(a)
  BY KeptOfArchive
<1>2. Tops(K) = {n} /\ One(n) \notin FilesOf(a)
  BY DEF Sole
<1>3. n \in STRING
  BY <1>1, <1>2, TopsAreNames
<1>4. SingleRoot(a)
  BY <1>3, SingleRootIs
<1>5. \A p \in K : p[1] = n
  BY <1>2 DEF Tops
<1>6. PICK p \in K : p[1] = n
  BY <1>2 DEF Tops
<1>7. n \notin Junk /\ p \in FilesOf(a) \cup FoldersOf(a)
  BY <1>6 DEF Kept
<1>8. \A q \in Paths : Len(q) > 1 \/ Len(q) = 1
  <2> SUFFICES ASSUME NEW q \in Paths PROVE Len(q) > 1 \/ Len(q) = 1
    OBVIOUS
  <2> DEFINE m == Len(q)
  <2>1. m \in Nat /\ m >= 1
    BY PathFacts
  <2> HIDE DEF m
  <2>2. m > 1 \/ m = 1
    BY <2>1
  <2> QED
    BY <2>2 DEF m
<1>9. One(n) \in FoldersOf(a)
  <2>1. CASE Len(p) > 1
    <3>1. One(n) \in Parents(p)
      BY <1>1, <1>6, <2>1, ParentFacts
    <3> QED
      BY <1>7, <3>1, ArchivePaths
  <2>2. CASE Len(p) = 1
    <3>1. p = One(n)
      BY <1>1, <1>3, <1>6, <2>2, OneFacts
    <3> QED
      BY <1>2, <1>7, <3>1
  <2> QED
    BY <1>1, <1>8, <2>1, <2>2
<1>10. n \in Tops(FoldersOf(a))
  <2>1. One(n)[1] = n
    BY <1>3, OneFacts
  <2> QED
    BY <1>9, <2>1 DEF Tops
<1>11. ASSUME NEW q \in Kept(FilesOf(a)) PROVE Len(q) > 1
  <2>1. q \in Paths /\ q[1] = n /\ q \in FilesOf(a)
    BY <1>1, <1>5
  <2>2. Len(q) = 1 => q = One(n)
    BY <1>3, <2>1, OneFacts
  <2> QED
    BY <1>2, <1>8, <2>1, <2>2
<1>12. ASSUME NEW m, Sole(a, m) PROVE m = n
  <2>1. Tops(K) = {m}
    BY <1>12 DEF Sole
  <2> QED
    BY <1>2, <2>1
<1> HIDE DEF K
<1>13. \A q \in Kept(FilesOf(a) \cup FoldersOf(a)) : q[1] = n
  BY <1>5 DEF K
<1> QED
  BY <1>3, <1>4, <1>7, <1>9, <1>10, <1>11, <1>12, <1>13

\* Its source tree: what is in the directory.
LEMMA TreeFacts ==
  ASSUME NEW a \in Archives
  PROVE  /\ ~SingleRoot(a) => Tree(a) = Kept(FilesOf(a))
         /\ SingleRoot(a) => \A t \in Tree(a) : \E p \in Kept(FilesOf(a)) : t = Tail(p)
         /\ \A t \in Tree(a) : t[1] \notin Junk
<1>1. ~SingleRoot(a) => Tree(a) = Kept(FilesOf(a))
  BY DEF Tree
<1>2. SingleRoot(a) => Tree(a) = Kept(Raised(Kept(FilesOf(a))))
  BY DEF Tree
<1>3. \A t \in Kept(Raised(Kept(FilesOf(a)))) :
        t[1] \notin Junk /\ \E p \in Kept(FilesOf(a)) : t = Tail(p)
  BY DEF Kept, Raised
<1>4. \A t \in Kept(FilesOf(a)) : t[1] \notin Junk
  BY DEF Kept
<1> QED
  BY <1>1, <1>2, <1>3, <1>4

\* Paths of the archive, or those of another directory.
LEMMA UpFacts ==
  ASSUME NEW a \in Archives, NEW S \in SUBSET Paths
  PROVE  /\ S \subseteq Up(a, S)
         /\ \A p \in Up(a, S) :
              \/ p \in S
              \/ /\ SingleRoot(a)
                 /\ \E q \in Kept(S) : Len(q) > 1 /\ q[2] # q[1] /\ p = Tail(q)
         /\ SingleRoot(a) =>
              \A q \in Kept(S) : Len(q) > 1 /\ q[2] # q[1] => Tail(q) \in Up(a, S)
         /\ Up(a, S) \subseteq Left(a, S)
         /\ Up(a, S) \subseteq Paths
<1>1. S \subseteq Up(a, S)
  BY DEF Up
<1>2. \A p \in Up(a, S) : \/ p \in S
                          \/ /\ SingleRoot(a)
                             /\ \E q \in Kept(S) : Len(q) > 1 /\ q[2] # q[1] /\ p = Tail(q)
  BY DEF Up
<1>3. SingleRoot(a) => \A q \in Kept(S) : Len(q) > 1 /\ q[2] # q[1] => Tail(q) \in Up(a, S)
  BY DEF Up
<1>4. ASSUME NEW p \in Up(a, S) PROVE p \in Left(a, S) /\ p \in Paths
  <2>1. CASE p \in S
    BY <2>1 DEF Left
  <2>2. CASE SingleRoot(a) /\ \E q \in Kept(S) : Len(q) > 1 /\ q[2] # q[1] /\ p = Tail(q)
    <3>1. PICK q \in Kept(S) : Len(q) > 1 /\ p = Tail(q)
      BY <2>2
    <3>2. p \in Raised(Kept(S))
      BY <3>1 DEF Raised
    <3>3. q \in Paths
      BY <3>1, KeptFacts
    <3>4. p \in Paths
      BY <3>1, <3>3, TailFacts
    <3> QED
      BY <2>2, <3>2, <3>4 DEF Left
  <2> QED
    BY <1>2, <2>1, <2>2
<1> QED
  BY <1>1, <1>2, <1>3, <1>4

-----------------------------------------------------------------------------
(* The invariant.                                                          *)

Typed ==
  /\ archive \in Archives
  /\ files \subseteq Paths /\ folders \subseteq Paths
  /\ at \in {"waiting", "extract", "moving", "done", "failed"}
  /\ entries \in 0..Len(archive)

\* The directories form a tree.
Shaped ==
  /\ \A p \in files \cup folders : Parents(p) \subseteq folders
  /\ files \cap folders = {}

\* What is below the single directory is what is to move, no name to move is
\* taken above but that of the directory itself, and each file of the archive
\* is on one of the two sides.
HalfRaised(n) ==
  /\ root = One(n) /\ One(n) \in folders /\ Sole(archive, n)
  /\ \A name \in moving : name \in STRING /\ Two(n, name) \in files \cup folders
  /\ \A p \in files \cup folders : /\ Len(p) > 1 /\ p[1] = n => p[2] \in moving
                                   /\ p[1] = n \/ p[1] \notin moving
  /\ \A p \in Kept(FilesOf(archive)) :
       (p[2] \in moving /\ p \in files) \/ (p[2] # n /\ Tail(p) \in files)

Raising ==
  /\ at = "moving" => \E n \in Tops(FoldersOf(archive)) : HalfRaised(n)
  /\ at # "moving" => root = <<>> /\ moving = {}

\* Nothing is there that is not the archive's.
Accounted == files \subseteq Up(archive, FilesOf(archive)) /\ folders \subseteq Up(archive, FoldersOf(archive))

\* The entries extracted are there.
Extracted ==
  at = "extract" =>
    /\ written = Totals(archive)[entries]
    /\ \A i \in 1..entries :
         /\ Parents(archive[i].path) \subseteq folders
         /\ archive[i].size = Directory => archive[i].path \in folders
         /\ archive[i].size # Directory => archive[i].path \in files

\* A directory is flattened to the end or not yet.
Settled ==
  ~torn /\ at # "moving" =>
    \A n \in Tops(FoldersOf(archive)) :
      Sole(archive, n) => Tops(Kept(files \cup folders)) \subseteq {n} \/ Tree(archive) \subseteq files

Finished == ~torn /\ at = "done" => Tree(archive) \subseteq files

Excused == at = "failed" => Refusable

WorkInv ==
  Typed /\ Shaped /\ Raising /\ Accounted /\ Extracted /\ Settled /\ Finished /\ Excused

LEMMA WorkStarts ==
  ASSUME WorkspaceInit
  PROVE  WorkInv
<1> USE DEF WorkspaceInit
<1>1. Typed
  BY ArchiveFacts DEF Typed
<1>2. Shaped
  BY DEF Shaped
<1>3. Raising
  BY DEF Raising
<1>4. Accounted
  BY DEF Accounted
<1>5. Extracted
  BY DEF Extracted
<1>6. Settled
  BY DEF Settled, Kept, Tops
<1>7. Finished /\ Excused
  BY DEF Finished, Excused
<1> QED
  BY <1>1, <1>2, <1>3, <1>4, <1>5, <1>6, <1>7 DEF WorkInv

LEMMA ArchiveStays ==
  ASSUME archive' = archive
  PROVE  Refusable' <=> Refusable
BY DEF Refusable

LEMMA JudgeKeeps ==
  ASSUME WorkInv, Judge
  PROVE  WorkInv'
<1> USE DEF WorkInv, Judge
<1>1. Typed'
  BY ArchiveFacts DEF Typed
<1>2. Shaped' /\ Accounted'
  BY DEF Shaped, Accounted
<1>3. Raising'
  BY DEF Raising
<1>4. Extracted'
  <2>1. Totals(archive)[0] = 0
    BY TotalsGrow DEF Typed
  <2> QED
    BY <2>1 DEF Extracted
<1>5. Settled'
  BY DEF Settled
<1>6. Finished' /\ Excused'
  BY DEF Finished, Excused
<1> QED
  BY <1>1, <1>2, <1>3, <1>4, <1>5, <1>6

LEMMA KillKeeps ==
  ASSUME WorkInv, Kill
  PROVE  WorkInv'
<1> USE DEF WorkInv, Kill
<1>1. Typed'
  BY DEF Typed
<1>2. Shaped' /\ Accounted'
  BY DEF Shaped, Accounted
<1>3. Raising'
  BY DEF Raising
<1>4. Extracted'
  BY DEF Extracted
<1>5. Settled'
  BY DEF Settled
<1>6. Finished' /\ Excused'
  BY DEF Finished, Excused
<1> QED
  BY <1>1, <1>2, <1>3, <1>4, <1>5, <1>6

LEMMA StutterKeeps ==
  ASSUME WorkInv, UNCHANGED workspaceVars
  PROVE  WorkInv'
<1> USE DEF WorkInv, workspaceVars
<1>1. Typed' /\ Shaped' /\ Accounted' /\ Extracted'
  BY DEF Typed, Shaped, Accounted, Extracted
<1>2. Raising'
  BY DEF Raising, HalfRaised
<1>3. Settled' /\ Finished'
  BY DEF Settled, Finished
<1>4. Excused'
  BY ArchiveStays DEF Excused
<1> QED
  BY <1>1, <1>2, <1>3, <1>4

\* What an entry can be blocked by is in the archive.
LEMMA BlockedIsRefusable ==
  ASSUME WorkInv, NEW i \in 1..Len(archive), Blocked(archive[i])
  PROVE  Refusable
<1> DEFINE e == archive[i]
           F == FilesOf(archive)
           D == FoldersOf(archive)
<1>1. archive \in Archives /\ i \in DOMAIN archive
  BY ArchiveFacts DEF WorkInv, Typed
<1>2. /\ Parents(e.path) \subseteq D
      /\ e.size = Directory => e.path \in D
      /\ e.size # Directory => e.path \in F
      /\ F \in SUBSET Paths /\ D \in SUBSET Paths
  BY <1>1, ArchivePaths
<1>3. /\ F \subseteq Up(archive, F) /\ Up(archive, F) \subseteq Left(archive, F)
      /\ D \subseteq Up(archive, D) /\ Up(archive, D) \subseteq Left(archive, D)
  BY <1>1, <1>2, UpFacts
<1>4. files \subseteq Left(archive, F) /\ folders \subseteq Left(archive, D)
  BY <1>3 DEF WorkInv, Accounted
<1>5. CASE e.path[1] = Outside
  BY <1>1, <1>5 DEF Refusable
<1>6. CASE e.path[1] # Outside
  <2>1. Left(archive, F) \cap Left(archive, D) # {}
    <3>1. CASE Parents(e.path) \cap files # {}
      BY <1>2, <1>3, <1>4, <3>1
    <3>2. CASE e.size = Directory /\ e.path \in files
      BY <1>2, <1>3, <1>4, <3>2
    <3>3. CASE e.size # Directory /\ e.path \in folders
      BY <1>2, <1>3, <1>4, <3>3
    <3> QED
      BY <1>6, <3>1, <3>2, <3>3 DEF Blocked
  <2> QED
    BY <2>1 DEF Refusable
<1> QED
  BY <1>5, <1>6

\* The path of an entry and its directories.
Made(e) == Parents(e.path) \cup {e.path}

\* An entry that is not blocked joins the tree.
LEMMA MadeKeeps ==
  ASSUME WorkInv, at = "extract", archive' = archive, NEW i \in 1..Len(archive),
         ~Blocked(archive[i]),
         folders' = folders \cup Parents(archive[i].path)
                      \cup (IF archive[i].size = Directory THEN {archive[i].path} ELSE {}),
         files' = files \cup (IF archive[i].size = Directory THEN {} ELSE {archive[i].path})
  PROVE  /\ files' \subseteq Paths /\ folders' \subseteq Paths
         /\ Shaped' /\ Accounted'
         /\ files \subseteq files' /\ folders \subseteq folders'
         /\ ~torn => \A n \in Tops(FoldersOf(archive)) :
              Sole(archive, n) =>
                Tops(Kept(files' \cup folders')) \subseteq {n} \/ Tree(archive) \subseteq files'
<1> DEFINE e == archive[i]
           F == FilesOf(archive)
           D == FoldersOf(archive)
<1>1. archive \in Archives /\ files \subseteq Paths /\ folders \subseteq Paths
  BY DEF WorkInv, Typed
<1>2. /\ Parents(e.path) \subseteq D
      /\ e.size = Directory => e.path \in D
      /\ e.size # Directory => e.path \in F
      /\ F \in SUBSET Paths /\ D \in SUBSET Paths
  BY <1>1, ArchivePaths
<1>3. e.path \in Paths
  BY <1>1, ArchiveFacts
<1>4. \A q \in Parents(e.path) : /\ q \in Paths /\ Len(q) < Len(e.path) /\ q[1] = e.path[1]
                                 /\ Parents(q) \subseteq Parents(e.path)
  BY <1>3, ParentFacts
<1>5. files' \subseteq Paths /\ folders' \subseteq Paths
  BY <1>1, <1>3, <1>4
<1>6. e.path \notin Parents(e.path)
  <2> DEFINE m == Len(e.path)
  <2>1. m \in Nat
    BY <1>3, PathFacts
  <2>2. \A q \in Parents(e.path) : Len(q) < m
    BY <1>4
  <2> HIDE DEF m
  <2>3. ~(m < m)
    BY <2>1
  <2> QED
    BY <2>2, <2>3 DEF m
<1>7. Shaped'
  <2>1. (\A p \in files \cup folders : Parents(p) \subseteq folders) /\ files \cap folders = {}
    BY DEF WorkInv, Shaped
  <2>2. /\ Parents(e.path) \cap files = {}
        /\ e.size = Directory => e.path \notin files
        /\ e.size # Directory => e.path \notin folders
    BY DEF Blocked
  <2>3. ASSUME NEW p \in files' \cup folders' PROVE Parents(p) \subseteq folders'
    <3>1. CASE p \in files \cup folders
      BY <2>1, <3>1
    <3>2. CASE p \in Made(e)
      BY <1>4, <3>2 DEF Made
    <3> QED
      BY <3>1, <3>2 DEF Made
  <2>4. files' \cap folders' = {}
    BY <1>6, <2>1, <2>2
  <2> QED
    BY <2>3, <2>4 DEF Shaped
<1>8. Accounted'
  <2>1. F \subseteq Up(archive, F) /\ D \subseteq Up(archive, D)
    BY <1>1, <1>2, UpFacts
  <2>2. files \subseteq Up(archive, F) /\ folders \subseteq Up(archive, D)
    BY DEF WorkInv, Accounted
  <2>3. files' \subseteq Up(archive, F) /\ folders' \subseteq Up(archive, D)
    BY <1>2, <2>1, <2>2
  <2> QED
    BY <2>3 DEF Accounted
<1>9. files \subseteq files' /\ folders \subseteq folders'
  OBVIOUS
<1>10. ASSUME ~torn, NEW n \in Tops(FoldersOf(archive)), Sole(archive, n)
       PROVE  Tops(Kept(files' \cup folders')) \subseteq {n} \/ Tree(archive) \subseteq files'
  <2>1. CASE Tree(archive) \subseteq files
    BY <1>9, <2>1
  <2>2. CASE ~(Tree(archive) \subseteq files)
    <3>2. Tops(Kept(files \cup folders)) \subseteq {n}
      BY <1>10, <2>2 DEF WorkInv, Settled
    <3>3. \A p \in Kept(FilesOf(archive) \cup FoldersOf(archive)) : p[1] = n
      BY <1>1, <1>10, SoleFacts
    <3>4. ASSUME NEW p \in files' \cup folders', p[1] \notin Junk PROVE p[1] = n
      <4>1. CASE p \in files \cup folders
        <5>1. p[1] \in Tops(Kept(files \cup folders))
          BY <3>4, <4>1 DEF Tops, Kept
        <5> QED
          BY <3>2, <5>1
      <4>2. CASE p \in Made(e)
        <5>1. p \in F \cup D
          BY <1>2, <4>2 DEF Made
        <5> QED
          BY <3>3, <3>4, <5>1 DEF Kept
      <4> QED
        BY <4>1, <4>2 DEF Made
    <3>5. \A m \in Tops(Kept(files' \cup folders')) : m = n
      BY <3>4 DEF Tops, Kept
    <3> QED
      BY <3>5
  <2> QED
    BY <2>1, <2>2
<1> QED
  BY <1>5, <1>7, <1>8, <1>9, <1>10

LEMMA ExtractKeeps ==
  ASSUME WorkInv, ExtractEntry
  PROVE  WorkInv'
<1> DEFINE i == entries + 1
           e == archive[i]
<1>1. /\ archive \in Archives /\ archive' = archive /\ entries' = i /\ at = "extract"
      /\ torn' = torn /\ root' = root /\ moving' = moving
  BY DEF WorkInv, Typed, ExtractEntry
<1>2. Len(archive) \in Nat /\ entries \in 0..Len(archive) /\ entries < Len(archive)
  BY <1>1, ArchiveFacts DEF WorkInv, Typed, ExtractEntry
<1>3. i \in 1..Len(archive) /\ i \in 0..Len(archive) /\ i \in DOMAIN archive /\ i - 1 = entries
  BY <1>1, <1>2, ArchiveFacts
<1>4. /\ e.path \in Paths
      /\ e.size # Directory => e.size \in Nat
  BY <1>1, <1>3, ArchiveFacts
<1>5. /\ Totals(archive)[i] = Totals(archive)[entries] + (IF e.size = Directory THEN 0 ELSE e.size)
      /\ Totals(archive)[i] \in Nat /\ Totals(archive)[i] <= Totals(archive)[Len(archive)]
      /\ Totals(archive)[entries] \in Nat /\ Totals(archive)[Len(archive)] \in Nat
  <2>1. Len(archive) \in 0..Len(archive)
    BY <1>2
  <2>2. Weights(archive)[i] = IF e.size = Directory THEN 0 ELSE e.size
    BY <1>3 DEF Weights
  <2> QED
    BY <1>1, <1>2, <1>3, <2>1, <2>2, TotalsGrow
<1>6. root = <<>> /\ moving = {} /\ written = Totals(archive)[entries]
  BY <1>1 DEF WorkInv, Raising, Extracted
<1>7. CASE i > maxEntries \/ Blocked(e)
  <2>1. /\ at' = "failed" /\ files' = files /\ folders' = folders /\ written' = written
    BY <1>7 DEF ExtractEntry, Fail
  <2>2. Refusable
    <3>1. CASE i > maxEntries
      <4>1. maxEntries \in Nat
        BY WorkspaceAssumption
      <4>2. Len(archive) > maxEntries
        BY <1>2, <3>1, <4>1
      <4> QED
        BY <4>2 DEF Refusable
    <3>2. CASE Blocked(e)
      BY <1>3, <3>2, BlockedIsRefusable
    <3> QED
      BY <1>7, <3>1, <3>2
  <2>3. Excused'
    BY <1>1, <2>2, ArchiveStays DEF Excused
  <2>4. Typed'
    BY <1>1, <1>3, <2>1 DEF WorkInv, Typed
  <2>5. Shaped' /\ Accounted' /\ Extracted' /\ Finished' /\ Raising'
    BY <1>1, <1>6, <2>1 DEF WorkInv, Shaped, Accounted, Extracted, Finished, Raising
  <2>6. Settled'
    BY <1>1, <2>1 DEF WorkInv, Settled
  <2> QED
    BY <2>3, <2>4, <2>5, <2>6 DEF WorkInv
<1>8. CASE ~(i > maxEntries \/ Blocked(e))
  <2>1. /\ folders' = folders \cup Parents(e.path) \cup (IF e.size = Directory THEN {e.path} ELSE {})
        /\ files' = files \cup (IF e.size = Directory THEN {} ELSE {e.path})
        /\ e.size = Directory => at' = "extract" /\ written' = written
        /\ e.size # Directory =>
             /\ written' = written + Copied(e)
             /\ at' = IF Copied(e) > maxFileSize \/ written' > maxTotalSize THEN "failed" ELSE "extract"
    BY <1>1, <1>8 DEF ExtractEntry
  <2> HIDE DEF e, i
  <2>2. /\ files' \subseteq Paths /\ folders' \subseteq Paths
        /\ Shaped' /\ Accounted'
        /\ files \subseteq files' /\ folders \subseteq folders'
        /\ ~torn => \A n \in Tops(FoldersOf(archive)) :
             Sole(archive, n) =>
               Tops(Kept(files' \cup folders')) \subseteq {n} \/ Tree(archive) \subseteq files'
    BY <1>1, <1>3, <1>8, <2>1, MadeKeeps DEF e
  <2>3. at' \in {"extract", "failed"}
    BY <2>1
  <2>4. Typed'
    BY <1>1, <1>3, <2>2, <2>3 DEF Typed
  <2>5. Raising' /\ Finished'
    BY <1>1, <1>6, <2>3 DEF Raising, Finished
  <2>6. Settled'
    BY <1>1, <2>2 DEF Settled
  <2>7. Extracted'
    <3> SUFFICES ASSUME at' = "extract" PROVE Extracted'
      BY DEF Extracted
    <3>1. written' = Totals(archive)[i]
      <4>1. CASE e.size = Directory
        BY <1>5, <1>6, <2>1, <4>1
      <4>2. CASE e.size # Directory
        <5>1. ~(Copied(e) > maxFileSize)
          BY <2>1, <4>2
        <5>2. Copied(e) = e.size
          <6>1. maxFileSize \in Nat /\ e.size \in Nat
            BY <1>4, <4>2, WorkspaceAssumption
          <6> QED
            BY <5>1, <6>1 DEF Copied
        <5> QED
          BY <1>5, <1>6, <2>1, <4>2, <5>2
      <4> QED
        BY <4>1, <4>2
    <3>2. ASSUME NEW j \in 1..i
          PROVE  /\ Parents(archive[j].path) \subseteq folders'
                 /\ archive[j].size = Directory => archive[j].path \in folders'
                 /\ archive[j].size # Directory => archive[j].path \in files'
      <4>1. CASE j = i
        BY <2>1, <4>1 DEF e
      <4>2. CASE j # i
        <5>1. j \in 1..entries
          BY <1>2, <4>2 DEF i
        <5>2. /\ Parents(archive[j].path) \subseteq folders
              /\ archive[j].size = Directory => archive[j].path \in folders
              /\ archive[j].size # Directory => archive[j].path \in files
          BY <1>1, <5>1 DEF WorkInv, Extracted
        <5> QED
          BY <2>2, <5>2
      <4> QED
        BY <4>1, <4>2
    <3> QED
      BY <1>1, <3>1, <3>2 DEF Extracted
  <2>8. Excused'
    <3> SUFFICES ASSUME at' = "failed" PROVE Refusable
      BY <1>1, ArchiveStays DEF Excused
    <3>1. maxFileSize \in Nat /\ maxTotalSize \in Nat
      BY WorkspaceAssumption
    <3>2. e.size # Directory /\ e.size \in Nat
      BY <1>4, <2>1
    <3>3. CASE e.size > maxFileSize
      BY <1>3, <3>3 DEF Refusable, e
    <3>4. CASE ~(e.size > maxFileSize)
      <4>1. Copied(e) = e.size
        BY <3>4 DEF Copied
      <4>2. written' > maxTotalSize /\ written' = written + e.size
        BY <2>1, <3>1, <3>2, <3>4, <4>1
      <4>3. Totals(archive)[Len(archive)] > maxTotalSize
        BY <1>5, <1>6, <3>1, <3>2, <4>2
      <4> QED
        BY <4>3 DEF Refusable
    <3> QED
      BY <3>3, <3>4
  <2> QED
    BY <2>2, <2>4, <2>5, <2>6, <2>7, <2>8 DEF WorkInv
<1> QED
  BY <1>7, <1>8

\* What is kept of a tree is a tree.
LEMMA KeptTree ==
  ASSUME WorkInv
  PROVE  /\ Kept(files) \subseteq files /\ Kept(folders) \subseteq folders
         /\ Kept(files) \cup Kept(folders) \in SUBSET Paths
         /\ \A p \in Kept(files) \cup Kept(folders) : Parents(p) \subseteq Kept(folders)
         /\ Kept(files) \cap Kept(folders) = {}
<1>1. files \in SUBSET Paths /\ folders \in SUBSET Paths
  BY DEF WorkInv, Typed
<1>2. (\A p \in files \cup folders : Parents(p) \subseteq folders) /\ files \cap folders = {}
  BY DEF WorkInv, Shaped
<1>3. ASSUME NEW p \in Kept(files) \cup Kept(folders) PROVE Parents(p) \subseteq Kept(folders)
  <2>1. p \in files \cup folders /\ p[1] \notin Junk /\ p \in Paths
    BY <1>1 DEF Kept
  <2>2. \A q \in Parents(p) : q[1] = p[1] /\ q \in folders
    BY <1>2, <2>1, ParentFacts
  <2> QED
    BY <2>1, <2>2 DEF Kept
<1> QED
  BY <1>1, <1>2, <1>3 DEF Kept

\* When all entries are extracted the whole archive is there.
LEMMA AllExtracted ==
  ASSUME WorkInv, at = "extract", entries = Len(archive)
  PROVE  FilesOf(archive) \subseteq files /\ FoldersOf(archive) \subseteq folders
<1>1. DOMAIN archive = 1..entries
  BY ArchiveFacts DEF WorkInv, Typed
<1>2. \A i \in DOMAIN archive :
        /\ Parents(archive[i].path) \subseteq folders
        /\ archive[i].size = Directory => archive[i].path \in folders
        /\ archive[i].size # Directory => archive[i].path \in files
  BY <1>1 DEF WorkInv, Extracted
<1>3. FilesOf(archive) \subseteq files
  BY <1>2 DEF FilesOf
<1>4. FoldersOf(archive) \subseteq folders
  BY <1>2 DEF FoldersOf
<1> QED
  BY <1>3, <1>4

LEMMA SecondName ==
  ASSUME NEW p \in Paths, Len(p) > 1
  PROVE  /\ p[2] \in STRING
         /\ p = Two(p[1], p[2]) \/ Two(p[1], p[2]) \in Parents(p)
<1>1. p[1] \in STRING /\ p[2] \in STRING
  BY PathFacts
<1>2. CASE Len(p) > 2
  BY <1>1, <1>2, ParentsOf DEF Two
<1>3. CASE ~(Len(p) > 2)
  <2> DEFINE m == Len(p)
  <2>1. m \in Nat /\ m > 1 /\ ~(m > 2)
    BY <1>3, PathFacts
  <2> HIDE DEF m
  <2>2. m = 2
    BY <2>1
  <2>3. Len(p) = 2
    BY <2>2 DEF m
  <2>4. \A q \in Paths : Len(q) = 2 /\ q[1] = p[1] /\ q[2] = p[2] => q = Two(p[1], p[2])
    <3> DEFINE x == p[1]
               y == p[2]
    <3>1. x \in STRING /\ y \in STRING
      BY <1>1
    <3> HIDE DEF x, y
    <3>2. \A q \in Paths : Len(q) = 2 /\ q[1] = x /\ q[2] = y => q = Two(x, y)
      BY <3>1, TwoFacts
    <3> QED
      BY <3>2 DEF x, y
  <2>5. p = Two(p[1], p[2])
    BY <2>3, <2>4
  <2> QED
    BY <1>1, <2>5
<1> QED
  BY <1>2, <1>3

LEMMA FlattenKeeps ==
  ASSUME WorkInv, Flatten
  PROVE  WorkInv'
<1> DEFINE F == FilesOf(archive)
           D == FoldersOf(archive)
           P == Kept(files) \cup Kept(folders)
<1>1. /\ archive \in Archives /\ archive' = archive /\ entries' = entries /\ torn' = torn
      /\ at = "extract" /\ files' = Kept(files) /\ folders' = Kept(folders)
      /\ root = <<>> /\ moving = {} /\ at' \in {"moving", "done"}
  BY DEF WorkInv, Typed, Raising, Flatten
<1>2. F \subseteq files /\ D \subseteq folders
  BY AllExtracted DEF Flatten
<1>3. /\ files' \subseteq files /\ folders' \subseteq folders /\ P \in SUBSET Paths
      /\ \A p \in P : Parents(p) \subseteq Kept(folders)
      /\ Kept(files) \cap Kept(folders) = {}
  BY <1>1, KeptTree
<1>4. Typed' /\ Shaped' /\ Accounted' /\ Extracted' /\ Excused'
  <2>1. Typed'
    BY <1>1, <1>3 DEF WorkInv, Typed
  <2>2. Shaped'
    BY <1>1, <1>3 DEF Shaped
  <2>3. Accounted'
    BY <1>1, <1>3 DEF WorkInv, Accounted
  <2>4. Extracted' /\ Excused'
    BY <1>1 DEF Extracted, Excused
  <2> QED
    BY <2>1, <2>2, <2>3, <2>4
<1>5. Names(<<>>, P) = Tops(P)
  BY <1>3, NamesAtTop
<1>6. F \in SUBSET Paths /\ D \in SUBSET Paths
  BY <1>1, ArchivePaths
<1> HIDE DEF F, D
<1>7. CASE \E name \in Tops(P) : Tops(P) = {name} /\ <<name>> \in Kept(folders)
  <2>1. PICK n \in Tops(P) : Tops(P) = {n} /\ One(n) \in Kept(folders)
    BY <1>7 DEF One
  <2>2. /\ at' = "moving" /\ root' = One(n) /\ moving' = Names(One(n), P)
    <3>1. /\ at' = "moving" /\ root' = <<CHOOSE name \in Tops(P) : TRUE>>
          /\ moving' = Names(root', P)
      BY <1>1, <1>5, <1>7 DEF Flatten
    <3>2. (CHOOSE name \in Tops(P) : TRUE) = n
      BY <2>1
    <3> QED
      BY <3>1, <3>2 DEF One
  <2>3. n \in STRING /\ \A p \in P : p[1] = n
    BY <1>3, <2>1, TopsAreNames
  <2>4. moving' = {p[2] : p \in {q \in P : Len(q) > 1 /\ q[1] = n}}
    BY <1>3, <2>2, <2>3, NamesBelow DEF One
  <2>5. Sole(archive, n)
    <3>1. Kept(F \cup D) \subseteq P
      BY <1>2 DEF Kept
    <3>2. \A m \in Tops(Kept(F \cup D)) : m = n
      BY <2>3, <3>1 DEF Tops
    <3>3. Kept(F \cup D) # {}
      <4>1. One(n) \in Up(archive, D) /\ n \notin Junk
        <5>1. One(n) \in folders /\ One(n)[1] \notin Junk
          BY <2>1 DEF Kept
        <5> QED
          BY <2>3, <5>1, OneFacts DEF WorkInv, Accounted, D
      <4>2. CASE One(n) \in D
        <5>1. One(n)[1] = n
          BY <2>3, OneFacts
        <5>2. One(n) \in Kept(F \cup D)
          BY <4>1, <4>2, <5>1 DEF Kept
        <5> QED
          BY <5>2
      <4>3. CASE \E q \in Kept(D) : Len(q) > 1 /\ q[2] # q[1] /\ One(n) = Tail(q)
        BY <4>3 DEF Kept
      <4> QED
        <5>1. \A p \in Up(archive, D) :
                \/ p \in D
                \/ \E q \in Kept(D) : Len(q) > 1 /\ q[2] # q[1] /\ p = Tail(q)
          BY <1>1, <1>6, UpFacts
        <5> QED
          BY <4>1, <4>2, <4>3, <5>1
    <3>4. Tops(Kept(F \cup D)) = {n}
      BY <3>2, <3>3 DEF Tops
    <3>5. One(n) \notin F
      BY <1>2, <2>1, KeptTree DEF Kept, WorkInv, Shaped
    <3> QED
      BY <3>4, <3>5 DEF Sole, F, D
  <2>6. ASSUME NEW x \in moving' PROVE x \in STRING /\ Two(n, x) \in P
    <3>1. PICK p \in P : Len(p) > 1 /\ p[1] = n /\ x = p[2]
      BY <2>4
    <3>2. p[2] \in STRING /\ (p = Two(n, x) \/ Two(n, x) \in Parents(p))
      BY <1>3, <3>1, SecondName
    <3> QED
      BY <1>3, <3>1, <3>2
  <2>7. \A p \in P : Len(p) > 1 /\ p[1] = n => p[2] \in moving'
    BY <2>4
  <2>8. \A p \in Kept(F) : p[2] \in moving' /\ p \in Kept(files)
    <3> SUFFICES ASSUME NEW p \in Kept(F) PROVE p[2] \in moving' /\ p \in Kept(files)
      OBVIOUS
    <3>1. p \in Kept(files) /\ p[1] = n
      BY <1>2, <2>3 DEF Kept
    <3>2. Len(p) > 1
      BY <1>1, <2>5, SoleFacts DEF F
    <3> QED
      BY <2>7, <3>1, <3>2
  <2>9. n \in Tops(D)
    BY <1>1, <2>5, SoleFacts DEF D
  <2>10. HalfRaised(n)'
    BY <1>1, <2>1, <2>2, <2>3, <2>5, <2>6, <2>7, <2>8 DEF HalfRaised, F
  <2>11. Raising'
    BY <1>1, <2>2, <2>9, <2>10 DEF Raising, D
  <2>12. Settled' /\ Finished'
    BY <2>2 DEF Settled, Finished
  <2> QED
    BY <1>4, <2>11, <2>12 DEF WorkInv
<1>8. CASE ~\E name \in Tops(P) : Tops(P) = {name} /\ <<name>> \in Kept(folders)
  <2>1. at' = "done" /\ root' = root /\ moving' = moving
    BY <1>1, <1>5, <1>8 DEF Flatten
  <2>2. Raising'
    BY <1>1, <2>1 DEF Raising
  <2>3. Tree(archive) \subseteq files => Tree(archive) \subseteq files'
    BY <1>1, TreeFacts DEF Kept
  <2>4. Kept(files' \cup folders') \subseteq Kept(files \cup folders)
    BY <1>1 DEF Kept
  <2>5. Settled'
    <3> SUFFICES ASSUME ~torn, NEW n \in Tops(FoldersOf(archive)), Sole(archive, n)
                 PROVE  Tops(Kept(files' \cup folders')) \subseteq {n} \/ Tree(archive) \subseteq files'
      BY <1>1 DEF Settled
    <3>1. Tops(Kept(files \cup folders)) \subseteq {n} \/ Tree(archive) \subseteq files
      BY <1>1 DEF WorkInv, Settled
    <3>2. Tops(Kept(files' \cup folders')) \subseteq Tops(Kept(files \cup folders))
      BY <2>4 DEF Tops
    <3> QED
      BY <2>3, <3>1, <3>2
  <2>6. Finished'
    <3> SUFFICES ASSUME ~torn PROVE Tree(archive) \subseteq files'
      BY <1>1 DEF Finished
    <3>1. CASE ~SingleRoot(archive)
      <4>1. Tree(archive) = Kept(F)
        BY <1>1, <3>1, TreeFacts DEF F
      <4> QED
        BY <1>1, <1>2, <4>1 DEF Kept
    <3>2. CASE SingleRoot(archive)
      <4>1. PICK n \in STRING : Sole(archive, n)
        BY <1>1, <3>2, SingleRootIs
      <4>2. n \notin Junk /\ One(n) \in D /\ n \in Tops(FoldersOf(archive))
        BY <1>1, <4>1, SoleFacts DEF D
      <4>3. One(n) \in Kept(folders) /\ One(n)[1] = n
        BY <1>2, <4>2, OneFacts DEF Kept
      <4>4. n \in Tops(P)
        BY <4>3 DEF Tops
      <4>5. ~(Tops(P) \subseteq {n})
        BY <1>8, <4>3, <4>4 DEF One
      <4>6. Tops(P) \subseteq Tops(Kept(files \cup folders))
        BY DEF Tops, Kept
      <4>7. Tree(archive) \subseteq files
        BY <1>1, <4>1, <4>2, <4>5, <4>6 DEF WorkInv, Settled
      <4> QED
        BY <2>3, <4>7
    <3> QED
      BY <3>1, <3>2
  <2> QED
    BY <1>4, <2>2, <2>5, <2>6 DEF WorkInv
<1> QED
  BY <1>7, <1>8

LEMMA RemoveKeeps ==
  ASSUME WorkInv, RemoveRoot
  PROVE  WorkInv'
<1>1. /\ archive \in Archives /\ archive' = archive /\ entries' = entries /\ torn' = torn
      /\ at = "moving" /\ at' = "done" /\ files' = files /\ folders' = folders \ {root}
      /\ moving = {} /\ moving' = {} /\ root' = <<>>
      /\ files \subseteq Paths /\ folders \subseteq Paths
  BY DEF WorkInv, Typed, RemoveRoot
<1>2. PICK n \in Tops(FoldersOf(archive)) : HalfRaised(n)
  BY <1>1 DEF WorkInv, Raising
<1>3. /\ root = One(n) /\ Sole(archive, n) /\ n \in STRING
      /\ \A p \in files \cup folders : ~(Len(p) > 1 /\ p[1] = n)
      /\ \A p \in Kept(FilesOf(archive)) : Tail(p) \in files
  BY <1>1, <1>2, SoleFacts DEF HalfRaised
<1>4. One(n)[1] = n /\ Len(One(n)) = 1
  BY <1>3, OneFacts
<1>5. Typed'
  BY <1>1 DEF WorkInv, Typed
<1>6. Shaped'
  <2>1. (\A p \in files \cup folders : Parents(p) \subseteq folders) /\ files \cap folders = {}
    BY DEF WorkInv, Shaped
  <2>2. ASSUME NEW p \in files \cup folders, One(n) \in Parents(p) PROVE FALSE
    <3>1. 1 < Len(p) /\ n = p[1]
      BY <1>1, <1>4, <2>2, ParentFacts
    <3>2. ~(Len(p) > 1)
      BY <1>3, <3>1
    <3> DEFINE m == Len(p)
    <3>3. m \in Nat /\ 1 < m /\ ~(m > 1)
      BY <1>1, <3>1, <3>2, PathFacts
    <3> HIDE DEF m
    <3> QED
      BY <3>3
  <2> QED
    BY <1>1, <1>3, <2>1, <2>2 DEF Shaped
<1>7. Accounted' /\ Extracted' /\ Excused' /\ Raising'
  BY <1>1 DEF WorkInv, Accounted, Extracted, Excused, Raising
<1>8. Tree(archive) \subseteq files'
  <2>1. SingleRoot(archive)
    BY <1>1, <1>3, SoleFacts
  <2>2. \A t \in Tree(archive) : \E p \in Kept(FilesOf(archive)) : t = Tail(p)
    BY <1>1, <2>1, TreeFacts
  <2> QED
    BY <1>1, <1>3, <2>2
<1>9. Settled' /\ Finished'
  BY <1>1, <1>8 DEF Settled, Finished
<1> QED
  BY <1>5, <1>6, <1>7, <1>9 DEF WorkInv

\* What may be renamed to what is above.
LEMMA RenamesIs ==
  ASSUME NEW n, NEW x
  PROVE  Renames(Two(n, x), One(x)) <=>
           One(x) \notin folders /\ (Two(n, x) \in folders => One(x) \notin files)
BY DEF Renames

\* A directory never takes the place of the one it is in.
LEMMA NeverItself ==
  ASSUME NEW n \in STRING, HalfRaised(n)
  PROVE  ~Renames(Two(n, n), One(n))
<1>1. One(n) \in folders
  BY DEF HalfRaised
<1> QED
  BY <1>1, RenamesIs

\* A rename fails for an entry of the name of the directory it is in only.
LEMMA FailedRename ==
  ASSUME WorkInv, at = "moving", NEW n \in STRING, HalfRaised(n),
         NEW x \in moving, ~Renames(Two(n, x), One(x))
  PROVE  Refusable
<1>1. archive \in Archives /\ Sole(archive, n) /\ x \in STRING
  BY DEF WorkInv, Typed, HalfRaised
<1>2. n \notin Junk /\ SingleRoot(archive)
  BY <1>1, SoleFacts
<1>3. x = n
  <2> SUFFICES ASSUME x # n PROVE FALSE
    OBVIOUS
  <2>1. \A p \in files \cup folders : p[1] # x
    BY DEF HalfRaised
  <2>2. One(x)[1] = x
    BY <1>1, OneFacts
  <2>3. One(x) \notin files \cup folders
    BY <2>1, <2>2
  <2> QED
    BY <1>1, <2>1, <2>3, RenamesIs
<1> DEFINE t == Two(n, n)
           F == FilesOf(archive)
           D == FoldersOf(archive)
<1>4. t \in files \cup folders
  BY <1>3 DEF HalfRaised
<1>5. Len(t) = 2 /\ t[1] = n /\ t[2] = n
  BY TwoFacts
<1>6. F \in SUBSET Paths /\ D \in SUBSET Paths
  BY <1>1, ArchivePaths
<1>7. ASSUME NEW S \in SUBSET Paths, Kept(S) \subseteq Kept(F \cup D), t \in Up(archive, S)
      PROVE  t \in S
  <2>1. CASE \E q \in Kept(S) : Len(q) > 1 /\ q[2] # q[1] /\ t = Tail(q)
    <3>1. PICK q \in Kept(S) : Len(q) > 1 /\ q[2] # q[1] /\ t = Tail(q)
      BY <2>1
    <3>2. q \in Paths /\ q \in Kept(F \cup D)
      BY <1>7, <3>1, KeptFacts
    <3>3. q[1] = n
      BY <1>1, <3>2, SoleFacts
    <3>4. t[1] = q[2]
      BY <3>1, <3>2, TailFacts
    <3> QED
      BY <1>5, <3>1, <3>3, <3>4
  <2> QED
    BY <1>1, <1>7, <2>1, UpFacts
<1>8. t \in F \cup D
  <2>1. Kept(F) \subseteq Kept(F \cup D) /\ Kept(D) \subseteq Kept(F \cup D)
    BY DEF Kept
  <2>2. t \in Up(archive, F) \/ t \in Up(archive, D)
    BY <1>4 DEF WorkInv, Accounted
  <2> HIDE DEF t, F, D
  <2> QED
    BY <1>6, <1>7, <2>1, <2>2
<1>9. t \in Kept(F \cup D)
  BY <1>2, <1>5, <1>8 DEF Kept
<1>10. Len(t) > 1 /\ t[1] = t[2]
  BY <1>5
<1> QED
  BY <1>2, <1>9, <1>10 DEF Refusable

\* A path below n that x leads to.
Goes(p, n, x) == Len(p) > 1 /\ p[1] = n /\ p[2] = x

LEMMA LiftFacts ==
  ASSUME NEW n \in STRING, NEW x \in STRING, NEW p \in Paths
  PROVE  /\ Lifted(p, n, x) \in Paths
         /\ Goes(p, n, x) => /\ Lifted(p, n, x) = Tail(p) /\ Tail(p)[1] = x /\ Len(p) > 1
                             /\ p[1] = n /\ p[2] = x
         /\ ~Goes(p, n, x) => Lifted(p, n, x) = p
         /\ Lifted(p, n, x) = p \/ Lifted(p, n, x)[1] = x
<1>1. CASE Goes(p, n, x)
  <2>1. Lifted(p, n, x) = Tail(p) /\ Len(p) > 1 /\ p[1] = n /\ p[2] = x
    BY <1>1 DEF Lifted, Goes
  <2>2. Tail(p) \in Paths /\ Tail(p)[1] = p[2]
    BY <2>1, TailFacts
  <2> QED
    BY <1>1, <2>1, <2>2
<1>2. CASE ~Goes(p, n, x)
  BY <1>2 DEF Lifted, Goes
<1> QED
  BY <1>1, <1>2

LEMMA SameTail ==
  ASSUME NEW p \in Paths, NEW q \in Paths, Len(p) > 1, Len(q) > 1,
         p[1] = q[1], Tail(p) = Tail(q)
  PROVE  p = q
<1> DEFINE m == Len(p)
           k == Len(q)
           t == Tail(p)
<1>1. /\ Len(t) = m - 1 /\ \A i \in 1..(m - 1) : t[i] = p[i + 1]
      /\ Len(t) = k - 1 /\ \A i \in 1..(k - 1) : t[i] = q[i + 1]
  BY TailFacts
<1>2. m \in Nat /\ k \in Nat
  BY PathFacts
<1>3. m = k
  <2> DEFINE j == Len(t)
  <2>1. j = m - 1 /\ j = k - 1
    BY <1>1
  <2> HIDE DEF j, m, k
  <2> QED
    BY <1>2, <2>1
<1> HIDE DEF m, k, t
<1>4. ASSUME NEW i \in 1..m PROVE p[i] = q[i]
  <2>1. CASE i = 1
    BY <2>1
  <2>2. CASE i # 1
    <3>1. i - 1 \in 1..(m - 1) /\ (i - 1) + 1 = i
      BY <1>2, <2>2
    <3> QED
      BY <1>1, <1>3, <3>1
  <2> QED
    BY <2>1, <2>2
<1> QED
  BY <1>3, <1>4, SamePath DEF m, k

\* What a rename up does to the tree.
LEMMA MovedShape ==
  ASSUME WorkInv, NEW n \in STRING, NEW x \in STRING, x # n,
         \A p \in files \cup folders : p[1] # x,
         files' = {Lifted(p, n, x) : p \in files},
         folders' = {Lifted(p, n, x) : p \in folders}
  PROVE  files' \subseteq Paths /\ folders' \subseteq Paths /\ Shaped'
<1>1. /\ files \subseteq Paths /\ folders \subseteq Paths
      /\ \A p \in files \cup folders : Parents(p) \subseteq folders
      /\ files \cap folders = {}
  BY DEF WorkInv, Typed, Shaped
<1>2. files' \subseteq Paths /\ folders' \subseteq Paths
  BY <1>1, LiftFacts
<1>3. ASSUME NEW p \in files \cup folders PROVE Parents(Lifted(p, n, x)) \subseteq folders'
  <2>1. p \in Paths /\ Parents(p) \subseteq folders
    BY <1>1
  <2>2. CASE Goes(p, n, x)
    <3>1. Lifted(p, n, x) = Tail(p) /\ Len(p) > 1 /\ p[1] = n /\ p[2] = x
      BY <2>2 DEF Goes, Lifted
    <3>2. ASSUME NEW q \in Parents(Tail(p)) PROVE q \in folders'
      <4>1. PICK r \in Parents(p) : Len(r) > 1 /\ q = Tail(r)
        BY <2>1, <3>1, ParentsOfTail
      <4>2. r \in folders /\ r \in Paths /\ r[1] = n /\ r[2] = x
        BY <2>1, <3>1, <4>1, ParentFacts
      <4>3. q = Lifted(r, n, x)
        BY <4>1, <4>2 DEF Lifted
      <4> QED
        BY <4>2, <4>3
    <3> QED
      BY <3>1, <3>2
  <2>3. CASE ~Goes(p, n, x)
    <3>1. Lifted(p, n, x) = p
      BY <2>1, <2>3, LiftFacts
    <3>2. ASSUME NEW q \in Parents(p) PROVE q \in folders'
      <4>1. q \in folders /\ q \in Paths /\ q[1] = p[1] /\ Len(q) < Len(p) /\ (Len(q) > 1 => q[2] = p[2])
        BY <2>1, ParentFacts
      <4>2. Len(q) > 1 => Len(p) > 1
        <5> DEFINE m == Len(p)
                   k == Len(q)
        <5>1. m \in Nat /\ k \in Nat /\ k < m
          BY <2>1, <4>1, PathFacts
        <5> HIDE DEF m, k
        <5>2. k > 1 => m > 1
          BY <5>1
        <5> QED
          BY <5>2 DEF m, k
      <4>3. ~Goes(q, n, x)
        BY <2>3, <4>1, <4>2 DEF Goes
      <4>4. q = Lifted(q, n, x)
        BY <4>1, <4>3, LiftFacts
      <4> QED
        BY <4>1, <4>4
    <3> QED
      BY <3>1, <3>2
  <2> QED
    BY <2>2, <2>3
<1>4. ASSUME NEW p \in files, NEW q \in folders PROVE Lifted(p, n, x) # Lifted(q, n, x)
  <2>1. p \in Paths /\ q \in Paths /\ p # q /\ p[1] # x /\ q[1] # x
    BY <1>1
  <2>2. CASE Goes(p, n, x) /\ Goes(q, n, x)
    <3>1. Lifted(p, n, x) = Tail(p) /\ Len(p) > 1 /\ p[1] = n
      BY <2>2 DEF Goes, Lifted
    <3>2. Lifted(q, n, x) = Tail(q) /\ Len(q) > 1 /\ q[1] = n
      BY <2>2 DEF Goes, Lifted
    <3> QED
      BY <2>1, <3>1, <3>2, SameTail
  <2>3. CASE ~Goes(p, n, x)
    <3>1. Lifted(p, n, x) = p
      BY <2>1, <2>3, LiftFacts
    <3>2. Lifted(q, n, x) = q \/ Lifted(q, n, x)[1] = x
      BY <2>1, LiftFacts
    <3> QED
      BY <2>1, <3>1, <3>2, Zenon
  <2>4. CASE ~Goes(q, n, x)
    <3>1. Lifted(q, n, x) = q
      BY <2>1, <2>4, LiftFacts
    <3>2. Lifted(p, n, x) = p \/ Lifted(p, n, x)[1] = x
      BY <2>1, LiftFacts
    <3>3. Lifted(p, n, x) # q
      BY <2>1, <3>2, Zenon
    <3> QED
      BY <3>1, <3>3, Zenon
  <2> QED
    BY <2>2, <2>3, <2>4
<1>5. Shaped'
  <2>1. \A p \in files' \cup folders' : Parents(p) \subseteq folders'
    BY <1>3
  <2>2. files' \cap folders' = {}
    BY <1>4
  <2> QED
    BY <2>1, <2>2 DEF Shaped
<1> QED
  BY <1>2, <1>5

\* What goes up is still the archive's.
LEMMA MovedAccounted ==
  ASSUME NEW a \in Archives, NEW n \in STRING, Sole(a, n), NEW x \in STRING, x # n,
         NEW S \in SUBSET Paths, S \subseteq FilesOf(a) \cup FoldersOf(a),
         NEW p \in Up(a, S)
  PROVE  Lifted(p, n, x) \in Up(a, S)
<1>1. p \in Paths
  BY UpFacts
<1>2. CASE ~Goes(p, n, x)
  BY <1>1, <1>2, LiftFacts
<1>3. CASE Goes(p, n, x)
  <2>1. Lifted(p, n, x) = Tail(p) /\ Len(p) > 1 /\ p[1] = n /\ p[2] = x
    BY <1>3 DEF Goes, Lifted
  <2>2. SingleRoot(a) /\ n \notin Junk
    BY SoleFacts
  <2>3. p \in S
    <3>1. CASE \E q \in Kept(S) : Len(q) > 1 /\ q[2] # q[1] /\ p = Tail(q)
      <4>1. PICK q \in Kept(S) : Len(q) > 1 /\ q[2] # q[1] /\ p = Tail(q)
        BY <3>1
      <4>2. q \in Paths /\ q \in Kept(FilesOf(a) \cup FoldersOf(a))
        BY <4>1 DEF Kept
      <4>3. q[1] = n
        BY <4>2, SoleFacts
      <4>4. p[1] = q[2]
        BY <4>1, <4>2, TailFacts
      <4> QED
        BY <2>1, <4>1, <4>3, <4>4
    <3>2. \/ p \in S
          \/ \E q \in Kept(S) : Len(q) > 1 /\ q[2] # q[1] /\ p = Tail(q)
      BY UpFacts
    <3> QED
      BY <3>1, <3>2
  <2>4. p \in Kept(S)
    BY <2>1, <2>2, <2>3 DEF Kept
  <2>5. \A q \in Kept(S) : Len(q) > 1 /\ q[2] # q[1] => Tail(q) \in Up(a, S)
    BY <2>2, UpFacts
  <2> QED
    BY <2>1, <2>4, <2>5
<1> QED
  BY <1>2, <1>3

LEMMA MoveKeeps ==
  ASSUME WorkInv, MoveUp
  PROVE  WorkInv'
<1> DEFINE F == FilesOf(archive)
           D == FoldersOf(archive)
<1>1. /\ archive \in Archives /\ archive' = archive /\ entries' = entries /\ at = "moving"
      /\ written' = written /\ files \subseteq Paths /\ folders \subseteq Paths
  BY DEF WorkInv, Typed, MoveUp
<1>2. PICK n \in Tops(FoldersOf(archive)) : HalfRaised(n)
  BY <1>1 DEF WorkInv, Raising
<1>3. /\ root = One(n) /\ Sole(archive, n) /\ n \in STRING /\ n \notin Junk
      /\ \A y \in moving : y \in STRING
  BY <1>1, <1>2, SoleFacts DEF HalfRaised
<1>4. PICK x \in moving :
        IF Renames(Two(n, x), One(x))
        THEN /\ files' = Moved(files, Two(n, x), One(x))
             /\ folders' = Moved(folders, Two(n, x), One(x))
             /\ moving' = moving \ {x}
             /\ at' = at /\ root' = root /\ torn' = torn
        ELSE /\ at' = "failed" /\ moving' = {} /\ root' = <<>> /\ torn' = TRUE
             /\ files' = files /\ folders' = folders
  BY <1>3 DEF MoveUp, One, Two
<1>5. x \in STRING
  BY <1>3
<1>6. CASE ~Renames(Two(n, x), One(x))
  <2>1. /\ at' = "failed" /\ moving' = {} /\ root' = <<>> /\ torn' = TRUE
        /\ files' = files /\ folders' = folders
    BY <1>4, <1>6
  <2>2. Refusable
    BY <1>1, <1>2, <1>3, <1>6, FailedRename
  <2>3. Excused'
    BY <1>1, <2>2, ArchiveStays DEF Excused
  <2>4. Typed'
    BY <1>1, <2>1 DEF WorkInv, Typed
  <2>5. Shaped' /\ Accounted' /\ Extracted' /\ Raising' /\ Settled' /\ Finished'
    BY <1>1, <2>1 DEF WorkInv, Shaped, Accounted, Extracted, Raising, Settled, Finished
  <2> QED
    BY <2>3, <2>4, <2>5 DEF WorkInv
<1>7. CASE Renames(Two(n, x), One(x))
  <2>1. /\ files' = {Lifted(p, n, x) : p \in files}
        /\ folders' = {Lifted(p, n, x) : p \in folders}
        /\ moving' = moving \ {x} /\ at' = "moving" /\ root' = One(n) /\ torn' = torn
    <3>1. /\ Moved(files, Two(n, x), One(x)) = {Lifted(p, n, x) : p \in files}
          /\ Moved(folders, Two(n, x), One(x)) = {Lifted(p, n, x) : p \in folders}
      BY <1>1, <1>3, <1>5, MovedPaths DEF One, Two
    <3> QED
      BY <1>1, <1>3, <1>4, <1>7, <3>1
  <2>2. x # n
    BY <1>2, <1>3, <1>7, NeverItself
  <2>3. \A p \in files \cup folders : p[1] # x
    BY <1>2, <2>2 DEF HalfRaised
  <2>4. files' \subseteq Paths /\ folders' \subseteq Paths /\ Shaped'
    BY <1>3, <1>5, <2>1, <2>2, <2>3, MovedShape
  <2>5. Typed'
    BY <1>1, <2>1, <2>4 DEF WorkInv, Typed
  <2>6. Accounted'
    <3>1. F \in SUBSET Paths /\ D \in SUBSET Paths
      BY <1>1, ArchivePaths
    <3>2. files \subseteq Up(archive, F) /\ folders \subseteq Up(archive, D)
      BY DEF WorkInv, Accounted
    <3>3. ASSUME NEW p \in files PROVE Lifted(p, n, x) \in Up(archive, F)
      BY <1>1, <1>3, <1>5, <2>2, <3>1, <3>2, MovedAccounted
    <3>4. ASSUME NEW p \in folders PROVE Lifted(p, n, x) \in Up(archive, D)
      BY <1>1, <1>3, <1>5, <2>2, <3>1, <3>2, MovedAccounted
    <3>5. files' \subseteq Up(archive, F) /\ folders' \subseteq Up(archive, D)
      BY <2>1, <3>3, <3>4
    <3> QED
      BY <1>1, <3>5 DEF Accounted
  <2>7. ASSUME NEW p \in files \cup folders, ~Goes(p, n, x)
        PROVE  (p \in files => p \in files') /\ (p \in folders => p \in folders')
    <3>1. Lifted(p, n, x) = p
      BY <1>1, <1>3, <1>5, <2>7, LiftFacts
    <3> QED
      BY <2>1, <3>1
  <2>8. One(n) \in folders'
    <3>1. One(n) \in folders /\ Len(One(n)) = 1
      BY <1>2, <1>3, OneFacts DEF HalfRaised
    <3>2. ~Goes(One(n), n, x)
      BY <3>1 DEF Goes
    <3> QED
      BY <2>7, <3>1, <3>2
  <2>9. ASSUME NEW y \in moving' PROVE y \in STRING /\ Two(n, y) \in files' \cup folders'
    <3>1. y \in moving /\ y # x
      BY <2>1
    <3>2. y \in STRING /\ Two(n, y) \in files \cup folders
      BY <1>2, <3>1 DEF HalfRaised
    <3>3. Two(n, y)[2] = y
      BY <1>3, <3>2, TwoFacts
    <3>4. ~Goes(Two(n, y), n, x)
      BY <3>1, <3>3 DEF Goes
    <3> QED
      BY <2>7, <3>2, <3>4
  <2>10. ASSUME NEW q \in files' \cup folders'
         PROVE  /\ Len(q) > 1 /\ q[1] = n => q[2] \in moving'
                /\ q[1] = n \/ q[1] \notin moving'
    <3>1. PICK p \in files \cup folders : q = Lifted(p, n, x)
      BY <2>1
    <3>2. p \in Paths
      BY <1>1
    <3>3. CASE Goes(p, n, x)
      <4>1. q[1] = x
        <5>1. q = Tail(p) /\ Len(p) > 1 /\ p[2] = x
          BY <3>1, <3>3 DEF Goes, Lifted
        <5> QED
          BY <3>2, <5>1, TailFacts
      <4> QED
        BY <2>1, <2>2, <4>1
    <3>4. CASE ~Goes(p, n, x)
      <4>1. q = p
        BY <1>3, <1>5, <3>1, <3>2, <3>4, LiftFacts
      <4>2. /\ Len(p) > 1 /\ p[1] = n => p[2] \in moving
            /\ p[1] = n \/ p[1] \notin moving
        BY <1>2 DEF HalfRaised
      <4>3. Len(p) > 1 /\ p[1] = n => p[2] # x
        BY <3>4 DEF Goes
      <4> QED
        BY <2>1, <4>1, <4>2, <4>3
    <3> QED
      BY <3>3, <3>4
  <2>11. ASSUME NEW p \in Kept(F)
         PROVE  (p[2] \in moving' /\ p \in files') \/ (p[2] # n /\ Tail(p) \in files')
    <3>1. p \in Paths /\ Len(p) > 1 /\ p[1] = n
      <4>1. p \in Paths /\ p \in Kept(F \cup D)
        BY <1>1, KeptOfArchive
      <4> QED
        BY <1>1, <1>3, <4>1, SoleFacts
    <3>2. CASE p[2] \in moving /\ p \in files
      <4>1. CASE p[2] = x
        <5>1. Lifted(p, n, x) = Tail(p)
          BY <3>1, <4>1 DEF Lifted
        <5> QED
          BY <2>1, <2>2, <3>2, <4>1, <5>1
      <4>2. CASE p[2] # x
        BY <2>1, <2>7, <3>2, <4>2 DEF Goes
      <4> QED
        BY <4>1, <4>2
    <3>3. CASE p[2] # n /\ Tail(p) \in files
      <4>1. Tail(p)[1] = p[2]
        BY <3>1, TailFacts
      <4>2. ~Goes(Tail(p), n, x)
        BY <3>3, <4>1 DEF Goes
      <4> QED
        BY <2>7, <3>3, <4>2
    <3> QED
      BY <1>2, <3>2, <3>3 DEF HalfRaised
  <2>12. HalfRaised(n)'
    BY <1>1, <1>3, <2>1, <2>8, <2>9, <2>10, <2>11 DEF HalfRaised
  <2>13. Raising'
    BY <1>1, <2>1, <2>12 DEF Raising
  <2>14. Extracted' /\ Settled' /\ Finished' /\ Excused'
    BY <2>1 DEF Extracted, Settled, Finished, Excused
  <2> QED
    BY <2>4, <2>5, <2>6, <2>13, <2>14 DEF WorkInv
<1> QED
  BY <1>6, <1>7

LEMMA WorkSteps ==
  ASSUME WorkInv, [WorkspaceNext]_workspaceVars
  PROVE  WorkInv'
BY JudgeKeeps, ExtractKeeps, FlattenKeeps, MoveKeeps, RemoveKeeps, KillKeeps, StutterKeeps
   DEF WorkspaceNext

LEMMA WorkAlways == WorkspaceSpec => []WorkInv
BY WorkStarts, WorkSteps, PTL DEF WorkspaceSpec

LEMMA WorkInvTypes ==
  ASSUME WorkInv
  PROVE  WorkspaceTypeOK
<1>1. (\A p \in files \cup folders : Parents(p) \subseteq folders) /\ files \cap folders = {}
  BY DEF WorkInv, Shaped
<1>2. /\ at \in {"waiting", "extract", "moving", "done", "failed"}
      /\ entries \in 0..Len(archive)
  BY DEF WorkInv, Typed
<1>3. \A name \in moving : Append(root, name) \in files \cup folders
  <2>1. CASE at = "moving"
    BY <2>1 DEF WorkInv, Raising, HalfRaised, One, Two
  <2>2. CASE at # "moving"
    BY <2>2 DEF WorkInv, Raising
  <2> QED
    BY <2>1, <2>2
<1> QED
  BY <1>1, <1>2, <1>3 DEF WorkspaceTypeOK

(* Below src/ there is always a tree of files and directories, and what    *)
(* flattenSingleRoot has still to move is in it.                           *)
THEOREM WorkspaceTypeCorrect == WorkspaceSpec => []WorkspaceTypeOK
BY WorkAlways, WorkInvTypes, PTL

(* For every archive: an extraction into the directory an earlier judging  *)
(* left fails only for what is in the archive itself, and unless a         *)
(* flattening was cut short ends with the whole source tree.               *)
THEOREM RejudgingIsRepeatable == WorkspaceSpec => []RejudgingExtractsTheSame
<1>1. WorkInv => RejudgingExtractsTheSame
  BY DEF WorkInv, Finished, Excused, RejudgingExtractsTheSame, SourceComplete
<1> QED
  BY WorkAlways, <1>1, PTL

-----------------------------------------------------------------------------
(* Workspace.                                                              *)

Guarded ==
  /\ archive \in Archives
  /\ entries \in Nat
  /\ written \in Nat
  /\ at = "extract" => written <= maxTotalSize
  /\ written <= maxTotalSize + maxFileSize + 1

LEMMA LimitsAreNumbers == maxFileSize \in Nat /\ maxTotalSize \in Nat
BY WorkspaceAssumption

(* An entry that is no directory has a size, of which copyN takes at most  *)
(* one byte more than the limit.                                           *)
LEMMA CopiedBound ==
  ASSUME NEW e, e.size \in Nat
  PROVE  Copied(e) \in Nat /\ Copied(e) <= maxFileSize + 1
BY LimitsAreNumbers DEF Copied

LEMMA EntrySize ==
  ASSUME NEW a \in Archives, NEW i \in 1..Len(a), a[i].size # Directory
  PROVE  a[i].size \in Nat
BY WorkspaceAssumption

LEMMA LengthIsNatural ==
  ASSUME NEW a \in Archives
  PROVE  Len(a) \in Nat
BY WorkspaceAssumption

LEMMA GuardStarts ==
  ASSUME WorkspaceInit
  PROVE  Guarded
BY LimitsAreNumbers DEF WorkspaceInit, Guarded

LEMMA GuardSteps ==
  ASSUME Guarded, [WorkspaceNext]_workspaceVars
  PROVE  Guarded'
<1> USE LimitsAreNumbers
<1>1. CASE Judge
  BY <1>1 DEF Judge, Guarded
<1>2. CASE ExtractEntry
  <2> DEFINE e == archive[entries + 1]
  <2>1. archive' = archive /\ entries' = entries + 1 /\ at = "extract"
    BY <1>2 DEF ExtractEntry
  <2>2. entries' \in Nat /\ archive' \in Archives /\ written \in Nat /\ written <= maxTotalSize
    BY <2>1 DEF Guarded
  <2>3. CASE entries + 1 > maxEntries \/ Blocked(e) \/ e.size = Directory
    <3>1. written' = written
      BY <1>2, <2>3 DEF ExtractEntry, Fail
    <3> QED
      BY <2>2, <3>1 DEF Guarded
  <2>4. CASE ~(entries + 1 > maxEntries \/ Blocked(e)) /\ e.size # Directory
    <3>1. /\ written' = written + Copied(e)
          /\ at' = IF Copied(e) > maxFileSize \/ written' > maxTotalSize THEN "failed" ELSE "extract"
      BY <1>2, <2>4 DEF ExtractEntry
    <3>2. entries + 1 \in 1..Len(archive)
      BY <1>2, LengthIsNatural DEF ExtractEntry, Guarded
    <3>3. e.size \in Nat
      BY <2>4, <3>2, EntrySize DEF Guarded
    <3>4. Copied(e) \in Nat /\ Copied(e) <= maxFileSize + 1
      BY <3>3, CopiedBound
    <3>5. written' \in Nat /\ written' <= maxTotalSize + maxFileSize + 1
      BY <2>2, <3>1, <3>4
    <3>6. at' = "extract" => written' <= maxTotalSize
      BY <3>1, <3>5
    <3> HIDE DEF e
    <3> QED
      BY <2>2, <3>5, <3>6 DEF Guarded
  <2> QED
    BY <2>3, <2>4
<1>3. CASE Flatten
  BY <1>3 DEF Flatten, Guarded
<1>4. CASE MoveUp
  BY <1>4 DEF MoveUp, Guarded
<1>5. CASE RemoveRoot
  BY <1>5 DEF RemoveRoot, Guarded
<1>6. CASE Kill
  BY <1>6 DEF Kill, Guarded
<1>7. CASE UNCHANGED workspaceVars
  BY <1>7 DEF workspaceVars, Guarded
<1> QED
  BY <1>1, <1>2, <1>3, <1>4, <1>5, <1>6, <1>7 DEF WorkspaceNext

(* However large the sizes in the archive's headers and however many       *)
(* entries it has, an extraction writes at most the total and one file.    *)
THEOREM DiskIsBounded == WorkspaceSpec => []DiskWithinLimits
<1>1. Guarded => DiskWithinLimits
  BY DEF Guarded, DiskWithinLimits
<1> QED
  BY GuardStarts, GuardSteps, <1>1, PTL DEF WorkspaceSpec

-----------------------------------------------------------------------------
(* The two directories share nothing: each sees steps of its own.          *)

LEMMA FilesStarts ==
  ASSUME FilesInit
  PROVE  StoreInit /\ WorkspaceInit
BY DEF FilesInit

LEMMA FilesSteps ==
  ASSUME [FilesNext]_<<system, storeVars, workspaceVars>>
  PROVE  [StoreNext]_storeVars /\ [WorkspaceNext]_workspaceVars
BY DEF FilesNext

LEMMA FilesAreTwo == FilesSpec => StoreSpec /\ WorkspaceSpec
BY FilesStarts, FilesSteps, PTL DEF FilesSpec, StoreSpec, WorkspaceSpec

(* The type invariants of both hold in every behaviour the run explores.   *)
THEOREM FilesTypeCorrect == FilesSpec => []FilesTypeOK
<1>1. StoreTypeOK /\ WorkspaceTypeOK => FilesTypeOK
  BY DEF FilesTypeOK
<1> QED
  BY FilesAreTwo, StoreTypeCorrect, WorkspaceTypeCorrect, <1>1, PTL
=============================================================================
