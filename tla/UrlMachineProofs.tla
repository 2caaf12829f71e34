-------------------------- MODULE UrlMachineProofs ---------------------------
(***************************************************************************)
(* What the machine of module UrlMachine does with any text it is given.   *)
(*                                                                         *)
(* PartsSettleInOrder: a step writes fields by EXCEPT, which leaves the    *)
(* others alone only in a URL that has them: Formed. Each action is then   *)
(* one line of Writes: the state it is enabled in and the fields it may    *)
(* write there.                                                            *)
(*                                                                         *)
(* FieldsEndAtDelimiters and MachineTypeCorrect rest on Reading, which     *)
(* adds what the machine has in hand. Buffered: the end mark is the last   *)
(* character to read and no other, and the buffer holds nothing that would *)
(* have emptied it in this state. Delimited: each field was such a buffer. *)
(* Measured: the parts and the rest are no longer than the text. What      *)
(* decode makes of a text is not known by unfolding a recursive function,  *)
(* but by a least counterexample (KeepersExist, DecodeFacts).              *)
(*                                                                         *)
(* SolutionsReadAlike compares the two solutions. A location is a chain of *)
(* items, each behind its delimiter (Chain, Layout), whichever solution    *)
(* writes it (LocationsAgree). Its delimiters stand nowhere else (Clean),  *)
(* so that URL::from of URL.h finds them and reads the items back          *)
(* (FromReads). The machine reads the same items one by one: Follows says  *)
(* in which item it is, how far it has come, and that its URL holds what   *)
(* the items before have put there. Agreeing, the inductive invariant, is  *)
(* Follows for the URL that the text was written from.                     *)
(***************************************************************************)
EXTENDS UrlMachine, FiniteSetTheorems, TLAPS

UrlFields == {"protocol", "username", "password", "hostname", "port", "pathname", "query", "fragment"}

Authority == {"username", "password", "hostname", "port"}

Formed == state \in States /\ DOMAIN url = UrlFields

(* The fields a step may write in each state.                              *)
WrittenIn(s) ==
  CASE s = "PROTOCOL" -> {"protocol"} [] s = "AUTHORITY" -> Authority
    [] s = "PATHNAME" -> {"pathname"} [] s = "QUERYSTRING" -> {"query"}
    [] s = "FRAGMENT" -> {"fragment"}

Writes(fields) ==
  DOMAIN url' = UrlFields /\ \A f \in UrlFields \ fields : url'[f] = url[f]

(* What a step does to state and URL.                                      *)
Settled ==
  /\ state' \in States /\ Stage(state) <= Stage(state')
  /\ Writes(WrittenIn(state))

-----------------------------------------------------------------------------
LEMMA NewUrlFormed == DOMAIN NewUrl = UrlFields
BY DEF NewUrl, UrlFields

(* Writing one field of a URL.                                             *)
LEMMA OneField ==
  ASSUME NEW u, DOMAIN u = UrlFields, NEW f \in UrlFields, NEW v
  PROVE  /\ DOMAIN [u EXCEPT ![f] = v] = UrlFields
         /\ [u EXCEPT ![f] = v][f] = v
         /\ \A g \in UrlFields \ {f} : [u EXCEPT ![f] = v][g] = u[g]
OBVIOUS

(* Naming the parts of the authority writes no other field.                *)
LEMMA NamedFields ==
  ASSUME NEW u, DOMAIN u = UrlFields, NEW parts
  PROVE  /\ DOMAIN Named(u, parts) = UrlFields
         /\ \A f \in UrlFields \ Authority : Named(u, parts)[f] = u[f]
<1>1. \A f \in UrlFields \ Authority : f \notin Authority
  OBVIOUS
<1>2. CASE Len(parts) = 1
  BY <1>2 DEF Named, Authority
<1>3. CASE Len(parts) = 2
  BY <1>3 DEF Named, Authority
<1>4. CASE Len(parts) = 3
  BY <1>4 DEF Named, Authority
<1>5. CASE Len(parts) = 4
  BY <1>5 DEF Named, Authority
<1>6. CASE Len(parts) \notin 1..4
  BY <1>6 DEF Named, Authority
<1> QED
  BY <1>2, <1>3, <1>4, <1>5, <1>6

LEMMA Stages ==
  /\ Stage("PROTOCOL") = 1 /\ Stage("AUTHORITY") = 2 /\ Stage("PATHNAME") = 3
  /\ Stage("QUERYSTRING") = 4 /\ Stage("FRAGMENT") = 5
BY DEF Stage

LEMMA WrittenFields ==
  /\ WrittenIn("PROTOCOL") = {"protocol"} /\ WrittenIn("AUTHORITY") = Authority
  /\ WrittenIn("PATHNAME") = {"pathname"} /\ WrittenIn("QUERYSTRING") = {"query"}
  /\ WrittenIn("FRAGMENT") = {"fragment"}
BY DEF WrittenIn

LEMMA StageIsNumber ==
  ASSUME NEW s \in States
  PROVE  Stage(s) \in 1..5
BY Stages DEF States

(* Each action settles: one step per action.                               *)
LEMMA StepSettles ==
  ASSUME Formed, MachineNext
  PROVE  Settled
<1>0. state \in States /\ DOMAIN url = UrlFields
  BY DEF Formed
<1>1. CASE SkipSpace
  <2>1. url' = url /\ state' = state
    BY <1>1 DEF SkipSpace
  <2> QED
    BY <1>0, <2>1, StageIsNumber DEF Settled, Writes
<1>2. CASE EndProtocol
  <2>1. state = "PROTOCOL" /\ state' = "AUTHORITY" /\ url' = [url EXCEPT !["protocol"] = buf]
    BY <1>2 DEF EndProtocol
  <2>2. "protocol" \in UrlFields
    BY DEF UrlFields
  <2>3. Writes({"protocol"})
    BY <1>0, <2>1, <2>2, OneField DEF Writes
  <2> QED
    BY <2>1, <2>3, Stages, WrittenFields DEF Settled, States
<1>3. CASE AuthorityDelimiter
  <2>1. state = "AUTHORITY"
    BY <1>3 DEF AuthorityDelimiter
  <2>2. \/ url' = Named(url, Pushed) /\ state' = "PATHNAME"
        \/ url' = url /\ state' = state
    BY <1>3 DEF AuthorityDelimiter
  <2>3. Writes(Authority)
    BY <1>0, <2>2, NamedFields DEF Writes
  <2> QED
    BY <2>1, <2>2, <2>3, Stages, WrittenFields DEF Settled, States
<1>4. CASE PathDelimiter
  <2>1. state = "PATHNAME" /\ state' \in {"QUERYSTRING", "FRAGMENT", "PATHNAME"}
    BY <1>4 DEF PathDelimiter
  <2>2. url' = url \/ url' = [url EXCEPT !["pathname"] = Append(@, buf)]
    BY <1>4 DEF PathDelimiter
  <2>3. "pathname" \in UrlFields
    BY DEF UrlFields
  <2>4. Writes({"pathname"})
    BY <1>0, <2>2, <2>3, OneField DEF Writes
  <2> QED
    BY <2>1, <2>4, Stages, WrittenFields DEF Settled, States
<1>5. CASE QueryDelimiter
  <2>1. state = "QUERYSTRING" /\ state' \in {"QUERYSTRING", "FRAGMENT"}
    BY <1>5 DEF QueryDelimiter
  <2>2. url' = url \/ url' = [url EXCEPT !["query"] = PutQuery(@, writingKey, buf)]
    BY <1>5 DEF QueryDelimiter
  <2>3. "query" \in UrlFields
    BY DEF UrlFields
  <2>4. Writes({"query"})
    BY <1>0, <2>2, <2>3, OneField DEF Writes
  <2> QED
    BY <2>1, <2>4, Stages, WrittenFields DEF Settled, States
<1>6. CASE KeepCharacter
  <2>1. state' = state
    BY <1>6 DEF KeepCharacter
  <2>2. url' = url \/ (state = "FRAGMENT" /\ url' = [url EXCEPT !["fragment"] = buf])
    BY <1>6 DEF KeepCharacter
  <2>3. "fragment" \in UrlFields
    BY DEF UrlFields
  <2>4. CASE url' = url
    BY <1>0, <2>1, <2>4, StageIsNumber DEF Settled, Writes
  <2>5. CASE state = "FRAGMENT" /\ url' = [url EXCEPT !["fragment"] = buf]
    <3>1. Writes({"fragment"})
      BY <1>0, <2>3, <2>5, OneField DEF Writes
    <3> QED
      BY <1>0, <2>1, <2>5, <3>1, StageIsNumber, WrittenFields DEF Settled
  <2> QED
    BY <2>2, <2>4, <2>5
<1> QED
  BY <1>1, <1>2, <1>3, <1>4, <1>5, <1>6 DEF MachineNext

-----------------------------------------------------------------------------
LEMMA MachineStarts ==
  ASSUME MachineInit
  PROVE  Formed
BY NewUrlFormed DEF MachineInit, Formed, States

LEMMA FormedSteps ==
  ASSUME Formed, [MachineNext]_machineVars
  PROVE  Formed'
<1>1. CASE MachineNext
  BY <1>1, StepSettles DEF Settled, Writes, Formed
<1>2. CASE UNCHANGED machineVars
  BY <1>2 DEF machineVars, Formed
<1> QED
  BY <1>1, <1>2

(* What a step leaves alone, state by state.                               *)
LEMMA EarlierFieldsKept ==
  ASSUME Formed, Settled
  PROVE  /\ Stage(state) > 1 => url'["protocol"] = url["protocol"]
         /\ Stage(state) > 2 => \A f \in Authority : url'[f] = url[f]
         /\ Stage(state) > 3 => url'["pathname"] = url["pathname"]
         /\ Stage(state) > 4 => url'["query"] = url["query"]
<1>1. \A f \in UrlFields \ WrittenIn(state) : url'[f] = url[f]
  BY DEF Settled, Writes
<1>2. /\ {"protocol", "pathname", "query"} \subseteq UrlFields
      /\ Authority \subseteq UrlFields
  BY DEF UrlFields, Authority
<1>3. Stage(state) > 1 => "protocol" \notin WrittenIn(state)
  BY Stages, WrittenFields DEF Formed, States, Authority
<1>4. Stage(state) > 2 => \A f \in Authority : f \notin WrittenIn(state)
  BY Stages, WrittenFields DEF Formed, States, Authority
<1>5. Stage(state) > 3 => "pathname" \notin WrittenIn(state)
  BY Stages, WrittenFields DEF Formed, States
<1>6. Stage(state) > 4 => "query" \notin WrittenIn(state)
  BY Stages, WrittenFields DEF Formed, States
<1> QED
  BY <1>1, <1>2, <1>3, <1>4, <1>5, <1>6

(* Whatever the text, once the machine of URL2.h has left a part of the    *)
(* URL it neither goes back to it nor writes it again.                     *)
THEOREM PartsSettleInOrder == MachineSpec => FieldsSettle
<1> DEFINE KeptUpTo ==
      /\ Stage(state) <= Stage(state')
      /\ Stage(state) > 1 => url'.protocol = url.protocol
      /\ Stage(state) > 2 => \A f \in {"username", "password", "hostname", "port"} :
                               url'[f] = url[f]
      /\ Stage(state) > 3 => url'.pathname = url.pathname
      /\ Stage(state) > 4 => url'.query = url.query
<1>1. Formed /\ MachineNext => KeptUpTo
  <2> SUFFICES ASSUME Formed, MachineNext PROVE KeptUpTo
    OBVIOUS
  <2>1. Settled
    BY StepSettles
  <2>2. Stage(state) <= Stage(state')
    BY <2>1 DEF Settled
  <2> QED
    BY <2>1, <2>2, EarlierFieldsKept DEF Authority
<1>2. Formed /\ [MachineNext]_machineVars => [KeptUpTo]_machineVars
  BY <1>1
<1> QED
  BY MachineStarts, FormedSteps, <1>2, PTL DEF MachineSpec, FieldsSettle
-----------------------------------------------------------------------------
(* decode: what is left of the text without its spaces.                    *)

\* A set of naturals that is not empty has a least element.
LEMMA LeastNatural ==
  ASSUME NEW S, S \subseteq Nat, S # {}
  PROVE  \E i \in S : \A j \in S : i <= j
<1> DEFINE Less == OpToRel(<, Nat)
<1>1. PICK i \in S : \A j \in S : <<j, i>> \notin Less
  <2> HIDE DEF Less
  <2>1. IsWellFoundedOn(Less, Nat)
    BY NatLessThanWellFounded DEF Less
  <2> QED
    BY <2>1, WFMin
<1>2. \A j \in S : j < i => <<j, i>> \in Less
  BY DEF OpToRel
<1>3. \A j \in S : ~(j < i)
  <2> HIDE DEF Less
  <2> QED
    BY <1>1, <1>2
<1>4. \A j \in S : i <= j
  <2> HIDE DEF Less
  <2> QED
    BY <1>3
<1> QED
  BY <1>4

\* What a text may hold besides the mark; the characters decode makes are
\* named, for no prover knows them as strings.
Separators == {"/", ":", "?", "#", "&", "=", "@", " ", "0"}

Character == (STRING \cup Separators) \ {Mark}

LEMMA TextAppendFacts ==
  ASSUME NEW S, NEW s \in Seq(S), NEW v \in S
  PROVE  /\ Append(s, v) \in Seq(S) /\ Len(Append(s, v)) = Len(s) + 1
         /\ \A i \in 1..Len(s) : Append(s, v)[i] = s[i]
         /\ Append(s, v)[Len(s) + 1] = v
OBVIOUS

LEMMA EmptyFacts ==
  ASSUME NEW S
  PROVE  <<>> \in Seq(S) /\ Len(<<>>) = 0
OBVIOUS

LEMMA UnescapedFacts ==
  ASSUME NEW c \in Character
  PROVE  Unescaped(c) \in Character
<1>1. Unescaped(c) \in Separators \/ Unescaped(c) = c
  BY DEF Unescaped, Separators
<1>2. Mark \notin Separators
  BY DEF Mark, Separators
<1> QED
  BY <1>1, <1>2 DEF Character

\* What decode has kept of the first i characters of s.
KeptUpTo(f, s, i) ==
  IF i = 0 THEN <<>> ELSE IF s[i] = " " THEN f[i - 1] ELSE Append(f[i - 1], Unescaped(s[i]))

Keeps(f, s, k) ==
  /\ DOMAIN f = 0..k
  /\ \A i \in 0..k : f[i] = KeptUpTo(f, s, i)

LEMMA KeptUpToFacts ==
  ASSUME NEW s \in Seq(Character), NEW k \in 1..Len(s), NEW f,
         f[k - 1] \in Seq(Character), Len(f[k - 1]) <= k - 1
  PROVE  KeptUpTo(f, s, k) \in Seq(Character) /\ Len(KeptUpTo(f, s, k)) <= k
<1>1. k \in Nat /\ k # 0 /\ s[k] \in Character
  OBVIOUS
<1> DEFINE p == f[k - 1]
           n == Len(p)
<1>2. p \in Seq(Character)
  OBVIOUS
<1>3. n \in Nat
  BY <1>2
<1>4. /\ Append(p, Unescaped(s[k])) \in Seq(Character)
      /\ Len(Append(p, Unescaped(s[k]))) = n + 1
  BY <1>1, <1>2, UnescapedFacts, TextAppendFacts
<1>5. n <= k - 1
  OBVIOUS
<1>6. KeptUpTo(f, s, k) = p \/ KeptUpTo(f, s, k) = Append(p, Unescaped(s[k]))
  BY <1>1 DEF KeptUpTo
<1>7. KeptUpTo(f, s, k) \in Seq(Character)
  BY <1>2, <1>4, <1>6, Zenon
<1>8. Len(KeptUpTo(f, s, k)) = n \/ Len(KeptUpTo(f, s, k)) = n + 1
  BY <1>4, <1>6, Zenon
<1> HIDE DEF n
<1>9. Len(KeptUpTo(f, s, k)) <= k
  BY <1>1, <1>3, <1>5, <1>8
<1> QED
  BY <1>7, <1>9

LEMMA KeepersExist ==
  ASSUME NEW s \in Seq(Character), NEW k \in 0..Len(s)
  PROVE  \E f : Keeps(f, s, k)
<1> DEFINE Good(m) == \E f : Keeps(f, s, m)
           Bad == {m \in 0..k : ~Good(m)}
<1>0. Len(s) \in Nat /\ k \in Nat
  OBVIOUS
<1>1. ASSUME NEW m \in 0..k, m = 0 \/ Good(m - 1) PROVE Good(m)
  <2>1. CASE m = 0
    <3> DEFINE h == [i \in 0..m |-> <<>>]
    <3>1. DOMAIN h = 0..m /\ \A i \in 0..m : h[i] = <<>> /\ i = 0
      BY <2>1
    <3> HIDE DEF h
    <3>2. \A i \in 0..m : h[i] = KeptUpTo(h, s, i)
      BY <3>1 DEF KeptUpTo
    <3> QED
      BY <3>1, <3>2 DEF Keeps
  <2>2. CASE m # 0
    <3>1. PICK f : Keeps(f, s, m - 1)
      BY <1>1, <2>2
    <3>2. m \in Nat
      BY <1>0, <2>2
    <3> DEFINE h == [i \in 0..m |-> IF i = m THEN KeptUpTo(f, s, m) ELSE f[i]]
    <3>4. \A i \in 0..m : i # m => i \in 0..(m - 1) /\ h[i] = f[i]
      OBVIOUS
    <3>5. DOMAIN h = 0..m /\ m \in 0..m /\ h[m] = KeptUpTo(f, s, m)
      BY <3>2
    <3> HIDE DEF h
    <3>6. ASSUME NEW i \in 0..m PROVE h[i] = KeptUpTo(f, s, i)
      BY <3>1, <3>4, <3>5 DEF Keeps
    <3>7. ASSUME NEW i \in 0..m PROVE KeptUpTo(f, s, i) = KeptUpTo(h, s, i)
      <4>1. CASE i = 0
        BY <4>1 DEF KeptUpTo
      <4>2. CASE i # 0
        <5>1. i - 1 \in 0..m /\ i - 1 # m
          BY <4>2
        <5>2. h[i - 1] = f[i - 1]
          BY <3>4, <5>1
        <5> QED
          BY <5>2 DEF KeptUpTo
      <4> QED
        BY <4>1, <4>2
    <3>8. Keeps(h, s, m)
      BY <3>5, <3>6, <3>7 DEF Keeps
    <3> QED
      BY <3>8
  <2> QED
    BY <2>1, <2>2
<1>2. Bad = {}
  <2> SUFFICES ASSUME Bad # {} PROVE FALSE
    OBVIOUS
  <2>1. PICK m \in Bad : \A j \in Bad : m <= j
    <3>1. Bad \subseteq Nat
      OBVIOUS
    <3> HIDE DEF Bad
    <3> QED
      BY <3>1, LeastNatural
  <2>2. m \in 0..k /\ ~Good(m)
    OBVIOUS
  <2>3. m = 0 \/ (m - 1 \in 0..k /\ ~(m <= m - 1))
    BY <2>2
  <2>4. m = 0 \/ Good(m - 1)
    BY <2>1, <2>3
  <2> HIDE DEF Good
  <2> QED
    BY <1>1, <2>2, <2>4
<1> HIDE DEF Good
<1>3. Good(k)
  BY <1>0, <1>2
<1> QED
  BY <1>3 DEF Good

Keeper(s) == CHOOSE f : f = [i \in 0..Len(s) |-> KeptUpTo(f, s, i)]

LEMMA KeeperKeeps ==
  ASSUME NEW s \in Seq(Character)
  PROVE  Keeps(Keeper(s), s, Len(s))
<1> DEFINE n == Len(s)
<1>0. n \in Nat /\ n \in 0..n
  OBVIOUS
<1>2. PICK f : Keeps(f, s, n)
  BY <1>0, KeepersExist
<1> DEFINE g == [i \in 0..n |-> f[i]]
<1>3. DOMAIN g = 0..n /\ \A i \in 0..n : g[i] = f[i]
  OBVIOUS
<1> HIDE DEF g
<1>4. ASSUME NEW i \in 0..n PROVE KeptUpTo(g, s, i) = KeptUpTo(f, s, i)
  <2>1. CASE i = 0
    BY <2>1 DEF KeptUpTo
  <2>2. CASE i # 0
    <3>1. i - 1 \in 0..n
      BY <1>0, <2>2
    <3>2. g[i - 1] = f[i - 1]
      BY <1>3, <3>1
    <3> QED
      BY <2>2, <3>2 DEF KeptUpTo
  <2> QED
    BY <2>1, <2>2
<1>5. g = [i \in 0..n |-> KeptUpTo(g, s, i)]
  BY <1>2, <1>3, <1>4 DEF Keeps, g
<1>6. Keeper(s) = [i \in 0..n |-> KeptUpTo(Keeper(s), s, i)]
  BY <1>5 DEF Keeper
<1>7. DOMAIN Keeper(s) = 0..n /\ \A i \in 0..n : Keeper(s)[i] = KeptUpTo(Keeper(s), s, i)
  BY <1>6
<1> QED
  BY <1>7 DEF Keeps

\* Decoding makes a text of the same characters, and no longer one.
LEMMA DecodeFacts ==
  ASSUME NEW s \in Seq(Character)
  PROVE  Decode2(s) \in Seq(Character) /\ Len(Decode2(s)) <= Len(s)
<1> DEFINE n == Len(s)
           f == Keeper(s)
           Good(i) == f[i] \in Seq(Character) /\ Len(f[i]) <= i
           Bad == {i \in 0..n : ~Good(i)}
<1>0. n \in Nat /\ n \in 0..n
  OBVIOUS
<1>1. Decode2(s) = f[n]
  BY DEF Decode2, Keeper, KeptUpTo
<1>2. \A i \in 0..n : f[i] = KeptUpTo(f, s, i)
  BY KeeperKeeps DEF Keeps
<1>3. Bad = {}
  <2> SUFFICES ASSUME Bad # {} PROVE FALSE
    OBVIOUS
  <2>1. PICK m \in Bad : \A j \in Bad : m <= j
    <3>1. Bad \subseteq Nat
      BY <1>0
    <3> HIDE DEF Bad
    <3> QED
      BY <3>1, LeastNatural
  <2>2. m \in 0..n /\ ~Good(m) /\ f[m] = KeptUpTo(f, s, m)
    BY <1>2
  <2> HIDE DEF f
  <2>3. m # 0
    <3>1. m = 0 => f[m] = <<>>
      BY <2>2 DEF KeptUpTo
    <3>2. m = 0 => f[m] \in Seq(Character) /\ Len(f[m]) = 0
      BY <3>1, EmptyFacts, Zenon
    <3> QED
      BY <2>2, <3>2
  <2>4. m - 1 \in 0..n /\ ~(m <= m - 1) /\ m \in 1..n
    BY <1>0, <2>2, <2>3
  <2>5. Good(m - 1)
    BY <2>1, <2>4
  <2>6. KeptUpTo(f, s, m) \in Seq(Character) /\ Len(KeptUpTo(f, s, m)) <= m
    BY <2>4, <2>5, KeptUpToFacts
  <2> QED
    BY <2>2, <2>6
<1>4. Good(n)
  BY <1>0, <1>3
<1> QED
  BY <1>1, <1>4

-----------------------------------------------------------------------------
(* No field holds a delimiter that should have ended it.                   *)

\* A text without the characters of d.
Text(d) == Seq(Character \ d)

Part == Text({":", "@", "/"})

Segment == Text({"?", "#", "/"}) \ {<<>>}

Value == Text({"&", "#", "="})

Delimited(u) ==
  /\ DOMAIN u = UrlFields
  /\ u["protocol"] \in Text({":"})
  /\ \A f \in Authority : u[f] \in Part
  /\ u["pathname"] \in Seq(Segment)
  /\ \A k \in DOMAIN u["query"] : u["query"][k] \in Seq(Value)
  /\ u["fragment"] \in Text({})

\* The mark is the last thing to read, and nothing else is the mark.
Ended(r) ==
  /\ r \in Seq(Character \cup {Mark})
  /\ \A i \in 1..Len(r) : r[i] = Mark <=> i = Len(r)

\* While there is something to read, the buffer holds no character that
\* would have emptied it.
Buffered ==
  /\ Ended(rest)
  /\ rest # <<>> => buf \in Text(Delimiters(state))
  /\ temp \in Seq(Part)

Measured ==
  /\ raw \in Seq(Character)
  /\ state = "PROTOCOL" => temp = <<>> /\ Len(rest) <= Len(raw) + 1
  /\ state # "PROTOCOL" => Len(temp) + Len(rest) <= Len(raw)

Reading == Formed /\ Delimited(url) /\ Buffered /\ Measured

-----------------------------------------------------------------------------
LEMMA MarkIsNone == Mark \notin Character
BY DEF Character

LEMMA DelimitersOf ==
  /\ Text(Delimiters("PROTOCOL")) = Text({":"})
  /\ Text(Delimiters("AUTHORITY")) = Part
  /\ Text(Delimiters("PATHNAME")) = Text({"?", "#", "/"})
  /\ Text(Delimiters("QUERYSTRING")) = Value
  /\ Text(Delimiters("FRAGMENT")) = Text({})
<1>1. /\ Delimiters("PROTOCOL") = {":"} /\ Delimiters("AUTHORITY") = {":", "@", "/"}
      /\ Delimiters("PATHNAME") = {"?", "#", "/", Mark}
      /\ Delimiters("QUERYSTRING") = {"&", "#", "=", Mark} /\ Delimiters("FRAGMENT") = {}
  BY DEF Delimiters
<1>2. /\ Character \ {"?", "#", "/", Mark} = Character \ {"?", "#", "/"}
      /\ Character \ {"&", "#", "=", Mark} = Character \ {"&", "#", "="}
  BY MarkIsNone
<1> QED
  BY <1>1, <1>2 DEF Text, Part, Value

LEMMA EmptyText == \A d : <<>> \in Text(d)
BY EmptyFacts DEF Text

LEMMA HeadFacts ==
  ASSUME NEW r, Ended(r), r # <<>>
  PROVE  /\ Len(r) \in Nat /\ Len(r) >= 1
         /\ Head(r) \in Character \cup {Mark}
         /\ Head(r) = Mark => Len(r) = 1
<1>1. r \in Seq(Character \cup {Mark})
  BY DEF Ended
<1>2. Len(r) \in Nat /\ Len(r) >= 1 /\ Head(r) = r[1] /\ Head(r) \in Character \cup {Mark}
  BY <1>1
<1> DEFINE n == Len(r)
<1>3. \A i \in 1..n : r[i] = Mark <=> i = n
  BY DEF Ended
<1>4. n \in Nat /\ n >= 1
  BY <1>2
<1> HIDE DEF n
<1>5. r[1] = Mark <=> 1 = n
  BY <1>3, <1>4
<1>6. Head(r) = Mark => n = 1
  BY <1>2, <1>5
<1> QED
  BY <1>2, <1>6 DEF n

LEMMA SuffixFacts ==
  ASSUME NEW r, Ended(r), NEW n \in 1..Len(r)
  PROVE  /\ Ended(SubSeq(r, n + 1, Len(r)))
         /\ Len(SubSeq(r, n + 1, Len(r))) = Len(r) - n
<1> DEFINE z == Len(r)
           S == Character \cup {Mark}
           t == SubSeq(r, n + 1, Len(r))
<1>1. r \in Seq(S) /\ z \in Nat /\ n \in Nat /\ 1 <= n /\ n <= z
  BY DEF Ended
<1>2. t \in Seq(S)
  <2> HIDE DEF S
  <2> QED
    BY <1>1
<1>3. Len(t) = z - n
  <2> HIDE DEF S
  <2> QED
    BY <1>1
<1>4. \A i \in 1..(z - n) : t[i] = r[n + i]
  <2> HIDE DEF S
  <2> QED
    BY <1>1
<1>5. \A i \in 1..z : r[i] = Mark <=> i = z
  BY DEF Ended
<1> HIDE DEF t, z
<1>6. ASSUME NEW i \in 1..(z - n) PROVE t[i] = Mark <=> i = z - n
  <2>1. n + i \in 1..z
    BY <1>1
  <2>2. r[n + i] = Mark <=> n + i = z
    BY <1>5, <2>1
  <2>3. n + i = z <=> i = z - n
    BY <1>1
  <2> QED
    BY <1>4, <2>2, <2>3, Zenon
<1>7. Ended(t)
  BY <1>2, <1>3, <1>6 DEF Ended
<1> QED
  BY <1>3, <1>7 DEF t, z

(* Every step reads on, and the one that reads the mark is the last.       *)
LEMMA StepReads ==
  ASSUME Ended(rest), MachineNext
  PROVE  /\ rest # <<>> /\ Ended(rest')
         /\ rest' # <<>> => Cursor \in Character
         /\ Len(rest) \in Nat /\ Len(rest') \in Nat /\ Len(rest') < Len(rest)
         /\ raw' = raw
<1>1. rest # <<>>
  BY DEF MachineNext, SkipSpace, EndProtocol, AuthorityDelimiter, PathDelimiter,
         QueryDelimiter, KeepCharacter, Read
<1>2. Len(rest) \in Nat /\ Len(rest) >= 1
  BY <1>1, HeadFacts
<1>3. Read(1) \/ Read(IF Len(rest) >= 3 THEN 3 ELSE Len(rest))
  BY DEF MachineNext, SkipSpace, EndProtocol, AuthorityDelimiter, PathDelimiter,
         QueryDelimiter, KeepCharacter
<1>4. PICK n \in 1..Len(rest) : Read(n)
  <2>1. 1 \in 1..Len(rest)
    BY <1>2
  <2>2. (IF Len(rest) >= 3 THEN 3 ELSE Len(rest)) \in 1..Len(rest)
    BY <1>2
  <2> QED
    BY <1>3, <2>1, <2>2
<1> DEFINE t == SubSeq(rest, n + 1, Len(rest))
<1>5. rest' = t /\ raw' = raw
  BY <1>4 DEF Read
<1>6. Ended(t) /\ Len(t) = Len(rest) - n
  BY SuffixFacts
<1> HIDE DEF t
<1>7. t # <<>> => Len(t) >= 1
  BY <1>6, HeadFacts
<1>8. Ended(rest') /\ Len(rest') = Len(rest) - n
  BY <1>5, <1>6, Zenon
<1>9. Len(rest') \in Nat /\ Len(rest') < Len(rest)
  BY <1>2, <1>8
<1>10. ASSUME rest' # <<>> PROVE Cursor \in Character
  <2>1. Len(rest') >= 1
    BY <1>5, <1>10, <1>7, Zenon
  <2> DEFINE m == Len(rest)
             k == Len(rest')
  <2>2. m \in Nat /\ k \in Nat /\ k < m /\ k >= 1
    BY <1>2, <1>9, <2>1
  <2> HIDE DEF m, k
  <2>3. m # 1
    BY <2>2
  <2> QED
    BY <1>1, <2>3, HeadFacts DEF Cursor, m
<1> QED
  BY <1>1, <1>2, <1>5, <1>8, <1>9, <1>10

(* The parts named are among the parts.                                    *)
LEMMA NamedParts ==
  ASSUME NEW P, NEW u, DOMAIN u = UrlFields, \A f \in Authority : u[f] \in P,
         NEW parts \in Seq(P)
  PROVE  \A f \in Authority : Named(u, parts)[f] \in P
<1>0. Authority \subseteq UrlFields
  BY DEF Authority, UrlFields
<1>1. \A i \in 1..Len(parts) : parts[i] \in P
  OBVIOUS
<1>2. CASE Len(parts) = 1
  <2>1. Named(u, parts) = [u EXCEPT !.hostname = parts[1]] /\ parts[1] \in P
    BY <1>1, <1>2 DEF Named
  <2> QED
    BY <1>0, <2>1
<1>3. CASE Len(parts) = 2
  <2>1. /\ Named(u, parts) = [u EXCEPT !.hostname = parts[1], !.port = parts[2]]
        /\ parts[1] \in P /\ parts[2] \in P
    BY <1>1, <1>3 DEF Named
  <2> QED
    BY <1>0, <2>1
<1>4. CASE Len(parts) = 3
  <2>1. /\ Named(u, parts) = [u EXCEPT !.username = parts[1], !.password = parts[2],
                                       !.hostname = parts[3]]
        /\ parts[1] \in P /\ parts[2] \in P /\ parts[3] \in P
    BY <1>1, <1>4 DEF Named
  <2> QED
    BY <1>0, <2>1
<1>5. CASE Len(parts) = 4
  <2>1. /\ Named(u, parts) = [u EXCEPT !.username = parts[1], !.password = parts[2],
                                       !.hostname = parts[3], !.port = parts[4]]
        /\ parts[1] \in P /\ parts[2] \in P /\ parts[3] \in P /\ parts[4] \in P
    BY <1>1, <1>5 DEF Named
  <2> QED
    BY <1>0, <2>1
<1>6. CASE Len(parts) \notin 1..4
  BY <1>6 DEF Named
<1> QED
  BY <1>2, <1>3, <1>4, <1>5, <1>6

(* What a delimiter pushes is a part.                                      *)
LEMMA PushedFacts ==
  ASSUME temp \in Seq(Part), buf \in Part
  PROVE  Pushed \in Seq(Part) /\ Len(Pushed) \in Nat /\ Len(Pushed) <= Len(temp) + 1
<1>1. Len(temp) \in Nat
  OBVIOUS
<1>2. Append(temp, buf) \in Seq(Part) /\ Len(Append(temp, buf)) = Len(temp) + 1
  BY TextAppendFacts
<1>3. Pushed = temp \/ Pushed = Append(temp, buf)
  BY DEF Pushed
<1>4. Pushed \in Seq(Part)
  BY <1>2, <1>3, Zenon
<1>5. Len(Pushed) = Len(temp) \/ Len(Pushed) = Len(temp) + 1
  BY <1>2, <1>3, Zenon
<1> QED
  BY <1>1, <1>4, <1>5

(* A value put into the query is there, and the others are as they were.   *)
LEMMA PutQueryFacts ==
  ASSUME NEW query, NEW key, NEW value \in Value,
         \A k \in DOMAIN query : query[k] \in Seq(Value)
  PROVE  \A k \in DOMAIN PutQuery(query, key, value) :
           PutQuery(query, key, value)[k] \in Seq(Value)
<1> DEFINE q == PutQuery(query, key, value)
<1>1. DOMAIN q = DOMAIN query \cup {key}
  BY DEF PutQuery
<1>2. <<value>> \in Seq(Value)
  OBVIOUS
<1>3. ASSUME NEW k \in DOMAIN q PROVE q[k] \in Seq(Value)
  <2>1. CASE k # key
    <3>1. k \in DOMAIN query
      BY <1>1, <2>1
    <3>2. q[k] = query[k]
      BY <2>1, <3>1 DEF PutQuery
    <3> QED
      BY <3>1, <3>2, Zenon
  <2>2. CASE k = key /\ key \in DOMAIN query
    <3>1. q[k] = Append(query[k], value)
      BY <2>2 DEF PutQuery
    <3>2. Append(query[k], value) \in Seq(Value)
      BY <2>2, TextAppendFacts
    <3> QED
      BY <3>1, <3>2, Zenon
  <2>3. CASE k = key /\ key \notin DOMAIN query
    <3>1. q[k] = <<value>>
      BY <2>3 DEF PutQuery
    <3> QED
      BY <1>2, <3>1, Zenon
  <2> QED
    BY <2>1, <2>2, <2>3
<1> QED
  BY <1>3

(* Writing one field keeps a URL delimited if the new value is.            *)
LEMMA OneFieldDelimited ==
  ASSUME NEW u, Delimited(u), NEW v
  PROVE  /\ v \in Text({":"}) => Delimited([u EXCEPT !["protocol"] = v])
         /\ v \in Seq(Segment) => Delimited([u EXCEPT !["pathname"] = v])
         /\ (\A k \in DOMAIN v : v[k] \in Seq(Value)) => Delimited([u EXCEPT !["query"] = v])
         /\ v \in Text({}) => Delimited([u EXCEPT !["fragment"] = v])
<1>1. /\ {"protocol", "pathname", "query", "fragment"} \subseteq UrlFields
      /\ Authority \subseteq UrlFields
      /\ {"protocol", "pathname", "query", "fragment"} \cap Authority = {}
  BY DEF UrlFields, Authority
<1>2. DOMAIN u = UrlFields
  BY DEF Delimited
<1>3. ASSUME v \in Text({":"}) PROVE Delimited([u EXCEPT !["protocol"] = v])
  <2> DEFINE w == [u EXCEPT !["protocol"] = v]
  <2>1. DOMAIN w = UrlFields /\ w["protocol"] = v /\ \A g \in UrlFields \ {"protocol"} : w[g] = u[g]
    BY <1>1, <1>2, OneField
  <2> HIDE DEF w
  <2>2. /\ w["pathname"] = u["pathname"] /\ w["query"] = u["query"]
        /\ w["fragment"] = u["fragment"] /\ \A f \in Authority : w[f] = u[f]
    BY <1>1, <2>1
  <2>3. Delimited(w)
    BY <1>3, <2>1, <2>2 DEF Delimited
  <2> QED
    BY <2>3 DEF w
<1>4. ASSUME v \in Seq(Segment) PROVE Delimited([u EXCEPT !["pathname"] = v])
  <2> DEFINE w == [u EXCEPT !["pathname"] = v]
  <2>1. DOMAIN w = UrlFields /\ w["pathname"] = v /\ \A g \in UrlFields \ {"pathname"} : w[g] = u[g]
    BY <1>1, <1>2, OneField
  <2> HIDE DEF w
  <2>2. /\ w["protocol"] = u["protocol"] /\ w["query"] = u["query"]
        /\ w["fragment"] = u["fragment"] /\ \A f \in Authority : w[f] = u[f]
    BY <1>1, <2>1
  <2>3. Delimited(w)
    BY <1>4, <2>1, <2>2 DEF Delimited
  <2> QED
    BY <2>3 DEF w
<1>5. ASSUME \A k \in DOMAIN v : v[k] \in Seq(Value) PROVE Delimited([u EXCEPT !["query"] = v])
  <2> DEFINE w == [u EXCEPT !["query"] = v]
  <2>1. DOMAIN w = UrlFields /\ w["query"] = v /\ \A g \in UrlFields \ {"query"} : w[g] = u[g]
    BY <1>1, <1>2, OneField
  <2> HIDE DEF w
  <2>2. /\ w["protocol"] = u["protocol"] /\ w["pathname"] = u["pathname"]
        /\ w["fragment"] = u["fragment"] /\ \A f \in Authority : w[f] = u[f]
    BY <1>1, <2>1
  <2>3. Delimited(w)
    BY <1>5, <2>1, <2>2 DEF Delimited
  <2> QED
    BY <2>3 DEF w
<1>6. ASSUME v \in Text({}) PROVE Delimited([u EXCEPT !["fragment"] = v])
  <2> DEFINE w == [u EXCEPT !["fragment"] = v]
  <2>1. DOMAIN w = UrlFields /\ w["fragment"] = v /\ \A g \in UrlFields \ {"fragment"} : w[g] = u[g]
    BY <1>1, <1>2, OneField
  <2> HIDE DEF w
  <2>2. /\ w["protocol"] = u["protocol"] /\ w["pathname"] = u["pathname"]
        /\ w["query"] = u["query"] /\ \A f \in Authority : w[f] = u[f]
    BY <1>1, <2>1
  <2>3. Delimited(w)
    BY <1>6, <2>1, <2>2 DEF Delimited
  <2> QED
    BY <2>3 DEF w
<1> QED
  BY <1>3, <1>4, <1>5, <1>6

LEMMA NamedDelimited ==
  ASSUME NEW u, Delimited(u), NEW parts \in Seq(Part)
  PROVE  Delimited(Named(u, parts))
<1> DEFINE w == Named(u, parts)
<1>1. {"protocol", "pathname", "query", "fragment"} \subseteq UrlFields \ Authority
  BY DEF UrlFields, Authority
<1>2. DOMAIN u = UrlFields /\ \A f \in Authority : u[f] \in Part
  BY DEF Delimited
<1>3. DOMAIN w = UrlFields /\ \A f \in UrlFields \ Authority : w[f] = u[f]
  BY <1>2, NamedFields
<1>4. \A f \in Authority : w[f] \in Part
  BY <1>2, NamedParts
<1> HIDE DEF w
<1>5. /\ w["protocol"] = u["protocol"] /\ w["pathname"] = u["pathname"]
      /\ w["query"] = u["query"] /\ w["fragment"] = u["fragment"]
  BY <1>1, <1>3
<1>6. Delimited(w)
  BY <1>3, <1>4, <1>5 DEF Delimited
<1> QED
  BY <1>6 DEF w

\* What the buffer holds in each state, as long as there is more to read.
LEMMA BufferOf ==
  ASSUME Buffered, rest # <<>>
  PROVE  /\ state = "PROTOCOL" => buf \in Text({":"})
         /\ state = "AUTHORITY" => buf \in Part
         /\ state = "PATHNAME" /\ buf # <<>> => buf \in Segment
         /\ state = "QUERYSTRING" => buf \in Value
         /\ state = "FRAGMENT" => buf \in Text({})
BY DelimitersOf DEF Buffered, Segment

(* The URL after a step: one step per action.                              *)
LEMMA StepDelimits ==
  ASSUME Delimited(url), Buffered, MachineNext
  PROVE  Delimited(url')
<1>0. rest # <<>> /\ temp \in Seq(Part)
  BY StepReads DEF Buffered
<1>1. CASE SkipSpace
  BY <1>1 DEF SkipSpace
<1>2. CASE EndProtocol
  <2>1. state = "PROTOCOL" /\ url' = [url EXCEPT !["protocol"] = buf]
    BY <1>2 DEF EndProtocol
  <2>2. Delimited([url EXCEPT !["protocol"] = buf])
    BY <1>0, <2>1, BufferOf, OneFieldDelimited
  <2> QED
    BY <2>1, <2>2
<1>3. CASE AuthorityDelimiter
  <2>1. state = "AUTHORITY" /\ (url' = Named(url, Pushed) \/ url' = url)
    BY <1>3 DEF AuthorityDelimiter
  <2>2. Pushed \in Seq(Part)
    BY <1>0, <2>1, BufferOf, PushedFacts
  <2>3. Delimited(Named(url, Pushed))
    BY <2>2, NamedDelimited
  <2> QED
    BY <2>1, <2>3
<1>4. CASE PathDelimiter
  <2> DEFINE path == url["pathname"]
  <2>1. /\ state = "PATHNAME"
        /\ url' = url \/ (buf # <<>> /\ url' = [url EXCEPT !["pathname"] = Append(path, buf)])
    BY <1>4 DEF PathDelimiter
  <2>2. CASE url' = url
    BY <2>2
  <2>3. CASE buf # <<>> /\ url' = [url EXCEPT !["pathname"] = Append(path, buf)]
    <3>1. path \in Seq(Segment) /\ buf \in Segment
      BY <1>0, <2>1, <2>3, BufferOf DEF Delimited
    <3>2. Append(path, buf) \in Seq(Segment)
      <4> HIDE DEF path
      <4> QED
        BY <3>1, TextAppendFacts
    <3>3. Delimited([url EXCEPT !["pathname"] = Append(path, buf)])
      BY <3>2, OneFieldDelimited
    <3> QED
      BY <2>3, <3>3
  <2> QED
    BY <2>1, <2>2, <2>3
<1>5. CASE QueryDelimiter
  <2> DEFINE query == PutQuery(url["query"], writingKey, buf)
  <2>1. state = "QUERYSTRING" /\ (url' = url \/ url' = [url EXCEPT !["query"] = query])
    BY <1>5 DEF QueryDelimiter
  <2>2. \A k \in DOMAIN query : query[k] \in Seq(Value)
    <3>1. buf \in Value /\ \A k \in DOMAIN url["query"] : url["query"][k] \in Seq(Value)
      BY <1>0, <2>1, BufferOf DEF Delimited
    <3> QED
      BY <3>1, PutQueryFacts
  <2> HIDE DEF query
  <2>3. Delimited([url EXCEPT !["query"] = query])
    BY <2>2, OneFieldDelimited
  <2> QED
    BY <2>1, <2>3
<1>6. CASE KeepCharacter
  <2>1. url' = url \/ (state = "FRAGMENT" /\ url' = [url EXCEPT !["fragment"] = buf])
    BY <1>6 DEF KeepCharacter
  <2>2. state = "FRAGMENT" => Delimited([url EXCEPT !["fragment"] = buf])
    BY <1>0, BufferOf, OneFieldDelimited
  <2> QED
    BY <2>1, <2>2
<1> QED
  BY <1>1, <1>2, <1>3, <1>4, <1>5, <1>6 DEF MachineNext

(* The buffer and the parts after a step.                                  *)
LEMMA StepBuffers ==
  ASSUME Buffered, MachineNext
  PROVE  Buffered'
<1>1. rest # <<>> /\ Ended(rest') /\ (rest' # <<>> => Cursor \in Character)
  BY StepReads DEF Buffered
<1>2. temp \in Seq(Part) /\ buf \in Text(Delimiters(state))
  BY <1>1 DEF Buffered
<1>3. temp' \in Seq(Part)
  <2>1. temp' = temp \/ (state = "AUTHORITY" /\ temp' = Pushed)
    BY DEF MachineNext, SkipSpace, EndProtocol, AuthorityDelimiter, PathDelimiter,
           QueryDelimiter, KeepCharacter
  <2>2. state = "AUTHORITY" => Pushed \in Seq(Part)
    BY <1>1, <1>2, BufferOf, PushedFacts
  <2> QED
    BY <1>2, <2>1, <2>2
<1>4. ASSUME rest' # <<>> PROVE buf' \in Text(Delimiters(state'))
  <2>1. \/ buf' = <<>>
        \/ buf' = buf /\ state' = state
        \/ buf' = Append(buf, Cursor) /\ state' = state /\ Cursor \notin Delimiters(state)
    BY DEF MachineNext, SkipSpace, EndProtocol, AuthorityDelimiter, PathDelimiter,
           QueryDelimiter, KeepCharacter
  <2>2. CASE buf' = <<>>
    BY <2>2, EmptyText, Zenon
  <2>3. CASE buf' = buf /\ state' = state
    BY <1>2, <2>3, Zenon
  <2>4. CASE buf' = Append(buf, Cursor) /\ state' = state /\ Cursor \notin Delimiters(state)
    <3>1. Cursor \in Character \ Delimiters(state)
      BY <1>1, <1>4, <2>4
    <3>2. Append(buf, Cursor) \in Text(Delimiters(state))
      BY <1>2, <3>1, TextAppendFacts DEF Text
    <3> QED
      BY <2>4, <3>2, Zenon
  <2> QED
    BY <2>1, <2>2, <2>3, <2>4
<1> QED
  BY <1>1, <1>3, <1>4 DEF Buffered

(* What is read and what is pushed, counted.                               *)
LEMMA StepCounts ==
  ASSUME Buffered, Measured, MachineNext
  PROVE  Measured'
<1> DEFINE z == Len(raw)
           m == Len(rest)
           k == Len(rest')
           n == Len(temp)
<1>1. /\ rest # <<>> /\ m \in Nat /\ k \in Nat /\ k < m /\ raw' = raw
  BY StepReads DEF Buffered
<1>2. /\ raw \in Seq(Character) /\ z \in Nat /\ temp \in Seq(Part) /\ n \in Nat
      /\ state = "PROTOCOL" => temp = <<>> /\ m <= z + 1
      /\ state # "PROTOCOL" => n + m <= z
  BY DEF Measured, Buffered
<1>3. temp = <<>> => n = 0
  BY EmptyFacts
<1> HIDE DEF z, m, k, n
<1>4. \/ temp' = temp /\ (state' = "PROTOCOL" <=> state = "PROTOCOL")
      \/ temp' = temp /\ state = "PROTOCOL" /\ state' # "PROTOCOL"
      \/ temp' = Pushed /\ state = "AUTHORITY" /\ state' # "PROTOCOL"
  BY DEF MachineNext, SkipSpace, EndProtocol, AuthorityDelimiter, PathDelimiter,
         QueryDelimiter, KeepCharacter
<1>5. CASE temp' = temp /\ state = "PROTOCOL" /\ state' = "PROTOCOL"
  <2>1. k <= z + 1
    BY <1>1, <1>2, <1>5
  <2> QED
    BY <1>1, <1>2, <1>5, <2>1 DEF Measured, z, k
<1>6. CASE temp' = temp /\ state' # "PROTOCOL"
  <2>1. n + k <= z
    BY <1>1, <1>2, <1>3, <1>6
  <2>2. Len(temp') + Len(rest') <= Len(raw')
    BY <1>1, <1>6, <2>1 DEF n, k, z
  <2> QED
    BY <1>1, <1>2, <1>6, <2>2 DEF Measured
<1>7. CASE temp' = Pushed /\ state = "AUTHORITY" /\ state' # "PROTOCOL"
  <2> DEFINE p == Len(Pushed)
  <2>1. p \in Nat /\ p <= n + 1
    BY <1>1, <1>2, <1>7, BufferOf, PushedFacts DEF n
  <2> HIDE DEF p
  <2>2. p + k <= z
    BY <1>1, <1>2, <1>7, <2>1
  <2>3. Len(temp') + Len(rest') <= Len(raw')
    BY <1>1, <1>7, <2>2 DEF p, k, z
  <2> QED
    BY <1>1, <1>2, <1>7, <2>3 DEF Measured
<1> QED
  BY <1>4, <1>5, <1>6, <1>7

-----------------------------------------------------------------------------
LEMMA NewUrlDelimited == Delimited(NewUrl)
<1>1. "0" \in Character \ {":", "@", "/"}
  BY DEF Character, Separators, Mark
<1>2. <<"0">> \in Part
  BY <1>1 DEF Part, Text
<1>3. \A S : <<>> \in Seq(S)
  BY EmptyFacts
<1>4. <<>> \in Part
  BY EmptyText DEF Part
<1>5. /\ NewUrl["protocol"] = <<>> /\ NewUrl["pathname"] = <<>> /\ NewUrl["query"] = <<>>
      /\ NewUrl["fragment"] = <<>> /\ NewUrl["username"] = <<>> /\ NewUrl["password"] = <<>>
      /\ NewUrl["hostname"] = <<>> /\ NewUrl["port"] = <<"0">>
  BY DEF NewUrl
<1>6. \A f \in Authority : NewUrl[f] \in Part
  BY <1>2, <1>4, <1>5 DEF Authority
<1>7. \A k \in DOMAIN NewUrl["query"] : NewUrl["query"][k] \in Seq(Value)
  <2>1. DOMAIN <<>> = {}
    OBVIOUS
  <2> QED
    BY <1>5, <2>1
<1>8. DOMAIN NewUrl = UrlFields
  BY NewUrlFormed
<1>9. NewUrl["protocol"] \in Text({":"}) /\ NewUrl["fragment"] \in Text({})
  BY <1>5, EmptyText, Zenon
<1>10. NewUrl["pathname"] \in Seq(Segment)
  BY <1>3, <1>5, Zenon
<1> QED
  BY <1>6, <1>7, <1>8, <1>9, <1>10 DEF Delimited

LEMMA MarkedTextEnds ==
  ASSUME NEW s \in Seq(Character)
  PROVE  Ended(Append(s, Mark)) /\ Len(Append(s, Mark)) = Len(s) + 1
<1> DEFINE S == Character \cup {Mark}
           t == Append(s, Mark)
           n == Len(s)
<1>1. s \in Seq(S) /\ Mark \in S /\ n \in Nat /\ \A i \in 1..n : s[i] \in Character
  OBVIOUS
<1>2. t \in Seq(S) /\ Len(t) = n + 1 /\ (\A i \in 1..n : t[i] = s[i]) /\ t[n + 1] = Mark
  <2> HIDE DEF S
  <2> QED
    BY <1>1, TextAppendFacts
<1> HIDE DEF n, t
<1>3. ASSUME NEW i \in 1..(n + 1) PROVE t[i] = Mark <=> i = n + 1
  <2>1. i \in 1..n \/ i = n + 1
    BY <1>1
  <2>2. i \in 1..n => i # n + 1 /\ t[i] # Mark
    BY <1>1, <1>2, MarkIsNone
  <2> QED
    BY <1>2, <2>1, <2>2
<1>4. Ended(t)
  BY <1>2, <1>3 DEF Ended
<1> QED
  BY <1>2, <1>4 DEF t, n

LEMMA ReadingStarts ==
  ASSUME MachineInit
  PROVE  Reading
<1>1. PICK i \in Inputs : raw = i.text
  BY DEF MachineInit
<1>2. raw \in Seq(STRING) /\ \A j \in 1..Len(raw) : raw[j] # Mark
  BY <1>1, InputsAssumption DEF Without
<1>3. raw \in Seq(Character)
  <2>1. \A j \in 1..Len(raw) : raw[j] \in Character
    BY <1>2 DEF Character
  <2> QED
    BY <1>2, <2>1
<1> DEFINE d == Decode2(raw)
<1>4. d \in Seq(Character) /\ Len(d) <= Len(raw)
  BY <1>3, DecodeFacts
<1>5. rest = Append(d, Mark)
  BY DEF MachineInit
<1> HIDE DEF d
<1>6. Ended(rest) /\ Len(rest) = Len(d) + 1
  BY <1>4, <1>5, MarkedTextEnds
<1>7. state = "PROTOCOL" /\ buf = <<>> /\ temp = <<>> /\ url = NewUrl
  BY DEF MachineInit
<1>8. Len(rest) <= Len(raw) + 1
  <2> DEFINE z == Len(raw)
             m == Len(d)
             k == Len(rest)
  <2>1. z \in Nat /\ m \in Nat /\ m <= z /\ k = m + 1
    BY <1>3, <1>4, <1>6
  <2> HIDE DEF z, m, k
  <2>2. k <= z + 1
    BY <2>1
  <2> QED
    BY <2>2 DEF z, k
<1>9. Measured
  BY <1>3, <1>7, <1>8 DEF Measured
<1>10. Buffered
  <2>1. buf \in Text(Delimiters(state)) /\ temp \in Seq(Part)
    BY <1>7, EmptyText, EmptyFacts, Zenon
  <2> QED
    BY <1>6, <2>1 DEF Buffered
<1>11. Delimited(url)
  BY <1>7, NewUrlDelimited
<1> QED
  BY <1>9, <1>10, <1>11, MachineStarts DEF Reading

LEMMA ReadingSteps ==
  ASSUME Reading, [MachineNext]_machineVars
  PROVE  Reading'
<1>1. CASE MachineNext
  <2>1. Delimited(url') /\ Buffered' /\ Measured' /\ Formed'
    BY <1>1, StepDelimits, StepBuffers, StepCounts, FormedSteps DEF Reading
  <2> QED
    BY <2>1 DEF Reading
<1>2. CASE UNCHANGED machineVars
  <2>1. /\ url' = url /\ rest' = rest /\ buf' = buf /\ temp' = temp /\ state' = state /\ raw' = raw
    BY <1>2 DEF machineVars
  <2> QED
    BY <2>1 DEF Reading, Formed, Buffered, Measured
<1> QED
  BY <1>1, <1>2

LEMMA WithoutThem ==
  ASSUME NEW d, NEW t \in Text(d)
  PROVE  Without(t, d \cup {Mark})
<1>1. \A i \in 1..Len(t) : t[i] \in Character \ d
  BY DEF Text
<1> QED
  BY <1>1, MarkIsNone DEF Without

LEMMA DelimitedFields ==
  ASSUME Delimited(url)
  PROVE  FieldsAreDelimited
<1>1. \A t \in Text({":"}) : Without(t, {":", Mark})
  <2>1. {":"} \cup {Mark} = {":", Mark}
    OBVIOUS
  <2> QED
    BY <2>1, WithoutThem
<1>2. \A t \in Part : Without(t, {":", "@", "/", Mark})
  <2>1. {":", "@", "/"} \cup {Mark} = {":", "@", "/", Mark}
    OBVIOUS
  <2> QED
    BY <2>1, WithoutThem DEF Part
<1>3. \A t \in Segment : t # <<>> /\ Without(t, {"/", "?", "#", Mark})
  <2>1. {"?", "#", "/"} \cup {Mark} = {"/", "?", "#", Mark}
    OBVIOUS
  <2> QED
    BY <2>1, WithoutThem DEF Segment
<1>4. \A t \in Value : Without(t, {"&", "#", "=", Mark})
  <2>1. {"&", "#", "="} \cup {Mark} = {"&", "#", "=", Mark}
    OBVIOUS
  <2> QED
    BY <2>1, WithoutThem DEF Value
<1>5. \A t \in Text({}) : Without(t, {Mark})
  <2>1. {} \cup {Mark} = {Mark}
    OBVIOUS
  <2> QED
    BY <2>1, WithoutThem
<1>6. Without(url.protocol, {":", Mark})
  BY <1>1 DEF Delimited
<1>7. \A t \in {url.username, url.password, url.hostname, url.port} :
        Without(t, {":", "@", "/", Mark})
  BY <1>2 DEF Delimited, Authority
<1>8. ASSUME NEW i \in 1..Len(url.pathname)
      PROVE  url.pathname[i] # <<>> /\ Without(url.pathname[i], {"/", "?", "#", Mark})
  <2>1. url.pathname[i] \in Segment
    BY DEF Delimited
  <2> QED
    BY <1>3, <2>1
<1>9. ASSUME NEW k \in DOMAIN url.query, NEW j \in 1..Len(url.query[k])
      PROVE  Without(url.query[k][j], {"&", "#", "=", Mark})
  <2>1. url.query[k][j] \in Value
    BY DEF Delimited
  <2> QED
    BY <1>4, <2>1
<1>10. Without(url.fragment, {Mark})
  BY <1>5 DEF Delimited
<1> QED
  BY <1>6, <1>7, <1>8, <1>9, <1>10 DEF FieldsAreDelimited

(* Whatever the text, the machine of URL2.h puts no delimiter into a field *)
(* that it should have ended, and its end mark into none.                  *)
THEOREM FieldsEndAtDelimiters == MachineSpec => []FieldsAreDelimited
<1>1. Reading => FieldsAreDelimited
  BY DelimitedFields DEF Reading
<1> QED
  BY ReadingStarts, ReadingSteps, <1>1, PTL DEF MachineSpec

(* The machine keeps its states and fields, and never holds more parts, or *)
(* more to read, than the text it was given has characters.                *)
THEOREM MachineTypeCorrect == MachineSpec => []MachineTypeOK
<1>1. Reading => MachineTypeOK
  <2> SUFFICES ASSUME Reading PROVE MachineTypeOK
    OBVIOUS
  <2> DEFINE z == Len(raw)
             m == Len(rest)
             n == Len(temp)
  <2>1. /\ z \in Nat /\ m \in Nat /\ n \in Nat
        /\ state = "PROTOCOL" => temp = <<>> /\ m <= z + 1
        /\ state # "PROTOCOL" => n + m <= z
    BY DEF Reading, Measured, Buffered, Ended
  <2>2. temp = <<>> => n = 0
    BY EmptyFacts
  <2> HIDE DEF z, m, n
  <2>3. n <= z /\ m <= z + 1
    BY <2>1, <2>2
  <2>4. state \in States /\ DOMAIN url = DOMAIN NewUrl
    BY NewUrlFormed DEF Reading, Formed
  <2> QED
    BY <2>3, <2>4 DEF MachineTypeOK, z, m, n
<1> QED
  BY ReadingStarts, ReadingSteps, <1>1, PTL DEF MachineSpec

-----------------------------------------------------------------------------
(* Steps of one, recursion, and texts.                                     *)
LEMMA StepByStep ==
  ASSUME NEW n \in Nat, NEW P, 0 \in P, \A i \in 1..n : i - 1 \in P => i \in P
  PROVE  \A i \in 0..n : i \in P
<1> DEFINE Bad == {i \in 0..n : i \notin P}
<1>1. SUFFICES ASSUME Bad # {} PROVE FALSE
  OBVIOUS
<1>2. Bad \subseteq Nat
  OBVIOUS
<1>3. PICK m \in Bad : \A j \in Bad : m <= j
  <2> HIDE DEF Bad
  <2> QED
    BY <1>1, <1>2, LeastNatural
<1>4. m \in 1..n /\ m - 1 \in 0..n /\ ~(m <= m - 1)
  OBVIOUS
<1>5. m - 1 \in P
  BY <1>3, <1>4
<1> QED
  BY <1>4, <1>5

\* What a recursive function over 0..n is, when each step keeps to V.
StepsIn(V, g, n) == g \in [1..n -> [V -> V]]

RunOf(h, V, base, g, n) ==
  h \in [0..n -> V] /\ \A i \in 0..n : h[i] = IF i = 0 THEN base ELSE g[i][h[i - 1]]

LEMMA RecursionExists ==
  ASSUME NEW n \in Nat, NEW V, NEW base \in V, NEW g, StepsIn(V, g, n)
  PROVE  \E h : RunOf(h, V, base, g, n)
<1>0. g \in [1..n -> [V -> V]]
  BY DEF StepsIn
<1> DEFINE Runs(h, m) ==
             \A i \in 0..m : h[i] = IF i = 0 THEN base ELSE g[i][h[i - 1]]
           P == {m \in 0..n : \E h \in [0..m -> V] : Runs(h, m)}
<1>1. 0 \in P
  <2> DEFINE h == [i \in 0..0 |-> base]
  <2>1. h \in [0..0 -> V] /\ \A i \in 0..0 : h[i] = base /\ i = 0
    OBVIOUS
  <2> HIDE DEF h
  <2>2. Runs(h, 0)
    BY <2>1
  <2> HIDE DEF Runs
  <2> QED
    BY <2>1, <2>2
<1>2. ASSUME NEW m \in 1..n, m - 1 \in P PROVE m \in P
  <2>1. PICK f \in [0..(m - 1) -> V] : Runs(f, m - 1)
    BY <1>2
  <2> DEFINE h == [i \in 0..m |-> IF i = m THEN g[m][f[m - 1]] ELSE f[i]]
  <2>2. f[m - 1] \in V /\ g[m][f[m - 1]] \in V
    BY <1>0
  <2>3. \A i \in 0..m : i # m => i \in 0..(m - 1) /\ h[i] = f[i] /\ (i # 0 => i - 1 \in 0..(m - 1))
    OBVIOUS
  <2>4. m \in 0..m /\ h[m] = g[m][f[m - 1]] /\ m # 0 /\ m - 1 \in 0..m /\ m - 1 # m
    OBVIOUS
  <2>5. h \in [0..m -> V]
    BY <2>2, <2>3
  <2> HIDE DEF h
  <2>6. \A i \in 0..(m - 1) : f[i] = IF i = 0 THEN base ELSE g[i][f[i - 1]]
    BY <2>1
  <2>7. ASSUME NEW i \in 0..m PROVE h[i] = IF i = 0 THEN base ELSE g[i][h[i - 1]]
    <3>1. CASE i = m
      BY <2>3, <2>4, <3>1
    <3>2. CASE i # m
      <4>1. h[i] = f[i] /\ i \in 0..(m - 1)
        BY <2>3, <3>2
      <4>2. i # 0 => h[i - 1] = f[i - 1]
        BY <2>3, <3>2
      <4> QED
        BY <2>6, <4>1, <4>2
    <3> QED
      BY <3>1, <3>2
  <2>8. Runs(h, m)
    BY <2>7
  <2> HIDE DEF Runs
  <2> QED
    BY <2>5, <2>8
<1>3. n \in P
  <2> HIDE DEF P
  <2>1. \A i \in 0..n : i \in P
    BY <1>1, <1>2, StepByStep
  <2> QED
    BY <2>1
<1> QED
  BY <1>3 DEF RunOf

\* Two texts joined.
LEMMA JoinFacts ==
  ASSUME NEW S, NEW a \in Seq(S), NEW b \in Seq(S)
  PROVE  /\ a \o b \in Seq(S) /\ Len(a \o b) = Len(a) + Len(b)
         /\ \A i \in 1..Len(a) : (a \o b)[i] = a[i]
         /\ \A i \in 1..Len(b) : (a \o b)[Len(a) + i] = b[i]
OBVIOUS

LEMMA LengthFacts ==
  ASSUME NEW S, NEW a \in Seq(S)
  PROVE  /\ Len(a) \in Nat /\ DOMAIN a = 1..Len(a)
         /\ \A i \in 1..Len(a) : a[i] \in S
         /\ a = <<>> <=> Len(a) = 0
OBVIOUS

LEMMA SameText ==
  ASSUME NEW S, NEW R, NEW a \in Seq(S), NEW b \in Seq(R), Len(a) = Len(b),
         \A i \in 1..Len(a) : a[i] = b[i]
  PROVE  a = b
OBVIOUS

\* A part of a text.
LEMMA CutFacts ==
  ASSUME NEW S, NEW a \in Seq(S), NEW m \in 1..(Len(a) + 1), NEW n \in (m - 1)..Len(a)
  PROVE  /\ SubSeq(a, m, n) \in Seq(S) /\ Len(SubSeq(a, m, n)) = n - m + 1
         /\ \A i \in 1..(n - m + 1) : SubSeq(a, m, n)[i] = a[m + i - 1]
OBVIOUS

\* The texts of ss one after the other: the i-th ends after c[i] characters.
PieceEnds(c, ss, n) ==
  c \in [0..n -> Nat] /\ c[0] = 0 /\ \A i \in 1..n : c[i] = c[i - 1] + Len(ss[i])

Laid(t, c, ss, n) ==
  /\ Len(t) = c[n]
  /\ \A i \in 1..n : \A j \in 1..Len(ss[i]) :
        c[i - 1] + j \in 1..Len(t) /\ t[c[i - 1] + j] = ss[i][j]
  /\ \A x \in 1..Len(t) : \E i \in 1..n : \E j \in 1..Len(ss[i]) : x = c[i - 1] + j

Flat(ss, n) ==
  CHOOSE f : f = [i \in 1..n |-> IF i = 1 THEN ss[i] ELSE f[i - 1] \o ss[i]]

FlatRuns(ss, S) ==
  /\ Texts!FlattenSeq(ss) = Flat(ss, Len(ss))[Len(ss)]
  /\ Flat(ss, Len(ss)) \in [1..Len(ss) -> Seq(S)] /\ Flat(ss, Len(ss))[1] = ss[1]
  /\ \A i \in 2..Len(ss) : Flat(ss, Len(ss))[i] = Flat(ss, Len(ss))[i - 1] \o ss[i]

LEMMA FlatFacts ==
  ASSUME NEW S, NEW ss
  PROVE  ss \in Seq(Seq(S)) /\ Len(ss) # 0 => FlatRuns(ss, S)
<1>0. SUFFICES ASSUME ss \in Seq(Seq(S)) /\ Len(ss) # 0 PROVE FlatRuns(ss, S)
  OBVIOUS
<1> DEFINE n == Len(ss)
           T == Seq(S)
           e == <<>>
           D(i, v) == v \o ss[i]
           g == [i \in 1..n |-> [v \in T |-> D(i, v)]]
           f == Flat(ss, n)
<1>1. n \in Nat /\ n # 0 /\ \A i \in 1..n : ss[i] \in T
  BY <1>0, LengthFacts
<1>2. e \in T
  BY EmptyFacts
<1>3. \A i \in 1..n : \A v \in T : D(i, v) \in T
  BY <1>1, JoinFacts
<1>4. \A i \in 1..n : D(i, e) = ss[i]
  <2>1. \A v \in T : e \o v = v
    OBVIOUS
  <2> QED
    BY <1>1, <2>1
<1>5. Texts!FlattenSeq(ss) = f[n]
  BY <1>0 DEF Texts!FlattenSeq, Flat
<1> DEFINE IsFlat(h) == h = [i \in 1..n |-> IF i = 1 THEN ss[i] ELSE D(i, h[i - 1])]
<1>6. f = CHOOSE h : IsFlat(h)
  BY DEF Flat
<1> HIDE DEF n, T, e, D, f
<1>7. StepsIn(T, g, n) /\ \A i \in 1..n : \A v \in T : g[i][v] = D(i, v)
  BY <1>3 DEF StepsIn
<1> HIDE DEF g
<1>7a. PICK h : RunOf(h, T, e, g, n)
  BY <1>1, <1>2, <1>7, RecursionExists
<1>8. h \in [0..n -> T] /\ \A i \in 0..n : h[i] = IF i = 0 THEN e ELSE g[i][h[i - 1]]
  BY <1>7a DEF RunOf
<1>9. h[0] = e /\ h[1] = g[1][e]
  BY <1>1, <1>8
<1>10. h[1] = ss[1]
  BY <1>1, <1>2, <1>4, <1>7, <1>9
<1>11. \A i \in 2..n : i - 1 \in 1..n /\ h[i - 1] \in T /\ h[i] = D(i, h[i - 1])
  BY <1>1, <1>7, <1>8
<1> DEFINE k == [i \in 1..n |-> h[i]]
<1>12. DOMAIN k = 1..n /\ \A i \in 1..n : k[i] = h[i]
  OBVIOUS
<1>13. k = [i \in 1..n |-> IF i = 1 THEN ss[i] ELSE D(i, k[i - 1])]
  <2>1. \A i \in 1..n : h[i] = IF i = 1 THEN ss[i] ELSE D(i, h[i - 1])
    BY <1>1, <1>10, <1>11
  <2>2. \A i \in 1..n : i # 1 => k[i - 1] = h[i - 1]
    BY <1>1, <1>11, <1>12
  <2>3. \A i \in 1..n : h[i] = IF i = 1 THEN ss[i] ELSE D(i, k[i - 1])
    BY <2>1, <2>2
  <2> QED
    BY <2>3
<1> HIDE DEF k
<1>14. IsFlat(f)
  <2>1. IsFlat(k)
    BY <1>13
  <2> HIDE DEF IsFlat
  <2> QED
    BY <1>6, <2>1
<1>15. DOMAIN f = 1..n /\ \A i \in 1..n : f[i] = IF i = 1 THEN ss[i] ELSE D(i, f[i - 1])
  BY <1>14
<1>16. f[1] = ss[1] /\ \A i \in 2..n : f[i] = D(i, f[i - 1])
  BY <1>1, <1>15
<1> DEFINE P == {m \in 0..n : m = 0 \/ f[m] \in T}
<1>17. \A m \in 0..n : m \in P
  <2>1. 0 \in P
    BY <1>1
  <2>2. ASSUME NEW m \in 1..n, m - 1 \in P PROVE m \in P
    <3>1. CASE m = 1
      BY <1>1, <1>16, <3>1
    <3>2. CASE m # 1
      <4>1. m \in 2..n /\ f[m - 1] \in T
        BY <1>1, <2>2, <3>2
      <4> QED
        BY <1>3, <1>16, <4>1
    <3> QED
      BY <3>1, <3>2
  <2> HIDE DEF P
  <2> QED
    BY <1>1, <2>1, <2>2, StepByStep
<1>18. \A m \in 1..n : f[m] \in T
  BY <1>1, <1>17
<1>19. f \in [1..n -> T]
  BY <1>14, <1>18
<1> QED
  BY <1>5, <1>16, <1>19 DEF FlatRuns, f, D, n, T

LEMMA EmptyFlat ==
  ASSUME NEW ss, Len(ss) = 0
  PROVE  Texts!FlattenSeq(ss) = ss
BY DEF Texts!FlattenSeq

Joins(t, a, b) ==
  /\ Len(t) = Len(a) + Len(b)
  /\ \A i \in 1..Len(a) : t[i] = a[i]
  /\ \A i \in 1..Len(b) : t[Len(a) + i] = b[i]

LEMMA LaidOn ==
  ASSUME NEW m \in Nat \ {0}, NEW t, NEW a, NEW b, NEW c, NEW ss, b = ss[m],
         Len(a) \in Nat, Len(b) \in Nat, Joins(t, a, b), Laid(a, c, ss, m - 1),
         c[m] = c[m - 1] + Len(b)
  PROVE  Laid(t, c, ss, m)
<1> DEFINE p == Len(a)
           q == Len(b)
<1>1. /\ p \in Nat /\ q \in Nat /\ Len(t) = p + q
      /\ (\A i \in 1..p : t[i] = a[i]) /\ \A i \in 1..q : t[p + i] = b[i]
  BY DEF Joins
<1>2. /\ p = c[m - 1] /\ c[m] = p + q
      /\ \A i \in 1..(m - 1) : \A j \in 1..Len(ss[i]) :
            c[i - 1] + j \in 1..p /\ a[c[i - 1] + j] = ss[i][j]
      /\ \A x \in 1..p : \E i \in 1..(m - 1) : \E j \in 1..Len(ss[i]) : x = c[i - 1] + j
  BY DEF Laid
<1>3. Len(ss[m]) = q
  OBVIOUS
<1> HIDE DEF p, q
<1>4. ASSUME NEW i \in 1..m, NEW j \in 1..Len(ss[i])
      PROVE  c[i - 1] + j \in 1..(p + q) /\ t[c[i - 1] + j] = ss[i][j]
  <2>1. CASE i = m
    <3>1. c[i - 1] = p /\ ss[i] = b /\ j \in 1..q
      BY <1>2, <1>3, <2>1
    <3>2. p + j \in 1..(p + q) /\ t[p + j] = b[j]
      BY <1>1, <3>1
    <3> QED
      BY <3>1, <3>2
  <2>2. CASE i # m
    <3>1. i \in 1..(m - 1)
      BY <2>2
    <3>2. c[i - 1] + j \in 1..p /\ a[c[i - 1] + j] = ss[i][j]
      BY <1>2, <3>1
    <3> DEFINE y == c[i - 1] + j
    <3>3. y \in 1..p /\ a[y] = ss[i][j]
      BY <3>2
    <3> HIDE DEF y
    <3>4. y \in 1..(p + q)
      BY <1>1, <3>3
    <3>5. t[y] = a[y]
      BY <1>1, <3>3
    <3> QED
      BY <3>3, <3>4, <3>5 DEF y
  <2> QED
    BY <2>1, <2>2
<1>5. ASSUME NEW x \in 1..(p + q)
      PROVE  \E i \in 1..m : \E j \in 1..Len(ss[i]) : x = c[i - 1] + j
  <2>1. CASE x \in 1..p
    <3>1. PICK i \in 1..(m - 1) : \E j \in 1..Len(ss[i]) : x = c[i - 1] + j
      BY <1>2, <2>1
    <3> QED
      BY <3>1
  <2>2. CASE x \notin 1..p
    <3>1. x - p \in 1..Len(ss[m]) /\ x = c[m - 1] + (x - p) /\ m \in 1..m
      BY <1>1, <1>2, <1>3, <2>2
    <3> QED
      BY <3>1
  <2> QED
    BY <2>1, <2>2
<1> QED
  BY <1>1, <1>2, <1>4, <1>5 DEF Laid
\* What FlattenSeq makes of a sequence of texts.
LEMMA FlattenFacts ==
  ASSUME NEW S, NEW ss
  PROVE  ss \in Seq(Seq(S)) =>
           /\ Texts!FlattenSeq(ss) \in Seq(S)
           /\ \E c : PieceEnds(c, ss, Len(ss)) /\ Laid(Texts!FlattenSeq(ss), c, ss, Len(ss))
<1>0. SUFFICES ASSUME ss \in Seq(Seq(S))
               PROVE  /\ Texts!FlattenSeq(ss) \in Seq(S)
                      /\ \E c : PieceEnds(c, ss, Len(ss)) /\ Laid(Texts!FlattenSeq(ss), c, ss, Len(ss))
  OBVIOUS
<1> DEFINE n == Len(ss)
           T == Seq(S)
           t == Texts!FlattenSeq(ss)
           f == Flat(ss, n)
<1>1. n \in Nat /\ (\A i \in 1..n : ss[i] \in T) /\ (n = 0 => ss = <<>>)
  BY <1>0, LengthFacts
<1>2. \A v \in T : Len(v) \in Nat
  BY LengthFacts
<1>3. \A v, w \in T : Joins(v \o w, v, w)
  BY JoinFacts DEF Joins
<1>4. <<>> \in T /\ Len(<<>>) = 0
  BY EmptyFacts
<1>5. n # 0 => /\ t = f[n] /\ f \in [1..n -> T] /\ f[1] = ss[1]
               /\ \A i \in 2..n : f[i] = f[i - 1] \o ss[i]
  BY <1>0, FlatFacts DEF FlatRuns
<1>6. n = 0 => t = <<>>
  BY <1>1 DEF Texts!FlattenSeq
<1>7. n # 0 => \A i \in 2..n : Joins(f[i], f[i - 1], ss[i])
  <2> HIDE DEF n, T, f, t
  <2> SUFFICES ASSUME n # 0, NEW i \in 2..n PROVE Joins(f[i], f[i - 1], ss[i])
    OBVIOUS
  <2>1. i - 1 \in 1..n /\ i \in 1..n
    BY <1>1
  <2>2. f[i - 1] \in T /\ ss[i] \in T
    BY <1>1, <1>5, <2>1
  <2>3. Joins(f[i - 1] \o ss[i], f[i - 1], ss[i])
    BY <1>3, <2>2, Zenon
  <2> QED
    BY <1>5, <2>3
<1> HIDE DEF n, T, f, t
<1>8. CASE n = 0
  <2> DEFINE c == [i \in 0..0 |-> 0]
  <2>1. c \in [0..0 -> Nat] /\ c[0] = 0
    OBVIOUS
  <2> HIDE DEF c
  <2>2. PieceEnds(c, ss, 0)
    BY <2>1 DEF PieceEnds
  <2>3. Laid(t, c, ss, 0)
    BY <1>4, <1>6, <1>8, <2>1 DEF Laid
  <2> QED
    BY <1>4, <1>6, <1>8, <2>2, <2>3 DEF n, T, t
<1>9. CASE n # 0
  <2> DEFINE c == [i \in 0..n |-> IF i = 0 THEN 0 ELSE Len(f[i])]
  <2>1. \A i \in 1..n : f[i] \in T /\ Len(f[i]) \in Nat /\ Len(ss[i]) \in Nat /\ c[i] = Len(f[i])
    BY <1>1, <1>2, <1>5, <1>9
  <2>2. c \in [0..n -> Nat] /\ c[0] = 0
    BY <1>1, <2>1
  <2> HIDE DEF c
  <2>3. ASSUME NEW i \in 1..n PROVE c[i] = c[i - 1] + Len(ss[i])
    <3>1. CASE i = 1
      BY <1>5, <1>9, <2>1, <2>2, <3>1
    <3>2. CASE i # 1
      <4>1. i \in 2..n /\ i - 1 \in 1..n
        BY <1>1, <3>2
      <4>2. Len(f[i]) = Len(f[i - 1]) + Len(ss[i])
        BY <1>7, <1>9, <4>1 DEF Joins
      <4> QED
        BY <2>1, <4>1, <4>2
    <3> QED
      BY <3>1, <3>2
  <2>4. PieceEnds(c, ss, n)
    BY <2>2, <2>3 DEF PieceEnds
  <2> DEFINE P == {m \in 0..n : m = 0 \/ Laid(f[m], c, ss, m)}
  <2>5. \A m \in 0..n : m \in P
    <3>1. 0 \in P
      BY <1>1
    <3>2. ASSUME NEW m \in 1..n, m - 1 \in P PROVE m \in P
      <4>1. CASE m = 1
        <5>1. f[1] = ss[1] /\ Len(ss[1]) \in Nat /\ c[1] = Len(ss[1]) /\ c[0] = 0 /\ 1 - 1 = 0
          BY <1>1, <1>5, <1>9, <2>1, <2>2, <4>1
        <5>2. Laid(f[1], c, ss, 1)
          BY <5>1 DEF Laid
        <5> QED
          BY <4>1, <5>2
      <4>2. CASE m # 1
        <5>1. m \in 2..n /\ m - 1 \in 1..n /\ Laid(f[m - 1], c, ss, m - 1) /\ m \in Nat \ {0}
          BY <1>1, <3>2, <4>2
        <5>2. Joins(f[m], f[m - 1], ss[m])
          BY <1>7, <1>9, <5>1
        <5>3. Len(f[m - 1]) \in Nat /\ Len(ss[m]) \in Nat /\ c[m] = c[m - 1] + Len(ss[m])
          BY <2>1, <2>3, <5>1
        <5>4. Laid(f[m], c, ss, m)
          BY <5>1, <5>2, <5>3, LaidOn
        <5> QED
          BY <5>4
      <4> QED
        BY <4>1, <4>2
    <3> HIDE DEF P
    <3> QED
      BY <1>1, <3>1, <3>2, StepByStep
  <2>6. Laid(t, c, ss, n)
    BY <1>1, <1>5, <1>9, <2>5
  <2>7. t \in T
    BY <1>1, <1>5, <1>9
  <2> QED
    BY <2>4, <2>6, <2>7 DEF n, T, t
<1> QED
  BY <1>8, <1>9
-----------------------------------------------------------------------------
(* Prefixes.                                                               *)
LEMMA PrefixFacts ==
  ASSUME NEW S, NEW a \in Seq(S)
  PROVE  /\ \A i \in 0..Len(a) : SubSeq(a, 1, i) \in Seq(S) /\ Len(SubSeq(a, 1, i)) = i
         /\ \A i \in 1..Len(a) : Append(SubSeq(a, 1, i - 1), a[i]) = SubSeq(a, 1, i)
         /\ SubSeq(a, 1, 0) = <<>>
         /\ SubSeq(a, 1, Len(a)) = a
<1>1. \A i \in 0..Len(a) : SubSeq(a, 1, i) \in Seq(S) /\ Len(SubSeq(a, 1, i)) = i
  OBVIOUS
<1>2. ASSUME NEW i \in 1..Len(a) PROVE Append(SubSeq(a, 1, i - 1), a[i]) = SubSeq(a, 1, i)
  OBVIOUS
<1>3. SubSeq(a, 1, 0) = <<>>
  OBVIOUS
<1>4. SubSeq(a, 1, Len(a)) = a
  OBVIOUS
<1> QED
  BY <1>1, <1>2, <1>3, <1>4

(* The pieces of a text.                                                   *)

\* s is X[1], ..., X[n] with a d between them: X[i] ends before position c[i].
Between(s, d, X, c, n) ==
  /\ c \in [0..n -> Nat] /\ c[0] = 0
  /\ \A i \in 1..n : Len(X[i]) \in Nat /\ c[i] = c[i - 1] + Len(X[i]) + 1
  /\ Len(s) = c[n] - 1
  /\ \A i \in 1..n : \A j \in 1..Len(X[i]) : s[c[i - 1] + j] = X[i][j]
  /\ \A i \in 1..(n - 1) : s[c[i]] = d

LEMMA BetweenGrows ==
  ASSUME NEW s, NEW d, NEW X, NEW c, NEW n \in Nat, Between(s, d, X, c, n)
  PROVE  \A i \in 0..n : i = n \/ c[i] < c[n]
<1>0. /\ c \in [0..n -> Nat]
      /\ \A i \in 1..n : Len(X[i]) \in Nat /\ c[i] = c[i - 1] + Len(X[i]) + 1
  BY DEF Between
<1>1. c \in [0..n -> Nat] /\ \A i \in 1..n : c[i - 1] < c[i]
  <2>1. ASSUME NEW i \in 1..n PROVE c[i - 1] < c[i]
    <3>1. c[i - 1] \in Nat /\ Len(X[i]) \in Nat /\ c[i] = c[i - 1] + Len(X[i]) + 1
      BY <1>0
    <3> QED
      BY <3>1
  <2> QED
    BY <1>0, <2>1
<1> DEFINE P == {m \in 0..n : \A i \in 0..m : i = m \/ c[i] < c[m]}
<1>2. 0 \in P
  OBVIOUS
<1>3. ASSUME NEW m \in 1..n, m - 1 \in P PROVE m \in P
  <2>1. ASSUME NEW i \in 0..m, i # m PROVE c[i] < c[m]
    <3>1. i \in 0..(m - 1) /\ m - 1 \in 0..n /\ c[m - 1] < c[m] /\ c[i] \in Nat /\ c[m] \in Nat
          /\ c[m - 1] \in Nat
      BY <1>1, <2>1
    <3>2. i = m - 1 \/ c[i] < c[m - 1]
      BY <1>3, <3>1
    <3> QED
      BY <3>1, <3>2
  <2> QED
    BY <2>1
<1>4. n \in P
  <2> HIDE DEF P
  <2>1. \A i \in 0..n : i \in P
    BY <1>2, <1>3, StepByStep
  <2> QED
    BY <2>1
<1> QED
  BY <1>4

ReadOn(s, d, i, last) ==
  IF s[i] = d THEN [ended |-> KeepPiece(last.ended, last.open), open |-> <<>>]
  ELSE [last EXCEPT !.open = Append(@, s[i])]

ReadUp(s, d) ==
  CHOOSE f : f = [i \in 0..Len(s) |->
                    IF i = 0 THEN [ended |-> <<>>, open |-> <<>>] ELSE ReadOn(s, d, i, f[i - 1])]

LEMMA PiecesRead ==
  ASSUME NEW s, NEW d
  PROVE  Pieces(s, d) = KeepPiece(ReadUp(s, d)[Len(s)].ended, ReadUp(s, d)[Len(s)].open)
BY DEF Pieces, ReadUp, ReadOn

LEMMA ReadOnFacts ==
  ASSUME NEW S, NEW s \in Seq(S), NEW d, NEW i \in 1..Len(s),
         NEW last \in [ended : Seq(Seq(S)), open : Seq(S)]
  PROVE  ReadOn(s, d, i, last) \in [ended : Seq(Seq(S)), open : Seq(S)]
<1> DEFINE T == Seq(S)
           U == Seq(T)
<1>1. s[i] \in S /\ last.ended \in U /\ last.open \in T
  OBVIOUS
<1>2. Append(last.open, s[i]) \in T
  BY <1>1, TextAppendFacts
<1>3. Append(last.ended, last.open) \in U /\ <<>> \in T
  <2>1. last.ended \in Seq(T) /\ last.open \in T
    BY <1>1
  <2> HIDE DEF T
  <2>2. Append(last.ended, last.open) \in Seq(T)
    BY <2>1, TextAppendFacts
  <2> QED
    BY <2>2, EmptyFacts DEF T
<1>4. KeepPiece(last.ended, last.open) \in U
  BY <1>1, <1>3 DEF KeepPiece
<1> HIDE DEF T, U
<1>5. last \in [ended : U, open : T]
  BY DEF T, U
<1>6. ReadOn(s, d, i, last) \in [ended : U, open : T]
  BY <1>2, <1>3, <1>4, <1>5 DEF ReadOn
<1> QED
  BY <1>6 DEF T, U

LEMMA ReadUpFacts ==
  ASSUME NEW S, NEW s, NEW d
  PROVE  s \in Seq(S) =>
           /\ ReadUp(s, d) \in [0..Len(s) -> [ended : Seq(Seq(S)), open : Seq(S)]]
           /\ ReadUp(s, d)[0] = [ended |-> <<>>, open |-> <<>>]
           /\ \A i \in 1..Len(s) : ReadUp(s, d)[i] = ReadOn(s, d, i, ReadUp(s, d)[i - 1])
<1> DEFINE n == Len(s)
           V == [ended : Seq(Seq(S)), open : Seq(S)]
           e == [ended |-> <<>>, open |-> <<>>]
           D(i, v) == ReadOn(s, d, i, v)
           g == [i \in 1..n |-> [v \in V |-> D(i, v)]]
           f == ReadUp(s, d)
           IsRead(h) == h = [i \in 0..n |-> IF i = 0 THEN e ELSE D(i, h[i - 1])]
<1>0. SUFFICES ASSUME s \in Seq(S)
               PROVE  f \in [0..n -> V] /\ f[0] = e /\ \A i \in 1..n : f[i] = D(i, f[i - 1])
  OBVIOUS
<1>1. n \in Nat
  BY <1>0, LengthFacts
<1>2. e \in V
  BY EmptyFacts
<1>3. \A i \in 1..n : \A v \in V : D(i, v) \in V
  BY <1>0, ReadOnFacts
<1>4. f = CHOOSE h : IsRead(h)
  BY DEF ReadUp
<1> HIDE DEF n, V, e, D, f
<1>5. StepsIn(V, g, n) /\ \A i \in 1..n : \A v \in V : g[i][v] = D(i, v)
  BY <1>3 DEF StepsIn
<1> HIDE DEF g
<1>6. PICK h : RunOf(h, V, e, g, n)
  BY <1>1, <1>2, <1>5, RecursionExists
<1>7. h \in [0..n -> V] /\ \A i \in 0..n : h[i] = IF i = 0 THEN e ELSE g[i][h[i - 1]]
  BY <1>6 DEF RunOf
<1>8. \A i \in 0..n : h[i] = IF i = 0 THEN e ELSE D(i, h[i - 1])
  BY <1>1, <1>5, <1>7
<1>9. IsRead(h)
  BY <1>7, <1>8
<1>10. IsRead(f)
  <2> HIDE DEF IsRead
  <2> QED
    BY <1>4, <1>9
<1>11. f[0] = e /\ \A i \in 1..n : f[i] = D(i, f[i - 1])
  BY <1>1, <1>10
<1> DEFINE P == {m \in 0..n : f[m] \in V}
<1>12. \A m \in 0..n : m \in P
  <2>1. 0 \in P
    BY <1>1, <1>2, <1>11
  <2>2. ASSUME NEW m \in 1..n, m - 1 \in P PROVE m \in P
    BY <1>1, <1>3, <1>11, <2>2
  <2> HIDE DEF P
  <2> QED
    BY <1>1, <2>1, <2>2, StepByStep
<1>13. f \in [0..n -> V]
  BY <1>10, <1>12
<1> QED
  BY <1>11, <1>13
\* The pieces of a text are what stands between its delimiters.
LEMMA PiecesFacts ==
  ASSUME NEW S, NEW s, NEW d, NEW X, NEW c, NEW n
  PROVE  /\ s \in Seq(S) /\ X \in Seq(Seq(S)) /\ n = Len(X) /\ n # 0
         /\ \A i \in 1..n : X[i] # <<>> /\ \A j \in 1..Len(X[i]) : X[i][j] # d
         /\ Between(s, d, X, c, n)
         => Pieces(s, d) = X
<1> DEFINE T == Seq(S)
           U == Seq(T)
           V == [ended : U, open : T]
           z == Len(s)
           f == ReadUp(s, d)
           Part1(i) == SubSeq(X, 1, i)
           Open(i, j) == SubSeq(X[i], 1, j)
           HasRead(x, i, j) == x = c[i - 1] + j /\ f[x].ended = Part1(i - 1) /\ f[x].open = Open(i, j)
<1>0. SUFFICES ASSUME /\ s \in T /\ X \in U /\ n = Len(X) /\ n # 0
                      /\ \A i \in 1..n : X[i] # <<>> /\ \A j \in 1..Len(X[i]) : X[i][j] # d
                      /\ Between(s, d, X, c, n)
               PROVE  Pieces(s, d) = X
  OBVIOUS
<1>1. n \in Nat /\ z \in Nat /\ \A i \in 1..n : X[i] \in T
  BY <1>0, LengthFacts
<1>2. /\ c \in [0..n -> Nat] /\ c[0] = 0 /\ z = c[n] - 1
      /\ \A i \in 1..n : Len(X[i]) \in Nat /\ c[i] = c[i - 1] + Len(X[i]) + 1
      /\ \A i \in 1..n : \A j \in 1..Len(X[i]) : s[c[i - 1] + j] = X[i][j]
      /\ \A i \in 1..(n - 1) : s[c[i]] = d
  BY <1>0 DEF Between
<1>3. \A i \in 1..n : X[i] # <<>> /\ \A j \in 1..Len(X[i]) : X[i][j] # d
  BY <1>0
<1>4. \A i \in 0..n : i = n \/ c[i] < c[n]
  BY <1>0, <1>1, BetweenGrows
<1>5. /\ f \in [0..z -> V] /\ f[0] = [ended |-> <<>>, open |-> <<>>]
      /\ \A x \in 1..z : f[x] = ReadOn(s, d, x, f[x - 1])
  BY <1>0, ReadUpFacts
<1>6. /\ \A i \in 1..n : Append(Part1(i - 1), X[i]) = Part1(i)
      /\ Part1(0) = <<>> /\ Part1(n) = X
  <2>1. X \in Seq(T)
    BY <1>0
  <2> HIDE DEF T
  <2> QED
    BY <1>0, <2>1, PrefixFacts
<1>7. \A i \in 1..n :
        /\ \A j \in 1..Len(X[i]) : Append(Open(i, j - 1), X[i][j]) = Open(i, j)
        /\ Open(i, 0) = <<>> /\ Open(i, Len(X[i])) = X[i]
  BY <1>1, PrefixFacts
<1>8. Pieces(s, d) = KeepPiece(f[z].ended, f[z].open)
  BY PiecesRead
<1> HIDE DEF T, U, V, z, f, Part1, Open
<1>9. \A i \in 1..n : KeepPiece(Part1(i - 1), Open(i, Len(X[i]))) = Part1(i)
  BY <1>3, <1>6, <1>7 DEF KeepPiece
<1> DEFINE P == {x \in 0..z : \E i \in 1..n : \E j \in 0..Len(X[i]) : HasRead(x, i, j)}
<1>10. 0 \in P
  <2>1. 1 \in 1..n /\ 0 \in 0..Len(X[1]) /\ Part1(1 - 1) = <<>> /\ Open(1, 0) = <<>> /\ c[1 - 1] = 0
    BY <1>0, <1>1, <1>2, <1>6, <1>7
  <2>2. HasRead(0, 1, 0)
    BY <1>5, <2>1
  <2> QED
    BY <1>1, <2>1, <2>2
<1>11. ASSUME NEW x \in 1..z, x - 1 \in P PROVE x \in P
  <2>1. PICK i \in 1..n : \E j \in 0..Len(X[i]) : HasRead(x - 1, i, j)
    BY <1>11
  <2>2. PICK j \in 0..Len(X[i]) : HasRead(x - 1, i, j)
    BY <2>1
  <2> DEFINE k == Len(X[i])
  <2>3. /\ k \in Nat /\ c[i - 1] \in Nat /\ c[i] = c[i - 1] + k + 1 /\ x = c[i - 1] + j + 1
        /\ f[x] = ReadOn(s, d, x, f[x - 1]) /\ f[x - 1] \in V
    <3>1. k \in Nat /\ c[i - 1] \in Nat /\ c[i] = c[i - 1] + k + 1
      BY <1>1, <1>2
    <3>2. x - 1 = c[i - 1] + j /\ x - 1 \in 0..z /\ x \in 1..z
      BY <1>1, <2>2
    <3>3. f[x] = ReadOn(s, d, x, f[x - 1]) /\ f[x - 1] \in V
      BY <1>5, <3>2
    <3> HIDE DEF k
    <3>4. x = c[i - 1] + j + 1
      BY <3>1, <3>2
    <3> QED
      BY <3>1, <3>3, <3>4
  <2>4. CASE j < k
    <3>1. j + 1 \in 1..k /\ j + 1 \in 0..k /\ x = c[i - 1] + (j + 1) /\ (j + 1) - 1 = j
      BY <2>3, <2>4
    <3>2. s[x] = X[i][j + 1] /\ s[x] # d
      BY <1>2, <1>3, <3>1
    <3>3. f[x] = [f[x - 1] EXCEPT !.open = Append(@, s[x])]
      BY <2>3, <3>2 DEF ReadOn
    <3>4. f[x].ended = f[x - 1].ended /\ f[x].open = Append(f[x - 1].open, s[x])
      BY <2>3, <3>3 DEF V
    <3>5. Append(Open(i, j), X[i][j + 1]) = Open(i, j + 1)
      BY <1>7, <3>1
    <3>6. HasRead(x, i, j + 1)
      BY <2>2, <3>1, <3>2, <3>4, <3>5
    <3> QED
      BY <3>1, <3>6
  <2>5. CASE ~(j < k)
    <3>1. j = k /\ x = c[i]
      BY <2>3, <2>5
    <3>2. i # n
      BY <1>1, <1>2, <2>3, <3>1
    <3>3. i + 1 \in 1..n /\ i \in 1..(n - 1) /\ (i + 1) - 1 = i
      BY <1>1, <3>2
    <3>4. s[x] = d
      BY <1>2, <3>1, <3>3
    <3>5. f[x] = [ended |-> KeepPiece(f[x - 1].ended, f[x - 1].open), open |-> <<>>]
      BY <2>3, <3>4 DEF ReadOn
    <3>6. f[x].ended = Part1(i) /\ f[x].open = <<>>
      BY <1>9, <2>2, <3>1, <3>5
    <3>7. Open(i + 1, 0) = <<>> /\ 0 \in 0..Len(X[i + 1])
      BY <1>2, <1>7, <3>3
    <3>8. HasRead(x, i + 1, 0)
      BY <2>3, <3>1, <3>3, <3>6, <3>7
    <3> QED
      BY <3>3, <3>7, <3>8
  <2> QED
    BY <2>4, <2>5
<1>12. z \in P
  <2> HIDE DEF P
  <2>1. \A x \in 0..z : x \in P
    BY <1>1, <1>10, <1>11, StepByStep
  <2> QED
    BY <1>1, <2>1
<1>13. PICK i \in 1..n : \E j \in 0..Len(X[i]) : HasRead(z, i, j)
  BY <1>12
<1>14. PICK j \in 0..Len(X[i]) : HasRead(z, i, j)
  BY <1>13
<1> DEFINE k == Len(X[i])
<1>15. /\ k \in Nat /\ c[i - 1] \in Nat /\ c[i] \in Nat /\ c[n] \in Nat /\ c[i] = c[i - 1] + k + 1
       /\ c[n] - 1 = c[i - 1] + j /\ (i = n \/ c[i] < c[n])
  BY <1>1, <1>2, <1>4, <1>14
<1>16. i = n /\ j = k
  <2>1. j \in 0..k
    BY <1>14
  <2> HIDE DEF k
  <2>2. i = n
    <3> SUFFICES ASSUME c[i] < c[n] PROVE FALSE
      BY <1>15
    <3> QED
      BY <1>15, <2>1
  <2> QED
    BY <1>15, <2>1, <2>2
<1>17. KeepPiece(f[z].ended, f[z].open) = Part1(n)
  BY <1>9, <1>14, <1>16
<1> QED
  BY <1>6, <1>8, <1>17
-----------------------------------------------------------------------------
(* The keys of a query in the order of std::map.                           *)
Ordered == {Order[j] : j \in 1..Len(Order)}

LEMMA PlaceFacts ==
  ASSUME NEW c \in Ordered
  PROVE  Place(c) \in Int /\ Order[Place(c)] = c
<1>1. \E i \in 1..Len(Order) : Order[i] = c
  BY DEF Ordered
<1>2. Place(c) \in 1..Len(Order) /\ Order[Place(c)] = c
  BY <1>1 DEF Place
<1> QED
  BY <1>2

\* How s and t compare when they part after n characters.
Parted(s, t, n) ==
  /\ n \in 0..Len(s) /\ n <= Len(t) /\ \A i \in 1..n : s[i] = t[i]
  /\ \/ n = Len(s) /\ n < Len(t)
     \/ n < Len(s) /\ n < Len(t) /\ Place(s[n + 1]) < Place(t[n + 1])

LEMMA BeforeParts ==
  ASSUME NEW s, NEW t
  PROVE  Before(s, t) <=> \E n : Parted(s, t, n)
BY DEF Before, Parted

Key(s) == Len(s) \in Nat /\ \A i \in 1..Len(s) : Place(s[i]) \in Int

LEMMA BeforeIrreflexive ==
  ASSUME NEW s, Key(s)
  PROVE  ~Before(s, s)
<1>1. ASSUME NEW n, Parted(s, s, n) PROVE FALSE
  <2> DEFINE a == Len(s)
  <2>1. a \in Nat /\ n \in 0..a /\ ~(n < a /\ n = a)
        /\ (n < a => Place(s[n + 1]) < Place(s[n + 1]))
    BY <1>1 DEF Parted, Key
  <2>2. n < a
    BY <1>1 DEF Parted
  <2>3. n + 1 \in 1..a
    BY <2>1, <2>2
  <2>4. Place(s[n + 1]) \in Int
    BY <2>3 DEF Key
  <2> QED
    BY <2>1, <2>2, <2>4
<1> QED
  BY <1>1, BeforeParts

LEMMA BeforeTransitive ==
  ASSUME NEW s, NEW t, NEW w, Key(s), Key(t), Key(w), Before(s, t), Before(t, w)
  PROVE  Before(s, w)
<1> DEFINE a == Len(s)
           b == Len(t)
           c == Len(w)
<1>0. a \in Nat /\ b \in Nat /\ c \in Nat
  BY DEF Key
<1>1. PICK n : Parted(s, t, n)
  BY BeforeParts
<1>2. PICK m : Parted(t, w, m)
  BY BeforeParts
<1>3. /\ n \in 0..a /\ n < b /\ \A i \in 1..n : s[i] = t[i]
      /\ n = a \/ (n < a /\ Place(s[n + 1]) < Place(t[n + 1]))
  BY <1>0, <1>1 DEF Parted
<1>4. /\ m \in 0..b /\ m < c /\ \A i \in 1..m : t[i] = w[i]
      /\ m = b \/ (m < b /\ Place(t[m + 1]) < Place(w[m + 1]))
  BY <1>0, <1>2 DEF Parted
<1>5. /\ \A i \in 1..a : Place(s[i]) \in Int
      /\ \A i \in 1..b : Place(t[i]) \in Int
      /\ \A i \in 1..c : Place(w[i]) \in Int
  BY DEF Key
<1> HIDE DEF a, b, c
<1>6. ASSUME NEW k \in 0..a, k < c, \A i \in 1..k : s[i] = w[i],
             k = a \/ (k < a /\ Place(s[k + 1]) < Place(w[k + 1]))
      PROVE  Before(s, w)
  <2>1. Parted(s, w, k)
    BY <1>0, <1>6 DEF Parted, a, c
  <2> QED
    BY <2>1, BeforeParts
<1>7. CASE n < m
  <2>1. n + 1 \in 1..m /\ n < c /\ \A i \in 1..n : i \in 1..m
    BY <1>0, <1>3, <1>4, <1>7
  <2>2. t[n + 1] = w[n + 1] /\ \A i \in 1..n : s[i] = w[i]
    BY <1>3, <1>4, <2>1
  <2> QED
    BY <1>3, <1>6, <2>1, <2>2
<1>8. CASE n = m
  <2>1. m < b /\ n + 1 \in 1..b /\ n + 1 \in 1..c /\ (n < a => n + 1 \in 1..a)
    BY <1>0, <1>3, <1>4, <1>8
  <2>2. Place(t[n + 1]) < Place(w[n + 1]) /\ n < c /\ \A i \in 1..n : s[i] = w[i]
    BY <1>0, <1>3, <1>4, <1>8, <2>1
  <2>3. n < a => Place(s[n + 1]) < Place(w[n + 1])
    BY <1>3, <1>5, <2>1, <2>2
  <2> QED
    BY <1>3, <1>6, <2>2, <2>3
<1>9. CASE m < n
  <2>1. m < b /\ m < a /\ m + 1 \in 1..n /\ m \in 0..a /\ \A i \in 1..m : i \in 1..n
    BY <1>0, <1>3, <1>4, <1>9
  <2>2. s[m + 1] = t[m + 1] /\ \A i \in 1..m : s[i] = w[i]
    BY <1>3, <1>4, <2>1
  <2>3. Place(t[m + 1]) < Place(w[m + 1])
    BY <1>0, <1>4, <2>1
  <2> QED
    BY <1>4, <1>6, <2>1, <2>2, <2>3
<1> QED
  BY <1>0, <1>3, <1>4, <1>7, <1>8, <1>9

LEMMA BeforeTotal ==
  ASSUME NEW s, NEW t
  PROVE  s \in Seq(Ordered) /\ t \in Seq(Ordered) /\ s # t => Before(s, t) \/ Before(t, s)
<1>0. SUFFICES ASSUME s \in Seq(Ordered), t \in Seq(Ordered), s # t
               PROVE  Before(s, t) \/ Before(t, s)
  OBVIOUS
<1> DEFINE a == Len(s)
           b == Len(t)
           D == {i \in 1..a : i <= b /\ s[i] # t[i]}
<1>1. /\ a \in Nat /\ b \in Nat /\ (\A i \in 1..a : s[i] \in Ordered)
      /\ \A i \in 1..b : t[i] \in Ordered
  BY <1>0, LengthFacts
<1>2. a = b => \E i \in 1..a : s[i] # t[i]
  BY <1>0, SameText
<1> HIDE DEF a, b
<1>3. CASE D = {}
  <2>1. \A i \in 1..a : i <= b => s[i] = t[i]
    BY <1>3
  <2>2. a # b
    BY <1>1, <1>2, <2>1
  <2>3. CASE a < b
    <3>1. Parted(s, t, a)
      BY <1>1, <2>1, <2>3 DEF Parted, a, b
    <3> QED
      BY <3>1, BeforeParts
  <2>4. CASE b < a
    <3>1. Parted(t, s, b)
      BY <1>1, <2>1, <2>4 DEF Parted, a, b
    <3> QED
      BY <3>1, BeforeParts
  <2> QED
    BY <1>1, <2>2, <2>3, <2>4
<1>4. CASE D # {}
  <2>1. PICK m \in D : \A j \in D : m <= j
    <3>1. D \subseteq Nat
      BY <1>1
    <3> HIDE DEF D
    <3> QED
      BY <1>4, <3>1, LeastNatural
  <2>2. m \in 1..a /\ m \in 1..b /\ s[m] # t[m]
    BY <1>1
  <2> DEFINE n == m - 1
  <2>3. n \in 0..a /\ n \in 0..b /\ n < a /\ n < b /\ n + 1 = m
    BY <1>1, <2>2
  <2>4. \A i \in 1..n : s[i] = t[i]
    <3>1. ASSUME NEW i \in 1..n, s[i] # t[i] PROVE FALSE
      <4>1. i \in D /\ i < m
        BY <1>1, <2>2, <3>1
      <4> HIDE DEF D
      <4>2. m <= i
        BY <2>1, <4>1
      <4> QED
        BY <2>2, <4>1, <4>2
    <3> QED
      BY <3>1
  <2>5. /\ Place(s[m]) \in Int /\ Place(t[m]) \in Int
        /\ Order[Place(s[m])] = s[m] /\ Order[Place(t[m])] = t[m]
    BY <1>1, <2>2, PlaceFacts
  <2>6. Place(s[m]) # Place(t[m])
    BY <2>2, <2>5
  <2> HIDE DEF n, D
  <2>7. CASE Place(s[m]) < Place(t[m])
    <3>1. Parted(s, t, n)
      BY <1>1, <2>3, <2>4, <2>7 DEF Parted, a, b
    <3> QED
      BY <3>1, BeforeParts
  <2>8. CASE Place(t[m]) < Place(s[m])
    <3>1. Parted(t, s, n)
      BY <1>1, <2>3, <2>4, <2>8 DEF Parted, a, b
    <3> QED
      BY <3>1, BeforeParts
  <2> QED
    BY <2>5, <2>6, <2>7, <2>8
<1> QED
  BY <1>3, <1>4
\* keys lists the keys of q, each once: k is at place at[k].
Lists(keys, at, q, n) ==
  /\ n \in Nat /\ keys \in [1..n -> DOMAIN q] /\ at \in [DOMAIN q -> 1..n]
  /\ \A i \in 1..n : at[keys[i]] = i
  /\ \A k \in DOMAIN q : keys[at[k]] = k

Under(q, k) == {l \in DOMAIN q : Before(l, k)}

Rank(q, k) == Cardinality(Under(q, k))

LEMMA KeysFacts ==
  ASSUME NEW q, IsFiniteSet(DOMAIN q), DOMAIN q \subseteq Seq(Ordered)
  PROVE  \E at : Lists(Keys(q), at, q, Cardinality(DOMAIN q))
<1> DEFINE K == DOMAIN q
           n == Cardinality(K)
           under(k) == Under(q, k)
           rank(k) == Rank(q, k)
           r == [k \in K |-> rank(k)]
           keys == Keys(q)
<1>1. n \in Nat
  BY FS_CardinalityType
<1>2. \A k \in K : Key(k)
  <2> SUFFICES ASSUME NEW k \in K PROVE Key(k)
    OBVIOUS
  <2>1. Len(k) \in Nat /\ \A i \in 1..Len(k) : k[i] \in Ordered
    BY LengthFacts
  <2> QED
    BY <2>1, PlaceFacts DEF Key
<1>3. \A k \in K : ~Before(k, k)
  BY <1>2, BeforeIrreflexive
<1>4. \A k, l, m \in K : Before(k, l) /\ Before(l, m) => Before(k, m)
  BY <1>2, BeforeTransitive
<1>5. \A k, l \in K : k = l \/ Before(k, l) \/ Before(l, k)
  BY BeforeTotal
<1>6. keys = [i \in 1..n |-> CHOOSE k \in K : rank(k) = i - 1]
  BY DEF Keys, Rank, Under
<1>7. \A k \in K : IsFiniteSet(under(k)) /\ rank(k) \in Nat
  <2> SUFFICES ASSUME NEW k \in K PROVE IsFiniteSet(under(k)) /\ rank(k) \in Nat
    OBVIOUS
  <2>1. under(k) \in SUBSET K
    BY DEF Under
  <2>2. IsFiniteSet(under(k))
    BY <2>1, FS_Subset
  <2> QED
    BY <2>2, FS_CardinalityType DEF Rank
<1>8. \A k, l \in K : Before(k, l) => rank(k) < rank(l)
  <2> SUFFICES ASSUME NEW k \in K, NEW l \in K, Before(k, l) PROVE rank(k) < rank(l)
    OBVIOUS
  <2>1. under(k) \in SUBSET under(l) /\ k \in under(l) /\ k \notin under(k)
    BY <1>3, <1>4 DEF Under
  <2>2. IsFiniteSet(under(l)) /\ rank(k) \in Nat /\ rank(l) \in Nat
    BY <1>7
  <2>3. rank(k) <= rank(l) /\ (rank(l) = rank(k) => under(l) = under(k))
    BY <2>1, <2>2, FS_Subset DEF Rank
  <2>4. rank(k) # rank(l)
    BY <2>1, <2>3
  <2> QED
    BY <2>2, <2>3, <2>4
<1>9. \A k \in K : rank(k) < n
  <2> SUFFICES ASSUME NEW k \in K PROVE rank(k) < n
    OBVIOUS
  <2>1. under(k) \in SUBSET K /\ k \notin under(k)
    BY <1>3 DEF Under
  <2>2. rank(k) \in Nat
    BY <1>7
  <2>3. rank(k) <= n /\ (n = rank(k) => K = under(k))
    BY <2>1, FS_Subset DEF Rank
  <2>4. rank(k) # n
    BY <2>1, <2>3
  <2> QED
    BY <1>1, <2>2, <2>3, <2>4
<1> HIDE DEF K, n, rank, keys
<1>10. r \in [K -> 0..(n - 1)] /\ \A k \in K : r[k] = rank(k)
  <2>1. \A k \in K : rank(k) \in 0..(n - 1)
    BY <1>1, <1>7, <1>9
  <2> QED
    BY <2>1
<1> HIDE DEF r
<1>11. \A k, l \in K : r[k] = r[l] => k = l
  <2> SUFFICES ASSUME NEW k \in K, NEW l \in K, r[k] = r[l] PROVE k = l
    OBVIOUS
  <2>1. rank(k) = rank(l) /\ rank(k) \in Int
    BY <1>10
  <2>2. ~Before(k, l) /\ ~Before(l, k)
    BY <1>8, <2>1
  <2> QED
    BY <1>5, <2>2
<1>12. r \in Injection(K, 0..(n - 1))
  BY <1>10, <1>11 DEF Injection, IsInjective
<1>13. IsFiniteSet(0..(n - 1)) /\ Cardinality(0..(n - 1)) = n
  <2> DEFINE m == n - 1
  <2>1. 0 \in Int /\ m \in Int /\ n = m + 1 /\ m >= -1
    BY <1>1
  <2> HIDE DEF m
  <2>2. IsFiniteSet(0..m) /\ Cardinality(0..m) = IF 0 > m THEN 0 ELSE m - 0 + 1
    BY <2>1, FS_Interval
  <2>3. Cardinality(0..m) = n
    BY <2>1, <2>2
  <2> QED
    BY <2>2, <2>3 DEF m
<1>14. Cardinality(K) = Cardinality(0..(n - 1))
  BY <1>13 DEF n
<1>15. r \in Surjection(K, 0..(n - 1))
  BY <1>12, <1>13, <1>14, FS_Injection
<1>16. \A i \in 0..(n - 1) : \E k \in K : rank(k) = i
  BY <1>10, <1>15 DEF Surjection
<1>17. \A i \in 1..n : keys[i] \in K /\ rank(keys[i]) = i - 1
  <2> SUFFICES ASSUME NEW i \in 1..n PROVE keys[i] \in K /\ rank(keys[i]) = i - 1
    OBVIOUS
  <2>1. keys[i] = CHOOSE k \in K : rank(k) = i - 1
    BY <1>6
  <2>2. i - 1 \in 0..(n - 1)
    BY <1>1
  <2>3. \E k \in K : rank(k) = i - 1
    BY <1>16, <2>2
  <2> QED
    BY <2>1, <2>3
<1> DEFINE at == [k \in K |-> rank(k) + 1]
<1>18. at \in [K -> 1..n] /\ \A k \in K : at[k] = rank(k) + 1
  <2>1. \A k \in K : rank(k) \in 0..(n - 1)
    BY <1>10
  <2>2. \A k \in K : rank(k) + 1 \in 1..n
    BY <1>1, <2>1
  <2> QED
    BY <2>2
<1> HIDE DEF at
<1>19. \A i \in 1..n : at[keys[i]] = i
  BY <1>17, <1>18
<1>20. ASSUME NEW k \in K PROVE keys[at[k]] = k
  <2>1. at[k] \in 1..n /\ at[k] = rank(k) + 1 /\ rank(k) \in Int
    BY <1>10, <1>18
  <2>2. keys[at[k]] \in K /\ rank(keys[at[k]]) = rank(k)
    BY <1>17, <2>1
  <2> QED
    BY <1>10, <1>11, <2>2
<1>21. keys \in [1..n -> K]
  BY <1>6, <1>17
<1>22. Lists(keys, at, q, n)
  BY <1>1, <1>18, <1>19, <1>20, <1>21 DEF Lists, K
<1> QED
  BY <1>22 DEF keys, n, K

-----------------------------------------------------------------------------
(* t holds s behind its first k characters.                                *)
HoldsAt(t, k, s) ==
  /\ k \in Nat /\ Len(s) \in Nat /\ Len(t) \in Nat /\ k + Len(s) <= Len(t)
  /\ \A i \in 1..Len(s) : t[k + i] = s[i]

LEMMA HoldsIn ==
  ASSUME NEW t, NEW s, NEW r, NEW k, NEW m, HoldsAt(t, k, s), HoldsAt(s, m, r)
  PROVE  HoldsAt(t, k + m, r)
<1> DEFINE a == Len(t)
           b == Len(s)
           c == Len(r)
<1>1. a \in Nat /\ b \in Nat /\ k \in Nat /\ k + b <= a /\ \A i \in 1..b : t[k + i] = s[i]
  BY DEF HoldsAt
<1>2. c \in Nat /\ m \in Nat /\ m + c <= b /\ \A i \in 1..c : s[m + i] = r[i]
  BY DEF HoldsAt
<1> HIDE DEF a, b, c
<1>3. ASSUME NEW i \in 1..c PROVE t[(k + m) + i] = r[i]
  <2>1. m + i \in 1..b /\ (k + m) + i = k + (m + i)
    BY <1>1, <1>2
  <2> QED
    BY <1>1, <1>2, <2>1
<1>4. k + m \in Nat /\ (k + m) + c <= a
  BY <1>1, <1>2
<1> QED
  BY <1>1, <1>2, <1>3, <1>4 DEF HoldsAt, a, c

LEMMA HoldsJoin ==
  ASSUME NEW S, NEW a \in Seq(S), NEW b \in Seq(S)
  PROVE  /\ a \o b \in Seq(S) /\ Len(a \o b) = Len(a) + Len(b)
         /\ HoldsAt(a \o b, 0, a) /\ HoldsAt(a \o b, Len(a), b)
<1> DEFINE t == a \o b
           p == Len(a)
           q == Len(b)
<1>1. /\ t \in Seq(S) /\ Len(t) = p + q /\ (\A i \in 1..p : t[i] = a[i])
      /\ \A i \in 1..q : t[p + i] = b[i]
  BY JoinFacts
<1>2. p \in Nat /\ q \in Nat
  OBVIOUS
<1> HIDE DEF t, p, q
<1>3. HoldsAt(t, 0, a)
  BY <1>1, <1>2 DEF HoldsAt, p
<1>4. HoldsAt(t, p, b)
  BY <1>1, <1>2 DEF HoldsAt, p, q
<1> QED
  BY <1>1, <1>3, <1>4 DEF t, p, q

LEMMA HoldsCut ==
  ASSUME NEW S, NEW t \in Seq(S), NEW s, NEW k, HoldsAt(t, k, s)
  PROVE  s \in Seq(S) => SubSeq(t, k + 1, k + Len(s)) = s
<1> SUFFICES ASSUME s \in Seq(S) PROVE SubSeq(t, k + 1, k + Len(s)) = s
  OBVIOUS
<1> DEFINE m == k + 1
           n == k + Len(s)
           r == SubSeq(t, m, n)
<1>1. /\ k \in Nat /\ Len(s) \in Nat /\ Len(t) \in Nat /\ k + Len(s) <= Len(t)
      /\ \A i \in 1..Len(s) : t[k + i] = s[i]
  BY DEF HoldsAt
<1>2. m \in 1..(Len(t) + 1) /\ n \in (m - 1)..Len(t) /\ n - m + 1 = Len(s)
      /\ \A i \in 1..Len(s) : m + i - 1 = k + i
  BY <1>1
<1>3. r \in Seq(S) /\ Len(r) = n - m + 1 /\ \A i \in 1..(n - m + 1) : r[i] = t[m + i - 1]
  BY <1>2, CutFacts
<1> HIDE DEF r, m, n
<1>4. Len(r) = Len(s) /\ \A i \in 1..Len(r) : r[i] = s[i]
  BY <1>1, <1>2, <1>3
<1>5. r = s
  BY <1>3, <1>4, SameText
<1> QED
  BY <1>5 DEF r, m, n

-----------------------------------------------------------------------------
(* t holds X[1], ..., X[n] behind its first c[0] characters, each behind   *)
(* one of the characters D[1], ..., D[n]; X[i] ends at c[i].               *)
Chain(t, D, X, c, n) ==
  /\ n \in Nat /\ c \in [0..n -> Nat]
  /\ \A i \in 1..n :
       /\ Len(X[i]) \in Nat /\ c[i] = c[i - 1] + 1 + Len(X[i])
       /\ HoldsAt(t, c[i - 1] + 1, X[i]) /\ t[c[i - 1] + 1] = D[i]

LEMMA ChainGrows ==
  ASSUME NEW n \in Nat, NEW c \in [0..n -> Nat], \A i \in 1..n : c[i - 1] < c[i]
  PROVE  \A i \in 0..n : \A k \in 0..i : k = i \/ c[k] < c[i]
<1> DEFINE P == {i \in 0..n : \A k \in 0..i : k = i \/ c[k] < c[i]}
<1>1. 0 \in P
  OBVIOUS
<1>2. ASSUME NEW i \in 1..n, i - 1 \in P PROVE i \in P
  <2>1. c[i - 1] < c[i] /\ c[i] \in Nat /\ c[i - 1] \in Nat
    OBVIOUS
  <2>2. ASSUME NEW k \in 0..i, k # i PROVE c[k] < c[i]
    <3>1. k \in 0..(i - 1) /\ c[k] \in Nat
      BY <2>2
    <3>2. k = i - 1 \/ c[k] < c[i - 1]
      BY <1>2, <3>1
    <3> QED
      BY <2>1, <3>1, <3>2
  <2> QED
    BY <2>2
<1>3. \A i \in 0..n : i \in P
  <2> HIDE DEF P
  <2> QED
    BY <1>1, <1>2, StepByStep
<1> QED
  BY <1>3

LEMMA ChainSteps ==
  ASSUME NEW t, NEW D, NEW X, NEW c, NEW n, Chain(t, D, X, c, n)
  PROVE  /\ n \in Nat /\ c \in [0..n -> Nat]
         /\ \A i \in 1..n : /\ c[i - 1] \in Nat /\ c[i] \in Nat /\ Len(X[i]) \in Nat
                            /\ c[i] = c[i - 1] + 1 + Len(X[i]) /\ c[i - 1] < c[i]
                            /\ c[i] <= Len(t) /\ t[c[i - 1] + 1] = D[i]
                            /\ \A j \in 1..Len(X[i]) : t[c[i - 1] + 1 + j] = X[i][j]
         /\ \A i \in 0..n : \A k \in 0..i : k = i \/ c[k] < c[i]
<1>1. /\ n \in Nat /\ c \in [0..n -> Nat]
      /\ \A i \in 1..n :
           /\ Len(X[i]) \in Nat /\ c[i] = c[i - 1] + 1 + Len(X[i])
           /\ HoldsAt(t, c[i - 1] + 1, X[i]) /\ t[c[i - 1] + 1] = D[i]
  BY DEF Chain
<1>2. ASSUME NEW i \in 1..n
      PROVE /\ c[i - 1] \in Nat /\ c[i] \in Nat /\ Len(X[i]) \in Nat
            /\ c[i] = c[i - 1] + 1 + Len(X[i]) /\ c[i - 1] < c[i]
            /\ c[i] <= Len(t) /\ t[c[i - 1] + 1] = D[i]
            /\ \A j \in 1..Len(X[i]) : t[c[i - 1] + 1 + j] = X[i][j]
  <2>1. i - 1 \in 0..n /\ i \in 0..n
    BY <1>1
  <2>2. c[i - 1] \in Nat /\ c[i] \in Nat /\ Len(X[i]) \in Nat
        /\ c[i] = c[i - 1] + 1 + Len(X[i]) /\ t[c[i - 1] + 1] = D[i]
    BY <1>1, <2>1
  <2>3. HoldsAt(t, c[i - 1] + 1, X[i])
    BY <1>1
  <2> DEFINE k == c[i - 1] + 1
             z == Len(X[i])
  <2>4. Len(t) \in Nat /\ k + z <= Len(t) /\ \A j \in 1..z : t[k + j] = X[i][j]
    BY <2>3 DEF HoldsAt
  <2> QED
    BY <2>2, <2>4
<1>3. \A i \in 0..n : \A k \in 0..i : k = i \/ c[k] < c[i]
  <2>1. \A i \in 1..n : c[i - 1] < c[i]
    BY <1>2
  <2> QED
    BY <1>1, <2>1, ChainGrows
<1> QED
  BY <1>1, <1>2, <1>3

LEMMA ChainCovers ==
  ASSUME NEW t, NEW D, NEW X, NEW c, NEW n, Chain(t, D, X, c, n), NEW x \in (c[0] + 1)..c[n]
  PROVE  \E i \in 1..n : x = c[i - 1] + 1 \/ \E j \in 1..Len(X[i]) : x = c[i - 1] + 1 + j
<1>1. /\ n \in Nat /\ c \in [0..n -> Nat]
      /\ \A i \in 1..n : Len(X[i]) \in Nat /\ c[i] = c[i - 1] + 1 + Len(X[i])
  BY ChainSteps
<1> DEFINE P == {i \in 0..n : c[i] < x}
<1>2. ASSUME \A i \in 1..n : i - 1 \in P => i \in P PROVE FALSE
  <2>1. c[0] \in Nat /\ c[n] \in Nat
    BY <1>1
  <2>2. 0 \in P
    BY <1>1, <2>1
  <2>3. \A i \in 0..n : i \in P
    <3> HIDE DEF P
    <3> QED
      BY <1>1, <1>2, <2>2, StepByStep
  <2>4. c[n] < x
    BY <1>1, <2>3
  <2> QED
    BY <2>1, <2>4
<1>3. PICK i \in 1..n : i - 1 \in P /\ i \notin P
  BY <1>2
<1> DEFINE z == Len(X[i])
           b == c[i - 1]
           j == x - b - 1
<1>4. b \in Nat /\ c[i] \in Nat /\ z \in Nat /\ c[i] = b + 1 + z /\ x \in Int
      /\ b < x /\ x <= c[i]
  BY <1>1, <1>3
<1> HIDE DEF z, b
<1>5. x = b + 1 + j /\ (x = b + 1 \/ j \in 1..z)
  BY <1>4
<1> QED
  BY <1>5 DEF z, b

(* A longer text holds the same chain, further on.                         *)
LEMMA ChainMoves ==
  ASSUME NEW T, NEW k, NEW t, NEW D, NEW X, NEW c, NEW n, Chain(t, D, X, c, n), HoldsAt(T, k, t)
  PROVE  Chain(T, D, X, [i \in 0..n |-> k + c[i]], n)
<1>0. /\ n \in Nat /\ c \in [0..n -> Nat]
      /\ \A i \in 1..n :
           /\ Len(X[i]) \in Nat /\ c[i] = c[i - 1] + 1 + Len(X[i])
           /\ HoldsAt(t, c[i - 1] + 1, X[i]) /\ t[c[i - 1] + 1] = D[i]
  BY DEF Chain
<1>1. k \in Nat /\ Len(t) \in Nat /\ k + Len(t) <= Len(T) /\ \A i \in 1..Len(t) : T[k + i] = t[i]
  BY DEF HoldsAt
<1> DEFINE e == [i \in 0..n |-> k + c[i]]
<1>2. e \in [0..n -> Nat] /\ \A i \in 0..n : e[i] = k + c[i]
  BY <1>0, <1>1
<1> HIDE DEF e
<1>3. ASSUME NEW i \in 1..n
      PROVE  /\ Len(X[i]) \in Nat /\ e[i] = e[i - 1] + 1 + Len(X[i])
             /\ HoldsAt(T, e[i - 1] + 1, X[i]) /\ T[e[i - 1] + 1] = D[i]
  <2>1. /\ Len(X[i]) \in Nat /\ c[i] = c[i - 1] + 1 + Len(X[i])
        /\ HoldsAt(t, c[i - 1] + 1, X[i]) /\ t[c[i - 1] + 1] = D[i]
    BY <1>0
  <2>2. i \in 0..n /\ i - 1 \in 0..n /\ c[i - 1] \in Nat /\ e[i] = k + c[i] /\ e[i - 1] = k + c[i - 1]
    BY <1>0, <1>2
  <2> DEFINE b == c[i - 1]
             f == e[i - 1]
             y == Len(X[i])
  <2>0. b \in Nat /\ y \in Nat /\ c[i] = b + 1 + y /\ e[i] = k + c[i] /\ f = k + b
    BY <2>1, <2>2
  <2> HIDE DEF b, f, y
  <2>3a. e[i] = f + 1 + y /\ f + 1 = k + (b + 1)
    BY <1>1, <2>0
  <2>3. e[i] = e[i - 1] + 1 + Len(X[i]) /\ e[i - 1] + 1 = k + (c[i - 1] + 1)
    BY <2>3a DEF b, f, y
  <2>4. HoldsAt(T, e[i - 1] + 1, X[i])
    BY <2>1, <2>3, HoldsIn
  <2>5. c[i - 1] + 1 \in 1..Len(t)
    <3> DEFINE m == c[i - 1] + 1
               z == Len(X[i])
    <3>1. z \in Nat /\ m + z <= Len(t)
      BY <2>1 DEF HoldsAt
    <3> QED
      BY <1>1, <2>2, <3>1
  <2>6. T[e[i - 1] + 1] = D[i]
    BY <1>1, <2>1, <2>3, <2>5
  <2> QED
    BY <2>1, <2>3, <2>4, <2>6
<1>4. Chain(T, D, X, e, n)
  BY <1>0, <1>2, <1>3 DEF Chain
<1> QED
  BY <1>4 DEF e

(* A text is known by its chain.                                           *)
LEMMA ChainIsAll ==
  ASSUME NEW t, NEW s, NEW D, NEW X, NEW c, NEW e, NEW n,
         Chain(t, D, X, c, n), Chain(s, D, X, e, n), c[0] = 0, e[0] = 0,
         c[n] = Len(t), e[n] = Len(s)
  PROVE  Len(s) = Len(t) /\ \A x \in 1..Len(t) : t[x] = s[x]
<1>1. /\ n \in Nat /\ c \in [0..n -> Nat]
      /\ \A i \in 1..n : /\ c[i] = c[i - 1] + 1 + Len(X[i]) /\ t[c[i - 1] + 1] = D[i]
                         /\ \A j \in 1..Len(X[i]) : t[c[i - 1] + 1 + j] = X[i][j]
  BY ChainSteps
<1>2. /\ e \in [0..n -> Nat]
      /\ \A i \in 1..n : /\ e[i] = e[i - 1] + 1 + Len(X[i]) /\ s[e[i - 1] + 1] = D[i]
                         /\ \A j \in 1..Len(X[i]) : s[e[i - 1] + 1 + j] = X[i][j]
  BY ChainSteps
<1> DEFINE P == {i \in 0..n : c[i] = e[i]}
<1>3. \A i \in 0..n : c[i] = e[i]
  <2>1. 0 \in P
    BY <1>1
  <2>2. ASSUME NEW i \in 1..n, i - 1 \in P PROVE i \in P
    BY <1>1, <1>2, <2>2
  <2>3. \A i \in 0..n : i \in P
    <3> HIDE DEF P
    <3> QED
      BY <1>1, <2>1, <2>2, StepByStep
  <2> QED
    BY <2>3
<1>4. Len(s) = Len(t)
  BY <1>1, <1>3
<1>5. ASSUME NEW x \in 1..Len(t) PROVE t[x] = s[x]
  <2>1. x \in (c[0] + 1)..c[n]
    BY <1>1
  <2>2. PICK i \in 1..n : x = c[i - 1] + 1 \/ \E j \in 1..Len(X[i]) : x = c[i - 1] + 1 + j
    BY <2>1, ChainCovers
  <2>3. c[i - 1] = e[i - 1]
    BY <1>1, <1>3
  <2>4. CASE x = c[i - 1] + 1
    BY <1>1, <1>2, <2>3, <2>4
  <2>5. CASE x # c[i - 1] + 1
    <3>1. PICK j \in 1..Len(X[i]) : x = c[i - 1] + 1 + j
      BY <2>2, <2>5
    <3>2. t[c[i - 1] + 1 + j] = X[i][j] /\ s[e[i - 1] + 1 + j] = X[i][j]
      BY <1>1, <1>2
    <3> QED
      BY <2>3, <3>1, <3>2
  <2> QED
    BY <2>4, <2>5
<1> QED
  BY <1>4, <1>5

(* The items of a chain stand between their delimiters.                    *)
LEMMA ChainBetween ==
  ASSUME NEW S, NEW t \in Seq(S), NEW d, NEW D, NEW X, NEW c, NEW n, Chain(t, D, X, c, n),
         n # 0, \A i \in 2..n : D[i] = d
  PROVE  Between(SubSeq(t, c[0] + 2, c[n]), d, X, [i \in 0..n |-> c[i] - c[0]], n)
<1>1. /\ n \in Nat /\ c \in [0..n -> Nat]
      /\ \A i \in 1..n : /\ c[i - 1] \in Nat /\ c[i] \in Nat /\ Len(X[i]) \in Nat
                         /\ c[i] = c[i - 1] + 1 + Len(X[i]) /\ c[i - 1] < c[i]
                         /\ c[i] <= Len(t) /\ t[c[i - 1] + 1] = D[i]
                         /\ \A j \in 1..Len(X[i]) : t[c[i - 1] + 1 + j] = X[i][j]
      /\ \A i \in 0..n : \A k \in 0..i : k = i \/ c[k] < c[i]
  BY ChainSteps
<1> DEFINE b == c[0]
           z == c[n]
           s == SubSeq(t, b + 2, z)
           e == [i \in 0..n |-> c[i] - b]
<1>2. b \in Nat /\ z \in Nat /\ b < z /\ z <= Len(t) /\ Len(t) \in Nat
  BY <1>1
<1>3. Len(s) = z - b - 1 /\ \A x \in 1..(z - b - 1) : s[x] = t[b + 1 + x]
  <2> DEFINE m == b + 2
             r == SubSeq(t, m, z)
  <2> HIDE DEF b, z
  <2>1. m \in 1..(Len(t) + 1) /\ z \in (m - 1)..Len(t) /\ z - m + 1 = z - b - 1
        /\ \A x \in 1..(z - b - 1) : m + x - 1 = b + 1 + x
    BY <1>2
  <2> HIDE DEF m
  <2>2. Len(r) = z - m + 1 /\ \A i \in 1..(z - m + 1) : r[i] = t[m + i - 1]
    BY <2>1, CutFacts
  <2> HIDE DEF r, m
  <2>3. Len(r) = z - b - 1 /\ \A x \in 1..(z - b - 1) : r[x] = t[b + 1 + x]
    BY <2>1, <2>2
  <2> QED
    BY <2>3 DEF r, m, b, z
<1> HIDE DEF s
<1>4. \A i \in 0..n : c[i] - b \in Nat /\ c[i] <= z
  <2> SUFFICES ASSUME NEW i \in 0..n PROVE c[i] - b \in Nat /\ c[i] <= z
    OBVIOUS
  <2>1. c[i] \in Nat /\ (i = 0 \/ c[0] < c[i]) /\ (i = n \/ c[i] < c[n])
    BY <1>1
  <2> QED
    BY <1>2, <2>1
<1>5. e \in [0..n -> Nat] /\ e[0] = 0 /\ \A i \in 0..n : e[i] = c[i] - b
  BY <1>1, <1>2, <1>4
<1> HIDE DEF e
<1>6. ASSUME NEW i \in 1..n
      PROVE  /\ Len(X[i]) \in Nat /\ e[i] = e[i - 1] + Len(X[i]) + 1
             /\ \A j \in 1..Len(X[i]) : s[e[i - 1] + j] = X[i][j]
             /\ i < n => s[e[i]] = d
  <2> DEFINE k == Len(X[i])
             a == c[i - 1]
             f == e[i - 1]
             g == c[i]
             h == e[i]
  <2>1. /\ k \in Nat /\ a \in Nat /\ g \in Nat /\ g = a + 1 + k
        /\ \A j \in 1..k : t[a + 1 + j] = X[i][j]
    BY <1>1
  <2>2. h = g - b /\ f = a - b /\ a - b \in Nat /\ g <= z
    <3>1. i \in 0..n /\ i - 1 \in 0..n
      BY <1>1
    <3> QED
      BY <1>4, <1>5, <3>1
  <2> HIDE DEF k, a, f, g, h, b, z
  <2>3. h = f + k + 1
    BY <1>2, <2>1, <2>2
  <2>4. ASSUME NEW j \in 1..k PROVE s[f + j] = X[i][j]
    <3>1. f + j \in 1..(z - b - 1) /\ b + 1 + (f + j) = a + 1 + j
      BY <1>2, <2>1, <2>2
    <3> QED
      BY <1>3, <2>1, <3>1
  <2>5. ASSUME i < n PROVE s[h] = d
    <3>1. i + 1 \in 1..n /\ i + 1 \in 2..n /\ (i + 1) - 1 = i /\ i + 1 \in 0..n
      BY <1>1, <2>5
    <3> DEFINE y == c[i + 1]
    <3>2. t[g + 1] = d /\ g < y /\ y \in Nat /\ y <= z
      BY <1>1, <1>4, <3>1 DEF g
    <3> HIDE DEF y
    <3>3. h \in 1..(z - b - 1) /\ b + 1 + h = g + 1
      BY <1>2, <2>1, <2>2, <3>2
    <3> QED
      BY <1>3, <3>2, <3>3
  <2> QED
    BY <2>1, <2>3, <2>4, <2>5 DEF k, a, f, g, h
<1>7. Len(s) = e[n] - 1
  BY <1>1, <1>2, <1>3, <1>5
<1>8. \A i \in 1..(n - 1) : i \in 1..n /\ i < n
  BY <1>1
<1>9. Between(s, d, X, e, n)
  BY <1>5, <1>6, <1>7, <1>8 DEF Between
<1> QED
  BY <1>9 DEF s, e

(* One character, and a text behind or before it.                          *)
LEMMA HoldsOne ==
  ASSUME NEW t, NEW k, NEW d, HoldsAt(t, k, <<d>>)
  PROVE  k + 1 \in 1..Len(t) /\ t[k + 1] = d
<1>1. Len(<<d>>) = 1 /\ <<d>>[1] = d /\ 1 \in 1..1
  OBVIOUS
<1> DEFINE z == Len(t)
<1>2. k \in Nat /\ z \in Nat /\ k + 1 <= z /\ t[k + 1] = d
  BY <1>1 DEF HoldsAt
<1> HIDE DEF z
<1>3. k + 1 \in 1..z
  BY <1>2
<1> QED
  BY <1>2, <1>3 DEF z

LEMMA OneText ==
  ASSUME NEW S, NEW d \in S
  PROVE  <<d>> \in Seq(S) /\ Len(<<d>>) = 1
OBVIOUS

LEMMA JoinOne ==
  ASSUME NEW S, NEW d \in S, NEW x
  PROVE  x \in Seq(S) =>
           /\ Len(x) \in Nat
           /\ /\ <<d>> \o x \in Seq(S) /\ Len(<<d>> \o x) = 1 + Len(x)
              /\ HoldsAt(<<d>> \o x, 0, <<d>>) /\ HoldsAt(<<d>> \o x, 1, x)
           /\ /\ x \o <<d>> \in Seq(S) /\ Len(x \o <<d>>) = Len(x) + 1
              /\ HoldsAt(x \o <<d>>, 0, x) /\ HoldsAt(x \o <<d>>, Len(x), <<d>>)
           /\ <<>> \o x = x /\ HoldsAt(x, 0, x)
<1>0. SUFFICES ASSUME x \in Seq(S)
      PROVE  /\ Len(x) \in Nat
             /\ /\ <<d>> \o x \in Seq(S) /\ Len(<<d>> \o x) = 1 + Len(x)
                /\ HoldsAt(<<d>> \o x, 0, <<d>>) /\ HoldsAt(<<d>> \o x, 1, x)
             /\ /\ x \o <<d>> \in Seq(S) /\ Len(x \o <<d>>) = Len(x) + 1
                /\ HoldsAt(x \o <<d>>, 0, x) /\ HoldsAt(x \o <<d>>, Len(x), <<d>>)
             /\ <<>> \o x = x /\ HoldsAt(x, 0, x)
  OBVIOUS
<1> DEFINE u == <<d>>
<1>1. u \in Seq(S) /\ Len(u) = 1
  BY OneText
<1>2. <<>> \o x = x /\ Len(x) \in Nat
  BY <1>0
<1>3. HoldsAt(x, 0, x)
  BY <1>2 DEF HoldsAt
<1> HIDE DEF u
<1>4. /\ u \o x \in Seq(S) /\ Len(u \o x) = 1 + Len(x)
      /\ HoldsAt(u \o x, 0, u) /\ HoldsAt(u \o x, 1, x)
  BY <1>0, <1>1, HoldsJoin
<1>5. /\ x \o u \in Seq(S) /\ Len(x \o u) = Len(x) + 1
      /\ HoldsAt(x \o u, 0, x) /\ HoldsAt(x \o u, Len(x), u)
  BY <1>0, <1>1, HoldsJoin
<1> QED
  BY <1>2, <1>3, <1>4, <1>5 DEF u

(* A text flattened from texts that are not empty holds each of them.      *)
LEMMA FlattenHolds ==
  ASSUME NEW S, NEW ss
  PROVE  ss \in Seq(Seq(S)) /\ (\A i \in 1..Len(ss) : Len(ss[i]) # 0) =>
           /\ Texts!FlattenSeq(ss) \in Seq(S)
           /\ \E c : /\ PieceEnds(c, ss, Len(ss)) /\ c[Len(ss)] = Len(Texts!FlattenSeq(ss))
                     /\ \A i \in 1..Len(ss) : HoldsAt(Texts!FlattenSeq(ss), c[i - 1], ss[i])
<1> DEFINE n == Len(ss)
           t == Texts!FlattenSeq(ss)
<1>0. SUFFICES ASSUME ss \in Seq(Seq(S)), \A i \in 1..n : Len(ss[i]) # 0
               PROVE  /\ t \in Seq(S)
                      /\ \E c : /\ PieceEnds(c, ss, n) /\ c[n] = Len(t)
                                /\ \A i \in 1..n : HoldsAt(t, c[i - 1], ss[i])
  OBVIOUS
<1>1. n \in Nat /\ \A i \in 1..n : Len(ss[i]) \in Nat /\ Len(ss[i]) # 0
  <2>1. n \in Nat /\ \A i \in 1..n : ss[i] \in Seq(S)
    BY <1>0, LengthFacts
  <2> QED
    BY <1>0, <2>1, LengthFacts
<1>2. t \in Seq(S) /\ \E c : PieceEnds(c, ss, n) /\ Laid(t, c, ss, n)
  BY <1>0, FlattenFacts
<1> HIDE DEF n, t
<1>3. PICK c : PieceEnds(c, ss, n) /\ Laid(t, c, ss, n)
  BY <1>2
<1>4. /\ c \in [0..n -> Nat] /\ (\A i \in 1..n : c[i] = c[i - 1] + Len(ss[i])) /\ Len(t) = c[n]
      /\ \A i \in 1..n : \A j \in 1..Len(ss[i]) :
            c[i - 1] + j \in 1..Len(t) /\ t[c[i - 1] + j] = ss[i][j]
  BY <1>3 DEF PieceEnds, Laid
<1>5. ASSUME NEW i \in 1..n PROVE HoldsAt(t, c[i - 1], ss[i])
  <2> DEFINE z == Len(ss[i])
             b == c[i - 1]
             y == Len(t)
  <2>1. z \in Nat /\ z # 0 /\ b \in Nat /\ y \in Nat
    <3>1. i - 1 \in 0..n /\ n \in 0..n
      BY <1>1
    <3> QED
      BY <1>1, <1>4, <3>1
  <2>2. \A j \in 1..z : b + j \in 1..y /\ t[b + j] = ss[i][j]
    BY <1>4
  <2> HIDE DEF z, b, y
  <2>3. b + z <= y
    BY <2>1, <2>2
  <2> QED
    BY <2>1, <2>2, <2>3 DEF HoldsAt, z, b, y
<1> QED
  BY <1>2, <1>3, <1>4, <1>5

(* The delimiters of a chain: one that opens it and one between its items. *)
Led(d0, d, n) == [i \in 1..n |-> IF i = 1 THEN d0 ELSE d]

IsChain(t, d0, d, X) ==
  \E c : /\ Chain(t, Led(d0, d, Len(X)), X, c, Len(X))
         /\ c[0] = 0 /\ c[Len(X)] = Len(t)

(* The three ways to write one: each item behind its delimiter, ...        *)
LEMMA WrittenBefore ==
  ASSUME NEW S, NEW d \in S, NEW X
  PROVE  X \in Seq(Seq(S)) =>
           /\ Texts!FlattenSeq([i \in DOMAIN X |-> <<d>> \o X[i]]) \in Seq(S)
           /\ IsChain(Texts!FlattenSeq([i \in DOMAIN X |-> <<d>> \o X[i]]), d, d, X)
<1> DEFINE n == Len(X)
           ss == [i \in DOMAIN X |-> <<d>> \o X[i]]
           t == Texts!FlattenSeq(ss)
<1>0. SUFFICES ASSUME X \in Seq(Seq(S)) PROVE t \in Seq(S) /\ IsChain(t, d, d, X)
  OBVIOUS
<1>1. n \in Nat /\ DOMAIN X = 1..n /\ \A i \in 1..n : X[i] \in Seq(S)
  BY <1>0, LengthFacts
<1>2. <<d>> \in Seq(S) /\ Len(<<d>>) = 1
  BY OneText
<1>3. \A i \in 1..n : /\ Len(X[i]) \in Nat /\ ss[i] \in Seq(S) /\ Len(ss[i]) = 1 + Len(X[i])
                      /\ HoldsAt(ss[i], 0, <<d>>) /\ HoldsAt(ss[i], 1, X[i])
  <2> SUFFICES ASSUME NEW i \in 1..n
               PROVE /\ Len(X[i]) \in Nat /\ ss[i] \in Seq(S) /\ Len(ss[i]) = 1 + Len(X[i])
                     /\ HoldsAt(ss[i], 0, <<d>>) /\ HoldsAt(ss[i], 1, X[i])
    OBVIOUS
  <2>1. X[i] \in Seq(S) /\ ss[i] = <<d>> \o X[i]
    BY <1>1
  <2> HIDE DEF ss, n
  <2> QED
    BY <2>1, JoinOne
<1>4. ss \in Seq(Seq(S)) /\ Len(ss) = n
  <2>1. ss \in [1..n -> Seq(S)]
    BY <1>1, <1>3
  <2> HIDE DEF ss, n
  <2> QED
    BY <1>1, <2>1
<1> HIDE DEF ss, n
<1>5. t \in Seq(S) /\ \E c : /\ PieceEnds(c, ss, n) /\ c[n] = Len(t)
                             /\ \A i \in 1..n : HoldsAt(t, c[i - 1], ss[i])
  <2>1. \A i \in 1..n : Len(ss[i]) # 0
    BY <1>3
  <2> QED
    BY <1>4, <2>1, FlattenHolds
<1> HIDE DEF t
<1>6. PICK c : PieceEnds(c, ss, n) /\ c[n] = Len(t) /\ \A i \in 1..n : HoldsAt(t, c[i - 1], ss[i])
  BY <1>5
<1>7. c \in [0..n -> Nat] /\ c[0] = 0 /\ \A i \in 1..n : c[i] = c[i - 1] + Len(ss[i])
  BY <1>6 DEF PieceEnds
<1>8. ASSUME NEW i \in 1..n
      PROVE  /\ Len(X[i]) \in Nat /\ c[i] = c[i - 1] + 1 + Len(X[i])
             /\ HoldsAt(t, c[i - 1] + 1, X[i]) /\ t[c[i - 1] + 1] = Led(d, d, n)[i]
  <2>1. c[i - 1] \in Nat
    BY <1>1, <1>7
  <2>2. c[i] = c[i - 1] + 1 + Len(X[i])
    <3> DEFINE b == c[i - 1]
               y == Len(X[i])
    <3>1. b \in Nat /\ y \in Nat /\ c[i] = b + (1 + y)
      BY <1>3, <1>7, <2>1
    <3> HIDE DEF b, y
    <3>2. c[i] = b + 1 + y
      BY <3>1
    <3> QED
      BY <3>2 DEF b, y
  <2>3. HoldsAt(t, c[i - 1] + 1, X[i]) /\ HoldsAt(t, c[i - 1] + 0, <<d>>)
    BY <1>3, <1>6, HoldsIn
  <2>4. c[i - 1] + 0 = c[i - 1]
    BY <2>1
  <2>5. t[c[i - 1] + 1] = d
    BY <2>3, <2>4, HoldsOne
  <2>6. Led(d, d, n)[i] = d
    BY DEF Led
  <2> QED
    BY <1>3, <2>2, <2>3, <2>5, <2>6
<1>9. Chain(t, Led(d, d, n), X, c, n)
  BY <1>1, <1>7, <1>8 DEF Chain
<1> QED
  BY <1>5, <1>6, <1>7, <1>9 DEF IsChain, n

(* ... each but the first, ...                                             *)
LEMMA WrittenBetween ==
  ASSUME NEW S, NEW d0 \in S, NEW d \in S, NEW X
  PROVE  X \in Seq(Seq(S)) /\ Len(X) # 0 /\ Len(X[1]) # 0 =>
           /\ Texts!FlattenSeq([i \in DOMAIN X |-> (IF i = 1 THEN <<>> ELSE <<d>>) \o X[i]]) \in Seq(S)
           /\ IsChain(<<d0>> \o Texts!FlattenSeq([i \in DOMAIN X |->
                (IF i = 1 THEN <<>> ELSE <<d>>) \o X[i]]), d0, d, X)
<1> DEFINE n == Len(X)
           ss == [i \in DOMAIN X |-> (IF i = 1 THEN <<>> ELSE <<d>>) \o X[i]]
           f == Texts!FlattenSeq(ss)
           t == <<d0>> \o f
<1>0. SUFFICES ASSUME X \in Seq(Seq(S)), n # 0, Len(X[1]) # 0 PROVE f \in Seq(S) /\ IsChain(t, d0, d, X)
  OBVIOUS
<1>1. n \in Nat /\ n # 0 /\ DOMAIN X = 1..n /\ \A i \in 1..n : X[i] \in Seq(S)
  BY <1>0, LengthFacts
<1>2. <<d>> \in Seq(S) /\ Len(<<d>>) = 1 /\ <<d0>> \in Seq(S) /\ Len(<<d0>>) = 1
  BY OneText
<1>3. \A i \in 1..n : /\ Len(X[i]) \in Nat /\ ss[i] \in Seq(S) /\ Len(ss[i]) # 0
                      /\ i = 1 => Len(ss[i]) = Len(X[i]) /\ HoldsAt(ss[i], 0, X[i])
                      /\ i # 1 => /\ Len(ss[i]) = 1 + Len(X[i])
                                  /\ HoldsAt(ss[i], 0, <<d>>) /\ HoldsAt(ss[i], 1, X[i])
  <2> SUFFICES ASSUME NEW i \in 1..n
               PROVE /\ Len(X[i]) \in Nat /\ ss[i] \in Seq(S) /\ Len(ss[i]) # 0
                     /\ i = 1 => Len(ss[i]) = Len(X[i]) /\ HoldsAt(ss[i], 0, X[i])
                     /\ i # 1 => /\ Len(ss[i]) = 1 + Len(X[i])
                                 /\ HoldsAt(ss[i], 0, <<d>>) /\ HoldsAt(ss[i], 1, X[i])
    OBVIOUS
  <2>1. X[i] \in Seq(S) /\ ss[i] = (IF i = 1 THEN <<>> ELSE <<d>>) \o X[i]
    BY <1>1
  <2>2. i = 1 => ss[i] = <<>> \o X[i]
    BY <2>1
  <2>3. i # 1 => ss[i] = <<d>> \o X[i]
    BY <2>1
  <2>4. Len(X[i]) \in Nat
    BY <2>1, LengthFacts
  <2> HIDE DEF ss, n
  <2>5. CASE i = 1
    <3>2. ss[i] \in Seq(S) /\ Len(ss[i]) = Len(X[i]) /\ HoldsAt(ss[i], 0, X[i])
      BY <2>1, <2>2, <2>5, JoinOne
    <3> QED
      BY <1>0, <2>4, <2>5, <3>2
  <2>6. CASE i # 1
    <3>1. /\ ss[i] \in Seq(S) /\ Len(ss[i]) = 1 + Len(X[i])
          /\ HoldsAt(ss[i], 0, <<d>>) /\ HoldsAt(ss[i], 1, X[i])
      BY <2>1, <2>3, <2>6, JoinOne
    <3>2. Len(ss[i]) # 0
      BY <2>4, <3>1
    <3> QED
      BY <2>4, <2>6, <3>1, <3>2
  <2> QED
    BY <2>5, <2>6
<1>4. ss \in Seq(Seq(S)) /\ Len(ss) = n
  <2>1. ss \in [1..n -> Seq(S)]
    BY <1>1, <1>3
  <2> HIDE DEF ss, n
  <2> QED
    BY <1>1, <2>1
<1> HIDE DEF ss, n
<1>5. f \in Seq(S) /\ \E e : /\ PieceEnds(e, ss, n) /\ e[n] = Len(f)
                             /\ \A i \in 1..n : HoldsAt(f, e[i - 1], ss[i])
  <2>1. \A i \in 1..n : Len(ss[i]) # 0
    BY <1>3
  <2> QED
    BY <1>4, <2>1, FlattenHolds
<1>5a. Len(f) \in Nat
  BY <1>5, LengthFacts
<1> HIDE DEF f
<1>6. Len(t) = 1 + Len(f) /\ HoldsAt(t, 0, <<d0>>) /\ HoldsAt(t, 1, f)
  BY <1>5, JoinOne
<1> HIDE DEF t
<1>7. PICK e : PieceEnds(e, ss, n) /\ e[n] = Len(f) /\ \A i \in 1..n : HoldsAt(f, e[i - 1], ss[i])
  BY <1>5
<1>8. e \in [0..n -> Nat] /\ e[0] = 0 /\ \A i \in 1..n : e[i] = e[i - 1] + Len(ss[i])
  BY <1>7 DEF PieceEnds
<1> DEFINE c == [i \in 0..n |-> IF i = 0 THEN 0 ELSE 1 + e[i]]
<1>9. c \in [0..n -> Nat] /\ c[0] = 0 /\ \A i \in 1..n : c[i] = 1 + e[i]
  BY <1>1, <1>8
<1> HIDE DEF c
<1>10. ASSUME NEW i \in 1..n
       PROVE  /\ Len(X[i]) \in Nat /\ c[i] = c[i - 1] + 1 + Len(X[i])
              /\ HoldsAt(t, c[i - 1] + 1, X[i]) /\ t[c[i - 1] + 1] = Led(d0, d, n)[i]
  <2> DEFINE a == e[i - 1]
             y == Len(X[i])
             z == Len(ss[i])
  <2>1. a \in Nat /\ y \in Nat /\ z \in Nat /\ c[i] = 1 + (a + z)
    <3>1. i - 1 \in 0..n /\ i \in 0..n
      BY <1>1
    <3>2. z \in Nat /\ y \in Nat
      BY <1>3, LengthFacts
    <3> QED
      BY <1>8, <1>9, <3>1, <3>2
  <2>2. HoldsAt(t, 1 + a, ss[i])
    BY <1>6, <1>7, HoldsIn
  <2>3. CASE i = 1
    <3>1. a = 0 /\ c[i - 1] = 0 /\ z = y /\ HoldsAt(ss[i], 0, X[i]) /\ Led(d0, d, n)[i] = d0
      BY <1>3, <1>8, <1>9, <2>3 DEF Led
    <3>2. HoldsAt(t, (1 + 0) + 0, X[i])
      BY <2>2, <3>1, HoldsIn
    <3>3. HoldsAt(t, 0 + 1, X[i])
      BY <3>2
    <3>4. t[0 + 1] = d0
      BY <1>6, HoldsOne
    <3> HIDE DEF y, z, a
    <3>5. c[i] = 0 + 1 + y
      BY <2>1, <3>1
    <3> QED
      BY <2>1, <3>1, <3>3, <3>4, <3>5 DEF y
  <2>4. CASE i # 1
    <3>1. i - 1 \in 1..n /\ z = 1 + y /\ HoldsAt(ss[i], 0, <<d>>) /\ HoldsAt(ss[i], 1, X[i])
          /\ Led(d0, d, n)[i] = d
      BY <1>1, <1>3, <2>4 DEF Led
    <3>2. c[i - 1] = 1 + a
      BY <1>9, <3>1
    <3>3. HoldsAt(t, (1 + a) + 1, X[i]) /\ HoldsAt(t, (1 + a) + 0, <<d>>)
      BY <2>2, <3>1, HoldsIn
    <3> HIDE DEF y, z, a
    <3>4. (1 + a) + 0 = 1 + a /\ c[i] = (1 + a) + 1 + y
      BY <2>1, <3>1
    <3>5. t[(1 + a) + 1] = d
      BY <3>3, <3>4, HoldsOne
    <3> QED
      BY <2>1, <3>1, <3>2, <3>3, <3>4, <3>5 DEF y
  <2> QED
    BY <2>3, <2>4
<1>11. Chain(t, Led(d0, d, n), X, c, n)
  BY <1>1, <1>9, <1>10 DEF Chain
<1>12. c[n] = Len(t)
  BY <1>1, <1>6, <1>7, <1>9
<1> QED
  BY <1>5, <1>9, <1>11, <1>12 DEF IsChain, n

(* ... or each in front of its own, the last of which is removed.          *)
LEMMA WrittenBehind ==
  ASSUME NEW S, NEW d0 \in S, NEW d \in S, NEW X
  PROVE  X \in Seq(Seq(S)) /\ Len(X) # 0 =>
           /\ Texts!Front(<<d0>> \o Texts!FlattenSeq([i \in DOMAIN X |-> X[i] \o <<d>>])) \in Seq(S)
           /\ IsChain(Texts!Front(<<d0>> \o Texts!FlattenSeq([i \in DOMAIN X |-> X[i] \o <<d>>])),
                      d0, d, X)
<1> DEFINE n == Len(X)
           ss == [i \in DOMAIN X |-> X[i] \o <<d>>]
           f == Texts!FlattenSeq(ss)
           t == <<d0>> \o f
           r == Texts!Front(t)
<1>0. SUFFICES ASSUME X \in Seq(Seq(S)), n # 0 PROVE r \in Seq(S) /\ IsChain(r, d0, d, X)
  OBVIOUS
<1>1. n \in Nat /\ n # 0 /\ DOMAIN X = 1..n /\ \A i \in 1..n : X[i] \in Seq(S)
  BY <1>0, LengthFacts
<1>2. <<d>> \in Seq(S) /\ Len(<<d>>) = 1 /\ <<d0>> \in Seq(S) /\ Len(<<d0>>) = 1
  BY OneText
<1>3. \A i \in 1..n : /\ Len(X[i]) \in Nat /\ ss[i] \in Seq(S) /\ Len(ss[i]) = Len(X[i]) + 1
                      /\ HoldsAt(ss[i], 0, X[i]) /\ HoldsAt(ss[i], Len(X[i]), <<d>>)
  <2> SUFFICES ASSUME NEW i \in 1..n
               PROVE /\ Len(X[i]) \in Nat /\ ss[i] \in Seq(S) /\ Len(ss[i]) = Len(X[i]) + 1
                     /\ HoldsAt(ss[i], 0, X[i]) /\ HoldsAt(ss[i], Len(X[i]), <<d>>)
    OBVIOUS
  <2>1. X[i] \in Seq(S) /\ ss[i] = X[i] \o <<d>>
    BY <1>1
  <2> HIDE DEF ss, n
  <2> QED
    BY <2>1, JoinOne
<1>4. ss \in Seq(Seq(S)) /\ Len(ss) = n
  <2>1. ss \in [1..n -> Seq(S)]
    BY <1>1, <1>3
  <2> HIDE DEF ss, n
  <2> QED
    BY <1>1, <2>1
<1> HIDE DEF ss, n
<1>5. f \in Seq(S) /\ \E e : /\ PieceEnds(e, ss, n) /\ e[n] = Len(f)
                             /\ \A i \in 1..n : HoldsAt(f, e[i - 1], ss[i])
  <2>1. \A i \in 1..n : Len(ss[i]) # 0
    BY <1>3
  <2> QED
    BY <1>4, <2>1, FlattenHolds
<1>5a. Len(f) \in Nat
  BY <1>5, LengthFacts
<1> HIDE DEF f
<1>6. t \in Seq(S) /\ Len(t) = 1 + Len(f) /\ HoldsAt(t, 0, <<d0>>) /\ HoldsAt(t, 1, f)
  BY <1>5, JoinOne
<1>7. r \in Seq(S) /\ Len(r) = Len(f) /\ \A x \in 1..Len(f) : r[x] = t[x]
  <2>1. r = SubSeq(t, 1, Len(t) - 1)
    BY DEF Texts!Front
  <2> DEFINE z == Len(t) - 1
             w == SubSeq(t, 1, z)
  <2>2. z = Len(f) /\ z \in Nat
    BY <1>5a, <1>6
  <2> HIDE DEF t, z
  <2>3. 1 \in 1..(Len(t) + 1) /\ z \in (1 - 1)..Len(t) /\ z - 1 + 1 = z /\ \A x \in 1..z : 1 + x - 1 = x
    BY <1>5a, <1>6, <2>2
  <2>4. w \in Seq(S) /\ Len(w) = z - 1 + 1 /\ \A i \in 1..(z - 1 + 1) : w[i] = t[1 + i - 1]
    BY <1>6, <2>3, CutFacts
  <2> HIDE DEF w
  <2>5. w \in Seq(S) /\ Len(w) = Len(f) /\ \A x \in 1..Len(f) : w[x] = t[x]
    BY <2>2, <2>3, <2>4
  <2> QED
    BY <2>1, <2>5 DEF w, z
<1> HIDE DEF t, r
<1>8. PICK e : PieceEnds(e, ss, n) /\ e[n] = Len(f) /\ \A i \in 1..n : HoldsAt(f, e[i - 1], ss[i])
  BY <1>5
<1>9. e \in [0..n -> Nat] /\ e[0] = 0 /\ \A i \in 1..n : e[i] = e[i - 1] + 1 + Len(X[i])
  <2>1. e \in [0..n -> Nat] /\ e[0] = 0 /\ \A i \in 1..n : e[i] = e[i - 1] + Len(ss[i])
    BY <1>8 DEF PieceEnds
  <2>2. ASSUME NEW i \in 1..n PROVE e[i] = e[i - 1] + 1 + Len(X[i])
    <3>1. e[i - 1] \in Nat
      BY <1>1, <2>1
    <3> QED
      BY <1>3, <2>1, <3>1
  <2> QED
    BY <2>1, <2>2
<1>10. ASSUME NEW i \in 1..n
       PROVE  /\ HoldsAt(r, e[i - 1] + 1, X[i]) /\ r[e[i - 1] + 1] = Led(d0, d, n)[i]
  <2> DEFINE a == e[i - 1]
             y == Len(X[i])
             z == Len(f)
  <2>1. a \in Nat /\ y \in Nat /\ z \in Nat
    BY <1>1, <1>3, <1>5a, <1>9
  <2>2. HoldsAt(f, a, ss[i])
    BY <1>8
  <2>3. a + (y + 1) <= z
    BY <1>3, <2>2 DEF HoldsAt
  <2>4. HoldsAt(t, 1 + (a + 0), X[i])
    BY <1>3, <1>6, <2>2, HoldsIn
  <2>5. HoldsAt(t, a + 1, X[i])
    <3> HIDE DEF a
    <3>1. 1 + (a + 0) = a + 1
      BY <2>1
    <3> QED
      BY <2>4, <3>1
  <2>6. \A j \in 1..y : t[(a + 1) + j] = X[i][j]
    BY <2>5 DEF HoldsAt
  <2>7. HoldsAt(r, a + 1, X[i])
    <3> HIDE DEF a, y, z
    <3>1. \A j \in 1..y : (a + 1) + j \in 1..z
      BY <2>1, <2>3
    <3>2. \A j \in 1..y : r[(a + 1) + j] = X[i][j]
      BY <1>7, <2>6, <3>1 DEF z
    <3>3. a + 1 \in Nat /\ (a + 1) + y <= z
      BY <2>1, <2>3
    <3> QED
      BY <1>7, <2>1, <3>2, <3>3 DEF HoldsAt, y, z
  <2>8. r[a + 1] = t[a + 1]
    <3> HIDE DEF a, y
    <3>1. a + 1 \in 1..z
      BY <2>1, <2>3
    <3> QED
      BY <1>7, <3>1
  <2>9. CASE i = 1
    <3>1. a = 0 /\ Led(d0, d, n)[i] = d0
      BY <1>9, <2>9 DEF Led
    <3>2. t[0 + 1] = d0
      BY <1>6, HoldsOne
    <3> QED
      BY <2>7, <2>8, <3>1, <3>2
  <2>10. CASE i # 1
    <3> DEFINE k == i - 1
               b == e[k - 1]
               u == Len(X[k])
    <3>1. k \in 1..n /\ Led(d0, d, n)[i] = d
      BY <1>1, <2>10 DEF Led
    <3> HIDE DEF k
    <3>1a. k - 1 \in 0..n
      BY <1>1, <3>1
    <3>2. b \in Nat /\ u \in Nat /\ e[k] = b + 1 + u
      <4>1. b \in Nat
        BY <1>9, <3>1a
      <4> QED
        BY <1>3, <1>9, <3>1, <4>1
    <3>3. HoldsAt(t, 1 + (b + u), <<d>>)
      <4>1. HoldsAt(f, b, ss[k]) /\ HoldsAt(ss[k], u, <<d>>)
        BY <1>3, <1>8, <3>1
      <4> HIDE DEF b, u
      <4> QED
        BY <1>6, <4>1, HoldsIn
    <3> HIDE DEF b, u
    <3>4. t[(1 + (b + u)) + 1] = d
      BY <3>3, HoldsOne
    <3>5. (1 + (b + u)) + 1 = e[k] + 1
      BY <3>2
    <3> QED
      BY <2>7, <2>8, <3>1, <3>4, <3>5 DEF k
  <2> QED
    BY <2>9, <2>10
<1>11. Chain(r, Led(d0, d, n), X, e, n)
  BY <1>1, <1>3, <1>9, <1>10 DEF Chain
<1>12. e[n] = Len(r)
  BY <1>7, <1>8
<1> QED
  BY <1>7, <1>9, <1>11, <1>12 DEF IsChain, n

(* All three write the same text.                                          *)
LEMMA ChainsAgree ==
  ASSUME NEW S, NEW t \in Seq(S), NEW s \in Seq(S), NEW d0, NEW d, NEW X,
         IsChain(t, d0, d, X), IsChain(s, d0, d, X)
  PROVE  t = s
<1> DEFINE n == Len(X)
           D == Led(d0, d, n)
<1>1. PICK c : Chain(t, D, X, c, n) /\ c[0] = 0 /\ c[n] = Len(t)
  BY DEF IsChain
<1>2. PICK e : Chain(s, D, X, e, n) /\ e[0] = 0 /\ e[n] = Len(s)
  BY DEF IsChain
<1> HIDE DEF n, D
<1>3. Len(s) = Len(t) /\ \A x \in 1..Len(t) : t[x] = s[x]
  BY <1>1, <1>2, ChainIsAll
<1> QED
  BY <1>3, SameText

-----------------------------------------------------------------------------
(* What the first m pairs of a query make: the values of key l come behind *)
(* the first lo[l] pairs.                                                  *)
Taken(q, lo, m, l) == IF m - lo[l] < Len(q[l]) THEN m - lo[l] ELSE Len(q[l])

Built(q, lo, m) ==
  [l \in {k \in DOMAIN q : lo[k] < m} |-> SubSeq(q[l], 1, Taken(q, lo, m, l))]

KeySpans(q, lo) ==
  /\ lo \in [DOMAIN q -> Nat]
  /\ \A l \in DOMAIN q : Len(q[l]) \in Nat /\ Len(q[l]) # 0
  /\ \A l, k \in DOMAIN q : l = k \/ lo[l] + Len(q[l]) <= lo[k] \/ lo[k] + Len(q[k]) <= lo[l]

LEMMA PutBuilt ==
  ASSUME NEW q, NEW lo, KeySpans(q, lo), NEW T, NEW k \in DOMAIN q, NEW j \in 1..Len(q[k])
  PROVE  (\A l \in DOMAIN q : q[l] \in Seq(T)) =>
           Built(q, lo, lo[k] + j) = PutQuery(Built(q, lo, (lo[k] + j) - 1), k, q[k][j])
<1> DEFINE m == lo[k] + j
           A == Built(q, lo, m)
           B == Built(q, lo, m - 1)
           P == PutQuery(B, k, q[k][j])
<1>0. SUFFICES ASSUME \A l \in DOMAIN q : q[l] \in Seq(T) PROVE A = P
  OBVIOUS
<1>1. /\ lo \in [DOMAIN q -> Nat]
      /\ \A l \in DOMAIN q : Len(q[l]) \in Nat /\ Len(q[l]) # 0
      /\ \A l, h \in DOMAIN q : l = h \/ lo[l] + Len(q[l]) <= lo[h] \/ lo[h] + Len(q[h]) <= lo[l]
  BY DEF KeySpans
<1>2. \A l \in DOMAIN q : /\ \A i \in 1..Len(q[l]) : Append(SubSeq(q[l], 1, i - 1), q[l][i]) = SubSeq(q[l], 1, i)
                          /\ SubSeq(q[l], 1, 0) = <<>>
  BY <1>0, PrefixFacts
<1>3. m \in Nat /\ lo[k] \in Nat /\ m - lo[k] = j /\ j \in Nat /\ lo[k] < m /\ m = lo[k] + j
  BY <1>1
<1>4. /\ DOMAIN A = {l \in DOMAIN q : lo[l] < m}
      /\ \A l \in DOMAIN A : A[l] = SubSeq(q[l], 1, Taken(q, lo, m, l))
  BY DEF Built
<1>5. /\ DOMAIN B = {l \in DOMAIN q : lo[l] < m - 1}
      /\ \A l \in DOMAIN B : B[l] = SubSeq(q[l], 1, Taken(q, lo, m - 1, l))
  BY DEF Built
<1>6. /\ DOMAIN P = DOMAIN B \cup {k}
      /\ \A l \in DOMAIN B \cup {k} :
           P[l] = IF l # k THEN B[l] ELSE IF l \in DOMAIN B THEN Append(B[l], q[k][j]) ELSE <<q[k][j]>>
  BY DEF PutQuery
<1>7. A = [l \in DOMAIN A |-> A[l]] /\ P = [l \in DOMAIN P |-> P[l]]
  BY DEF Built, PutQuery
<1> HIDE DEF A, B, P, m
<1>8. ASSUME NEW l \in DOMAIN q, l # k
      PROVE  /\ lo[l] < m <=> lo[l] < m - 1
             /\ lo[l] < m => Taken(q, lo, m, l) = Taken(q, lo, m - 1, l)
  <2> DEFINE a == lo[l]
             y == Len(q[l])
             b == lo[k]
             z == Len(q[k])
  <2>1. a \in Nat /\ y \in Nat /\ y # 0 /\ b \in Nat /\ z \in Nat /\ (a + y <= b \/ b + z <= a)
    BY <1>1, <1>8
  <2>2. m = b + j /\ m \in Nat /\ j \in 1..z
    BY <1>3
  <2>3. Taken(q, lo, m, l) = IF m - a < y THEN m - a ELSE y
    BY DEF Taken
  <2>4. Taken(q, lo, m - 1, l) = IF (m - 1) - a < y THEN (m - 1) - a ELSE y
    BY DEF Taken
  <2> HIDE DEF a, y, b, z
  <2>5. a < m <=> a < m - 1
    BY <2>1, <2>2
  <2>6. a < m => ~(m - a < y) /\ ((m - 1) - a < y => (m - 1) - a = y)
    BY <2>1, <2>2
  <2> QED
    BY <2>3, <2>4, <2>5, <2>6 DEF a
<1>9. DOMAIN A = DOMAIN P
  <2>1. \A l \in DOMAIN q : l \in DOMAIN A <=> l \in DOMAIN P
    BY <1>3, <1>4, <1>5, <1>6, <1>8
  <2> QED
    BY <1>4, <1>5, <1>6, <2>1
<1>10. ASSUME NEW l \in DOMAIN A PROVE A[l] = P[l]
  <2>1. l \in DOMAIN q /\ lo[l] < m
    BY <1>4
  <2>2. CASE l # k
    <3>1. l \in DOMAIN B /\ A[l] = B[l]
      BY <1>4, <1>5, <1>8, <2>1, <2>2
    <3> QED
      BY <1>6, <2>2, <3>1
  <2>3. CASE l = k
    <3>1. Taken(q, lo, m, k) = j
      BY <1>1, <1>3 DEF Taken
    <3>2. A[k] = SubSeq(q[k], 1, j)
      BY <1>4, <2>3, <3>1
    <3>3. Append(SubSeq(q[k], 1, j - 1), q[k][j]) = SubSeq(q[k], 1, j)
      BY <1>2
    <3>4. CASE j = 1
      <4>1. k \notin DOMAIN B
        BY <1>3, <1>5, <3>4
      <4>2. P[k] = <<q[k][j]>>
        BY <1>6, <4>1
      <4>3. j - 1 = 0
        BY <3>4
      <4>4. SubSeq(q[k], 1, j - 1) = <<>>
        BY <1>2, <4>3
      <4>5. SubSeq(q[k], 1, j) = Append(<<>>, q[k][j])
        BY <3>3, <4>4
      <4>6. Append(<<>>, q[k][j]) = <<q[k][j]>>
        OBVIOUS
      <4> QED
        BY <2>3, <3>2, <4>2, <4>5, <4>6
    <3>5. CASE j # 1
      <4>1. k \in DOMAIN B
        BY <1>3, <1>5, <3>5
      <4>2. P[k] = Append(B[k], q[k][j])
        BY <1>6, <4>1
      <4>3. Taken(q, lo, m - 1, k) = j - 1
        <5> DEFINE z == Len(q[k])
        <5>1. z \in Nat /\ j \in 1..z /\ (m - 1) - lo[k] = j - 1
          BY <1>1, <1>3
        <5>2. j - 1 < z
          BY <5>1
        <5> QED
          BY <5>1, <5>2 DEF Taken
      <4>4. B[k] = SubSeq(q[k], 1, j - 1)
        BY <1>5, <4>1, <4>3
      <4> QED
        BY <2>3, <3>2, <3>3, <4>2, <4>4
    <3> QED
      BY <3>4, <3>5
  <2> QED
    BY <2>2, <2>3
<1> QED
  BY <1>7, <1>9, <1>10

(* The pairs of a query, one after the other, put it together.             *)
PutsUp(q, X, K, V, b, n) ==
  /\ b[0] = <<>> /\ b[n] = q
  /\ \A m \in 1..n : /\ K[m] \in DOMAIN q /\ (\E j \in 1..Len(q[K[m]]) : V[m] = q[K[m]][j])
                     /\ X[m] = K[m] \o <<"=">> \o V[m]
                     /\ b[m] = PutQuery(b[m - 1], K[m], V[m])

Query(q, S) ==
  /\ IsFiniteSet(DOMAIN q) /\ DOMAIN q \subseteq Seq(Ordered) /\ q = [k \in DOMAIN q |-> q[k]]
  /\ \A k \in DOMAIN q : k \in Seq(S) /\ q[k] \in Seq(Seq(S)) /\ q[k] # <<>>

LEMMA PairText ==
  ASSUME NEW S, "=" \in S, NEW k, NEW v
  PROVE  k \in Seq(S) /\ v \in Seq(S) =>
           /\ k \o <<"=">> \o v \in Seq(S)
           /\ Len(k) \in Nat /\ Len(v) \in Nat /\ Len(k \o <<"=">> \o v) = Len(k) + 1 + Len(v)
           /\ HoldsAt(k \o <<"=">> \o v, 0, k)
           /\ HoldsAt(k \o <<"=">> \o v, Len(k), <<"=">>)
           /\ HoldsAt(k \o <<"=">> \o v, Len(k) + 1, v)
<1> DEFINE e == <<"=">>
           a == k \o e
           t == a \o v
<1>0. SUFFICES ASSUME k \in Seq(S), v \in Seq(S)
      PROVE  /\ t \in Seq(S)
             /\ Len(k) \in Nat /\ Len(v) \in Nat /\ Len(t) = Len(k) + 1 + Len(v)
             /\ HoldsAt(t, 0, k) /\ HoldsAt(t, Len(k), e) /\ HoldsAt(t, Len(k) + 1, v)
  OBVIOUS
<1>1. a \in Seq(S) /\ Len(a) = Len(k) + 1 /\ HoldsAt(a, 0, k) /\ HoldsAt(a, Len(k), e)
  BY <1>0, JoinOne
<1>2. Len(k) \in Nat /\ Len(v) \in Nat
  BY <1>0, LengthFacts
<1> HIDE DEF e, a
<1>3. t \in Seq(S) /\ Len(t) = Len(a) + Len(v) /\ HoldsAt(t, 0, a) /\ HoldsAt(t, Len(a), v)
  BY <1>0, <1>1, HoldsJoin
<1> HIDE DEF t
<1>4. HoldsAt(t, 0 + 0, k) /\ HoldsAt(t, 0 + Len(k), e)
  BY <1>1, <1>3, HoldsIn
<1>5. 0 + 0 = 0 /\ 0 + Len(k) = Len(k)
  BY <1>2
<1> QED
  BY <1>1, <1>2, <1>3, <1>4, <1>5

LEMMA QueryFacts ==
  ASSUME NEW S, NEW u
  PROVE  Query(u.query, S) /\ "=" \in S =>
           /\ QueryPairs(u) \in Seq(Seq(S))
           /\ (QueryPairs(u) = <<>>) <=> (DOMAIN u.query = {})
           /\ \E K, V, b : PutsUp(u.query, QueryPairs(u), K, V, b, Len(QueryPairs(u)))
<1> DEFINE q == u.query
           T == Seq(S)
           X == QueryPairs(u)
           z == Len(X)
           n == Cardinality(DOMAIN q)
           keys == Keys(q)
           pair(k, j) == k \o <<"=">> \o q[k][j]
           ss == [i \in DOMAIN keys |-> [j \in DOMAIN q[keys[i]] |-> pair(keys[i], j)]]
<1>0. SUFFICES ASSUME Query(q, S), "=" \in S
      PROVE  /\ X \in Seq(T)
             /\ (X = <<>>) <=> (DOMAIN q = {})
             /\ \E K, V, b : PutsUp(q, X, K, V, b, z)
  OBVIOUS
<1>1. /\ IsFiniteSet(DOMAIN q) /\ DOMAIN q \subseteq Seq(Ordered) /\ q = [k \in DOMAIN q |-> q[k]]
      /\ \A k \in DOMAIN q : k \in T /\ q[k] \in Seq(T) /\ q[k] # <<>>
  BY <1>0 DEF Query
<1>2. X = Texts!FlattenSeq(ss)
  BY DEF QueryPairs
<1>3. \E at : Lists(keys, at, q, n)
  BY <1>1, KeysFacts
<1> HIDE DEF keys, n, q
<1>4. PICK at : Lists(keys, at, q, n)
  BY <1>3
<1>5. /\ n \in Nat /\ keys \in [1..n -> DOMAIN q] /\ at \in [DOMAIN q -> 1..n]
      /\ \A i \in 1..n : at[keys[i]] = i
      /\ \A k \in DOMAIN q : keys[at[k]] = k
  BY <1>4 DEF Lists
<1>6. \A k \in DOMAIN q : /\ Len(q[k]) \in Nat /\ Len(q[k]) # 0 /\ DOMAIN q[k] = 1..Len(q[k])
                          /\ \A j \in 1..Len(q[k]) : q[k][j] \in T
  BY <1>1, LengthFacts
<1>7. \A k \in DOMAIN q : \A j \in 1..Len(q[k]) : pair(k, j) \in T
  BY <1>0, <1>1, <1>6, PairText
<1> HIDE DEF pair, T
<1>8. \A i \in 1..n : /\ ss[i] \in Seq(T) /\ Len(ss[i]) = Len(q[keys[i]])
                      /\ \A j \in 1..Len(ss[i]) : ss[i][j] = pair(keys[i], j)
  <2> SUFFICES ASSUME NEW i \in 1..n
               PROVE  /\ ss[i] \in Seq(T) /\ Len(ss[i]) = Len(q[keys[i]])
                      /\ \A j \in 1..Len(ss[i]) : ss[i][j] = pair(keys[i], j)
    OBVIOUS
  <2> DEFINE k == keys[i]
             y == Len(q[k])
             w == [j \in 1..y |-> pair(k, j)]
  <2>1. k \in DOMAIN q /\ y \in Nat /\ ss[i] = w /\ \A j \in 1..y : pair(k, j) \in T
    BY <1>5, <1>6, <1>7
  <2> HIDE DEF k, y, ss
  <2>2. w \in Seq(T) /\ Len(w) = y /\ \A j \in 1..y : w[j] = pair(k, j)
    BY <2>1
  <2> HIDE DEF w
  <2>3. ss[i] \in Seq(T) /\ Len(ss[i]) = y /\ \A j \in 1..Len(ss[i]) : ss[i][j] = pair(k, j)
    BY <2>1, <2>2
  <2> QED
    BY <2>3 DEF k, y
<1>9. ss \in Seq(Seq(T)) /\ Len(ss) = n
  <2>1. ss \in [1..n -> Seq(T)]
    BY <1>5, <1>8
  <2> HIDE DEF ss
  <2> QED
    BY <1>5, <2>1
<1> HIDE DEF ss
<1>10. X \in Seq(T) /\ \E c : PieceEnds(c, ss, n) /\ Laid(X, c, ss, n)
  BY <1>2, <1>9, FlattenFacts
<1>11. z \in Nat /\ (X = <<>> <=> z = 0)
  BY <1>10, LengthFacts
<1> HIDE DEF X
<1>12. PICK c : PieceEnds(c, ss, n) /\ Laid(X, c, ss, n)
  BY <1>10
<1>13. /\ c \in [0..n -> Nat] /\ c[0] = 0 /\ z = c[n]
       /\ \A i \in 1..n : c[i] = c[i - 1] + Len(q[keys[i]])
       /\ \A i \in 1..n : \A j \in 1..Len(ss[i]) :
             c[i - 1] + j \in 1..z /\ X[c[i - 1] + j] = ss[i][j]
       /\ \A x \in 1..z : \E i \in 1..n : \E j \in 1..Len(ss[i]) : x = c[i - 1] + j
  <2>1. c \in [0..n -> Nat] /\ c[0] = 0 /\ \A i \in 1..n : c[i] = c[i - 1] + Len(ss[i])
    BY <1>12 DEF PieceEnds
  <2>2. /\ z = c[n]
        /\ \A i \in 1..n : \A j \in 1..Len(ss[i]) :
             c[i - 1] + j \in 1..z /\ X[c[i - 1] + j] = ss[i][j]
        /\ \A x \in 1..z : \E i \in 1..n : \E j \in 1..Len(ss[i]) : x = c[i - 1] + j
    BY <1>12 DEF Laid
  <2>3. \A i \in 1..n : c[i] = c[i - 1] + Len(q[keys[i]])
    BY <1>8, <2>1
  <2> QED
    BY <2>1, <2>2, <2>3
<1> HIDE DEF z
<1>14. \A i \in 0..n : \A k \in 0..i : k = i \/ c[k] < c[i]
  <2>1. \A i \in 1..n : c[i - 1] < c[i]
    <3> SUFFICES ASSUME NEW i \in 1..n PROVE c[i - 1] < c[i]
      OBVIOUS
    <3>1. keys[i] \in DOMAIN q /\ c[i - 1] \in Nat
      <4>1. i - 1 \in 0..n /\ keys[i] \in DOMAIN q
        BY <1>5
      <4> QED
        BY <1>13, <4>1
    <3>2. c[i] = c[i - 1] + Len(q[keys[i]]) /\ Len(q[keys[i]]) \in Nat /\ Len(q[keys[i]]) # 0
      BY <1>6, <1>13, <3>1
    <3> QED
      BY <3>1, <3>2
  <2> QED
    BY <1>5, <1>13, <2>1, ChainGrows
<1> DEFINE lo == [k \in DOMAIN q |-> c[at[k] - 1]]
<1>15. \A k \in DOMAIN q : /\ at[k] \in 1..n /\ at[k] - 1 \in 0..n /\ lo[k] = c[at[k] - 1]
                           /\ lo[k] \in Nat /\ c[at[k]] = lo[k] + Len(q[k]) /\ c[at[k]] \in Nat
  BY <1>5, <1>13
<1>15a. lo \in [DOMAIN q -> Nat]
  BY <1>15
<1> HIDE DEF lo
<1>16. \A k, l \in DOMAIN q : at[k] < at[l] => lo[k] + Len(q[k]) <= lo[l]
  <2> SUFFICES ASSUME NEW k \in DOMAIN q, NEW l \in DOMAIN q, at[k] < at[l]
               PROVE  lo[k] + Len(q[k]) <= lo[l]
    OBVIOUS
  <2> DEFINE i == at[k]
             h == at[l] - 1
  <2>0. at[k] \in 1..n /\ at[l] \in 1..n /\ n \in Nat
    BY <1>5, <1>15
  <2>1. i \in 0..h /\ h \in 0..n
    BY <2>0
  <2>2. i = h \/ c[i] < c[h]
    BY <1>14, <2>1
  <2>3. c[i] <= c[h]
    BY <1>13, <1>15, <2>2
  <2> QED
    BY <1>15, <2>3
<1>17. KeySpans(q, lo)
  <2>1. \A k, l \in DOMAIN q : k = l \/ at[k] < at[l] \/ at[l] < at[k]
    <3> SUFFICES ASSUME NEW k \in DOMAIN q, NEW l \in DOMAIN q, at[k] = at[l] PROVE k = l
      BY <1>5
    <3> QED
      BY <1>5
  <2>2. \A k, l \in DOMAIN q : k = l \/ lo[k] + Len(q[k]) <= lo[l] \/ lo[l] + Len(q[l]) <= lo[k]
    BY <1>16, <2>1
  <2> QED
    BY <1>6, <1>15a, <2>2 DEF KeySpans
<1>18. \A m \in 1..z : \E k \in DOMAIN q : m - lo[k] \in 1..Len(q[k])
  <2> SUFFICES ASSUME NEW m \in 1..z PROVE \E k \in DOMAIN q : m - lo[k] \in 1..Len(q[k])
    OBVIOUS
  <2>1. PICK i \in 1..n : \E j \in 1..Len(ss[i]) : m = c[i - 1] + j
    BY <1>13
  <2>2. PICK j \in 1..Len(ss[i]) : m = c[i - 1] + j
    BY <2>1
  <2>3. keys[i] \in DOMAIN q /\ at[keys[i]] = i /\ Len(ss[i]) = Len(q[keys[i]])
    BY <1>5, <1>8
  <2>4. lo[keys[i]] = c[i - 1] /\ c[i - 1] \in Nat
    BY <1>15, <2>3
  <2>5. m - lo[keys[i]] = j
    BY <2>2, <2>4
  <2> QED
    BY <2>3, <2>5
<1> DEFINE K == [m \in 1..z |-> CHOOSE k \in DOMAIN q : m - lo[k] \in 1..Len(q[k])]
           V == [m \in 1..z |-> q[K[m]][m - lo[K[m]]]]
           b == [m \in 0..z |-> Built(q, lo, m)]
<1>19. \A m \in 1..z : /\ K[m] \in DOMAIN q /\ m - lo[K[m]] \in 1..Len(q[K[m]])
                       /\ V[m] = q[K[m]][m - lo[K[m]]]
  BY <1>18
<1>20. \A m \in 0..z : b[m] = Built(q, lo, m)
  OBVIOUS
<1> HIDE DEF K, V, b
<1>21. ASSUME NEW m \in 1..z
       PROVE  /\ K[m] \in DOMAIN q /\ (\E j \in 1..Len(q[K[m]]) : V[m] = q[K[m]][j])
              /\ X[m] = K[m] \o <<"=">> \o V[m]
              /\ b[m] = PutQuery(b[m - 1], K[m], V[m])
  <2> DEFINE k == K[m]
             j == m - lo[k]
  <2>1. k \in DOMAIN q /\ j \in 1..Len(q[k]) /\ V[m] = q[k][j] /\ m \in Int
    BY <1>19
  <2> HIDE DEF k
  <2>2. m = lo[k] + j /\ j \in Int /\ lo[k] \in Nat
    BY <1>15, <2>1
  <2> HIDE DEF j
  <2>3. m \in 0..z /\ m - 1 \in 0..z /\ (lo[k] + j) - 1 = m - 1
    BY <1>11, <2>2
  <2>4. Built(q, lo, lo[k] + j) = PutQuery(Built(q, lo, (lo[k] + j) - 1), k, q[k][j])
    BY <1>1, <1>17, <2>1, PutBuilt
  <2>5. b[m] = PutQuery(b[m - 1], k, V[m])
    BY <1>20, <2>1, <2>2, <2>3, <2>4
  <2>6. at[k] \in 1..n /\ keys[at[k]] = k /\ lo[k] = c[at[k] - 1]
    BY <1>5, <1>15, <2>1
  <2>7. j \in 1..Len(ss[at[k]])
    BY <1>8, <2>1, <2>6
  <2>8. X[m] = pair(k, j)
    <3>1. X[c[at[k] - 1] + j] = ss[at[k]][j]
      BY <1>13, <2>6, <2>7
    <3>2. X[m] = ss[at[k]][j]
      BY <2>2, <2>6, <3>1
    <3>3. ss[at[k]][j] = pair(keys[at[k]], j)
      BY <1>8, <2>6, <2>7
    <3> QED
      BY <2>6, <3>2, <3>3
  <2>9. X[m] = k \o <<"=">> \o V[m]
    BY <2>1, <2>8 DEF pair
  <2> QED
    BY <2>1, <2>5, <2>9 DEF k
<1>22. b[0] = <<>>
  <2>1. {k \in DOMAIN q : lo[k] < 0} = {}
    BY <1>15
  <2>2. Built(q, lo, 0) = [l \in {} |-> SubSeq(q[l], 1, Taken(q, lo, 0, l))]
    BY <2>1 DEF Built
  <2>3. Built(q, lo, 0) = <<>>
    BY <2>2
  <2> QED
    BY <1>11, <1>20, <2>3
<1>23. b[z] = q
  <2>1. \A l \in DOMAIN q : lo[l] < z /\ Taken(q, lo, z, l) = Len(q[l])
    <3> SUFFICES ASSUME NEW l \in DOMAIN q PROVE lo[l] < z /\ Taken(q, lo, z, l) = Len(q[l])
      OBVIOUS
    <3> DEFINE a == lo[l]
               y == Len(q[l])
               i == at[l]
    <3>1. i \in 1..n /\ a \in Nat /\ y \in Nat /\ y # 0 /\ c[i] = a + y
      BY <1>6, <1>15
    <3>2. i = n \/ c[i] < c[n]
      BY <1>5, <1>14, <3>1
    <3>3. a + y <= z
      BY <1>11, <1>13, <3>1, <3>2
    <3> HIDE DEF a, y
    <3>4. a < z /\ (z - a < y => FALSE)
      BY <1>11, <3>1, <3>3
    <3> QED
      BY <3>4 DEF Taken, a, y
  <2>2. \A l \in DOMAIN q : SubSeq(q[l], 1, Len(q[l])) = q[l]
    BY <1>1, PrefixFacts
  <2>3. Built(q, lo, z) = [l \in DOMAIN q |-> q[l]]
    BY <2>1, <2>2 DEF Built
  <2> QED
    BY <1>1, <1>11, <1>20, <2>3
<1>24. z = 0 <=> DOMAIN q = {}
  <2>1. CASE z = 0
    <3>1. \A l \in DOMAIN q : FALSE
      <4> SUFFICES ASSUME NEW l \in DOMAIN q PROVE FALSE
        OBVIOUS
      <4>1. at[l] \in 1..n /\ Len(ss[at[l]]) = Len(q[l]) /\ Len(q[l]) \in Nat /\ Len(q[l]) # 0
        BY <1>5, <1>6, <1>8
      <4>2. 1 \in 1..Len(ss[at[l]])
        BY <4>1
      <4>3. c[at[l] - 1] + 1 \in 1..z
        BY <1>13, <4>1, <4>2
      <4> QED
        BY <2>1, <4>3
    <3> QED
      BY <2>1, <3>1
  <2>2. CASE z # 0
    <3>1. z \in 1..z
      BY <1>11, <2>2
    <3> QED
      BY <1>19, <2>2, <3>1
  <2> QED
    BY <2>1, <2>2
<1>25. PutsUp(q, X, K, V, b, z)
  BY <1>21, <1>22, <1>23 DEF PutsUp
<1> QED
  BY <1>10, <1>11, <1>24, <1>25

-----------------------------------------------------------------------------
(* The location of a URL, block by block.                                  *)
LEMMA JoinMore ==
  ASSUME NEW S, NEW a \in Seq(S), NEW b \in Seq(S), NEW c \in Seq(S)
  PROVE  /\ a \o b \o c = a \o (b \o c)
         /\ a \o <<>> = a /\ <<>> \o a = a
OBVIOUS

(* The provers do not know that a literal is a string.                     *)
Letters == STRING \cup {"/", "?", "&", "=", "#", ":", "@", Mark}

UrlText == Seq(Letters)

LEMMA CharactersAreTexts ==
  /\ "/" \in Letters /\ "?" \in Letters /\ "&" \in Letters /\ "=" \in Letters
  /\ "#" \in Letters /\ ":" \in Letters /\ "@" \in Letters /\ Mark \in Letters
  /\ <<>> \in UrlText
<1>1. <<>> \in UrlText
  BY EmptyFacts DEF UrlText
<1> QED
  BY <1>1 DEF Letters

LEMMA SeveralText ==
  ASSUME NEW S, NEW a \in S, NEW b \in S, NEW c \in S
  PROVE  <<a, b, c>> \in Seq(S) /\ Len(<<a, b, c>>) = 3
OBVIOUS

LEMMA WiderText ==
  ASSUME NEW S, NEW R, NEW a, \A x \in S : x \in R
  PROVE  a \in Seq(S) => a \in Seq(R)
OBVIOUS

(* What Spelled and WellFormed say of the fields.                          *)
LEMMA FieldFacts ==
  ASSUME NEW u, Spelled(u), WellFormed(u)
  PROVE  /\ /\ u.protocol \in UrlText /\ u.username \in UrlText /\ u.password \in UrlText
            /\ u.hostname \in UrlText /\ u.port \in UrlText /\ u.fragment \in UrlText
         /\ u.pathname \in Seq(UrlText) /\ u.pathname # <<>>
         /\ \A i \in DOMAIN u.pathname : u.pathname[i] # <<>>
         /\ u.protocol # <<>> /\ u.hostname # <<>> /\ u.port # <<>>
         /\ (u.username = <<>>) <=> (u.password = <<>>)
         /\ Query(u.query, Letters)
<1> DEFINE q == u.query
           W == Seq(STRING)
<1>1. \A x : x \in W => x \in UrlText
  <2>1. \A x \in STRING : x \in Letters
    BY DEF Letters
  <2> QED
    BY <2>1, WiderText DEF UrlText
<1>2. /\ \A f \in {"protocol", "username", "password", "hostname", "port", "fragment"} : u[f] \in W
      /\ u.pathname \in Seq(W)
      /\ IsFiniteSet(DOMAIN q) /\ q = [k \in DOMAIN q |-> q[k]]
      /\ \A k \in DOMAIN q : k \in W /\ q[k] \in Seq(W)
                             /\ \A i \in 1..Len(k) : \E j \in 1..Len(Order) : Order[j] = k[i]
  BY DEF Spelled
<1>3. /\ <<>> \notin {u.protocol, u.hostname, u.port}
      /\ (u.username = <<>>) <=> (u.password = <<>>)
      /\ u.pathname # <<>>
      /\ (\A i \in DOMAIN u.pathname : u.pathname[i] # <<>>)
      /\ \A k \in DOMAIN q : q[k] # <<>>
  BY DEF WellFormed
<1>4. ASSUME NEW k \in DOMAIN q PROVE k \in Seq(Ordered)
  <2>1. k \in Seq(STRING) /\ \A i \in 1..Len(k) : k[i] \in Ordered
    BY <1>2 DEF Ordered
  <2> QED
    BY <2>1
<1> HIDE DEF W, UrlText
<1>5. \A x : x \in Seq(W) => x \in Seq(UrlText)
  BY <1>1, WiderText
<1>6. \A k \in DOMAIN q : k \in UrlText /\ q[k] \in Seq(UrlText)
  BY <1>1, <1>2, <1>5
<1>7. Query(q, Letters)
  BY <1>2, <1>3, <1>4, <1>6 DEF Query, UrlText
<1> QED
  BY <1>1, <1>2, <1>3, <1>5, <1>7

(* The pairs that location writes.                                         *)
LEMMA PairsFacts ==
  ASSUME NEW u, Query(u.query, Letters)
  PROVE  /\ QueryPairs(u) \in Seq(UrlText)
         /\ Len(QueryPairs(u)) \in Nat
         /\ Len(QueryPairs(u)) = 0 <=> DOMAIN u.query = {}
         /\ QueryPairs(u) = <<>> <=> DOMAIN u.query = {}
         /\ \A m \in 1..Len(QueryPairs(u)) : QueryPairs(u)[m] \in UrlText /\ Len(QueryPairs(u)[m]) # 0
<1> DEFINE X == QueryPairs(u)
           z == Len(X)
           q == u.query
<1>1. X \in Seq(UrlText) /\ ((X = <<>>) <=> (DOMAIN q = {})) /\ \E K, V, b : PutsUp(q, X, K, V, b, z)
  BY CharactersAreTexts, QueryFacts DEF UrlText
<1>2. PICK K, V, b : PutsUp(q, X, K, V, b, z)
  BY <1>1
<1>3. z \in Nat /\ ((X = <<>>) <=> (z = 0)) /\ \A m \in 1..z : X[m] \in UrlText
  BY <1>1, LengthFacts
<1> HIDE DEF X
<1>4. ASSUME NEW m \in 1..z PROVE Len(X[m]) # 0
  <2>1. K[m] \in DOMAIN q /\ (\E j \in 1..Len(q[K[m]]) : V[m] = q[K[m]][j])
        /\ X[m] = K[m] \o <<"=">> \o V[m]
    BY <1>2 DEF PutsUp
  <2>2. K[m] \in UrlText /\ V[m] \in UrlText
    <3>1. K[m] \in UrlText /\ q[K[m]] \in Seq(UrlText)
      BY <2>1 DEF Query, UrlText
    <3>2. \A j \in 1..Len(q[K[m]]) : q[K[m]][j] \in UrlText
      BY <3>1, LengthFacts
    <3> QED
      BY <2>1, <3>1, <3>2
  <2>3. Len(K[m]) \in Nat /\ Len(V[m]) \in Nat /\ Len(X[m]) = Len(K[m]) + 1 + Len(V[m])
    BY <2>1, <2>2, CharactersAreTexts, PairText DEF UrlText
  <2> DEFINE k == Len(K[m])
             v == Len(V[m])
  <2> HIDE DEF k, v
  <2>4. k \in Nat /\ v \in Nat /\ Len(X[m]) = k + 1 + v
    BY <2>3 DEF k, v
  <2> QED
    BY <2>4
<1> QED
  BY <1>1, <1>3, <1>4 DEF X, z

-----------------------------------------------------------------------------
(* The text of a URL: what stands before its path, path, query, fragment.  *)
PortText(u) == IF u.port = <<"0">> THEN <<>> ELSE <<":">> \o u.port

Base(u) == u.protocol \o <<":", "/", "/">> \o UserInfo(u) \o u.hostname \o PortText(u)

FragmentText(u) == IF u.fragment = <<>> THEN <<>> ELSE <<"#">> \o u.fragment

LEMMA BlocksAreTexts ==
  ASSUME NEW u, Spelled(u), WellFormed(u)
  PROVE  /\ Base(u) \in UrlText /\ UserInfo(u) \in UrlText /\ PortText(u) \in UrlText
         /\ FragmentText(u) \in UrlText
<1>1. /\ u.protocol \in UrlText /\ u.username \in UrlText /\ u.password \in UrlText
      /\ u.hostname \in UrlText /\ u.port \in UrlText /\ u.fragment \in UrlText
  BY FieldFacts
<1>2. \A a, b \in UrlText : a \o b \in UrlText
  BY JoinFacts DEF UrlText
<1>3. /\ <<":">> \in UrlText /\ <<"@">> \in UrlText /\ <<"#">> \in UrlText
      /\ <<":", "/", "/">> \in UrlText /\ <<>> \in UrlText
  <2>1. <<":">> \in UrlText /\ <<"@">> \in UrlText /\ <<"#">> \in UrlText /\ <<>> \in UrlText
    BY CharactersAreTexts, OneText DEF UrlText
  <2>2. <<":", "/", "/">> \in UrlText
    BY CharactersAreTexts, SeveralText DEF UrlText
  <2> QED
    BY <2>1, <2>2
<1> HIDE DEF UrlText
<1>4. UserInfo(u) \in UrlText
  BY <1>1, <1>2, <1>3 DEF UserInfo
<1>5. PortText(u) \in UrlText /\ FragmentText(u) \in UrlText
  BY <1>1, <1>2, <1>3 DEF PortText, FragmentText
<1>6. Base(u) \in UrlText
  BY <1>1, <1>2, <1>3, <1>4, <1>5 DEF Base
<1> QED
  BY <1>4, <1>5, <1>6

LEMMA NoItems ==
  ASSUME NEW d0, NEW d
  PROVE  IsChain(<<>>, d0, d, <<>>)
<1> DEFINE c == [i \in 0..0 |-> 0]
<1>1. c \in [0..0 -> Nat] /\ c[0] = 0 /\ Len(<<>>) = 0 /\ 1..0 = {}
  OBVIOUS
<1> HIDE DEF c
<1>2. Chain(<<>>, Led(d0, d, 0), <<>>, c, 0)
  BY <1>1 DEF Chain
<1> QED
  BY <1>1, <1>2 DEF IsChain

(* The two solutions write the same text, path and query as chains.        *)
Blocks(u, path, query) ==
  /\ path \in UrlText /\ query \in UrlText
  /\ IsChain(path, "/", "/", u.pathname) /\ IsChain(query, "?", "&", QueryPairs(u))

LEMMA LocationBlocks ==
  ASSUME NEW u, Spelled(u), WellFormed(u)
  PROVE  \E path, query : /\ Blocks(u, path, query)
                          /\ Location(u) = Base(u) \o path \o query \o FragmentText(u)
<1> DEFINE P == u.pathname
           X == QueryPairs(u)
           path == Texts!FlattenSeq([i \in DOMAIN P |-> <<"/">> \o P[i]])
           pairs == Texts!FlattenSeq([i \in DOMAIN X |-> (IF i = 1 THEN <<>> ELSE <<"&">>) \o X[i]])
           sign == IF DOMAIN u.query = {} THEN <<>> ELSE <<"?">>
           query == sign \o pairs
<1>1. /\ P \in Seq(UrlText) /\ u.port # <<>> /\ Query(u.query, Letters)
  BY FieldFacts
<1>2. path \in UrlText /\ IsChain(path, "/", "/", P)
  BY <1>1, CharactersAreTexts, WrittenBefore DEF UrlText
<1>3. pairs \in UrlText /\ query \in UrlText /\ sign \in UrlText /\ IsChain(query, "?", "&", X)
  <2>1. /\ X \in Seq(UrlText) /\ Len(X) \in Nat /\ (X = <<>> <=> DOMAIN u.query = {})
        /\ (Len(X) = 0 <=> DOMAIN u.query = {})
        /\ \A m \in 1..Len(X) : X[m] \in UrlText /\ Len(X[m]) # 0
    BY <1>1, PairsFacts
  <2> HIDE DEF X
  <2>2. CASE DOMAIN u.query = {}
    <3>1. X = <<>> /\ sign = <<>>
      BY <2>1, <2>2
    <3>2. [i \in DOMAIN X |-> (IF i = 1 THEN <<>> ELSE <<"&">>) \o X[i]] = <<>>
      BY <3>1
    <3>3. pairs = <<>>
      BY <3>2, EmptyFlat
    <3>4. <<>> \o <<>> = <<>>
      OBVIOUS
    <3>5. query = <<>>
      BY <3>1, <3>3, <3>4
    <3> QED
      BY <3>1, <3>3, <3>5, NoItems, CharactersAreTexts
  <2>3. CASE DOMAIN u.query # {}
    <3>1. sign = <<"?">> /\ Len(X) # 0 /\ Len(X[1]) # 0
      BY <2>1, <2>3
    <3>2. pairs \in UrlText /\ IsChain(<<"?">> \o pairs, "?", "&", X)
      BY <2>1, <3>1, CharactersAreTexts, WrittenBetween DEF UrlText
    <3> HIDE DEF pairs
    <3>3. <<"?">> \in UrlText /\ <<"?">> \o pairs \in UrlText
      BY <3>2, CharactersAreTexts, JoinOne, OneText DEF UrlText
    <3> QED
      BY <3>1, <3>2, <3>3
  <2> QED
    BY <2>2, <2>3
<1>4. Location(u) = Base(u) \o path \o sign \o pairs \o FragmentText(u)
  <2>1. (IF u.port \in {<<>>, <<"0">>} THEN <<>> ELSE <<":">> \o u.port) = PortText(u)
    BY <1>1 DEF PortText
  <2> QED
    BY <2>1 DEF Location, Base, FragmentText
<1> HIDE DEF path, pairs, sign
<1>5. Base(u) \in UrlText /\ Base(u) \o path \in UrlText
  BY <1>2, BlocksAreTexts, JoinFacts DEF UrlText
<1> DEFINE a == Base(u) \o path
<1>5a. a \in UrlText
  BY <1>5
<1> HIDE DEF a
<1>6. a \o sign \o pairs = a \o (sign \o pairs)
  BY <1>3, <1>5a, JoinMore DEF UrlText
<1>7. Location(u) = Base(u) \o path \o query \o FragmentText(u)
  BY <1>4, <1>6 DEF a
<1>8. Blocks(u, path, query)
  BY <1>2, <1>3 DEF Blocks
<1> QED
  BY <1>7, <1>8

LEMMA Location2Blocks ==
  ASSUME NEW u, Spelled(u), WellFormed(u)
  PROVE  \E path, query : /\ Blocks(u, path, query)
                          /\ Location2(u) = Base(u) \o path \o query \o FragmentText(u)
<1> DEFINE P == u.pathname
           X == QueryPairs(u)
           path == Texts!Front(<<"/">> \o Texts!FlattenSeq([i \in DOMAIN P |-> P[i] \o <<"/">>]))
           pairs == Texts!Front(<<"?">> \o Texts!FlattenSeq([i \in DOMAIN X |-> X[i] \o <<"&">>]))
           query == IF DOMAIN u.query = {} THEN <<>> ELSE pairs
<1>1. P \in Seq(UrlText) /\ P # <<>> /\ Query(u.query, Letters)
  BY FieldFacts
<1>2. path \in UrlText /\ IsChain(path, "/", "/", P)
  <2>1. Len(P) # 0
    BY <1>1, LengthFacts
  <2> QED
    BY <1>1, <2>1, CharactersAreTexts, WrittenBehind DEF UrlText
<1>3. query \in UrlText /\ IsChain(query, "?", "&", X)
  <2>1. /\ X \in Seq(UrlText) /\ (X = <<>> <=> DOMAIN u.query = {}) /\ (Len(X) = 0 <=> DOMAIN u.query = {})
    BY <1>1, PairsFacts
  <2> HIDE DEF X
  <2>2. CASE DOMAIN u.query = {}
    BY <2>1, <2>2, NoItems, CharactersAreTexts
  <2>3. CASE DOMAIN u.query # {}
    BY <2>1, <2>3, CharactersAreTexts, WrittenBehind DEF UrlText
  <2> QED
    BY <2>2, <2>3
<1>4. Location2(u) = Base(u) \o path \o query \o FragmentText(u)
  BY DEF Location2, Base, PortText, FragmentText
<1>5. Blocks(u, path, query)
  BY <1>2, <1>3 DEF Blocks
<1> QED
  BY <1>4, <1>5

(* location of URL2.h writes what location of URL.h writes.                *)
LEMMA LocationsAgree ==
  ASSUME NEW u, Spelled(u), WellFormed(u)
  PROVE  Location2(u) = Location(u)
<1>1. PICK p, q : Blocks(u, p, q) /\ Location(u) = Base(u) \o p \o q \o FragmentText(u)
  BY LocationBlocks
<1>2. PICK r, s : Blocks(u, r, s) /\ Location2(u) = Base(u) \o r \o s \o FragmentText(u)
  BY Location2Blocks
<1>3. p = r /\ q = s
  BY <1>1, <1>2, ChainsAgree DEF Blocks, UrlText
<1> QED
  BY <1>1, <1>2, <1>3

-----------------------------------------------------------------------------
(* The parts of the authority and what stands before each.                 *)
PartsOf(u) ==
  CASE u.username = <<>> /\ u.port = <<"0">> -> <<u.hostname>>
    [] u.username = <<>> /\ u.port # <<"0">> -> <<u.hostname, u.port>>
    [] u.username # <<>> /\ u.port = <<"0">> -> <<u.username, u.password, u.hostname>>
    [] OTHER -> <<u.username, u.password, u.hostname, u.port>>

PartMarks(u) ==
  IF u.username = <<>> THEN <<"/", ":">> ELSE <<"/", ":", "@", ":">>

(* A chain of n items of t that reaches from k0 to k.                      *)
Reaches(t, D, X, k0, n, k) == \E c : Chain(t, D, X, c, n) /\ c[0] = k0 /\ c[n] = k

LEMMA ReachesNothing ==
  ASSUME NEW t, NEW D, NEW X, NEW k \in Nat
  PROVE  Reaches(t, D, X, k, 0, k)
<1> DEFINE c == [i \in 0..0 |-> k]
<1>1. c \in [0..0 -> Nat] /\ c[0] = k /\ 1..0 = {}
  OBVIOUS
<1> HIDE DEF c
<1>2. Chain(t, D, X, c, 0)
  BY <1>1 DEF Chain
<1> QED
  BY <1>1, <1>2 DEF Reaches

LEMMA ReachesOn ==
  ASSUME NEW t, NEW D, NEW X, NEW k0, NEW n, NEW k, Reaches(t, D, X, k0, n, k),
         NEW d, NEW x, D[n + 1] = d, X[n + 1] = x, HoldsAt(t, k, <<d>>), HoldsAt(t, k + 1, x)
  PROVE  Reaches(t, D, X, k0, n + 1, k + 1 + Len(x))
<1>1. PICK c : Chain(t, D, X, c, n) /\ c[0] = k0 /\ c[n] = k
  BY DEF Reaches
<1>2. /\ n \in Nat /\ c \in [0..n -> Nat]
      /\ \A i \in 1..n :
           /\ Len(X[i]) \in Nat /\ c[i] = c[i - 1] + 1 + Len(X[i])
           /\ HoldsAt(t, c[i - 1] + 1, X[i]) /\ t[c[i - 1] + 1] = D[i]
  BY <1>1 DEF Chain
<1>3. Len(x) \in Nat /\ k \in Nat
  BY DEF HoldsAt
<1> DEFINE z == k + 1 + Len(x)
           e == [i \in 0..(n + 1) |-> IF i = n + 1 THEN z ELSE c[i]]
<1>4. z \in Nat /\ z = k + 1 + Len(x)
  BY <1>3
<1> HIDE DEF z
<1>5. /\ e \in [0..(n + 1) -> Nat] /\ e[n + 1] = z /\ e[0] = c[0] /\ e[n] = k
      /\ \A i \in 0..n : e[i] = c[i]
  BY <1>1, <1>2, <1>4
<1> HIDE DEF e
<1>6. ASSUME NEW i \in 1..(n + 1)
      PROVE  /\ Len(X[i]) \in Nat /\ e[i] = e[i - 1] + 1 + Len(X[i])
             /\ HoldsAt(t, e[i - 1] + 1, X[i]) /\ t[e[i - 1] + 1] = D[i]
  <2>1. CASE i = n + 1
    <3>1. i - 1 = n /\ X[i] = x /\ D[i] = d
      BY <1>2, <2>1
    <3>2. t[k + 1] = d
      BY HoldsOne
    <3> QED
      BY <1>3, <1>4, <1>5, <2>1, <3>1, <3>2
  <2>2. CASE i # n + 1
    <3>1. i \in 1..n /\ e[i] = c[i] /\ e[i - 1] = c[i - 1]
      BY <1>2, <1>5, <2>2
    <3> QED
      BY <1>2, <3>1
  <2> QED
    BY <2>1, <2>2
<1>7. Chain(t, D, X, e, n + 1)
  BY <1>2, <1>5, <1>6 DEF Chain
<1> QED
  BY <1>1, <1>5, <1>7 DEF Reaches, z

(* The pieces of the text before the path.                                 *)
LEMMA UserInfoHolds ==
  ASSUME NEW u, Spelled(u), WellFormed(u), u.username # <<>>
  PROVE  LET v == UserInfo(u)
             a == Len(u.username)
             b == Len(u.password)
         IN  /\ a \in Nat /\ b \in Nat /\ Len(v) = a + 1 + b + 1
             /\ HoldsAt(v, 0, u.username) /\ HoldsAt(v, a, <<":">>)
             /\ HoldsAt(v, a + 1, u.password) /\ HoldsAt(v, a + 1 + b, <<"@">>)
<1> DEFINE v == UserInfo(u)
           a == Len(u.username)
           b == Len(u.password)
           w1 == u.username \o <<":">>
           w2 == w1 \o u.password
           S == Letters
<1>1. u.username \in Seq(S) /\ u.password \in Seq(S) /\ u.password # <<>>
  BY FieldFacts DEF UrlText
<1>2. v = w2 \o <<"@">>
  BY <1>1 DEF UserInfo
<1>3. a \in Nat /\ b \in Nat
  BY <1>1, LengthFacts
<1>4. w1 \in Seq(S) /\ Len(w1) = a + 1 /\ HoldsAt(w1, 0, u.username) /\ HoldsAt(w1, a, <<":">>)
  BY <1>1, CharactersAreTexts, JoinOne
<1> HIDE DEF w1, S
<1>5. /\ w2 \in Seq(S) /\ Len(w2) = Len(w1) + b
      /\ HoldsAt(w2, 0, w1) /\ HoldsAt(w2, Len(w1), u.password)
  BY <1>1, <1>4, HoldsJoin
<1> HIDE DEF w2
<1>6. Len(v) = Len(w2) + 1 /\ HoldsAt(v, 0, w2) /\ HoldsAt(v, Len(w2), <<"@">>)
  BY <1>2, <1>5, CharactersAreTexts, JoinOne DEF S
<1> HIDE DEF v, a, b
<1>7. Len(w2) = a + 1 + b /\ Len(v) = a + 1 + b + 1
  BY <1>3, <1>4, <1>5, <1>6 DEF b
<1>8. /\ HoldsAt(v, 0 + (0 + 0), u.username) /\ HoldsAt(v, 0 + (0 + a), <<":">>)
      /\ HoldsAt(v, 0 + Len(w1), u.password)
  <2>1. HoldsAt(v, 0 + 0, w1)
    BY <1>5, <1>6, HoldsIn
  <2>2. HoldsAt(w2, 0 + 0, u.username) /\ HoldsAt(w2, 0 + a, <<":">>)
    BY <1>4, <1>5, HoldsIn
  <2> QED
    BY <1>5, <1>6, <2>2, HoldsIn
<1>9. 0 + (0 + 0) = 0 /\ 0 + (0 + a) = a /\ 0 + Len(w1) = a + 1
  BY <1>3, <1>4
<1> QED
  BY <1>3, <1>6, <1>7, <1>8, <1>9 DEF v, a, b

LEMMA BaseHolds ==
  ASSUME NEW u, Spelled(u), WellFormed(u)
  PROVE  LET t == Base(u)
             k == Len(u.protocol)
             o == k + 3 + Len(UserInfo(u))
             h == Len(u.hostname)
         IN  /\ k \in Nat /\ h \in Nat /\ Len(UserInfo(u)) \in Nat /\ Len(PortText(u)) \in Nat
             /\ Len(t) = o + h + Len(PortText(u))
             /\ HoldsAt(t, 0, u.protocol) /\ HoldsAt(t, k, <<":", "/", "/">>)
             /\ HoldsAt(t, k + 3, UserInfo(u)) /\ HoldsAt(t, o, u.hostname)
             /\ HoldsAt(t, o + h, PortText(u))
<1> DEFINE S == Letters
           t == Base(u)
           p == u.protocol
           s == <<":", "/", "/">>
           v == UserInfo(u)
           n == u.hostname
           r == PortText(u)
           k == Len(p)
           h == Len(n)
           w1 == p \o s
           w2 == w1 \o v
           w3 == w2 \o n
<1>1. p \in Seq(S) /\ v \in Seq(S) /\ n \in Seq(S) /\ r \in Seq(S) /\ s \in Seq(S) /\ Len(s) = 3
  BY FieldFacts, BlocksAreTexts, CharactersAreTexts, SeveralText DEF UrlText
<1>2. t = w3 \o r
  BY DEF Base
<1>3. k \in Nat /\ h \in Nat /\ Len(v) \in Nat /\ Len(r) \in Nat
  BY <1>1, LengthFacts
<1> HIDE DEF s, S, p, v, n, r, t
<1>4. w1 \in Seq(S) /\ Len(w1) = k + Len(s) /\ HoldsAt(w1, 0, p) /\ HoldsAt(w1, k, s)
  BY <1>1, HoldsJoin
<1> HIDE DEF w1
<1>5. w2 \in Seq(S) /\ Len(w2) = Len(w1) + Len(v) /\ HoldsAt(w2, 0, w1) /\ HoldsAt(w2, Len(w1), v)
  BY <1>1, <1>4, HoldsJoin
<1> HIDE DEF w2
<1>6. w3 \in Seq(S) /\ Len(w3) = Len(w2) + h /\ HoldsAt(w3, 0, w2) /\ HoldsAt(w3, Len(w2), n)
  BY <1>1, <1>5, HoldsJoin
<1> HIDE DEF w3
<1>7. Len(t) = Len(w3) + Len(r) /\ HoldsAt(t, 0, w3) /\ HoldsAt(t, Len(w3), r)
  BY <1>1, <1>2, <1>6, HoldsJoin
<1> HIDE DEF k, h
<1>8. Len(w1) = k + 3 /\ Len(w2) = k + 3 + Len(v) /\ Len(w3) = k + 3 + Len(v) + h
  BY <1>1, <1>3, <1>4, <1>5, <1>6
<1>9. HoldsAt(t, 0 + 0, w2) /\ HoldsAt(t, 0 + Len(w2), n)
  BY <1>6, <1>7, HoldsIn
<1>10. HoldsAt(t, (0 + 0) + 0, w1) /\ HoldsAt(t, (0 + 0) + Len(w1), v)
  BY <1>5, <1>9, HoldsIn
<1>11. HoldsAt(t, ((0 + 0) + 0) + 0, p) /\ HoldsAt(t, ((0 + 0) + 0) + k, s)
  BY <1>4, <1>10, HoldsIn
<1>12. ((0 + 0) + 0) + 0 = 0 /\ ((0 + 0) + 0) + k = k /\ (0 + 0) + Len(w1) = k + 3
       /\ 0 + Len(w2) = k + 3 + Len(v)
  BY <1>3, <1>8
<1> QED
  BY <1>3, <1>7, <1>8, <1>9, <1>10, <1>11, <1>12 DEF t, k, p, v, h, n, r, s

(* The authority is a chain of its parts.                                  *)
LEMMA AuthorityChain ==
  ASSUME NEW u, Spelled(u), WellFormed(u)
  PROVE  LET k == Len(u.protocol) IN
         Reaches(Base(u), PartMarks(u), PartsOf(u), k + 2, Len(PartsOf(u)), Len(Base(u)))
<1> DEFINE t == Base(u)
           k == Len(u.protocol)
           v == Len(UserInfo(u))
           h == Len(u.hostname)
           r == Len(PortText(u))
           o == k + 3 + v
           D == PartMarks(u)
           X == PartsOf(u)
           m == Len(t)
           G(n, y) == Reaches(t, D, X, k + 2, n, y)
<1>1. /\ k \in Nat /\ h \in Nat /\ v \in Nat /\ r \in Nat /\ m = o + h + r /\ o = k + 3 + v
      /\ HoldsAt(t, k, <<":", "/", "/">>) /\ HoldsAt(t, k + 3, UserInfo(u))
      /\ HoldsAt(t, o, u.hostname) /\ HoldsAt(t, o + h, PortText(u))
  BY BaseHolds
<1>2. HoldsAt(t, k + 2, <<"/">>)
  <2>1. HoldsAt(<<":", "/", "/">>, 2, <<"/">>)
    BY DEF HoldsAt
  <2> QED
    BY <1>1, <2>1, HoldsIn
<1>3. G(0, k + 2)
  <2>1. k + 2 \in Nat
    BY <1>1
  <2> QED
    BY <2>1, ReachesNothing
<1>4. u.port # <<"0">> => HoldsAt(t, o + h, <<":">>) /\ HoldsAt(t, o + h + 1, u.port) /\ r = 1 + Len(u.port)
                          /\ Len(u.port) \in Nat
  <2> SUFFICES ASSUME u.port # <<"0">>
               PROVE  HoldsAt(t, o + h, <<":">>) /\ HoldsAt(t, o + h + 1, u.port) /\ r = 1 + Len(u.port)
                      /\ Len(u.port) \in Nat
    OBVIOUS
  <2>1. PortText(u) = <<":">> \o u.port
    BY DEF PortText
  <2>2. u.port \in Seq(Letters)
    BY FieldFacts DEF UrlText
  <2>3. r = 1 + Len(u.port) /\ HoldsAt(PortText(u), 0, <<":">>) /\ HoldsAt(PortText(u), 1, u.port)
        /\ Len(u.port) \in Nat
    BY <2>1, <2>2, CharactersAreTexts, JoinOne
  <2>4. HoldsAt(t, o + h + 0, <<":">>) /\ HoldsAt(t, o + h + 1, u.port)
    BY <1>1, <2>3, HoldsIn
  <2>5. o + h + 0 = o + h
    BY <1>1
  <2> QED
    BY <2>3, <2>4, <2>5
<1>5. u.port = <<"0">> => r = 0
  BY DEF PortText
<1> HIDE DEF t, k, v, h, r, o, m, D, X
<1>6. CASE u.username = <<>>
  <2>1. v = 0 /\ D[0 + 1] = "/" /\ D[1 + 1] = ":" /\ X[0 + 1] = u.hostname
        /\ (u.port # <<"0">> => X[1 + 1] = u.port)
        /\ Len(X) = IF u.port = <<"0">> THEN 1 ELSE 2
    BY <1>6 DEF v, UserInfo, D, PartMarks, X, PartsOf
  <2>2. HoldsAt(t, (k + 2) + 1, u.hostname)
    <3>1. (k + 2) + 1 = o
      BY <1>1, <2>1
    <3> QED
      BY <1>1, <3>1
  <2>3. G(0 + 1, (k + 2) + 1 + h)
    BY <1>2, <1>3, <2>1, <2>2, ReachesOn DEF h
  <2>4. (k + 2) + 1 + h = o + h /\ 0 + 1 = 1 /\ 1 + 1 = 2
    BY <1>1, <2>1
  <2>5. G(1, o + h)
    BY <2>3, <2>4
  <2>6. CASE u.port = <<"0">>
    <3>1. Len(X) = 1 /\ m = o + h
      BY <1>1, <1>5, <2>1, <2>6
    <3> QED
      BY <2>5, <3>1 DEF t, k, m, D, X
  <2>7. CASE u.port # <<"0">>
    <3>1. G(1 + 1, o + h + 1 + Len(u.port))
      BY <1>4, <2>1, <2>5, <2>7, ReachesOn
    <3>2. Len(X) = 1 + 1 /\ m = o + h + 1 + Len(u.port)
      <4> DEFINE z == Len(u.port)
      <4>1. z \in Nat /\ r = 1 + z /\ Len(X) = 2
        BY <1>4, <2>1, <2>7
      <4> HIDE DEF z
      <4>2. m = o + h + 1 + z
        BY <1>1, <4>1
      <4> QED
        BY <4>1, <4>2 DEF z
    <3> QED
      BY <3>1, <3>2 DEF t, k, m, D, X
  <2> QED
    BY <2>6, <2>7
<1>7. CASE u.username # <<>>
  <2> DEFINE a == Len(u.username)
             b == Len(u.password)
  <2>1. /\ D[0 + 1] = "/" /\ D[1 + 1] = ":" /\ D[2 + 1] = "@" /\ D[3 + 1] = ":"
        /\ X[0 + 1] = u.username /\ X[1 + 1] = u.password /\ X[2 + 1] = u.hostname
        /\ (u.port # <<"0">> => X[3 + 1] = u.port)
        /\ Len(X) = IF u.port = <<"0">> THEN 3 ELSE 4
    BY <1>7 DEF D, PartMarks, X, PartsOf
  <2>2. /\ a \in Nat /\ b \in Nat /\ v = a + 1 + b + 1
        /\ HoldsAt(UserInfo(u), 0, u.username) /\ HoldsAt(UserInfo(u), a, <<":">>)
        /\ HoldsAt(UserInfo(u), a + 1, u.password) /\ HoldsAt(UserInfo(u), a + 1 + b, <<"@">>)
    BY <1>7, UserInfoHolds DEF v
  <2> HIDE DEF a, b
  <2>3. /\ HoldsAt(t, (k + 3) + 0, u.username) /\ HoldsAt(t, (k + 3) + a, <<":">>)
        /\ HoldsAt(t, (k + 3) + (a + 1), u.password) /\ HoldsAt(t, (k + 3) + (a + 1 + b), <<"@">>)
    BY <1>1, <2>2, HoldsIn
  <2> DEFINE y1 == (k + 2) + 1 + a
             y2 == y1 + 1 + b
             y3 == y2 + 1 + h
  <2>4. /\ (k + 3) + 0 = (k + 2) + 1 /\ (k + 3) + a = y1 /\ (k + 3) + (a + 1) = y1 + 1
        /\ (k + 3) + (a + 1 + b) = y2 /\ o = y2 + 1 /\ o + h = y3
        /\ 0 + 1 = 1 /\ 1 + 1 = 2 /\ 2 + 1 = 3 /\ 3 + 1 = 4
    BY <1>1, <2>2
  <2> HIDE DEF y1, y2, y3
  <2>5. G(1, y1)
    <3>1. G(0 + 1, (k + 2) + 1 + a)
      BY <1>2, <1>3, <2>1, <2>3, <2>4, ReachesOn DEF a
    <3> QED
      BY <2>4, <3>1 DEF y1
  <2>6. G(2, y2)
    <3>1. G(1 + 1, y1 + 1 + b)
      BY <2>1, <2>3, <2>4, <2>5, ReachesOn DEF b
    <3> QED
      BY <2>4, <3>1 DEF y2
  <2>7. G(3, y3)
    <3>1. HoldsAt(t, y2 + 1, u.hostname)
      BY <1>1, <2>4
    <3>2. G(2 + 1, y2 + 1 + h)
      BY <2>1, <2>3, <2>4, <2>6, <3>1, ReachesOn DEF h
    <3> QED
      BY <2>4, <3>2 DEF y3
  <2>8. CASE u.port = <<"0">>
    <3>1. Len(X) = 3 /\ m = y3
      BY <1>1, <1>5, <2>1, <2>4, <2>8
    <3> QED
      BY <2>7, <3>1 DEF t, k, m, D, X
  <2>9. CASE u.port # <<"0">>
    <3>1. HoldsAt(t, y3, <<":">>) /\ HoldsAt(t, y3 + 1, u.port)
      BY <1>4, <2>4, <2>9
    <3>2. G(3 + 1, y3 + 1 + Len(u.port))
      BY <2>1, <2>7, <2>9, <3>1, ReachesOn
    <3>3. Len(X) = 3 + 1 /\ m = y3 + 1 + Len(u.port)
      <4> DEFINE z == Len(u.port)
      <4>1. z \in Nat /\ r = 1 + z /\ Len(X) = 4
        BY <1>4, <2>1, <2>9
      <4> HIDE DEF z
      <4>2. m = y3 + 1 + z
        BY <1>1, <2>4, <4>1
      <4> QED
        BY <2>4, <4>1, <4>2 DEF z
    <3> QED
      BY <3>2, <3>3 DEF t, k, m, D, X
  <2> QED
    BY <2>8, <2>9
<1> QED
  BY <1>6, <1>7

(* Where everything stands in the text of a URL: its parts end at b, its   *)
(* segments at c, its pairs at e.                                          *)
Layout(u, T, b, c, e) ==
  LET k == Len(u.protocol)
      h == b[Len(PartsOf(u))]
      g == c[Len(u.pathname)]
      f == e[Len(QueryPairs(u))]
  IN  /\ HoldsAt(T, 0, u.protocol) /\ HoldsAt(T, k, <<":", "/", "/">>)
      /\ b[0] = k + 2 /\ Chain(T, PartMarks(u), PartsOf(u), b, Len(PartsOf(u)))
      /\ HoldsAt(T, k + 3, UserInfo(u) \o (u.hostname \o PortText(u)))
      /\ h = k + 3 + Len(UserInfo(u) \o (u.hostname \o PortText(u)))
      /\ c[0] = h /\ Chain(T, Led("/", "/", Len(u.pathname)), u.pathname, c, Len(u.pathname))
      /\ e[0] = g
      /\ Chain(T, Led("?", "&", Len(QueryPairs(u))), QueryPairs(u), e, Len(QueryPairs(u)))
      /\ HoldsAt(T, f, FragmentText(u)) /\ Len(T) = f + Len(FragmentText(u))

LEMMA MovedChain ==
  ASSUME NEW T, NEW k, NEW t, NEW d0, NEW d, NEW X, IsChain(t, d0, d, X), HoldsAt(T, k, t)
  PROVE  Reaches(T, Led(d0, d, Len(X)), X, k, Len(X), k + Len(t))
<1> DEFINE n == Len(X)
           D == Led(d0, d, n)
<1>1. PICK c : Chain(t, D, X, c, n) /\ c[0] = 0 /\ c[n] = Len(t)
  BY DEF IsChain
<1> DEFINE e == [i \in 0..n |-> k + c[i]]
<1> HIDE DEF n, D
<1>2. n \in Nat
  BY <1>1 DEF Chain
<1>3. Chain(T, D, X, e, n)
  BY <1>1, ChainMoves
<1>4. k \in Nat
  BY DEF HoldsAt
<1>5. e[0] = k + 0 /\ e[n] = k + Len(t)
  BY <1>1, <1>2
<1>6. e[0] = k
  BY <1>4, <1>5
<1> HIDE DEF e
<1> QED
  BY <1>3, <1>5, <1>6 DEF Reaches, n, D

LEMMA JoinTexts == \A a, b, c \in UrlText : a \o b \o c = a \o (b \o c)
BY JoinMore DEF UrlText

LEMMA LocationLayout ==
  ASSUME NEW u, Spelled(u), WellFormed(u)
  PROVE  Location(u) \in UrlText /\ \E b, c, e : Layout(u, Location(u), b, c, e)
<1> DEFINE T == Location(u)
           B == Base(u)
           k == Len(u.protocol)
           F == FragmentText(u)
           n == Len(PartsOf(u))
           m == Len(u.pathname)
           z == Len(QueryPairs(u))
           A == UserInfo(u) \o (u.hostname \o PortText(u))
<1>1. PICK P, Q : Blocks(u, P, Q) /\ T = B \o P \o Q \o F
  BY LocationBlocks
<1>2. /\ P \in UrlText /\ Q \in UrlText
      /\ IsChain(P, "/", "/", u.pathname) /\ IsChain(Q, "?", "&", QueryPairs(u))
  BY <1>1 DEF Blocks
<1>3. B \in UrlText /\ F \in UrlText
  BY BlocksAreTexts
<1> DEFINE w1 == B \o P
           w2 == w1 \o Q
<1> HIDE DEF B, F
<1>4. w1 \in UrlText /\ Len(w1) = Len(B) + Len(P) /\ HoldsAt(w1, 0, B) /\ HoldsAt(w1, Len(B), P)
  BY <1>2, <1>3, HoldsJoin DEF UrlText
<1> HIDE DEF w1
<1>5. w2 \in UrlText /\ Len(w2) = Len(w1) + Len(Q) /\ HoldsAt(w2, 0, w1) /\ HoldsAt(w2, Len(w1), Q)
  BY <1>2, <1>4, HoldsJoin DEF UrlText
<1>5a. T = w2 \o F
  BY <1>1 DEF w1
<1> HIDE DEF w2, T
<1>6. T \in UrlText /\ Len(T) = Len(w2) + Len(F) /\ HoldsAt(T, 0, w2) /\ HoldsAt(T, Len(w2), F)
  BY <1>3, <1>5, <1>5a, HoldsJoin DEF UrlText
<1>7. Len(B) \in Nat /\ Len(P) \in Nat /\ Len(Q) \in Nat /\ Len(F) \in Nat
  BY <1>2, <1>3, LengthFacts DEF UrlText
<1>8. HoldsAt(T, 0, B) /\ HoldsAt(T, Len(B), P) /\ HoldsAt(T, Len(w1), Q)
  <2>1. HoldsAt(T, 0 + 0, w1) /\ HoldsAt(T, 0 + Len(w1), Q)
    BY <1>5, <1>6, HoldsIn
  <2>2. HoldsAt(T, (0 + 0) + 0, B) /\ HoldsAt(T, (0 + 0) + Len(B), P)
    BY <1>4, <2>1, HoldsIn
  <2>3. (0 + 0) + 0 = 0 /\ (0 + 0) + Len(B) = Len(B) /\ 0 + Len(w1) = Len(w1)
    BY <1>4, <1>7
  <2> QED
    BY <2>1, <2>2, <2>3
<1>9. PICK b0 : Chain(B, PartMarks(u), PartsOf(u), b0, n) /\ b0[0] = k + 2 /\ b0[n] = Len(B)
  BY AuthorityChain DEF Reaches, B
<1> DEFINE b == [i \in 0..n |-> 0 + b0[i]]
<1>10. Chain(T, PartMarks(u), PartsOf(u), b, n) /\ b[0] = k + 2 /\ b[n] = Len(B)
  <2>1. Chain(T, PartMarks(u), PartsOf(u), b, n)
    BY <1>8, <1>9, ChainMoves
  <2> HIDE DEF n
  <2>2. n \in Nat /\ b0 \in [0..n -> Nat]
    BY <1>9 DEF Chain
  <2>3. b[0] = b0[0] /\ b[n] = b0[n]
    BY <2>2
  <2> HIDE DEF b
  <2> QED
    BY <1>9, <2>1, <2>3
<1> HIDE DEF b
<1>11. PICK c : /\ Chain(T, Led("/", "/", m), u.pathname, c, m)
                /\ c[0] = Len(B) /\ c[m] = Len(B) + Len(P)
  BY <1>2, <1>8, MovedChain DEF Reaches
<1>12. PICK e : /\ Chain(T, Led("?", "&", z), QueryPairs(u), e, z)
                /\ e[0] = Len(w1) /\ e[z] = Len(w1) + Len(Q)
  BY <1>2, <1>8, MovedChain DEF Reaches
<1>13. /\ k \in Nat /\ Len(B) = k + 3 + Len(A)
       /\ HoldsAt(T, 0, u.protocol) /\ HoldsAt(T, k, <<":", "/", "/">>) /\ HoldsAt(T, k + 3, A)
  <2> DEFINE a == u.protocol \o <<":", "/", "/">>
             v == UserInfo(u)
             y == u.hostname
             r == PortText(u)
             w == y \o r
  <2>1. /\ u.protocol \in UrlText /\ v \in UrlText /\ y \in UrlText /\ r \in UrlText
        /\ <<":", "/", "/">> \in UrlText /\ Len(<<":", "/", "/">>) = 3
    BY FieldFacts, BlocksAreTexts, CharactersAreTexts, SeveralText DEF UrlText
  <2>2. a \in UrlText /\ Len(a) = k + 3
    BY <2>1, HoldsJoin DEF UrlText
  <2>3. B = a \o v \o y \o r
    BY DEF Base, B
  <2> HIDE DEF a, v, y, r
  <2>4. a \o v \in UrlText /\ w \in UrlText
    BY <2>1, <2>2, HoldsJoin DEF UrlText
  <2>5. (a \o v) \o y \o r = (a \o v) \o w /\ (a \o v) \o w = a \o (v \o w) /\ v \o w \in UrlText
    <3> DEFINE x == a \o v
    <3>1. x \in UrlText
      BY <2>4
    <3> HIDE DEF x
    <3>2. x \o y \o r = x \o (y \o r)
      BY <2>1, <3>1, JoinTexts, Zenon
    <3> HIDE DEF w
    <3>3. a \o v \o w = a \o (v \o w)
      <4>1. a \in UrlText /\ v \in UrlText /\ w \in UrlText
        BY <2>1, <2>2, <2>4
      <4> QED
        BY <4>1, JoinTexts, Zenon
    <3>4. v \o w \in UrlText
      BY <2>1, <2>4, HoldsJoin DEF UrlText
    <3> QED
      BY <3>2, <3>3, <3>4 DEF x, w
  <2>6. B = a \o A /\ A \in UrlText
    BY <2>3, <2>5 DEF v, y, r
  <2> HIDE DEF A
  <2>7. Len(B) = Len(a) + Len(A) /\ HoldsAt(B, Len(a), A)
    BY <2>2, <2>6, HoldsJoin DEF UrlText
  <2>8. k \in Nat /\ HoldsAt(B, 0, u.protocol) /\ HoldsAt(B, k, <<":", "/", "/">>)
    BY BaseHolds DEF B
  <2>9. HoldsAt(T, 0 + 0, u.protocol) /\ HoldsAt(T, 0 + k, <<":", "/", "/">>) /\ HoldsAt(T, 0 + Len(a), A)
    BY <1>8, <2>7, <2>8, HoldsIn
  <2>10. 0 + 0 = 0 /\ 0 + k = k /\ 0 + Len(a) = k + 3
    BY <2>2, <2>8
  <2> QED
    BY <2>2, <2>7, <2>8, <2>9, <2>10
<1>14. /\ e[0] = c[m] /\ HoldsAt(T, e[z], F) /\ Len(T) = e[z] + Len(F)
  BY <1>4, <1>5, <1>6, <1>11, <1>12
<1>15. Layout(u, T, b, c, e)
  BY <1>10, <1>11, <1>12, <1>13, <1>14 DEF Layout, F
<1> QED
  BY <1>6, <1>15 DEF T

-----------------------------------------------------------------------------
(* Searching a text.                                                       *)
LEMMA FindFirst ==
  ASSUME NEW s, NEW c, NEW i \in Nat, Len(s) \in Nat, NEW p \in i..Len(s), s[p] = c,
         \A j \in i..(p - 1) : s[j] # c
  PROVE  FindFrom(s, c, i) = p
<1> DEFINE n == Len(s)
           at == {j \in i..n : s[j] = c}
<1>1. n \in Nat
  OBVIOUS
<1>2. FindFrom(s, c, i) = IF at = {} THEN 0 ELSE CHOOSE j \in at : \A k \in at : j <= k
  BY DEF FindFrom
<1> HIDE DEF n
<1>3. p \in i..n /\ p \in at /\ at \subseteq Int
  BY DEF n
<1>4. \A j \in at : p <= j
  <2> SUFFICES ASSUME NEW j \in at, j < p PROVE FALSE
    BY <1>1, <1>3
  <2>1. j \in i..(p - 1)
    BY <1>1, <1>3
  <2> QED
    BY <2>1
<1> HIDE DEF at
<1>5. PICK m \in at : m = (CHOOSE j \in at : \A k \in at : j <= k) /\ \A k \in at : m <= k
  BY <1>3, <1>4
<1>6. m = p
  BY <1>3, <1>4, <1>5
<1> QED
  BY <1>2, <1>3, <1>5, <1>6

LEMMA FindNone ==
  ASSUME NEW s, NEW c, NEW i, \A j \in i..Len(s) : s[j] # c
  PROVE  FindFrom(s, c, i) = 0
BY DEF FindFrom

(* A text taken apart at the first d.                                      *)
LEMMA SplitAt ==
  ASSUME NEW a \in UrlText, NEW d \in Letters, NEW v \in UrlText, \A i \in 1..Len(a) : a[i] # d
  PROVE  LET t == a \o <<d>> \o v
         IN  /\ t \in UrlText /\ Len(a) \in Nat /\ Find(t, d) = Len(a) + 1
             /\ SubSeq(t, 1, (Len(a) + 1) - 1) = a /\ SubSeq(t, (Len(a) + 1) + 1, Len(t)) = v
<1> DEFINE w == a \o <<d>>
           t == w \o v
           k == Len(a)
<1>1. w \in UrlText /\ Len(w) = k + 1 /\ HoldsAt(w, 0, a) /\ HoldsAt(w, k, <<d>>)
  BY JoinOne DEF UrlText
<1>2. k \in Nat /\ Len(v) \in Nat
  BY LengthFacts DEF UrlText
<1> HIDE DEF w
<1>3. t \in UrlText /\ Len(t) = Len(w) + Len(v) /\ HoldsAt(t, 0, w) /\ HoldsAt(t, Len(w), v)
  BY <1>1, HoldsJoin DEF UrlText
<1> HIDE DEF t
<1>4. HoldsAt(t, 0 + 0, a) /\ HoldsAt(t, 0 + k, <<d>>)
  BY <1>1, <1>3, HoldsIn
<1>5. 0 + 0 = 0 /\ 0 + k = k /\ Len(w) = k + 1 /\ Len(t) = (k + 1) + Len(v)
  BY <1>1, <1>2, <1>3
<1>6. HoldsAt(t, 0, a) /\ HoldsAt(t, k, <<d>>) /\ HoldsAt(t, k + 1, v)
  BY <1>3, <1>4, <1>5
<1>7. SubSeq(t, 0 + 1, 0 + Len(a)) = a
  BY <1>3, <1>6, HoldsCut DEF UrlText
<1>8. SubSeq(t, (k + 1) + 1, (k + 1) + Len(v)) = v
  BY <1>3, <1>6, HoldsCut DEF UrlText
<1>9. Find(t, d) = k + 1
  <2>1. \A i \in 1..k : t[0 + i] = a[i]
    BY <1>6 DEF HoldsAt
  <2>2. \A i \in 1..k : t[i] # d
    BY <1>2, <2>1
  <2>3. k + 1 \in 1..Len(t) /\ t[k + 1] = d
    BY <1>6, HoldsOne
  <2>4. Len(t) \in Nat /\ (k + 1) - 1 = k /\ 1 \in Nat
    BY <1>2, <1>5
  <2> QED
    BY <2>2, <2>3, <2>4, FindFirst DEF Find
<1>10. 0 + 1 = 1 /\ 0 + Len(a) = (k + 1) - 1
  BY <1>2
<1> QED
  BY <1>2, <1>3, <1>5, <1>7, <1>8, <1>9, <1>10 DEF t, w, k

(* What neither a nor v holds, a, d and v together do not hold.            *)
LEMMA NoneAcross ==
  ASSUME NEW a \in UrlText, NEW d \in Letters, NEW v \in UrlText, NEW c, d # c,
         \A i \in 1..Len(a) : a[i] # c, \A i \in 1..Len(v) : v[i] # c
  PROVE  LET t == a \o <<d>> \o v IN \A x \in 1..Len(t) : t[x] # c
<1> DEFINE w == a \o <<d>>
           t == w \o v
           k == Len(a)
           m == Len(v)
<1>1. w \in UrlText /\ k \in Nat /\ Len(w) = k + 1 /\ HoldsAt(w, 0, a) /\ HoldsAt(w, k, <<d>>)
  BY JoinOne DEF UrlText
<1>2. m \in Nat
  BY LengthFacts DEF UrlText
<1> HIDE DEF w
<1>3. /\ Len(t) = Len(w) + m /\ (\A i \in 1..Len(w) : t[i] = w[i])
      /\ \A i \in 1..m : t[Len(w) + i] = v[i]
  <2>1. w \in UrlText
    BY <1>1
  <2>2. Len(t) = Len(w) + m
    BY <2>1, JoinFacts DEF UrlText
  <2>3. \A i \in 1..Len(w) : t[i] = w[i]
    BY <2>1, JoinFacts DEF UrlText
  <2>4. \A i \in 1..m : t[Len(w) + i] = v[i]
    BY <2>1, JoinFacts DEF UrlText
  <2> QED
    BY <2>2, <2>3, <2>4
<1>4. w[k + 1] = d /\ \A i \in 1..k : w[0 + i] = a[i]
  BY <1>1, HoldsOne DEF HoldsAt
<1> HIDE DEF t
<1>5. ASSUME NEW x \in 1..Len(t) PROVE t[x] # c
  <2>1. CASE x \in 1..k
    <3>1. x \in 1..Len(w) /\ 0 + x = x
      BY <1>1, <2>1
    <3> QED
      BY <1>3, <1>4, <2>1, <3>1
  <2>2. CASE x = k + 1
    <3>1. x \in 1..Len(w)
      BY <1>1, <2>2
    <3> QED
      BY <1>3, <1>4, <2>2, <3>1
  <2>3. CASE x \notin 1..(k + 1)
    <3> DEFINE y == x - (k + 1)
    <3> HIDE DEF m, k
    <3>1. y \in 1..m /\ Len(w) + y = x
      BY <1>1, <1>2, <1>3, <2>3
    <3> HIDE DEF y
    <3> QED
      BY <1>3, <3>1 DEF m
  <2> QED
    BY <1>1, <2>1, <2>2, <2>3
<1> QED
  BY <1>5 DEF t, w

(* Reading the authority.                                                  *)
AuthorityText(u) == UserInfo(u) \o (u.hostname \o PortText(u))

LEMMA HostReads ==
  ASSUME NEW u, Spelled(u), WellFormed(u)
  PROVE  LET H == u.hostname \o PortText(u)
             m == Find(H, ":")
         IN  /\ H \in UrlText
             /\ u.port = <<"0">> => m = 0 /\ H = u.hostname
             /\ u.port # <<"0">> => /\ m # 0 /\ SubSeq(H, 1, m - 1) = u.hostname
                                    /\ SubSeq(H, m + 1, Len(H)) = u.port
             /\ \A x \in 1..Len(H) : H[x] # "@"
<1> DEFINE n == u.hostname
           r == u.port
           H == n \o PortText(u)
<1>1. n \in UrlText /\ r \in UrlText /\ ":" \in Letters
  BY FieldFacts, CharactersAreTexts
<1>2. /\ \A x \in 1..Len(n) : n[x] \notin {":", "@"}
      /\ \A x \in 1..Len(r) : r[x] \notin {":", "@"}
  BY DEF WellFormed, Without
<1>3. CASE r = <<"0">>
  <2>1. H = n
    BY <1>1, <1>3, JoinMore DEF PortText, UrlText
  <2>2. Find(n, ":") = 0
    BY <1>2, FindNone DEF Find
  <2> QED
    BY <1>1, <1>2, <1>3, <2>1, <2>2
<1>4. CASE r # <<"0">>
  <2> HIDE DEF n, r
  <2>1. <<":">> \in UrlText
    BY <1>1, OneText DEF UrlText
  <2>2. H = n \o <<":">> \o r
    BY <1>1, <1>4, <2>1, JoinTexts DEF PortText, r
  <2> HIDE DEF H
  <2> DEFINE t == n \o <<":">> \o r
  <2>3. /\ t \in UrlText /\ Len(n) \in Nat /\ Find(t, ":") = Len(n) + 1
        /\ SubSeq(t, 1, (Len(n) + 1) - 1) = n /\ SubSeq(t, (Len(n) + 1) + 1, Len(t)) = r
    BY <1>1, <1>2, SplitAt
  <2>4. Len(n) + 1 # 0
    BY <2>3
  <2>5. \A x \in 1..Len(t) : t[x] # "@"
    BY <1>1, <1>2, NoneAcross
  <2> QED
    BY <1>4, <2>2, <2>3, <2>4, <2>5 DEF H, n, r
<1> QED
  BY <1>3, <1>4

(* What WithAuthority makes of the authority of a well-formed URL.         *)
LEMMA AuthorityReads ==
  ASSUME NEW u, Spelled(u), WellFormed(u), NEW v
  PROVE  LET named == IF u.username = <<>> THEN v
                      ELSE [v EXCEPT !.username = u.username, !.password = u.password]
         IN  WithAuthority(v, AuthorityText(u)) =
               IF u.port = <<"0">> THEN [named EXCEPT !.hostname = u.hostname]
               ELSE [named EXCEPT !.hostname = u.hostname, !.port = u.port]
<1> DEFINE A == AuthorityText(u)
           H == u.hostname \o PortText(u)
           at == Find(A, "@")
           user == SubSeq(A, 1, at - 1)
           mid == Find(user, ":")
           host == IF at > 1 THEN SubSeq(A, at + 1, Len(A)) ELSE A
           m == Find(H, ":")
           named == IF at > 1 /\ mid # 0
                    THEN [v EXCEPT !.username = SubSeq(user, 1, mid - 1),
                                   !.password = SubSeq(user, mid + 1, Len(user))]
                    ELSE v
           wanted == IF u.username = <<>> THEN v
                     ELSE [v EXCEPT !.username = u.username, !.password = u.password]
<1>1. /\ H \in UrlText
      /\ u.port = <<"0">> => m = 0 /\ H = u.hostname
      /\ u.port # <<"0">> => /\ m # 0 /\ SubSeq(H, 1, m - 1) = u.hostname
                             /\ SubSeq(H, m + 1, Len(H)) = u.port
      /\ \A x \in 1..Len(H) : H[x] # "@"
  BY HostReads
<1>2. host = H /\ named = wanted
  <2> HIDE DEF H
  <2>1. A = UserInfo(u) \o H
    BY DEF AuthorityText, H
  <2>2. CASE u.username = <<>>
    <3>1. A = H
      <4>1. UserInfo(u) = <<>>
        BY <2>2 DEF UserInfo
      <4> QED
        BY <1>1, <2>1, <4>1, JoinMore DEF UrlText
    <3>2. at = 0
      BY <1>1, <3>1, FindNone DEF Find
    <3> HIDE DEF at, A
    <3> QED
      BY <2>2, <3>1, <3>2
  <2>3. CASE u.username # <<>>
    <3> DEFINE a == u.username
               b == u.password
               w == a \o <<":">> \o b
    <3>1. /\ a \in UrlText /\ b \in UrlText /\ b # <<>>
          /\ ":" \in Letters /\ "@" \in Letters
      BY <2>3, FieldFacts, CharactersAreTexts
    <3>2. /\ \A x \in 1..Len(a) : a[x] # ":" /\ a[x] # "@"
          /\ \A x \in 1..Len(b) : b[x] # ":" /\ b[x] # "@"
      BY DEF WellFormed, Without
    <3>3. UserInfo(u) = w \o <<"@">>
      BY <2>3, <3>1 DEF UserInfo
    <3> HIDE DEF a, b
    <3>4. /\ w \in UrlText /\ Len(a) \in Nat /\ Find(w, ":") = Len(a) + 1
          /\ SubSeq(w, 1, (Len(a) + 1) - 1) = a /\ SubSeq(w, (Len(a) + 1) + 1, Len(w)) = b
      BY <3>1, <3>2, SplitAt
    <3>5. \A x \in 1..Len(w) : w[x] # "@"
      BY <3>1, <3>2, NoneAcross
    <3> HIDE DEF w
    <3>6. A = w \o <<"@">> \o H
      BY <2>1, <3>3
    <3> HIDE DEF A
    <3> DEFINE t == w \o <<"@">> \o H
    <3>7. /\ t \in UrlText /\ Len(w) \in Nat /\ Find(t, "@") = Len(w) + 1
          /\ SubSeq(t, 1, (Len(w) + 1) - 1) = w /\ SubSeq(t, (Len(w) + 1) + 1, Len(t)) = H
      <4>1. w \in UrlText /\ H \in UrlText /\ "@" \in Letters
        BY <1>1, <3>1, <3>4
      <4> QED
        BY <3>5, <4>1, SplitAt
    <3>8. /\ at = Len(w) + 1 /\ SubSeq(A, 1, (Len(w) + 1) - 1) = w
          /\ SubSeq(A, (Len(w) + 1) + 1, Len(A)) = H
      BY <3>6, <3>7
    <3> HIDE DEF t
    <3>9. Len(w) # 0
      <4>1. w # <<>>
        <5>1. Len(a) + 1 # 0
          BY <3>4
        <5>2. Find(<<>>, ":") = 0
          <6>1. Len(<<>>) = 0 /\ 1..0 = {}
            OBVIOUS
          <6> QED
            BY <6>1, FindNone DEF Find
        <5> QED
          BY <3>4, <5>1, <5>2
      <4> QED
        BY <3>4, <4>1, LengthFacts DEF UrlText
    <3>10. at > 1 /\ user = w
      BY <3>7, <3>8, <3>9
    <3>11. host = H
      BY <3>8, <3>10
    <3>12. mid = Len(a) + 1 /\ mid # 0
      <4>1. Len(a) + 1 # 0
        BY <3>4
      <4>2. mid = Find(w, ":")
        BY <3>10
      <4> QED
        BY <3>4, <4>1, <4>2
    <3>13. named = [v EXCEPT !.username = a, !.password = b]
      <4>1. SubSeq(user, 1, mid - 1) = a /\ SubSeq(user, mid + 1, Len(user)) = b
        BY <3>4, <3>10, <3>12
      <4> HIDE DEF user, mid, at
      <4> QED
        BY <3>10, <3>12, <4>1
    <3> QED
      BY <2>3, <3>11, <3>13 DEF a, b
  <2> QED
    BY <2>2, <2>3
<1>3. WithAuthority(v, A) =
        IF Find(host, ":") # 0
        THEN [named EXCEPT !.hostname = SubSeq(host, 1, Find(host, ":") - 1),
                           !.port = SubSeq(host, Find(host, ":") + 1, Len(host))]
        ELSE [named EXCEPT !.hostname = host]
  BY DEF WithAuthority
<1> HIDE DEF A, host, named, wanted, H
<1>4. WithAuthority(v, A) =
        IF m # 0
        THEN [wanted EXCEPT !.hostname = SubSeq(H, 1, m - 1), !.port = SubSeq(H, m + 1, Len(H))]
        ELSE [wanted EXCEPT !.hostname = H]
  BY <1>2, <1>3
<1> HIDE DEF m
<1>5. CASE u.port = <<"0">>
  BY <1>1, <1>4, <1>5 DEF A, wanted
<1>6. CASE u.port # <<"0">>
  BY <1>1, <1>4, <1>6 DEF A, wanted
<1> QED
  BY <1>5, <1>6

-----------------------------------------------------------------------------
(* Where which characters may stand.                                       *)
LEMMA ChainWithout ==
  ASSUME NEW t, NEW D, NEW X, NEW c, NEW n, Chain(t, D, X, c, n), NEW C,
         \A i \in 2..n : D[i] \notin C,
         \A i \in 1..n : \A j \in 1..Len(X[i]) : X[i][j] \notin C
  PROVE  \A x \in (c[0] + 2)..c[n] : t[x] \notin C
<1>1. /\ n \in Nat /\ c \in [0..n -> Nat]
      /\ \A i \in 1..n : /\ c[i - 1] \in Nat /\ t[c[i - 1] + 1] = D[i]
                         /\ \A j \in 1..Len(X[i]) : t[c[i - 1] + 1 + j] = X[i][j]
  BY ChainSteps
<1> SUFFICES ASSUME NEW x \in (c[0] + 2)..c[n] PROVE t[x] \notin C
  OBVIOUS
<1>2. c[0] \in Nat /\ c[n] \in Nat
  BY <1>1
<1>3. x \in (c[0] + 1)..c[n] /\ x # c[0] + 1
  BY <1>2
<1>4. PICK i \in 1..n : x = c[i - 1] + 1 \/ \E j \in 1..Len(X[i]) : x = c[i - 1] + 1 + j
  BY <1>3, ChainCovers
<1>5. CASE x = c[i - 1] + 1
  <2>1. i # 1
    <3>1. 1 - 1 = 0
      OBVIOUS
    <3> QED
      BY <1>3, <1>5, <3>1
  <2>2. i \in 2..n
    BY <1>1, <2>1
  <2> QED
    BY <1>1, <1>5, <2>2
<1>6. CASE \E j \in 1..Len(X[i]) : x = c[i - 1] + 1 + j
  <2>1. PICK j \in 1..Len(X[i]) : x = c[i - 1] + 1 + j
    BY <1>6
  <2>2. t[c[i - 1] + 1 + j] = X[i][j]
    BY <1>1
  <2>3. X[i][j] \notin C
    OBVIOUS
  <2> QED
    BY <2>1, <2>2, <2>3
<1> QED
  BY <1>4, <1>5, <1>6

LEMMA HoldsWithout ==
  ASSUME NEW t, NEW k, NEW s, HoldsAt(t, k, s), NEW C, \A i \in 1..Len(s) : s[i] \notin C
  PROVE  \A x \in (k + 1)..(k + Len(s)) : t[x] \notin C
<1> DEFINE n == Len(s)
<1>1. k \in Nat /\ n \in Nat /\ \A i \in 1..n : t[k + i] = s[i]
  BY DEF HoldsAt
<1> SUFFICES ASSUME NEW x \in (k + 1)..(k + n) PROVE t[x] \notin C
  OBVIOUS
<1> DEFINE y == x - k
<1> HIDE DEF n
<1>2. y \in 1..n /\ k + y = x
  BY <1>1
<1> HIDE DEF y
<1> QED
  BY <1>1, <1>2 DEF n

(* The space by a name: the SMT backend does not take the literal.         *)
Blank == " "

UrlMarks == {":", "/", "?", "#", "@", " ", "%"}

LEMMA PlainFacts ==
  \A x : x \notin UrlMarks => x \notin {":", "/", "?", "#", Blank} /\ x # "@"
BY Zenon DEF UrlMarks, Blank

LEMMA BlankFacts ==
  /\ "/" # Blank /\ "?" # Blank /\ "#" # Blank /\ ":" # Blank /\ "@" # Blank
  /\ "&" # Blank /\ "=" # Blank
BY Zenon DEF Blank

LEMMA PartsFacts ==
  ASSUME NEW u, Spelled(u), WellFormed(u)
  PROVE  /\ Len(PartsOf(u)) \in 1..4
         /\ \A i \in 1..Len(PartsOf(u)) :
              /\ PartsOf(u)[i] \in UrlText /\ PartsOf(u)[i] # <<>>
              /\ \A j \in 1..Len(PartsOf(u)[i]) : PartsOf(u)[i][j] \notin UrlMarks
         /\ PartMarks(u)[1] = "/"
         /\ \A i \in 2..Len(PartsOf(u)) : PartMarks(u)[i] \in {":", "@"}
         /\ \A i \in 1..Len(PartsOf(u)) : PartMarks(u)[i] \in {":", "@", "/"}
<1> DEFINE Good(s) == s \in UrlText /\ s # <<>> /\ \A j \in 1..Len(s) : s[j] \notin UrlMarks
<1>1. Good(u.hostname) /\ Good(u.port) /\ (u.username # <<>> => Good(u.username) /\ Good(u.password))
  BY FieldFacts DEF WellFormed, Without, UrlMarks
<1> HIDE DEF Good
<1>2. CASE u.username = <<>> /\ u.port = <<"0">>
  <2>1. PartsOf(u) = <<u.hostname>> /\ PartMarks(u) = <<"/", ":">>
    BY <1>2 DEF PartsOf, PartMarks
  <2>2. Len(PartsOf(u)) = 1 /\ \A i \in 1..1 : Good(PartsOf(u)[i])
    BY <1>1, <2>1
  <2> QED
    BY <2>1, <2>2 DEF Good
<1>3. CASE u.username = <<>> /\ u.port # <<"0">>
  <2>1. PartsOf(u) = <<u.hostname, u.port>> /\ PartMarks(u) = <<"/", ":">>
    BY <1>3 DEF PartsOf, PartMarks
  <2>2. Len(PartsOf(u)) = 2 /\ \A i \in 1..2 : Good(PartsOf(u)[i])
    BY <1>1, <2>1
  <2> QED
    BY <2>1, <2>2 DEF Good
<1>4. CASE u.username # <<>> /\ u.port = <<"0">>
  <2>1. PartsOf(u) = <<u.username, u.password, u.hostname>> /\ PartMarks(u) = <<"/", ":", "@", ":">>
    BY <1>4 DEF PartsOf, PartMarks
  <2>2. Len(PartsOf(u)) = 3 /\ \A i \in 1..3 : Good(PartsOf(u)[i])
    BY <1>1, <1>4, <2>1
  <2> QED
    BY <2>1, <2>2 DEF Good
<1>5. CASE u.username # <<>> /\ u.port # <<"0">>
  <2>1. /\ PartsOf(u) = <<u.username, u.password, u.hostname, u.port>>
        /\ PartMarks(u) = <<"/", ":", "@", ":">>
    BY <1>5 DEF PartsOf, PartMarks
  <2>2. Len(PartsOf(u)) = 4 /\ \A i \in 1..4 : Good(PartsOf(u)[i])
    BY <1>1, <1>5, <2>1
  <2> QED
    BY <2>1, <2>2 DEF Good
<1> QED
  BY <1>2, <1>3, <1>4, <1>5

(* A pair holds no delimiter but the "=" behind its key.                   *)
PlainPairs(X, K, V, b, n) ==
  \A m \in 1..n :
    /\ K[m] \in UrlText /\ V[m] \in UrlText /\ X[m] = K[m] \o <<"=">> \o V[m]
    /\ b[m] = PutQuery(b[m - 1], K[m], V[m])
    /\ \A j \in 1..Len(K[m]) : K[m][j] \notin {"=", "&", "#", Blank}
    /\ \A j \in 1..Len(V[m]) : V[m][j] \notin {"=", "&", "#", Blank}
    /\ \A j \in 1..Len(X[m]) : X[m][j] \notin {"&", "#", Blank}

LEMMA PairPlain ==
  ASSUME NEW u, Spelled(u), WellFormed(u), NEW K, NEW V, NEW b,
         PutsUp(u.query, QueryPairs(u), K, V, b, Len(QueryPairs(u)))
  PROVE  PlainPairs(QueryPairs(u), K, V, b, Len(QueryPairs(u)))
<1> DEFINE X == QueryPairs(u)
           q == u.query
           C == {"=", "&", "#", Blank}
<1> SUFFICES ASSUME NEW m \in 1..Len(X)
             PROVE  /\ K[m] \in UrlText /\ V[m] \in UrlText /\ X[m] = K[m] \o <<"=">> \o V[m]
                    /\ b[m] = PutQuery(b[m - 1], K[m], V[m])
                    /\ \A j \in 1..Len(K[m]) : K[m][j] \notin C
                    /\ \A j \in 1..Len(V[m]) : V[m][j] \notin C
                    /\ \A j \in 1..Len(X[m]) : X[m][j] \notin {"&", "#", Blank}
  BY DEF PlainPairs
<1>1. /\ K[m] \in DOMAIN q /\ X[m] = K[m] \o <<"=">> \o V[m] /\ b[m] = PutQuery(b[m - 1], K[m], V[m])
      /\ \E j \in 1..Len(q[K[m]]) : V[m] = q[K[m]][j]
  BY DEF PutsUp
<1> HIDE DEF X
<1>2. PICK j \in 1..Len(q[K[m]]) : V[m] = q[K[m]][j]
  BY <1>1
<1>3. K[m] \in UrlText /\ q[K[m]] \in Seq(UrlText)
  BY <1>1, FieldFacts DEF Query, UrlText
<1>4. j \in DOMAIN q[K[m]] /\ V[m] \in UrlText
  BY <1>2, <1>3, LengthFacts
<1>5. /\ \A i \in 1..Len(K[m]) : K[m][i] \notin C
      /\ \A i \in 1..Len(V[m]) : V[m][i] \notin C
  BY <1>1, <1>2, <1>4 DEF WellFormed, Without, Blank
<1>6. \A i \in 1..Len(X[m]) : X[m][i] \notin {"&", "#", Blank}
  <2> DEFINE a == K[m]
             v == V[m]
             t == a \o <<"=">> \o v
  <2>1. /\ a \in UrlText /\ v \in UrlText /\ "=" \in Letters
        /\ \A i \in 1..Len(a) : a[i] # "&" /\ a[i] # "#" /\ a[i] # Blank
        /\ \A i \in 1..Len(v) : v[i] # "&" /\ v[i] # "#" /\ v[i] # Blank
    BY <1>3, <1>4, <1>5, CharactersAreTexts
  <2> HIDE DEF a, v
  <2>2. (\A i \in 1..Len(t) : t[i] # "&") /\ (\A i \in 1..Len(t) : t[i] # "#")
        /\ (\A i \in 1..Len(t) : t[i] # Blank)
    <3> DEFINE d == "="
    <3>0. d \in Letters /\ d # "&" /\ d # "#" /\ d # Blank
      BY <2>1, BlankFacts
    <3> HIDE DEF d
    <3> DEFINE w == a \o <<d>> \o v
    <3>1. \A i \in 1..Len(w) : w[i] # "&"
      BY <2>1, <3>0, NoneAcross
    <3>2. \A i \in 1..Len(w) : w[i] # "#"
      BY <2>1, <3>0, NoneAcross
    <3>3. \A i \in 1..Len(w) : w[i] # Blank
      BY <2>1, <3>0, NoneAcross
    <3> QED
      BY <3>1, <3>2, <3>3 DEF d
  <2>3. X[m] = t
    BY <1>1 DEF a, v
  <2> QED
    BY <2>2, <2>3
<1> QED
  BY <1>1, <1>3, <1>4, <1>5, <1>6

(* The regions of the text: where each ends and what none of them holds.   *)
Clean(u, T, h, g, f) ==
  LET k == Len(u.protocol)
  IN  /\ k \in Nat \ {0} /\ h \in Nat /\ g \in Nat /\ f \in Nat
      /\ k + 3 <= h /\ h < g /\ g <= f /\ f <= Len(T) /\ Len(T) \in Nat
      /\ \A x \in 1..k : T[x] \notin {":", "/", "?", "#", Blank}
      /\ T[k + 1] = ":" /\ T[k + 2] = "/" /\ T[k + 3] = "/"
      /\ \A x \in (k + 4)..h : T[x] \notin {"/", "?", "#", Blank}
      /\ T[h + 1] = "/" /\ \A x \in (h + 1)..g : T[x] \notin {"?", "#", Blank}
      /\ (g = f) <=> (DOMAIN u.query = {})
      /\ g # f => T[g + 1] = "?"
      /\ \A x \in (g + 1)..f : T[x] \notin {"#", Blank}
      /\ (f = Len(T)) <=> (u.fragment = <<>>)
      /\ f # Len(T) => T[f + 1] = "#"
      /\ \A x \in (f + 1)..Len(T) : T[x] # Blank

(* The items of the path and of the query.                                 *)
LEMMA ItemsFacts ==
  ASSUME NEW u, Spelled(u), WellFormed(u)
  PROVE  /\ u.pathname \in Seq(UrlText) /\ Len(u.pathname) \in Nat \ {0}
         /\ \A i \in 1..Len(u.pathname) :
              /\ u.pathname[i] \in UrlText /\ u.pathname[i] # <<>>
              /\ \A j \in 1..Len(u.pathname[i]) : u.pathname[i][j] \notin {"/", "?", "#", Blank}
         /\ QueryPairs(u) \in Seq(UrlText) /\ Len(QueryPairs(u)) \in Nat
         /\ Len(QueryPairs(u)) = 0 <=> DOMAIN u.query = {}
         /\ \E K, V, b : PutsUp(u.query, QueryPairs(u), K, V, b, Len(QueryPairs(u)))
         /\ \A i \in 1..Len(QueryPairs(u)) :
              /\ QueryPairs(u)[i] \in UrlText /\ QueryPairs(u)[i] # <<>>
              /\ \A j \in 1..Len(QueryPairs(u)[i]) : QueryPairs(u)[i][j] \notin {"&", "#", Blank}
<1>1. /\ u.pathname \in Seq(UrlText) /\ u.pathname # <<>> /\ Query(u.query, Letters)
      /\ \A i \in DOMAIN u.pathname : u.pathname[i] # <<>>
  BY FieldFacts
<1>2. \A i \in DOMAIN u.pathname :
        \A j \in 1..Len(u.pathname[i]) : u.pathname[i][j] \notin {"/", "?", "#", Blank}
  BY DEF WellFormed, Without, Blank
<1>3. /\ Len(u.pathname) \in Nat \ {0} /\ DOMAIN u.pathname = 1..Len(u.pathname)
      /\ \A i \in 1..Len(u.pathname) : u.pathname[i] \in UrlText
  BY <1>1, LengthFacts
<1>4. /\ QueryPairs(u) \in Seq(UrlText) /\ Len(QueryPairs(u)) \in Nat
      /\ Len(QueryPairs(u)) = 0 <=> DOMAIN u.query = {}
      /\ \A m \in 1..Len(QueryPairs(u)) : QueryPairs(u)[m] \in UrlText /\ Len(QueryPairs(u)[m]) # 0
  BY <1>1, PairsFacts
<1>5. PICK K, V, b : PutsUp(u.query, QueryPairs(u), K, V, b, Len(QueryPairs(u)))
  <2>1. "=" \in Letters
    BY CharactersAreTexts
  <2> QED
    BY <1>1, <2>1, QueryFacts
<1>6. \A i \in 1..Len(QueryPairs(u)) :
        \A j \in 1..Len(QueryPairs(u)[i]) : QueryPairs(u)[i][j] \notin {"&", "#", Blank}
  BY <1>5, PairPlain DEF PlainPairs
<1>7. \A m \in 1..Len(QueryPairs(u)) : QueryPairs(u)[m] # <<>>
  BY <1>4, LengthFacts DEF UrlText
<1> HIDE DEF UrlText
<1> QED
  BY <1>1, <1>2, <1>3, <1>4, <1>5, <1>6, <1>7

-----------------------------------------------------------------------------
(* A text that is laid out so has each character only where it may.        *)
LEMMA LayoutClean ==
  ASSUME NEW u, Spelled(u), WellFormed(u), NEW T, NEW b, NEW c, NEW e, Layout(u, T, b, c, e)
  PROVE  Clean(u, T, b[Len(PartsOf(u))], c[Len(u.pathname)], e[Len(QueryPairs(u))])
<1> DEFINE k == Len(u.protocol)
           n == Len(PartsOf(u))
           m == Len(u.pathname)
           z == Len(QueryPairs(u))
           P == PartsOf(u)
           S == u.pathname
           X == QueryPairs(u)
           D == PartMarks(u)
           h == b[n]
           g == c[m]
           f == e[z]
           N == Len(T)
<1>1. /\ HoldsAt(T, 0, u.protocol) /\ HoldsAt(T, k, <<":", "/", "/">>)
      /\ b[0] = k + 2 /\ Chain(T, D, P, b, n)
      /\ c[0] = h /\ Chain(T, Led("/", "/", m), S, c, m)
      /\ e[0] = g /\ Chain(T, Led("?", "&", z), X, e, z)
      /\ HoldsAt(T, f, FragmentText(u)) /\ N = f + Len(FragmentText(u))
  BY DEF Layout
<1>2. /\ n \in 1..4 /\ (\A i \in 1..n : P[i] \in UrlText /\ P[i] # <<>>)
      /\ (\A i \in 1..n : \A j \in 1..Len(P[i]) : P[i][j] \notin UrlMarks)
      /\ \A i \in 2..n : D[i] \in {":", "@"}
  BY PartsFacts
<1>3. /\ m \in Nat \ {0} /\ z \in Nat /\ ((z = 0) <=> (DOMAIN u.query = {}))
      /\ (\A i \in 1..m : \A j \in 1..Len(S[i]) : S[i][j] \notin {"/", "?", "#", Blank})
      /\ \A i \in 1..z : \A j \in 1..Len(X[i]) : X[i][j] \notin {"&", "#", Blank}
  BY ItemsFacts
<1>4. k \in Nat \ {0} /\ \A x \in 1..k : u.protocol[x] \notin UrlMarks
  <2>1. u.protocol \in UrlText /\ u.protocol # <<>>
    BY FieldFacts
  <2>2. \A x \in 1..k : u.protocol[x] \notin UrlMarks
    BY DEF WellFormed, Without, UrlMarks
  <2> QED
    BY <2>1, <2>2, LengthFacts DEF UrlText
<1>5. /\ h \in Nat /\ k + 3 <= h
      /\ \A x \in (k + 4)..h : T[x] \notin {"/", "?", "#", Blank}
  <2>1. \A x \in (b[0] + 2)..b[n] : T[x] \notin {"/", "?", "#", Blank}
    <3>1. \A i \in 2..n : D[i] \notin {"/", "?", "#", Blank}
      BY <1>2, BlankFacts
    <3>2. \A i \in 1..n : \A j \in 1..Len(P[i]) : P[i][j] \notin {"/", "?", "#", Blank}
      BY <1>2, PlainFacts
    <3> DEFINE C == {"/", "?", "#", Blank}
    <3>3. (\A i \in 2..n : D[i] \notin C) /\ \A i \in 1..n : \A j \in 1..Len(P[i]) : P[i][j] \notin C
      BY <3>1, <3>2
    <3> HIDE DEF D, P, n, C
    <3>4. \A x \in (b[0] + 2)..b[n] : T[x] \notin C
      BY <1>1, <3>3, ChainWithout
    <3> QED
      BY <3>4 DEF C
  <2>2. b[n] \in Nat /\ b[0] < b[n]
    <3> HIDE DEF n, P, D
    <3>1. \A i \in 0..n : \A y \in 0..i : y = i \/ b[y] < b[i]
      BY <1>1, ChainSteps
    <3>2. b \in [0..n -> Nat]
      BY <1>1 DEF Chain
    <3> QED
      BY <1>2, <3>1, <3>2
  <2> HIDE DEF n, k
  <2>3. b[0] + 2 = k + 4 /\ k + 3 <= h
    BY <1>1, <1>4, <2>2
  <2> QED
    BY <2>1, <2>2, <2>3
<1>6. /\ g \in Nat /\ h < g /\ T[h + 1] = "/"
      /\ \A x \in (h + 1)..g : T[x] \notin {"?", "#", Blank}
  <2> DEFINE E == Led("/", "/", m)
  <2>1. \A i \in 1..m : E[i] = "/"
    BY DEF Led
  <2> HIDE DEF E, m, S, h
  <2>2. \A x \in (c[0] + 2)..c[m] : T[x] \notin {"?", "#", Blank}
    <3>1. \A i \in 2..m : E[i] \notin {"?", "#", Blank}
      BY <1>3, <2>1, BlankFacts
    <3>2. \A i \in 1..m : \A j \in 1..Len(S[i]) : S[i][j] \notin {"?", "#", Blank}
      BY <1>3
    <3> DEFINE C == {"?", "#", Blank}
    <3>3. (\A i \in 2..m : E[i] \notin C) /\ \A i \in 1..m : \A j \in 1..Len(S[i]) : S[i][j] \notin C
      BY <3>1, <3>2
    <3> HIDE DEF C
    <3>4. \A x \in (c[0] + 2)..c[m] : T[x] \notin C
      BY <1>1, <3>3, ChainWithout DEF E
    <3> QED
      BY <3>4 DEF C
  <2>3. /\ c \in [0..m -> Nat] /\ (\A i \in 0..m : \A y \in 0..i : y = i \/ c[y] < c[i])
        /\ \A i \in 1..m : T[c[i - 1] + 1] = E[i]
    BY <1>1, ChainSteps DEF E
  <2>4. c[m] \in Nat /\ c[0] < c[m] /\ T[c[0] + 1] = "/"
    <3>1. 1 \in 1..m /\ 1 - 1 = 0 /\ 0 \in 0..m /\ m \in 0..m
      BY <1>3
    <3> QED
      BY <1>3, <2>1, <2>3, <3>1
  <2>5. \A x \in (h + 1)..g : T[x] \notin {"?", "#", Blank}
    <3> SUFFICES ASSUME NEW x \in (h + 1)..g PROVE T[x] \notin {"?", "#", Blank}
      OBVIOUS
    <3>1. x = c[0] + 1 \/ x \in (c[0] + 2)..c[m]
      BY <1>1, <1>5, <2>4
    <3> QED
      BY <2>2, <2>4, <3>1, BlankFacts
  <2> QED
    BY <1>1, <2>4, <2>5
<1>7. /\ f \in Nat /\ g <= f /\ (g = f <=> z = 0) /\ (g # f => T[g + 1] = "?")
      /\ \A x \in (g + 1)..f : T[x] \notin {"#", Blank}
  <2> DEFINE E == Led("?", "&", z)
  <2>1. (\A i \in 2..z : E[i] = "&") /\ (z # 0 => E[1] = "?")
    BY <1>3 DEF Led
  <2> HIDE DEF E, z, X, g
  <2>2. \A x \in (e[0] + 2)..e[z] : T[x] \notin {"#", Blank}
    <3>1. \A i \in 2..z : E[i] \notin {"#", Blank}
      BY <2>1, BlankFacts
    <3>2. \A i \in 1..z : \A j \in 1..Len(X[i]) : X[i][j] \notin {"#", Blank}
      BY <1>3
    <3> DEFINE C == {"#", Blank}
    <3>3. (\A i \in 2..z : E[i] \notin C) /\ \A i \in 1..z : \A j \in 1..Len(X[i]) : X[i][j] \notin C
      BY <3>1, <3>2
    <3> HIDE DEF C
    <3>4. \A x \in (e[0] + 2)..e[z] : T[x] \notin C
      BY <1>1, <3>3, ChainWithout DEF E
    <3> QED
      BY <3>4 DEF C
  <2>3. /\ e \in [0..z -> Nat] /\ (\A i \in 0..z : \A y \in 0..i : y = i \/ e[y] < e[i])
        /\ \A i \in 1..z : T[e[i - 1] + 1] = E[i]
    BY <1>1, ChainSteps DEF E
  <2>4. CASE z = 0
    <3>1. f = g /\ f \in Nat /\ (g + 1)..f = {}
      BY <1>1, <1>6, <2>3, <2>4
    <3> HIDE DEF f
    <3> QED
      BY <2>4, <3>1
  <2>5. CASE z # 0
    <3>1. e[z] \in Nat /\ e[0] < e[z] /\ T[e[0] + 1] = "?"
      <4>1. 1 \in 1..z /\ 1 - 1 = 0 /\ 0 \in 0..z /\ z \in 0..z
        BY <1>3, <2>5
      <4> QED
        BY <2>1, <2>3, <2>5, <4>1
    <3>2. \A x \in (g + 1)..f : T[x] \notin {"#", Blank}
      <4> SUFFICES ASSUME NEW x \in (g + 1)..f PROVE T[x] \notin {"#", Blank}
        OBVIOUS
      <4>1. x = e[0] + 1 \/ x \in (e[0] + 2)..e[z]
        BY <1>1, <1>6, <3>1
      <4> QED
        BY <2>2, <3>1, <4>1, BlankFacts
    <3>3. g <= f /\ g # f
      BY <1>1, <1>6, <3>1
    <3> QED
      BY <1>1, <2>5, <3>1, <3>2, <3>3
  <2> QED
    BY <2>4, <2>5
<1>8. \A x \in 1..k : T[x] \notin {":", "/", "?", "#", Blank}
  <2>1. \A x \in 1..k : u.protocol[x] \notin {":", "/", "?", "#", Blank}
    BY <1>4, PlainFacts
  <2>2. \A x \in (0 + 1)..(0 + k) : T[x] \notin {":", "/", "?", "#", Blank}
    BY <1>1, <2>1, HoldsWithout
  <2>3. 0 + 1 = 1 /\ 0 + k = k
    BY <1>4
  <2> QED
    BY <2>2, <2>3
<1>9. T[k + 1] = ":" /\ T[k + 2] = "/" /\ T[k + 3] = "/"
  <2>1. \A i \in 1..3 : T[k + i] = <<":", "/", "/">>[i]
    BY <1>1 DEF HoldsAt
  <2> HIDE DEF k
  <2> QED
    BY <2>1
<1>10. /\ f <= N /\ N \in Nat /\ (f = N <=> u.fragment = <<>>)
       /\ (f # N => T[f + 1] = "#") /\ \A x \in (f + 1)..N : T[x] # Blank
  <2> DEFINE F == FragmentText(u)
             l == Len(F)
  <2>1. /\ l \in Nat /\ N \in Nat /\ N = f + l
        /\ \A i \in 1..l : T[f + i] = F[i]
    BY <1>1 DEF HoldsAt
  <2>2. u.fragment \in UrlText /\ "#" \in Letters
    BY FieldFacts, CharactersAreTexts
  <2>3. \A i \in 1..Len(u.fragment) : u.fragment[i] # Blank
    BY DEF WellFormed, Without, Blank
  <2>4. CASE u.fragment = <<>>
    <3>1. l = 0
      BY <2>4 DEF FragmentText
    <3> HIDE DEF l, f, N
    <3>2. N = f /\ (f + 1)..N = {}
      BY <1>7, <2>1, <3>1
    <3> QED
      BY <1>7, <2>1, <2>4, <3>2
  <2>5. CASE u.fragment # <<>>
    <3>1. F = <<"#">> \o u.fragment
      BY <2>5 DEF FragmentText
    <3>2. /\ Len(u.fragment) \in Nat /\ l = 1 + Len(u.fragment)
          /\ HoldsAt(F, 0, <<"#">>) /\ HoldsAt(F, 1, u.fragment)
      BY <2>2, <3>1, JoinOne DEF UrlText
    <3>3. F[1] = "#" /\ \A i \in 1..Len(u.fragment) : F[1 + i] = u.fragment[i]
      <4>1. F[0 + 1] = "#"
        BY <3>2, HoldsOne
      <4> QED
        BY <3>2, <4>1 DEF HoldsAt
    <3> DEFINE p == Len(u.fragment)
    <3> HIDE DEF F, p
    <3>4. p \in Nat /\ l = 1 + p
      BY <3>2 DEF p
    <3> HIDE DEF l, f, N
    <3>5. f # N /\ T[f + 1] = "#"
      BY <1>7, <2>1, <3>3, <3>4
    <3>6. ASSUME NEW x \in (f + 1)..N PROVE T[x] # Blank
      <4> DEFINE y == x - f
      <4>1. y \in 1..l /\ f + y = x /\ (y = 1 \/ y - 1 \in 1..p) /\ 1 + (y - 1) = y
        BY <1>7, <2>1, <3>4
      <4> HIDE DEF y
      <4>2. T[x] = F[y]
        BY <2>1, <4>1
      <4>3. y - 1 \in 1..p => F[1 + (y - 1)] = u.fragment[y - 1] /\ u.fragment[y - 1] # Blank
        BY <2>3, <3>3 DEF p
      <4> QED
        BY <3>3, <4>1, <4>2, <4>3, BlankFacts
    <3>7. f <= N
      BY <1>7, <2>1
    <3> QED
      BY <2>1, <2>5, <3>5, <3>6, <3>7
  <2> QED
    BY <2>4, <2>5
<1> HIDE DEF k, n, m, z, h, g, f, N
<1>11. (g = f) <=> (DOMAIN u.query = {})
  BY <1>3, <1>7
<1>12. Clean(u, T, h, g, f)
  BY <1>4, <1>5, <1>6, <1>7, <1>8, <1>9, <1>10, <1>11 DEF Clean, k, N
<1> QED
  BY <1>12 DEF h, g, f, n, m, z

-----------------------------------------------------------------------------
(* Reading the query.                                                      *)
LEMMA PairReads ==
  ASSUME NEW query, NEW k \in UrlText, NEW v \in UrlText, \A j \in 1..Len(k) : k[j] # "="
  PROVE  PutPair(query, k \o <<"=">> \o v) = PutQuery(query, k, v)
<1> DEFINE d == "="
<1>1. d \in Letters
  BY CharactersAreTexts
<1> DEFINE t == k \o <<d>> \o v
           eq == Find(t, d)
<1>2. PutPair(query, t) = IF eq = 0 THEN query
                          ELSE PutQuery(query, SubSeq(t, 1, eq - 1), SubSeq(t, eq + 1, Len(t)))
  BY DEF PutPair
<1>3. \A j \in 1..Len(k) : k[j] # d
  OBVIOUS
<1> HIDE DEF d
<1>4. /\ Len(k) \in Nat /\ eq = Len(k) + 1
      /\ SubSeq(t, 1, (Len(k) + 1) - 1) = k /\ SubSeq(t, (Len(k) + 1) + 1, Len(t)) = v
  BY <1>1, <1>3, SplitAt
<1> HIDE DEF t
<1>5. Len(k) + 1 # 0
  BY <1>4
<1> HIDE DEF eq
<1>6. PutPair(query, t) = PutQuery(query, k, v)
  BY <1>2, <1>4, <1>5
<1> QED
  BY <1>6 DEF t, d

LEMMA QueryReads ==
  ASSUME NEW u, Spelled(u), WellFormed(u), NEW s, Pieces(s, "&") = QueryPairs(u)
  PROVE  QueryOf(s) = u.query
<1> DEFINE X == QueryPairs(u)
           z == Len(X)
           IsFold(h) == h = [i \in 0..z |-> IF i = 0 THEN <<>> ELSE PutPair(h[i - 1], X[i])]
           q == CHOOSE h : IsFold(h)
<1>1. z \in Nat /\ \E K, V, b : PutsUp(u.query, X, K, V, b, z)
  BY ItemsFacts
<1>2. PICK K, V, b : PutsUp(u.query, X, K, V, b, z)
  BY <1>1
<1>2a. \A m \in 1..z :
         /\ K[m] \in UrlText /\ V[m] \in UrlText /\ X[m] = K[m] \o <<"=">> \o V[m]
         /\ b[m] = PutQuery(b[m - 1], K[m], V[m])
         /\ \A j \in 1..Len(K[m]) : K[m][j] # "="
  <2>1. \A m \in 1..z :
          /\ K[m] \in UrlText /\ V[m] \in UrlText /\ X[m] = K[m] \o <<"=">> \o V[m]
          /\ b[m] = PutQuery(b[m - 1], K[m], V[m])
          /\ \A j \in 1..Len(K[m]) : K[m][j] \notin {"=", "&", "#", Blank}
    <3>1. PlainPairs(X, K, V, b, z)
      BY <1>2, PairPlain
    <3> HIDE DEF X, z
    <3> QED
      BY <3>1 DEF PlainPairs
  <2> HIDE DEF X, z
  <2> QED
    BY <2>1
<1>3. QueryOf(s) = q[z]
  BY DEF QueryOf
<1>4. b[0] = <<>> /\ b[z] = u.query
  BY <1>2 DEF PutsUp
<1>5. \A m \in 1..z : b[m] = PutPair(b[m - 1], X[m])
  <2> SUFFICES ASSUME NEW m \in 1..z PROVE b[m] = PutPair(b[m - 1], X[m])
    OBVIOUS
  <2>1. /\ K[m] \in UrlText /\ V[m] \in UrlText /\ X[m] = K[m] \o <<"=">> \o V[m]
        /\ b[m] = PutQuery(b[m - 1], K[m], V[m])
        /\ \A j \in 1..Len(K[m]) : K[m][j] # "="
    BY <1>2a
  <2> DEFINE k == K[m]
             v == V[m]
  <2>2. k \in UrlText /\ v \in UrlText /\ \A j \in 1..Len(k) : k[j] # "="
    BY <2>1
  <2> HIDE DEF k, v
  <2>3. PutPair(b[m - 1], k \o <<"=">> \o v) = PutQuery(b[m - 1], k, v)
    BY <2>2, PairReads
  <2> QED
    BY <2>1, <2>3 DEF k, v
<1> DEFINE bb == [i \in 0..z |-> b[i]]
<1> HIDE DEF z, X
<1>6. IsFold(bb)
  <2>1. \A i \in 0..z : bb[i] = IF i = 0 THEN <<>> ELSE PutPair(bb[i - 1], X[i])
    <3> SUFFICES ASSUME NEW i \in 0..z PROVE bb[i] = IF i = 0 THEN <<>> ELSE PutPair(bb[i - 1], X[i])
      OBVIOUS
    <3>1. CASE i = 0
      BY <1>1, <1>4, <3>1
    <3>2. CASE i # 0
      <4>1. i \in 1..z /\ i - 1 \in 0..z /\ i \in 0..z
        BY <1>1, <3>2
      <4> QED
        BY <1>5, <3>2, <4>1
    <3> QED
      BY <3>1, <3>2
  <2> QED
    BY <2>1
<1> HIDE DEF IsFold
<1>7. IsFold(q)
  BY <1>6
<1> HIDE DEF q
<1>8. \A i \in 0..z : q[i] = IF i = 0 THEN <<>> ELSE PutPair(q[i - 1], X[i])
  BY <1>7 DEF IsFold
<1> DEFINE P == {i \in 0..z : q[i] = b[i]}
<1>9. 0 \in P
  <2>1. 0 \in 0..z
    BY <1>1
  <2> QED
    BY <1>4, <1>8, <2>1
<1>10. ASSUME NEW i \in 1..z, i - 1 \in P PROVE i \in P
  <2>1. i \in 0..z /\ i # 0
    BY <1>1
  <2> QED
    BY <1>5, <1>8, <1>10, <2>1
<1>11. \A i \in 0..z : i \in P
  <2> HIDE DEF P
  <2> QED
    BY <1>1, <1>9, <1>10, StepByStep
<1>12. z \in 0..z
  BY <1>1
<1> QED
  BY <1>3, <1>4, <1>11, <1>12

(* Where From finds its marks.                                             *)
LEMMA FirstFacts ==
  ASSUME NEW o
  PROVE  /\ \A p : First(<<p>>, o) = IF p # 0 THEN p ELSE o
         /\ \A p, q : First(<<p, q>>, o) = IF p # 0 THEN p ELSE IF q # 0 THEN q ELSE o
         /\ \A p, q, r : p # 0 => First(<<p, q, r>>, o) = p
<1> DEFINE Pos(x) == {i \in DOMAIN x : x[i] # 0}
           least(x) == CHOOSE i \in Pos(x) : \A j \in Pos(x) : i <= j
<1>1. \A x : First(x, o) = IF Pos(x) = {} THEN o ELSE x[least(x)]
  BY DEF First
<1>2. ASSUME NEW x, NEW i \in Pos(x), Pos(x) \subseteq Int, \A j \in Pos(x) : i <= j
      PROVE  First(x, o) = x[i]
  <2> DEFINE S == Pos(x)
             l == CHOOSE y \in S : \A j \in S : y <= j
  <2>0. l = least(x) /\ S # {}
    BY <1>2
  <2>1. i \in S /\ S \subseteq Int /\ \A j \in S : i <= j
    BY <1>2
  <2> HIDE DEF S
  <2>2. l \in S /\ \A j \in S : l <= j
    BY <2>1
  <2>3. l = i
    <3> HIDE DEF l
    <3> QED
      BY <2>1, <2>2
  <2> QED
    BY <1>1, <2>0, <2>3 DEF S
<1>3. ASSUME NEW p PROVE First(<<p>>, o) = IF p # 0 THEN p ELSE o
  <2> DEFINE x == <<p>>
  <2>1. DOMAIN x = {1} /\ x[1] = p
    OBVIOUS
  <2> HIDE DEF x
  <2>2. CASE p # 0
    <3>1. 1 \in Pos(x) /\ Pos(x) \subseteq Int /\ \A j \in Pos(x) : 1 <= j
      BY <2>1, <2>2
    <3> HIDE DEF Pos
    <3> QED
      BY <1>2, <2>1, <2>2, <3>1 DEF x
  <2>3. CASE p = 0
    <3>1. Pos(x) = {}
      BY <2>1, <2>3
    <3> QED
      BY <1>1, <2>3, <3>1 DEF x
  <2> QED
    BY <2>2, <2>3
<1>4. ASSUME NEW p, NEW q PROVE First(<<p, q>>, o) = IF p # 0 THEN p ELSE IF q # 0 THEN q ELSE o
  <2> DEFINE x == <<p, q>>
  <2>1. DOMAIN x = {1, 2} /\ x[1] = p /\ x[2] = q
    OBVIOUS
  <2> HIDE DEF x
  <2>2. CASE p # 0
    <3>1. 1 \in Pos(x) /\ Pos(x) \subseteq Int /\ \A j \in Pos(x) : 1 <= j
      BY <2>1, <2>2
    <3> HIDE DEF Pos
    <3> QED
      BY <1>2, <2>1, <2>2, <3>1 DEF x
  <2>3. CASE p = 0 /\ q # 0
    <3>1. 2 \in Pos(x) /\ Pos(x) \subseteq Int /\ \A j \in Pos(x) : 2 <= j
      BY <2>1, <2>3
    <3> HIDE DEF Pos
    <3> QED
      BY <1>2, <2>1, <2>3, <3>1 DEF x
  <2>4. CASE p = 0 /\ q = 0
    <3>1. Pos(x) = {}
      BY <2>1, <2>4
    <3> QED
      BY <1>1, <2>4, <3>1 DEF x
  <2> QED
    BY <2>2, <2>3, <2>4
<1>5. ASSUME NEW p, NEW q, NEW r, p # 0 PROVE First(<<p, q, r>>, o) = p
  <2> DEFINE x == <<p, q, r>>
  <2>1. DOMAIN x = 1..3 /\ x[1] = p
    OBVIOUS
  <2> HIDE DEF x
  <2>2. 1 \in Pos(x) /\ Pos(x) \subseteq Int /\ \A j \in Pos(x) : 1 <= j
    BY <1>5, <2>1
  <2> HIDE DEF Pos
  <2> QED
    BY <1>2, <2>1, <2>2 DEF x
<1> QED
  BY <1>3, <1>4, <1>5

LEMMA MarksFound ==
  ASSUME NEW u, NEW T \in UrlText, NEW h, NEW g, NEW f, Clean(u, T, h, g, f)
  PROVE  /\ FindDivider(T) = Len(u.protocol) + 1
         /\ FindFrom(T, "/", Len(u.protocol) + 4) = h + 1
         /\ Find(T, "#") = IF u.fragment = <<>> THEN 0 ELSE f + 1
         /\ Find(SubSeq(T, 1, f), "?") = IF DOMAIN u.query = {} THEN 0 ELSE g + 1
<1> DEFINE k == Len(u.protocol)
           N == Len(T)
<1>1. /\ k \in Nat \ {0} /\ h \in Nat /\ g \in Nat /\ f \in Nat
      /\ k + 3 <= h /\ h < g /\ g <= f /\ f <= N /\ N \in Nat
  BY DEF Clean
<1>2. /\ \A x \in 1..k : T[x] \notin {":", "/", "?", "#", Blank}
      /\ T[k + 1] = ":" /\ T[k + 2] = "/" /\ T[k + 3] = "/"
      /\ \A x \in (k + 4)..h : T[x] \notin {"/", "?", "#", Blank}
      /\ T[h + 1] = "/" /\ \A x \in (h + 1)..g : T[x] \notin {"?", "#", Blank}
  BY DEF Clean
<1>3. /\ (g = f) <=> (DOMAIN u.query = {})
      /\ g # f => T[g + 1] = "?"
      /\ \A x \in (g + 1)..f : T[x] \notin {"#", Blank}
      /\ (f = N) <=> (u.fragment = <<>>)
      /\ f # N => T[f + 1] = "#"
  BY DEF Clean
<1> HIDE DEF k, N
<1>4. \A x \in 1..g : T[x] # "?" /\ T[x] # "#"
  <2> SUFFICES ASSUME NEW x \in 1..g PROVE T[x] # "?" /\ T[x] # "#"
    OBVIOUS
  <2>1. x \in 1..k \/ x = k + 1 \/ x = k + 2 \/ x = k + 3 \/ x \in (k + 4)..h \/ x \in (h + 1)..g
    BY <1>1
  <2> QED
    BY <1>2, <2>1
<1>5. FindDivider(T) = k + 1
  <2> DEFINE at == {j \in 1..N - 2 : T[j] = ":" /\ T[j + 1] = "/" /\ T[j + 2] = "/"}
  <2>1. FindDivider(T) = IF at = {} THEN 0 ELSE CHOOSE j \in at : \A i \in at : j <= i
    BY DEF FindDivider, N
  <2>2. (k + 1) + 1 = k + 2 /\ (k + 1) + 2 = k + 3 /\ k + 1 \in 1..N - 2
    BY <1>1
  <2>3. k + 1 \in at /\ at \subseteq Int
    BY <1>2, <2>2
  <2>4. \A j \in at : k + 1 <= j
    <3> SUFFICES ASSUME NEW j \in at, j < k + 1 PROVE FALSE
      BY <1>1
    <3>1. j \in 1..k /\ T[j] = ":"
      BY <1>1
    <3> QED
      BY <1>2, <3>1
  <2> HIDE DEF at
  <2>5. PICK l \in at : l = (CHOOSE j \in at : \A i \in at : j <= i) /\ \A i \in at : l <= i
    BY <2>3, <2>4
  <2>6. l = k + 1
    BY <1>1, <2>3, <2>4, <2>5
  <2> QED
    BY <2>1, <2>3, <2>5, <2>6
<1>6. FindFrom(T, "/", k + 4) = h + 1
  <2>1. k + 4 \in Nat /\ h + 1 \in (k + 4)..Len(T) /\ (h + 1) - 1 = h /\ Len(T) \in Nat
    BY <1>1 DEF N
  <2>2. \A j \in (k + 4)..((h + 1) - 1) : T[j] # "/"
    BY <1>2, <2>1
  <2> QED
    BY <1>2, <2>1, <2>2, FindFirst
<1>7. \A x \in 1..f : T[x] # "#"
  <2> SUFFICES ASSUME NEW x \in 1..f PROVE T[x] # "#"
    OBVIOUS
  <2>1. x \in 1..g \/ x \in (g + 1)..f
    BY <1>1
  <2> QED
    BY <1>3, <1>4, <2>1
<1>8. Find(T, "#") = IF u.fragment = <<>> THEN 0 ELSE f + 1
  <2>1. CASE u.fragment = <<>>
    <3>1. \A x \in 1..Len(T) : T[x] # "#"
      BY <1>3, <1>7, <2>1 DEF N
    <3> QED
      BY <2>1, <3>1, FindNone DEF Find
  <2>2. CASE u.fragment # <<>>
    <3>1. f + 1 \in 1..Len(T) /\ T[f + 1] = "#" /\ 1 \in Nat /\ (f + 1) - 1 = f /\ Len(T) \in Nat
      BY <1>1, <1>3, <2>2 DEF N
    <3>2. FindFrom(T, "#", 1) = f + 1
      BY <1>7, <3>1, FindFirst
    <3> QED
      BY <2>2, <3>2 DEF Find
  <2> QED
    BY <2>1, <2>2
<1>9. Find(SubSeq(T, 1, f), "?") = IF DOMAIN u.query = {} THEN 0 ELSE g + 1
  <2> DEFINE s == SubSeq(T, 1, f)
  <2>1. Len(s) = f /\ \A x \in 1..f : s[x] = T[x]
    <3>1. 1 \in 1..(Len(T) + 1) /\ f \in (1 - 1)..Len(T) /\ f - 1 + 1 = f
      BY <1>1 DEF N
    <3>2. /\ Len(s) = f - 1 + 1
          /\ \A i \in 1..(f - 1 + 1) : s[i] = T[1 + i - 1]
      BY <3>1, CutFacts DEF UrlText
    <3>3. \A i \in 1..f : 1 + i - 1 = i
      BY <1>1
    <3> HIDE DEF s
    <3> QED
      BY <3>1, <3>2, <3>3
  <2> HIDE DEF s
  <2>2. CASE DOMAIN u.query = {}
    <3>1. \A x \in 1..Len(s) : s[x] # "?"
      BY <1>3, <1>4, <2>1, <2>2
    <3> QED
      BY <2>2, <3>1, FindNone DEF Find, s
  <2>3. CASE DOMAIN u.query # {}
    <3>1. g + 1 \in 1..f /\ T[g + 1] = "?" /\ 1 \in Nat /\ (g + 1) - 1 = g /\ f \in Nat
      BY <1>1, <1>3, <2>3
    <3>2. \A x \in 1..g : s[x] # "?"
      <4>1. \A x \in 1..g : x \in 1..f
        BY <1>1
      <4> QED
        BY <1>4, <2>1, <4>1
    <3>3. FindFrom(s, "?", 1) = g + 1
      BY <2>1, <3>1, <3>2, FindFirst
    <3> QED
      BY <2>3, <3>3 DEF Find, s
  <2> QED
    BY <2>2, <2>3
<1> QED
  BY <1>5, <1>6, <1>8, <1>9 DEF k

-----------------------------------------------------------------------------
(* The path and the query between their delimiters.                        *)
LEMMA ItemsRead ==
  ASSUME NEW T \in UrlText, NEW d0, NEW d, NEW X, NEW c, NEW n, n = Len(X),
         Chain(T, Led(d0, d, n), X, c, n), n # 0,
         \A i \in 1..n : X[i] # <<>> /\ \A j \in 1..Len(X[i]) : X[i][j] # d
  PROVE  X \in Seq(UrlText) => Pieces(SubSeq(T, c[0] + 2, c[n]), d) = X
<1> SUFFICES ASSUME X \in Seq(UrlText)
             PROVE  Pieces(SubSeq(T, c[0] + 2, c[n]), d) = X
  OBVIOUS
<1> DEFINE D == Led(d0, d, n)
           s == SubSeq(T, c[0] + 2, c[n])
           e == [i \in 0..n |-> c[i] - c[0]]
<1>1. n \in Nat /\ c \in [0..n -> Nat] /\ (\A i \in 0..n : \A k \in 0..i : k = i \/ c[k] < c[i])
      /\ \A i \in 1..n : c[i] <= Len(T)
  BY ChainSteps
<1>2. \A i \in 2..n : D[i] = d
  BY <1>1 DEF Led
<1> HIDE DEF D
<1>3. Between(s, d, X, e, n)
  BY <1>2, ChainBetween DEF UrlText, D
<1>4. s \in UrlText
  <2>1. c[0] \in Nat /\ c[n] \in Nat /\ c[0] < c[n] /\ c[n] <= Len(T)
    BY <1>1
  <2>2. Len(T) \in Nat
    BY LengthFacts DEF UrlText
  <2> DEFINE a == c[0] + 2
             z == c[n]
             N == Len(T)
  <2>3. a \in 1..(N + 1) /\ z \in (a - 1)..N
    BY <2>1, <2>2
  <2> HIDE DEF a, z
  <2> QED
    BY <2>3, CutFacts DEF UrlText, a, z
<1> HIDE DEF s, e
<1>5. Pieces(s, d) = X
  BY <1>3, <1>4, PiecesFacts DEF UrlText
<1> QED
  BY <1>5 DEF s

(* From reads the text of a well-formed URL back.                          *)
LEMMA FromReads ==
  ASSUME NEW u, Spelled(u), WellFormed(u), NEW r, Decode(r) = Location(u)
  PROVE  From(r) = u
<1> DEFINE T == Location(u)
           k == Len(u.protocol)
           n == Len(PartsOf(u))
           m == Len(u.pathname)
           z == Len(QueryPairs(u))
           P == PartsOf(u)
           S == u.pathname
           X == QueryPairs(u)
           N == Len(T)
<1>1. T \in UrlText /\ \E b, c, e : Layout(u, T, b, c, e)
  BY LocationLayout
<1>2. PICK b, c, e : Layout(u, T, b, c, e)
  BY <1>1
<1> DEFINE h == b[n]
           g == c[m]
           f == e[z]
<1> HIDE DEF T
<1>3. Clean(u, T, h, g, f)
  BY <1>2, LayoutClean
<1>4. /\ k \in Nat \ {0} /\ h \in Nat /\ g \in Nat /\ f \in Nat
      /\ k + 3 <= h /\ h < g /\ g <= f /\ f <= N /\ N \in Nat
      /\ (g = f <=> DOMAIN u.query = {}) /\ (f = N <=> u.fragment = <<>>)
  BY <1>3 DEF Clean
<1>5. /\ FindDivider(T) = k + 1
      /\ FindFrom(T, "/", k + 4) = h + 1
      /\ Find(T, "#") = IF u.fragment = <<>> THEN 0 ELSE f + 1
      /\ Find(SubSeq(T, 1, f), "?") = IF DOMAIN u.query = {} THEN 0 ELSE g + 1
  BY <1>1, <1>3, MarksFound
<1>6. /\ HoldsAt(T, 0, u.protocol) /\ HoldsAt(T, k + 3, AuthorityText(u))
      /\ h = k + 3 + Len(AuthorityText(u))
      /\ c[0] = h /\ Chain(T, Led("/", "/", m), S, c, m)
      /\ e[0] = g /\ Chain(T, Led("?", "&", z), X, e, z)
      /\ HoldsAt(T, f, FragmentText(u)) /\ N = f + Len(FragmentText(u))
  BY <1>2 DEF Layout, AuthorityText
<1>7. /\ u.protocol \in UrlText /\ u.fragment \in UrlText
      /\ S \in Seq(UrlText) /\ AuthorityText(u) \in UrlText
  <2>1. u.protocol \in UrlText /\ u.fragment \in UrlText /\ S \in Seq(UrlText) /\ u.hostname \in UrlText
    BY FieldFacts
  <2>2. UserInfo(u) \in UrlText /\ PortText(u) \in UrlText
    BY BlocksAreTexts
  <2>3. u.hostname \o PortText(u) \in UrlText
    BY <2>1, <2>2, JoinFacts DEF UrlText
  <2> DEFINE w == u.hostname \o PortText(u)
  <2>4. UserInfo(u) \o w \in UrlText
    <3>1. UserInfo(u) \in UrlText /\ w \in UrlText
      BY <2>2, <2>3
    <3> HIDE DEF w
    <3> QED
      BY <3>1, HoldsJoin, Zenon DEF UrlText
  <2> QED
    BY <2>1, <2>4 DEF AuthorityText, w
<1> HIDE DEF k, h, g, f, n, m, z, N
<1>8. SubSeq(T, 1, k) = u.protocol
  <2>1. SubSeq(T, 0 + 1, 0 + Len(u.protocol)) = u.protocol
    <3>1. T \in Seq(Letters) /\ u.protocol \in Seq(Letters) /\ HoldsAt(T, 0, u.protocol)
      BY <1>1, <1>6, <1>7 DEF UrlText
    <3> HIDE DEF T
    <3> QED
      BY <3>1, HoldsCut
  <2>2. 0 + 1 = 1 /\ 0 + k = k
    BY <1>4
  <2> QED
    BY <2>1, <2>2 DEF k
<1>9. SubSeq(T, k + 4, h) = AuthorityText(u)
  <2>1. SubSeq(T, (k + 3) + 1, (k + 3) + Len(AuthorityText(u))) = AuthorityText(u)
    BY <1>1, <1>6, <1>7, HoldsCut DEF UrlText
  <2>2. (k + 3) + 1 = k + 4
    BY <1>4
  <2> QED
    BY <1>6, <2>1, <2>2
<1>10. Pieces(SubSeq(T, h + 2, g), "/") = S
  <2>1. /\ m # 0 /\ \A i \in 1..m : /\ S[i] # <<>>
                                    /\ \A j \in 1..Len(S[i]) : S[i][j] # "/"
    <3>1. /\ m \in Nat \ {0} /\ \A i \in 1..m : /\ S[i] # <<>>
                                    /\ \A j \in 1..Len(S[i]) : S[i][j] \notin {"/", "?", "#", Blank}
      BY ItemsFacts DEF m
    <3> QED
      BY <3>1
  <2> QED
    BY <1>1, <1>6, <1>7, <2>1, ItemsRead DEF m, g
<1>11. DOMAIN u.query # {} => QueryOf(SubSeq(T, g + 2, f)) = u.query
  <2> SUFFICES ASSUME DOMAIN u.query # {} PROVE QueryOf(SubSeq(T, g + 2, f)) = u.query
    OBVIOUS
  <2>1. /\ z # 0 /\ X \in Seq(UrlText)
        /\ \A i \in 1..z : X[i] # <<>> /\ \A j \in 1..Len(X[i]) : X[i][j] \notin {"&", "#", Blank}
    BY ItemsFacts DEF z
  <2>2. \A i \in 1..z : X[i] # <<>> /\ \A j \in 1..Len(X[i]) : X[i][j] # "&"
    BY <2>1
  <2>2a. z = Len(X)
    BY DEF z
  <2> HIDE DEF X
  <2>3. Pieces(SubSeq(T, e[0] + 2, e[z]), "&") = X
    BY <1>1, <1>6, <2>1, <2>2, <2>2a, ItemsRead
  <2>4. Pieces(SubSeq(T, g + 2, f), "&") = X
    BY <1>6, <2>3 DEF f
  <2> QED
    BY <2>4, QueryReads DEF X
<1>12. DOMAIN u.query = {} => u.query = <<>>
  <2> SUFFICES ASSUME DOMAIN u.query = {} PROVE u.query = <<>>
    OBVIOUS
  <2>1. z = 0
    BY ItemsFacts DEF z
  <2>2. PICK K, V, y : PutsUp(u.query, X, K, V, y, z)
    BY ItemsFacts DEF z
  <2> QED
    BY <2>1, <2>2 DEF PutsUp
<1>13. u.fragment # <<>> => SubSeq(T, f + 2, N) = u.fragment
  <2> SUFFICES ASSUME u.fragment # <<>> PROVE SubSeq(T, f + 2, N) = u.fragment
    OBVIOUS
  <2> DEFINE F == FragmentText(u)
             p == Len(u.fragment)
  <2>1. F = <<"#">> \o u.fragment
    BY DEF FragmentText
  <2>2. p \in Nat /\ Len(F) = 1 + p /\ HoldsAt(F, 1, u.fragment)
    BY <1>7, <2>1, CharactersAreTexts, JoinOne DEF UrlText
  <2>3. HoldsAt(T, f + 1, u.fragment)
    BY <1>6, <2>2, HoldsIn
  <2>4. SubSeq(T, (f + 1) + 1, (f + 1) + p) = u.fragment
    BY <1>1, <1>7, <2>3, HoldsCut DEF UrlText
  <2> HIDE DEF p
  <2>5. (f + 1) + 1 = f + 2 /\ (f + 1) + p = N
    BY <1>4, <1>6, <2>2
  <2> QED
    BY <2>4, <2>5
(* The reading itself, mark by mark.                                       *)
<1> DEFINE end == N + 1
           hash == Find(T, "#")
           ask == Find(SubSeq(T, 1, First(<<hash>>, end) - 1), "?")
           slash == FindFrom(T, "/", FindDivider(T) + 3)
           v == [NewUrl EXCEPT !.protocol = SubSeq(T, 1, FindDivider(T) - 1)]
           authorityEnd == First(<<slash, ask, hash>>, end)
           pathEnd == First(<<ask, hash>>, end)
           queryEnd == First(<<hash>>, end)
           w == WithAuthority(v, Substr(T, FindDivider(T) + 3, authorityEnd))
<1>14. From(r) =
         IF FindDivider(T) = 0 THEN [NewUrl EXCEPT !.protocol = T]
         ELSE [w EXCEPT
                 !.pathname = IF slash = 0 THEN @ ELSE Pieces(Substr(T, slash + 1, pathEnd), "/"),
                 !.query    = IF ask = 0 THEN @ ELSE QueryOf(Substr(T, ask + 1, queryEnd)),
                 !.fragment = IF hash = 0 THEN @ ELSE SubSeq(T, hash + 1, Len(T))]
  BY DEF From, T, N
<1>15. /\ hash = (IF u.fragment = <<>> THEN 0 ELSE f + 1) /\ queryEnd = f + 1
       /\ ask = (IF DOMAIN u.query = {} THEN 0 ELSE g + 1) /\ slash = h + 1
       /\ authorityEnd = h + 1 /\ pathEnd = g + 1
  <2>1. hash = (IF u.fragment = <<>> THEN 0 ELSE f + 1)
    BY <1>5
  <2>2. f + 1 # 0 /\ g + 1 # 0 /\ h + 1 # 0 /\ (f + 1) - 1 = f /\ (k + 1) + 3 = k + 4
    BY <1>4
  <2> HIDE DEF hash
  <2>3. queryEnd = f + 1
    BY <1>4, <2>1, <2>2, FirstFacts
  <2>4. ask = (IF DOMAIN u.query = {} THEN 0 ELSE g + 1)
    BY <1>5, <2>2, <2>3
  <2>5. slash = h + 1
    BY <1>5, <2>2
  <2> HIDE DEF ask, slash
  <2>6. authorityEnd = h + 1
    BY <2>2, <2>5, FirstFacts
  <2>7. pathEnd = g + 1
    BY <1>4, <2>1, <2>2, <2>4, FirstFacts
  <2> QED
    BY <2>1, <2>3, <2>4, <2>5, <2>6, <2>7
<1>16. /\ Substr(T, FindDivider(T) + 3, authorityEnd) = SubSeq(T, k + 4, h)
       /\ Substr(T, slash + 1, pathEnd) = SubSeq(T, h + 2, g)
       /\ DOMAIN u.query # {} => Substr(T, ask + 1, queryEnd) = SubSeq(T, g + 2, f)
  <2>1. \A a, z2 \in Nat : ~(z2 + 1 < a) => Substr(T, a, z2 + 1) = SubSeq(T, a, z2)
    <3> SUFFICES ASSUME NEW a \in Nat, NEW z2 \in Nat, ~(z2 + 1 < a)
                 PROVE  Substr(T, a, z2 + 1) = SubSeq(T, a, z2)
      OBVIOUS
    <3>1. (z2 + 1) - 1 = z2
      OBVIOUS
    <3> QED
      BY <3>1 DEF Substr
  <2>2. /\ (k + 1) + 3 = k + 4 /\ (h + 1) + 1 = h + 2
        /\ k + 4 \in Nat /\ h + 2 \in Nat /\ g + 2 \in Nat
        /\ ~(h + 1 < k + 4) /\ ~(g + 1 < h + 2)
    BY <1>4
  <2>3. Substr(T, k + 4, h + 1) = SubSeq(T, k + 4, h)
    BY <1>4, <2>1, <2>2
  <2>4. Substr(T, h + 2, g + 1) = SubSeq(T, h + 2, g)
    BY <1>4, <2>1, <2>2
  <2>5. DOMAIN u.query # {} => Substr(T, g + 2, f + 1) = SubSeq(T, g + 2, f) /\ (g + 1) + 1 = g + 2
    <3> SUFFICES ASSUME DOMAIN u.query # {}
                 PROVE  Substr(T, g + 2, f + 1) = SubSeq(T, g + 2, f) /\ (g + 1) + 1 = g + 2
      OBVIOUS
    <3>1. ~(f + 1 < g + 2) /\ (g + 1) + 1 = g + 2
      BY <1>4
    <3> QED
      BY <1>4, <2>1, <2>2, <3>1
  <2> HIDE DEF authorityEnd, slash, pathEnd, queryEnd, ask
  <2> QED
    BY <1>5, <1>15, <2>2, <2>3, <2>4, <2>5
<1>17. w = IF u.port = <<"0">>
           THEN [(IF u.username = <<>> THEN v
                  ELSE [v EXCEPT !.username = u.username, !.password = u.password])
                 EXCEPT !.hostname = u.hostname]
           ELSE [(IF u.username = <<>> THEN v
                  ELSE [v EXCEPT !.username = u.username, !.password = u.password])
                 EXCEPT !.hostname = u.hostname, !.port = u.port]
  <2>1. w = WithAuthority(v, AuthorityText(u))
    BY <1>9, <1>16
  <2> HIDE DEF v, w
  <2> QED
    BY <2>1, AuthorityReads
<1>18. v = [NewUrl EXCEPT !.protocol = u.protocol]
  <2>1. (k + 1) - 1 = k
    BY <1>4
  <2> QED
    BY <1>5, <1>8, <2>1
<1>19. From(r) = [w EXCEPT !.pathname = u.pathname, !.query = u.query, !.fragment = u.fragment]
  <2>1. w.query = <<>> /\ w.fragment = <<>>
    <3> HIDE DEF w, v
    <3> QED
      BY <1>17, <1>18 DEF NewUrl
  <2>2. FindDivider(T) # 0 /\ slash # 0 /\ f + 1 # 0 /\ g + 1 # 0 /\ (f + 1) + 1 = f + 2
    BY <1>4, <1>5, <1>15
  <2>3. Pieces(Substr(T, slash + 1, pathEnd), "/") = u.pathname
    BY <1>10, <1>16
  <2>4. (IF ask = 0 THEN <<>> ELSE QueryOf(Substr(T, ask + 1, queryEnd))) = u.query
    BY <1>11, <1>12, <1>15, <1>16, <2>2
  <2>5. (IF hash = 0 THEN <<>> ELSE SubSeq(T, hash + 1, Len(T))) = u.fragment
    BY <1>13, <1>15, <2>2 DEF N
  <2> HIDE DEF w, slash, ask, hash, pathEnd, queryEnd
  <2>6. From(r) = [w EXCEPT !.pathname = Pieces(Substr(T, slash + 1, pathEnd), "/"),
                            !.query    = IF ask = 0 THEN @ ELSE QueryOf(Substr(T, ask + 1, queryEnd)),
                            !.fragment = IF hash = 0 THEN @ ELSE SubSeq(T, hash + 1, Len(T))]
    BY <1>14, <2>2
  <2> QED
    BY <2>1, <2>3, <2>4, <2>5, <2>6
<1>20. /\ u = [x \in DOMAIN NewUrl |-> u[x]] /\ (u.username = <<>> <=> u.password = <<>>)
  BY FieldFacts DEF Spelled
<1> HIDE DEF w, v
<1> DEFINE record == [protocol |-> u.protocol, username |-> u.username, password |-> u.password,
                      hostname |-> u.hostname, port |-> u.port, pathname |-> u.pathname,
                      query |-> u.query, fragment |-> u.fragment]
<1>21. u = record
  BY <1>20 DEF NewUrl
<1>22. CASE u.username = <<>>
  <2>1. u.password = <<>>
    BY <1>20, <1>22
  <2>2. CASE u.port = <<"0">>
    <3>1. w = [v EXCEPT !.hostname = u.hostname]
      BY <1>17, <1>22, <2>2
    <3>2. From(r) = record
      BY <1>18, <1>19, <1>22, <2>1, <2>2, <3>1 DEF NewUrl
    <3> QED
      BY <1>21, <3>2
  <2>3. CASE u.port # <<"0">>
    <3>1. w = [v EXCEPT !.hostname = u.hostname, !.port = u.port]
      BY <1>17, <1>22, <2>3
    <3>2. From(r) = record
      BY <1>18, <1>19, <1>22, <2>1, <3>1 DEF NewUrl
    <3> QED
      BY <1>21, <3>2
  <2> QED
    BY <2>2, <2>3
<1>23. CASE u.username # <<>>
  <2>2. CASE u.port = <<"0">>
    <3>1. w = [[v EXCEPT !.username = u.username, !.password = u.password] EXCEPT !.hostname = u.hostname]
      BY <1>17, <1>23, <2>2
    <3>2. From(r) = record
      BY <1>18, <1>19, <2>2, <3>1 DEF NewUrl
    <3> QED
      BY <1>21, <3>2
  <2>3. CASE u.port # <<"0">>
    <3>1. w = [[v EXCEPT !.username = u.username, !.password = u.password]
               EXCEPT !.hostname = u.hostname, !.port = u.port]
      BY <1>17, <1>23, <2>3
    <3>2. From(r) = record
      BY <1>18, <1>19, <3>1 DEF NewUrl
    <3> QED
      BY <1>21, <3>2
  <2> QED
    BY <2>2, <2>3
<1> QED
  BY <1>22, <1>23

-----------------------------------------------------------------------------
(* Without spaces, the decode of URL2.h makes the text of that of URL.h.   *)
LEMMA UnescapedBlank == Unescaped(Blank) = Blank
BY Zenon DEF Unescaped, Blank

LEMMA KeptUpToWithout ==
  ASSUME NEW f, NEW s, NEW i, s[i] # Blank
  PROVE  KeptUpTo(f, s, i) = IF i = 0 THEN <<>> ELSE Append(f[i - 1], Unescaped(s[i]))
BY Zenon DEF KeptUpTo, Blank

LEMMA DecodedText ==
  ASSUME NEW s \in Seq(Character)
  PROVE  Decode(s) \in Seq(Character) /\ Len(Decode(s)) = Len(s)
<1> DEFINE d == Decode(s)
<1>1. d = [i \in 1..Len(s) |-> Unescaped(s[i])]
  BY LengthFacts DEF Decode
<1>2. Len(s) \in Nat /\ \A i \in 1..Len(s) : Unescaped(s[i]) \in Character
  BY LengthFacts, UnescapedFacts
<1> HIDE DEF d
<1> DEFINE n == Len(s)
           S == Character
<1> HIDE DEF n, S
<1>3. n \in Nat /\ d \in [1..n -> S]
  BY <1>1, <1>2 DEF n, S
<1>4. d \in Seq(S) /\ Len(d) = n
  BY <1>3
<1> QED
  BY <1>4 DEF d, n, S

LEMMA DecodesAgree ==
  ASSUME NEW s \in Seq(Character), \A i \in 1..Len(s) : Decode(s)[i] # Blank
  PROVE  Decode2(s) = Decode(s)
<1> DEFINE d == Decode(s)
           n == Len(s)
           f == Keeper(s)
           S == Character
           P == {i \in 0..n : f[i] = SubSeq(d, 1, i)}
<1>1. n \in Nat /\ d \in Seq(S) /\ Len(d) = n
  BY LengthFacts, DecodedText
<1>2. \A i \in 1..n : d[i] = Unescaped(s[i])
  <2>1. DOMAIN s = 1..n
    BY LengthFacts
  <2> QED
    BY <2>1 DEF Decode
<1>3. Decode2(s) = f[n]
  BY DEF Decode2, Keeper, KeptUpTo
<1>4. \A i \in 0..n : f[i] = KeptUpTo(f, s, i)
  BY KeeperKeeps DEF Keeps
<1>5. \A i \in 1..n : s[i] # Blank /\ d[i] # Blank
  BY <1>2, UnescapedBlank
<1> HIDE DEF f, d, n, S
<1>6. /\ \A i \in 1..n : Append(SubSeq(d, 1, i - 1), d[i]) = SubSeq(d, 1, i)
      /\ SubSeq(d, 1, 0) = <<>> /\ SubSeq(d, 1, n) = d
  BY <1>1, PrefixFacts
<1>7. 0 \in P
  <2>1. 0 \in 0..n
    BY <1>1
  <2>2. f[0] = <<>>
    BY <1>4, <2>1 DEF KeptUpTo
  <2> QED
    BY <1>6, <2>1, <2>2
<1>8. ASSUME NEW i \in 1..n, i - 1 \in P PROVE i \in P
  <2>1. i \in 0..n /\ i # 0
    BY <1>1
  <2>2. KeptUpTo(f, s, i) = Append(f[i - 1], Unescaped(s[i]))
    BY <1>5, <2>1, KeptUpToWithout
  <2>3. f[i] = Append(f[i - 1], d[i])
    BY <1>2, <1>4, <2>1, <2>2
  <2>4. f[i - 1] = SubSeq(d, 1, i - 1)
    BY <1>8
  <2> QED
    BY <1>6, <2>1, <2>3, <2>4
<1>9. \A i \in 0..n : i \in P
  <2> HIDE DEF P
  <2> QED
    BY <1>1, <1>7, <1>8, StepByStep
<1>10. n \in 0..n
  BY <1>1
<1> QED
  BY <1>3, <1>6, <1>9, <1>10 DEF d

-----------------------------------------------------------------------------
(* What is left of a marked text.                                          *)
Unread(T, p) == SubSeq(Append(T, Mark), p + 1, Len(T) + 1)

LEMMA UnreadFacts ==
  ASSUME NEW T \in UrlText
  PROVE  /\ Len(T) \in Nat /\ Unread(T, 0) = Append(T, Mark)
         /\ \A p \in 0..(Len(T) + 1) :
              /\ Unread(T, p) \in Seq(Letters)
              /\ Len(Unread(T, p)) = Len(T) + 1 - p
              /\ Unread(T, p) = <<>> <=> p = Len(T) + 1
         /\ \A p \in 0..(Len(T) - 1) : Head(Unread(T, p)) = T[p + 1]
         /\ Head(Unread(T, Len(T))) = Mark
         /\ \A p \in 0..(Len(T) + 1) : \A n \in 1..(Len(T) + 1 - p) :
              SubSeq(Unread(T, p), n + 1, Len(Unread(T, p))) = Unread(T, p + n)
<1> DEFINE S == Letters
           W == Append(T, Mark)
           N == Len(T)
<1>1. T \in Seq(S) /\ Mark \in S
  BY CharactersAreTexts DEF UrlText
<1> HIDE DEF S
<1>2. N \in Nat /\ W \in Seq(S) /\ Len(W) = N + 1 /\ (\A i \in 1..N : W[i] = T[i]) /\ W[N + 1] = Mark
  BY <1>1, TextAppendFacts, LengthFacts
<1> HIDE DEF W, N
<1>3. ASSUME NEW p \in 0..(N + 1)
      PROVE  LET r == SubSeq(W, p + 1, N + 1)
             IN  /\ r \in Seq(S) /\ Len(r) = N + 1 - p
                 /\ \A i \in 1..(N + 1 - p) : r[i] = W[p + i]
  <2>1. p + 1 \in 1..(Len(W) + 1) /\ N + 1 \in ((p + 1) - 1)..Len(W)
    BY <1>2
  <2> DEFINE a == p + 1
             z == N + 1
             r == SubSeq(W, a, z)
  <2>2. a \in 1..(Len(W) + 1) /\ z \in (a - 1)..Len(W)
    BY <2>1
  <2>3. z - a + 1 = N + 1 - p /\ \A i \in 1..(N + 1 - p) : a + i - 1 = p + i
    BY <1>2
  <2> HIDE DEF a, z
  <2>4. r \in Seq(S) /\ Len(r) = z - a + 1 /\ \A i \in 1..(z - a + 1) : r[i] = W[a + i - 1]
    BY <1>2, <2>2, CutFacts
  <2> HIDE DEF r
  <2>5. r \in Seq(S) /\ Len(r) = N + 1 - p /\ \A i \in 1..(N + 1 - p) : r[i] = W[p + i]
    BY <2>3, <2>4
  <2> QED
    BY <2>5 DEF r, a, z
<1>4. \A p : Unread(T, p) = SubSeq(W, p + 1, N + 1)
  BY DEF Unread, W, N
<1>5. Unread(T, 0) = W
  <2> DEFINE r == Unread(T, 0)
  <2>1. r \in Seq(S) /\ Len(r) = N + 1 /\ \A i \in 1..(N + 1) : r[i] = W[i]
    <3>1. 0 \in 0..(N + 1) /\ N + 1 - 0 = N + 1 /\ \A i \in 1..(N + 1) : 0 + i = i
      BY <1>2
    <3>2. r = SubSeq(W, 0 + 1, N + 1)
      BY <1>4
    <3> HIDE DEF r
    <3>3. r \in Seq(S) /\ Len(r) = N + 1 - 0 /\ \A i \in 1..(N + 1 - 0) : r[i] = W[0 + i]
      BY <1>3, <3>1, <3>2
    <3> QED
      BY <3>1, <3>3
  <2> HIDE DEF r
  <2>2. r = W
    BY <1>2, <2>1, SameText
  <2> QED
    BY <2>2 DEF r
<1>6. ASSUME NEW p \in 0..(N + 1)
      PROVE  /\ Unread(T, p) \in Seq(S) /\ Len(Unread(T, p)) = N + 1 - p
             /\ Unread(T, p) = <<>> <=> p = N + 1
             /\ \A i \in 1..(N + 1 - p) : Unread(T, p)[i] = W[p + i]
  <2> DEFINE r == Unread(T, p)
  <2>1. r \in Seq(S) /\ Len(r) = N + 1 - p /\ \A i \in 1..(N + 1 - p) : r[i] = W[p + i]
    BY <1>3, <1>4
  <2> HIDE DEF r
  <2>2. r = <<>> <=> Len(r) = 0
    BY <2>1, LengthFacts
  <2>3. r = <<>> <=> p = N + 1
    BY <1>2, <2>1, <2>2
  <2> QED
    BY <2>1, <2>3 DEF r
<1>7. ASSUME NEW p \in 0..N PROVE Head(Unread(T, p)) = W[p + 1]
  <2> DEFINE r == Unread(T, p)
  <2>1. p \in 0..(N + 1) /\ 1 \in 1..(N + 1 - p)
    BY <1>2
  <2>2. r \in Seq(S) /\ r[1] = W[p + 1]
    BY <1>6, <2>1
  <2> HIDE DEF r
  <2>3. Head(r) = r[1]
    BY <2>2
  <2> QED
    BY <2>2, <2>3 DEF r
<1>8. /\ \A p \in 0..(N - 1) : Head(Unread(T, p)) = T[p + 1]
      /\ Head(Unread(T, N)) = Mark
  <2>1. N \in 0..N /\ \A p \in 0..(N - 1) : p \in 0..N /\ p + 1 \in 1..N
    BY <1>2
  <2> QED
    BY <1>2, <1>7, <2>1
<1>9. ASSUME NEW p \in 0..(N + 1), NEW n \in 1..(N + 1 - p)
      PROVE  SubSeq(Unread(T, p), n + 1, Len(Unread(T, p))) = Unread(T, p + n)
  <2> DEFINE r == Unread(T, p)
             t == Unread(T, p + n)
             z == Len(r)
             a == n + 1
             x == SubSeq(r, a, z)
  <2>1. r \in Seq(S) /\ z = N + 1 - p /\ \A i \in 1..(N + 1 - p) : r[i] = W[p + i]
    BY <1>6
  <2>2. p + n \in 0..(N + 1) /\ N + 1 - (p + n) = z - n /\ z \in Nat /\ n \in Nat /\ p \in Nat
        /\ a \in 1..(z + 1) /\ z \in (a - 1)..z /\ z - a + 1 = z - n
        /\ \A i \in 1..(z - n) : a + i - 1 \in 1..(N + 1 - p) /\ p + (a + i - 1) = (p + n) + i
    <3>1. p \in Nat /\ n \in Nat /\ p <= N + 1 /\ 1 <= n /\ n <= N + 1 - p /\ z = N + 1 - p
      BY <1>2, <2>1
    <3> HIDE DEF z, r
    <3>2. /\ p + n \in 0..(N + 1) /\ N + 1 - (p + n) = z - n /\ z \in Nat
          /\ a \in 1..(z + 1) /\ z \in (a - 1)..z /\ z - a + 1 = z - n
      BY <1>2, <3>1
    <3>3. \A i \in 1..(z - n) : a + i - 1 \in 1..(N + 1 - p)
      BY <1>2, <3>1
    <3>4. \A i \in 1..(z - n) : p + (a + i - 1) = (p + n) + i
      BY <1>2, <3>1
    <3> QED
      BY <3>1, <3>2, <3>3, <3>4
  <2>3. t \in Seq(S) /\ Len(t) = z - n /\ \A i \in 1..(z - n) : t[i] = W[(p + n) + i]
    <3>1. /\ t \in Seq(S) /\ Len(t) = N + 1 - (p + n)
          /\ \A i \in 1..(N + 1 - (p + n)) : t[i] = W[(p + n) + i]
      BY <1>6, <2>2
    <3> HIDE DEF t, z
    <3> QED
      BY <2>2, <3>1
  <2> HIDE DEF r, t, a
  <2>4. x \in Seq(S) /\ Len(x) = z - a + 1 /\ \A i \in 1..(z - a + 1) : x[i] = r[a + i - 1]
    <3>1. r \in Seq(S) /\ Len(r) = z
      BY <2>1
    <3> HIDE DEF z
    <3> QED
      BY <2>2, <3>1, CutFacts
  <2> HIDE DEF x, z
  <2>5. \A i \in 1..(z - n) : x[i] = t[i]
    <3> TAKE i \in 1..(z - n)
    <3>1. x[i] = r[a + i - 1]
      BY <2>2, <2>4
    <3>2. r[a + i - 1] = W[p + (a + i - 1)] /\ p + (a + i - 1) = (p + n) + i
      BY <2>1, <2>2
    <3>3. t[i] = W[(p + n) + i]
      BY <2>3
    <3> QED
      BY <3>1, <3>2, <3>3
  <2>6. x = t
    <3>1. Len(x) = Len(t) /\ \A i \in 1..Len(x) : x[i] = t[i]
      BY <2>2, <2>3, <2>4, <2>5
    <3> QED
      BY <2>3, <2>4, <3>1, SameText
  <2> QED
    BY <2>6 DEF x, z, a, r, t
<1> QED
  BY <1>2, <1>5, <1>6, <1>8, <1>9 DEF W, N, S

-----------------------------------------------------------------------------
(* An item of T that holds neither a delimiter of d nor a space.           *)
Stands(T, a, s, d) ==
  HoldsAt(T, a, s) /\ s \in UrlText /\ \A x \in 1..Len(s) : s[x] \notin d /\ s[x] # Blank

LEMMA StandsFacts ==
  ASSUME NEW T, NEW a, NEW s \in UrlText, HoldsAt(T, a, s), \A x \in 1..Len(T) : T[x] # Mark, NEW d,
         \A x \in 1..Len(s) : s[x] # Mark => s[x] \notin d /\ s[x] # Blank
  PROVE  Stands(T, a, s, d)
<1>1. a \in Nat /\ Len(s) \in Nat /\ Len(T) \in Nat /\ a + Len(s) <= Len(T)
      /\ \A x \in 1..Len(s) : T[a + x] = s[x]
  BY DEF HoldsAt
<1> DEFINE n == Len(s)
           N == Len(T)
<1>2. ASSUME NEW x \in 1..n PROVE s[x] # Mark
  <2> HIDE DEF n, N
  <2>1. a + x \in 1..N
    BY <1>1 DEF n, N
  <2> QED
    BY <1>1, <2>1 DEF n, N
<1> QED
  BY <1>2 DEF Stands

(* The items of a text and their delimiters, in the order they are read.   *)
PartsStand(u, T, b, n) ==
  /\ n \in 1..4 /\ b \in [0..n -> Nat] /\ b[0] + 1 = Len(u.protocol) + 3
  /\ \A i \in 1..n : /\ Stands(T, b[i - 1] + 1, PartsOf(u)[i], Delimiters("AUTHORITY"))
                     /\ b[i] = b[i - 1] + 1 + Len(PartsOf(u)[i]) /\ PartsOf(u)[i] # <<>>
                     /\ b[i] < Len(T)
                     /\ T[b[i] + 1] \in (IF i = n THEN {"/"} ELSE {":", "@"})

PathStands(u, T, c, m) ==
  /\ m \in Nat \ {0} /\ c \in [0..m -> Nat]
  /\ \A i \in 1..m : /\ Stands(T, c[i - 1] + 1, u.pathname[i], Delimiters("PATHNAME"))
                     /\ c[i] = c[i - 1] + 1 + Len(u.pathname[i]) /\ u.pathname[i] # <<>>
                     /\ i # m => c[i] < Len(T) /\ T[c[i] + 1] = "/"

QueryStands(u, T, e, z, K, V, q) ==
  /\ z \in Nat /\ e \in [0..z -> Nat] /\ q[0] = <<>> /\ q[z] = u.query
  /\ z # 0 => T[e[0] + 1] = "?" /\ e[0] < Len(T)
  /\ \A i \in 1..z : /\ Stands(T, e[i - 1] + 1, K[i], Delimiters("QUERYSTRING"))
                     /\ Stands(T, e[i - 1] + 1 + Len(K[i]) + 1, V[i], Delimiters("QUERYSTRING"))
                     /\ T[e[i - 1] + 1 + Len(K[i]) + 1] = "="
                     /\ e[i] = e[i - 1] + 1 + Len(K[i]) + 1 + Len(V[i])
                     /\ q[i] = PutQuery(q[i - 1], K[i], V[i])
                     /\ i # z => e[i] < Len(T) /\ T[e[i] + 1] = "&"

FragmentStands(u, T, f) ==
  /\ f \in Nat
  /\ u.fragment # <<>> => /\ T[f + 1] = "#" /\ f < Len(T)
                          /\ Stands(T, f + 1, u.fragment, Delimiters("FRAGMENT"))
                          /\ Len(T) = f + 1 + Len(u.fragment)
  /\ u.fragment = <<>> => Len(T) = f

AllStand(u, T, b, c, e, K, V, q) ==
  LET n == Len(PartsOf(u))
      m == Len(u.pathname)
      z == Len(QueryPairs(u))
  IN  /\ Stands(T, 0, u.protocol, Delimiters("PROTOCOL"))
      /\ Len(u.protocol) + 3 < Len(T) /\ T[Len(u.protocol) + 1] = ":"
      /\ PartsStand(u, T, b, n) /\ c[0] = b[n]
      /\ PathStands(u, T, c, m) /\ e[0] = c[m]
      /\ QueryStands(u, T, e, z, K, V, q) /\ FragmentStands(u, T, e[z])

LEMMA DelimiterSets ==
  /\ Delimiters("PROTOCOL") = {":"} /\ Delimiters("AUTHORITY") = {":", "@", "/"}
  /\ Delimiters("PATHNAME") = {"?", "#", "/", Mark}
  /\ Delimiters("QUERYSTRING") = {"&", "#", "=", Mark} /\ Delimiters("FRAGMENT") = {}
BY DEF Delimiters

LEMMA BlankIsKept == \A s \in States : Blank \notin Delimiters(s)
<1>1. Blank # Mark
  BY Zenon DEF Blank, Mark
<1> QED
  BY <1>1, DelimiterSets, BlankFacts DEF States

LEMMA PartsStandThere ==
  ASSUME NEW u, Spelled(u), WellFormed(u), NEW T, NEW b, NEW n, n = Len(PartsOf(u)),
         \A x \in 1..Len(T) : T[x] # Mark,
         b[0] = Len(u.protocol) + 2, Len(u.protocol) \in Nat,
         Chain(T, PartMarks(u), PartsOf(u), b, n), T[b[n] + 1] = "/", b[n] < Len(T)
  PROVE  PartsStand(u, T, b, n)
<1>1. /\ n \in 1..4
      /\ \A i \in 1..n : /\ PartsOf(u)[i] \in UrlText /\ PartsOf(u)[i] # <<>>
                         /\ \A j \in 1..Len(PartsOf(u)[i]) : PartsOf(u)[i][j] \notin UrlMarks
      /\ \A i \in 2..n : PartMarks(u)[i] \in {":", "@"}
  BY PartsFacts
<1>2. /\ b \in [0..n -> Nat]
      /\ \A i \in 1..n : /\ b[i] = b[i - 1] + 1 + Len(PartsOf(u)[i])
                         /\ HoldsAt(T, b[i - 1] + 1, PartsOf(u)[i])
                         /\ T[b[i - 1] + 1] = PartMarks(u)[i]
  BY DEF Chain
<1>3. \A i \in 0..n : \A k \in 0..i : k = i \/ b[k] < b[i]
  BY ChainSteps
<1>4. b[0] + 1 = Len(u.protocol) + 3
  OBVIOUS
<1>5. ASSUME NEW i \in 1..n
      PROVE  Stands(T, b[i - 1] + 1, PartsOf(u)[i], Delimiters("AUTHORITY"))
  <2> DEFINE s == PartsOf(u)[i]
  <2>1. s \in UrlText /\ HoldsAt(T, b[i - 1] + 1, s) /\ \A j \in 1..Len(s) : s[j] \notin UrlMarks
    BY <1>1, <1>2
  <2> HIDE DEF s
  <2>2. \A j \in 1..Len(s) : s[j] \notin Delimiters("AUTHORITY") /\ s[j] # Blank
    BY <2>1, PlainFacts, DelimiterSets
  <2> QED
    BY <2>1, <2>2 DEF s, Stands
<1>6. ASSUME NEW i \in 1..n
      PROVE  b[i] < Len(T) /\ T[b[i] + 1] \in (IF i = n THEN {"/"} ELSE {":", "@"})
  <2>1. CASE i = n
    BY <2>1
  <2>2. CASE i # n
    <3>1. i + 1 \in 2..n /\ i + 1 \in 1..n /\ (i + 1) - 1 = i /\ i \in 0..n /\ n \in 0..n
      BY <1>1, <2>2
    <3>2. b[i] < b[n]
      BY <1>3, <2>2, <3>1
    <3>3. b[i] \in Nat /\ b[n] \in Nat /\ Len(T) \in Nat
      <4>1. 1 \in 1..n
        BY <1>1
      <4> QED
        BY <1>2, <3>1, <4>1 DEF HoldsAt
    <3>4. b[i] < Len(T)
      BY <3>2, <3>3
    <3>5. T[b[i] + 1] \in {":", "@"}
      BY <1>1, <1>2, <3>1
    <3> QED
      BY <2>2, <3>4, <3>5
  <2> QED
    BY <2>1, <2>2
<1> QED
  BY <1>1, <1>2, <1>4, <1>5, <1>6 DEF PartsStand

LEMMA PathStandsThere ==
  ASSUME NEW u, Spelled(u), WellFormed(u), NEW T, NEW c, NEW m, m = Len(u.pathname),
         \A x \in 1..Len(T) : T[x] # Mark,
         Chain(T, Led("/", "/", m), u.pathname, c, m)
  PROVE  PathStands(u, T, c, m)
<1> DEFINE S == u.pathname
<1>1. /\ m \in Nat \ {0}
      /\ \A i \in 1..m : /\ S[i] \in UrlText /\ S[i] # <<>>
                         /\ \A j \in 1..Len(S[i]) : S[i][j] \notin {"/", "?", "#", Blank}
  BY ItemsFacts
<1>2. /\ c \in [0..m -> Nat]
      /\ \A i \in 1..m : /\ c[i] = c[i - 1] + 1 + Len(S[i])
                         /\ HoldsAt(T, c[i - 1] + 1, S[i]) /\ T[c[i - 1] + 1] = "/"
  BY DEF Chain, Led
<1>3. (\A i \in 0..m : \A k \in 0..i : k = i \/ c[k] < c[i]) /\ \A i \in 1..m : c[i] <= Len(T)
  BY ChainSteps
<1> HIDE DEF S
<1>4. ASSUME NEW i \in 1..m PROVE Stands(T, c[i - 1] + 1, S[i], Delimiters("PATHNAME"))
  <2> DEFINE s == S[i]
  <2>1. s \in UrlText /\ HoldsAt(T, c[i - 1] + 1, s) /\ \A j \in 1..Len(s) : s[j] \notin {"/", "?", "#", Blank}
    BY <1>1, <1>2
  <2> HIDE DEF s
  <2>2. \A j \in 1..Len(s) : s[j] # Mark => s[j] \notin Delimiters("PATHNAME") /\ s[j] # Blank
    BY <2>1, DelimiterSets
  <2> QED
    BY <2>1, <2>2, StandsFacts DEF s
<1>5. ASSUME NEW i \in 1..m, i # m PROVE c[i] < Len(T) /\ T[c[i] + 1] = "/"
  <2>1. i + 1 \in 1..m /\ (i + 1) - 1 = i /\ i \in 0..m /\ m \in 0..m /\ m \in 1..m
    BY <1>1, <1>5
  <2>2. c[i] < c[m] /\ c[m] <= Len(T)
    BY <1>3, <1>5, <2>1
  <2>3. c[i] \in Nat /\ c[m] \in Nat /\ Len(T) \in Nat
    BY <1>2, <2>1 DEF HoldsAt
  <2>4. c[i] < Len(T)
    BY <2>2, <2>3
  <2> QED
    BY <1>2, <2>1, <2>4
<1> QED
  BY <1>1, <1>2, <1>4, <1>5 DEF PathStands, S

LEMMA QueryStandsThere ==
  ASSUME NEW u, Spelled(u), WellFormed(u), NEW T, NEW e, NEW z, z = Len(QueryPairs(u)),
         \A x \in 1..Len(T) : T[x] # Mark, NEW K, NEW V, NEW q,
         PutsUp(u.query, QueryPairs(u), K, V, q, z),
         Chain(T, Led("?", "&", z), QueryPairs(u), e, z)
  PROVE  QueryStands(u, T, e, z, K, V, q)
<1> DEFINE X == QueryPairs(u)
           D == Led("?", "&", z)
<1>1. PlainPairs(X, K, V, q, z)
  BY PairPlain
<1>2. /\ z \in Nat /\ e \in [0..z -> Nat]
      /\ \A i \in 1..z : /\ e[i] = e[i - 1] + 1 + Len(X[i])
                         /\ HoldsAt(T, e[i - 1] + 1, X[i]) /\ T[e[i - 1] + 1] = D[i]
  BY DEF Chain
<1>3. (\A i \in 0..z : \A k \in 0..i : k = i \/ e[k] < e[i]) /\ \A i \in 1..z : e[i] <= Len(T)
  BY ChainSteps
<1>4. \A i \in 1..z : D[i] = IF i = 1 THEN "?" ELSE "&"
  BY <1>2 DEF Led
<1>5. q[0] = <<>> /\ q[z] = u.query
  BY DEF PutsUp
<1> HIDE DEF X, D
<1>6. z # 0 => T[e[0] + 1] = "?" /\ e[0] < Len(T)
  <2> SUFFICES ASSUME z # 0 PROVE T[e[0] + 1] = "?" /\ e[0] < Len(T)
    OBVIOUS
  <2>1. 1 \in 1..z /\ 1 - 1 = 0 /\ 0 \in 0..1 /\ 1 \in 0..z /\ 0 \in 0..z
    BY <1>2
  <2>2. e[0] < e[1] /\ e[1] <= Len(T)
    BY <1>3, <2>1
  <2>3. e[0] \in Nat /\ e[1] \in Nat /\ Len(T) \in Nat
    BY <1>2, <2>1 DEF HoldsAt
  <2>4. e[0] < Len(T)
    BY <2>2, <2>3
  <2>5. T[e[0] + 1] = "?"
    BY <1>2, <1>4, <2>1
  <2> QED
    BY <2>4, <2>5
<1>7. ASSUME NEW i \in 1..z
      PROVE  /\ Stands(T, e[i - 1] + 1, K[i], Delimiters("QUERYSTRING"))
             /\ Stands(T, e[i - 1] + 1 + Len(K[i]) + 1, V[i], Delimiters("QUERYSTRING"))
             /\ T[e[i - 1] + 1 + Len(K[i]) + 1] = "="
             /\ e[i] = e[i - 1] + 1 + Len(K[i]) + 1 + Len(V[i])
             /\ q[i] = PutQuery(q[i - 1], K[i], V[i])
  <2>1. /\ K[i] \in UrlText /\ V[i] \in UrlText /\ X[i] = K[i] \o <<"=">> \o V[i]
        /\ q[i] = PutQuery(q[i - 1], K[i], V[i])
        /\ \A j \in 1..Len(K[i]) : K[i][j] \notin {"=", "&", "#", Blank}
        /\ \A j \in 1..Len(V[i]) : V[i][j] \notin {"=", "&", "#", Blank}
    BY <1>1 DEF PlainPairs
  <2> DEFINE k == K[i]
             v == V[i]
             x == X[i]
             a == e[i - 1] + 1
  <2>2. /\ k \in UrlText /\ v \in UrlText /\ x = k \o <<"=">> \o v
        /\ \A j \in 1..Len(k) : k[j] \notin {"=", "&", "#", Blank}
        /\ \A j \in 1..Len(v) : v[j] \notin {"=", "&", "#", Blank}
    BY <2>1
  <2>3. HoldsAt(T, a, x) /\ e[i] = a + Len(x) /\ a \in Nat
    <3>1. i - 1 \in 0..z
      BY <1>2
    <3> QED
      BY <1>2, <3>1
  <2> HIDE DEF k, v, x, a
  <2>4. /\ Len(k) \in Nat /\ Len(v) \in Nat /\ Len(x) = Len(k) + 1 + Len(v)
        /\ HoldsAt(x, 0, k) /\ HoldsAt(x, Len(k), <<"=">>) /\ HoldsAt(x, Len(k) + 1, v)
    <3>1. "=" \in Letters
      BY CharactersAreTexts
    <3> QED
      BY <2>2, <3>1, PairText DEF UrlText
  <2>5. HoldsAt(T, a + 0, k) /\ HoldsAt(T, a + Len(k), <<"=">>) /\ HoldsAt(T, a + (Len(k) + 1), v)
    BY <2>3, <2>4, HoldsIn
  <2> DEFINE kk == Len(k)
             vv == Len(v)
  <2> HIDE DEF kk, vv
  <2>6. a + 0 = a /\ a + (kk + 1) = a + kk + 1 /\ e[i] = a + kk + 1 + vv
    BY <2>3, <2>4 DEF kk, vv
  <2>7. T[a + kk + 1] = "="
    BY <2>5, HoldsOne DEF kk
  <2>8. /\ \A j \in 1..Len(k) : k[j] # Mark => k[j] \notin Delimiters("QUERYSTRING") /\ k[j] # Blank
        /\ \A j \in 1..Len(v) : v[j] # Mark => v[j] \notin Delimiters("QUERYSTRING") /\ v[j] # Blank
    BY <2>2, DelimiterSets
  <2>9. Stands(T, a, k, Delimiters("QUERYSTRING"))
    BY <2>2, <2>5, <2>6, <2>8, StandsFacts
  <2>10. Stands(T, a + kk + 1, v, Delimiters("QUERYSTRING"))
    BY <2>2, <2>5, <2>6, <2>8, StandsFacts DEF kk
  <2> QED
    BY <2>1, <2>6, <2>7, <2>9, <2>10 DEF k, v, a, kk, vv
<1>8. ASSUME NEW i \in 1..z, i # z PROVE e[i] < Len(T) /\ T[e[i] + 1] = "&"
  <2>1. i + 1 \in 1..z /\ (i + 1) - 1 = i /\ i \in 0..z /\ z \in 0..z /\ z \in 1..z /\ i + 1 # 1
    BY <1>2, <1>8
  <2>2. e[i] < e[z] /\ e[z] <= Len(T)
    BY <1>3, <1>8, <2>1
  <2>3. e[i] \in Nat /\ e[z] \in Nat /\ Len(T) \in Nat
    BY <1>2, <2>1 DEF HoldsAt
  <2>4. e[i] < Len(T)
    BY <2>2, <2>3
  <2>5. T[e[i] + 1] = "&"
    BY <1>2, <1>4, <2>1
  <2> QED
    BY <2>4, <2>5
<1> QED
  BY <1>2, <1>5, <1>6, <1>7, <1>8 DEF QueryStands

LEMMA FragmentStandsThere ==
  ASSUME NEW u, Spelled(u), WellFormed(u), NEW T, NEW f,
         \A x \in 1..Len(T) : T[x] # Mark,
         HoldsAt(T, f, FragmentText(u)), Len(T) = f + Len(FragmentText(u))
  PROVE  FragmentStands(u, T, f)
<1> DEFINE F == FragmentText(u)
           s == u.fragment
           p == Len(s)
           N == Len(T)
<1>1. f \in Nat /\ Len(F) \in Nat /\ N \in Nat /\ N = f + Len(F)
  BY DEF HoldsAt
<1>2. s \in UrlText /\ "#" \in Letters
  BY FieldFacts, CharactersAreTexts
<1>3. \A j \in 1..p : s[j] # Blank
  BY DEF WellFormed, Without, Blank
<1>4. CASE s = <<>>
  <2>1. Len(F) = 0
    BY <1>4 DEF FragmentText
  <2> HIDE DEF F, N
  <2>2. N = f
    BY <1>1, <2>1
  <2> QED
    BY <1>1, <1>4, <2>2 DEF FragmentStands, N
<1>5. CASE s # <<>>
  <2>1. F = <<"#">> \o s
    BY <1>5 DEF FragmentText
  <2> HIDE DEF s
  <2>2. p \in Nat /\ Len(F) = 1 + p /\ HoldsAt(F, 0, <<"#">>) /\ HoldsAt(F, 1, s)
    BY <1>2, <2>1, JoinOne DEF UrlText
  <2>3. HoldsAt(T, f + 0, <<"#">>) /\ HoldsAt(T, f + 1, s)
    BY <2>2, HoldsIn
  <2> HIDE DEF F, p, N
  <2>4. f + 0 = f /\ N = f + 1 + p /\ f < N
    BY <1>1, <2>2
  <2>5. T[f + 1] = "#"
    BY <2>3, <2>4, HoldsOne
  <2>6. Stands(T, f + 1, s, Delimiters("FRAGMENT"))
    BY <1>2, <1>3, <2>3, DelimiterSets DEF Stands, p
  <2> QED
    BY <1>1, <1>5, <2>4, <2>5, <2>6 DEF FragmentStands, N, p, s
<1> QED
  BY <1>4, <1>5

LEMMA MappedThere ==
  ASSUME NEW u, Spelled(u), WellFormed(u), NEW T, \A x \in 1..Len(T) : T[x] # Mark,
         NEW b, NEW c, NEW e, Layout(u, T, b, c, e), NEW K, NEW V, NEW q,
         PutsUp(u.query, QueryPairs(u), K, V, q, Len(QueryPairs(u)))
  PROVE  AllStand(u, T, b, c, e, K, V, q)
<1> DEFINE k == Len(u.protocol)
           n == Len(PartsOf(u))
           m == Len(u.pathname)
           z == Len(QueryPairs(u))
           N == Len(T)
<1>1. /\ HoldsAt(T, 0, u.protocol) /\ b[0] = k + 2 /\ Chain(T, PartMarks(u), PartsOf(u), b, n)
      /\ c[0] = b[n] /\ Chain(T, Led("/", "/", m), u.pathname, c, m)
      /\ e[0] = c[m] /\ Chain(T, Led("?", "&", z), QueryPairs(u), e, z)
      /\ HoldsAt(T, e[z], FragmentText(u)) /\ N = e[z] + Len(FragmentText(u))
  BY DEF Layout
<1>2. Clean(u, T, b[n], c[m], e[z])
  BY LayoutClean
<1>3. /\ k \in Nat \ {0} /\ b[n] \in Nat /\ c[m] \in Nat /\ e[z] \in Nat /\ N \in Nat
      /\ k + 3 <= b[n] /\ b[n] < c[m] /\ c[m] <= e[z] /\ e[z] <= N
      /\ T[k + 1] = ":" /\ T[b[n] + 1] = "/"
  BY <1>2 DEF Clean
<1>4. k + 3 < N /\ b[n] < N
  <2> HIDE DEF k, n, m, z, N
  <2> QED
    BY <1>3
<1>5. Stands(T, 0, u.protocol, Delimiters("PROTOCOL"))
  <2> DEFINE s == u.protocol
  <2>1. s \in UrlText
    BY FieldFacts
  <2>2. \A x \in 1..Len(s) : s[x] \notin UrlMarks
    BY DEF WellFormed, Without, UrlMarks
  <2>3. HoldsAt(T, 0, s)
    BY <1>1
  <2> HIDE DEF s
  <2>4. \A x \in 1..Len(s) : s[x] \notin Delimiters("PROTOCOL") /\ s[x] # Blank
    BY <2>2, PlainFacts, DelimiterSets
  <2> QED
    BY <2>1, <2>3, <2>4 DEF Stands, s
<1>6. PartsStand(u, T, b, n)
  BY <1>1, <1>3, <1>4, PartsStandThere
<1>7. PathStands(u, T, c, m)
  BY <1>1, PathStandsThere
<1>8. QueryStands(u, T, e, z, K, V, q)
  BY <1>1, QueryStandsThere
<1>9. FragmentStands(u, T, e[z])
  BY <1>1, FragmentStandsThere
<1> QED
  BY <1>1, <1>3, <1>4, <1>5, <1>6, <1>7, <1>8, <1>9 DEF AllStand

-----------------------------------------------------------------------------
(* The machine on a marked text.                                           *)

(* It has read j characters of the item s that stands behind a.            *)
HasRead(T, a, s, j) ==
  /\ Stands(T, a, s, Delimiters(state)) /\ j \in 0..Len(s)
  /\ buf = SubSeq(s, 1, j) /\ rest = Unread(T, a + j)

LEMMA KeepsOnly ==
  ASSUME MachineNext, Cursor \notin Delimiters(state), Cursor # Blank
  PROVE  KeepCharacter
<1>1. ~SkipSpace
  <2>1. SkipSpace => Cursor = " "
    BY DEF SkipSpace
  <2> QED
    BY <2>1, Zenon DEF Blank
<1>2. ~EndProtocol /\ ~AuthorityDelimiter /\ ~PathDelimiter /\ ~QueryDelimiter
  BY DelimiterSets DEF EndProtocol, AuthorityDelimiter, PathDelimiter, QueryDelimiter
<1> QED
  BY <1>1, <1>2 DEF MachineNext

LEMMA EndsOnly ==
  ASSUME MachineNext, state \in States, Cursor \in Delimiters(state)
  PROVE  /\ state = "PROTOCOL" => EndProtocol
         /\ state = "AUTHORITY" => AuthorityDelimiter
         /\ state = "PATHNAME" => PathDelimiter
         /\ state = "QUERYSTRING" => QueryDelimiter
<1>1. ~SkipSpace
  <2>1. SkipSpace => Cursor = Blank
    BY Zenon DEF SkipSpace, Blank
  <2> QED
    BY <2>1, BlankIsKept
<1>2. ~KeepCharacter
  BY DEF KeepCharacter
<1> QED
  BY <1>1, <1>2 DEF MachineNext, EndProtocol, AuthorityDelimiter, PathDelimiter, QueryDelimiter

LEMMA CursorFacts ==
  ASSUME NEW T \in UrlText, NEW p \in 0..Len(T), rest = Unread(T, p)
  PROVE  /\ p \in Nat /\ Len(T) \in Nat /\ Len(rest) = Len(T) + 1 - p
         /\ Cursor = IF p = Len(T) THEN Mark ELSE T[p + 1]
         /\ \A n \in 1..(Len(T) + 1 - p) : Read(n) => rest' = Unread(T, p + n)
<1> DEFINE N == Len(T)
<1>1. N \in Nat
  BY UnreadFacts
<1> HIDE DEF N
<1>2. p \in 0..(N + 1) /\ p \in Nat /\ (p = N \/ p \in 0..(N - 1))
  BY <1>1 DEF N
<1>3. Len(rest) = N + 1 - p
  BY <1>2, UnreadFacts DEF N
<1>4. Cursor = IF p = N THEN Mark ELSE T[p + 1]
  <2>1. p = N => Head(Unread(T, p)) = Mark
    BY UnreadFacts DEF N
  <2>2. p \in 0..(N - 1) => Head(Unread(T, p)) = T[p + 1]
    BY UnreadFacts DEF N
  <2> QED
    BY <1>2, <2>1, <2>2 DEF Cursor
<1>5. ASSUME NEW n \in 1..(N + 1 - p), Read(n) PROVE rest' = Unread(T, p + n)
  <2>1. rest' = SubSeq(Unread(T, p), n + 1, Len(Unread(T, p)))
    BY <1>5 DEF Read
  <2>2. SubSeq(Unread(T, p), n + 1, Len(Unread(T, p))) = Unread(T, p + n)
    BY <1>2, UnreadFacts DEF N
  <2> QED
    BY <2>1, <2>2
<1> QED
  BY <1>1, <1>2, <1>3, <1>4, <1>5 DEF N

LEMMA AtFacts ==
  ASSUME NEW T, NEW a, NEW s, NEW j, HasRead(T, a, s, j)
  PROVE  /\ a \in Nat /\ Len(s) \in Nat /\ Len(T) \in Nat /\ a + Len(s) <= Len(T)
         /\ j \in Nat /\ j <= Len(s) /\ a + j \in 0..Len(T)
         /\ \A x \in 1..Len(s) : T[a + x] = s[x]
<1> DEFINE n == Len(s)
           N == Len(T)
<1>1. /\ a \in Nat /\ n \in Nat /\ N \in Nat /\ a + n <= N /\ j \in 0..n
      /\ \A x \in 1..n : T[a + x] = s[x]
  BY DEF HasRead, Stands, HoldsAt
<1> HIDE DEF n, N
<1>2. j \in Nat /\ j <= n /\ a + j \in 0..N
  BY <1>1
<1> QED
  BY <1>1, <1>2 DEF n, N

(* Inside an item the machine keeps the character it reads.                *)
LEMMA KeepsInside ==
  ASSUME NEW T \in UrlText, \A x \in 1..Len(T) : T[x] # Mark, NEW a, NEW s, NEW j, HasRead(T, a, s, j),
         j # Len(s), MachineNext
  PROVE  /\ state' = state /\ temp' = temp /\ writingKey' = writingKey /\ url' = url
         /\ HasRead(T, a, s, j + 1)'
<1> DEFINE n == Len(s)
           N == Len(T)
           p == a + j
<1>1. /\ a \in Nat /\ n \in Nat /\ N \in Nat /\ a + n <= N /\ j \in Nat /\ j <= n /\ p \in 0..N
      /\ \A x \in 1..n : T[a + x] = s[x]
  BY AtFacts
<1>2. /\ Stands(T, a, s, Delimiters(state)) /\ buf = SubSeq(s, 1, j) /\ rest = Unread(T, p)
  BY DEF HasRead
<1>3. s \in UrlText /\ \A x \in 1..n : s[x] \notin Delimiters(state) /\ s[x] # Blank
  BY <1>2 DEF Stands
<1>4. /\ p \in Nat /\ (Cursor = IF p = N THEN Mark ELSE T[p + 1])
      /\ \A x \in 1..(N + 1 - p) : Read(x) => rest' = Unread(T, p + x)
  BY <1>1, <1>2, CursorFacts
<1> HIDE DEF n, N
<1>5. j + 1 \in 1..n /\ p # N /\ a + (j + 1) = p + 1 /\ p + 1 \in 1..N /\ 1 \in 1..(N + 1 - p)
      /\ (j + 1) - 1 = j /\ j + 1 \in 0..n
  BY <1>1 DEF n
<1>6. Cursor = s[j + 1] /\ Cursor = T[p + 1]
  <2>1. T[a + (j + 1)] = s[j + 1]
    BY <1>1, <1>5
  <2> QED
    BY <1>4, <1>5, <2>1
<1>7. Cursor \notin Delimiters(state) /\ Cursor # Blank /\ Cursor # Mark
  BY <1>3, <1>5, <1>6 DEF N
<1>8. KeepCharacter
  BY <1>7, KeepsOnly
<1>9. /\ state' = state /\ temp' = temp /\ writingKey' = writingKey /\ url' = url
      /\ buf' = Append(buf, Cursor) /\ Read(1)
  BY <1>7, <1>8 DEF KeepCharacter
<1>10. rest' = Unread(T, a + (j + 1))
  BY <1>4, <1>5, <1>9
<1>11. buf' = SubSeq(s, 1, j + 1)
  <2>1. Append(SubSeq(s, 1, (j + 1) - 1), s[j + 1]) = SubSeq(s, 1, j + 1)
    BY <1>3, <1>5, PrefixFacts DEF UrlText, n
  <2> QED
    BY <1>2, <1>5, <1>6, <1>9, <2>1
<1>12. Stands(T, a, s, Delimiters(state'))
  BY <1>2, <1>9
<1> QED
  BY <1>5, <1>9, <1>10, <1>11, <1>12 DEF HasRead, n

(* Behind an item stands the delimiter that ends it.                       *)
LEMMA EndsItem ==
  ASSUME NEW T \in UrlText, NEW a, NEW s, NEW j, HasRead(T, a, s, j), j = Len(s)
  PROVE  /\ buf = s /\ s \in UrlText /\ (buf = <<>> <=> Len(s) = 0)
         /\ a + Len(s) \in 0..Len(T) /\ Len(T) \in Nat
         /\ rest = Unread(T, a + Len(s))
         /\ Len(rest) = Len(T) + 1 - (a + Len(s))
         /\ Cursor = IF a + Len(s) = Len(T) THEN Mark ELSE T[a + Len(s) + 1]
         /\ \A n \in 1..(Len(T) + 1 - (a + Len(s))) : Read(n) => rest' = Unread(T, a + Len(s) + n)
<1>1. s \in UrlText /\ buf = SubSeq(s, 1, Len(s)) /\ rest = Unread(T, a + Len(s))
  BY DEF HasRead, Stands
<1>2. buf = s
  BY <1>1, PrefixFacts DEF UrlText
<1>3. buf = <<>> <=> Len(s) = 0
  BY <1>1, <1>2, LengthFacts DEF UrlText
<1>4. a + Len(s) \in 0..Len(T)
  BY AtFacts
<1> DEFINE p == a + Len(s)
<1>5. p \in 0..Len(T) /\ rest = Unread(T, p)
  BY <1>1, <1>4
<1> HIDE DEF p
<1>6. /\ Len(T) \in Nat /\ Len(rest) = Len(T) + 1 - p
      /\ Cursor = IF p = Len(T) THEN Mark ELSE T[p + 1]
      /\ \A n \in 1..(Len(T) + 1 - p) : Read(n) => rest' = Unread(T, p + n)
  BY <1>5, CursorFacts
<1> QED
  BY <1>1, <1>2, <1>3, <1>4, <1>6 DEF p

(* The next item begins.                                                   *)
LEMMA BeginsItem ==
  ASSUME NEW T, NEW a, NEW s, Stands(T, a, s, Delimiters(state')), buf' = <<>>, rest' = Unread(T, a)
  PROVE  HasRead(T, a, s, 0)'
<1>1. a \in Nat /\ Len(s) \in Nat /\ s \in UrlText
  BY DEF Stands, HoldsAt
<1>2. 0 \in 0..Len(s) /\ a + 0 = a
  BY <1>1
<1>3. SubSeq(s, 1, 0) = <<>>
  BY <1>1, PrefixFacts DEF UrlText
<1> QED
  BY <1>2, <1>3 DEF HasRead

-----------------------------------------------------------------------------
(* A URL field by field, and what writing a field makes of it.             *)
UrlOf(p, x, y, h, o, s, q, f) ==
  [protocol |-> p, username |-> x, password |-> y, hostname |-> h, port |-> o,
   pathname |-> s, query |-> q, fragment |-> f]

LEMMA FieldsWritten ==
  \A p, x, y, h, o, s, q, f, v :
    /\ [UrlOf(p, x, y, h, o, s, q, f) EXCEPT !.protocol = v] = UrlOf(v, x, y, h, o, s, q, f)
    /\ [UrlOf(p, x, y, h, o, s, q, f) EXCEPT !.username = v] = UrlOf(p, v, y, h, o, s, q, f)
    /\ [UrlOf(p, x, y, h, o, s, q, f) EXCEPT !.password = v] = UrlOf(p, x, v, h, o, s, q, f)
    /\ [UrlOf(p, x, y, h, o, s, q, f) EXCEPT !.hostname = v] = UrlOf(p, x, y, v, o, s, q, f)
    /\ [UrlOf(p, x, y, h, o, s, q, f) EXCEPT !.port = v] = UrlOf(p, x, y, h, v, s, q, f)
    /\ [UrlOf(p, x, y, h, o, s, q, f) EXCEPT !.pathname = v] = UrlOf(p, x, y, h, o, v, q, f)
    /\ [UrlOf(p, x, y, h, o, s, q, f) EXCEPT !.query = v] = UrlOf(p, x, y, h, o, s, v, f)
    /\ [UrlOf(p, x, y, h, o, s, q, f) EXCEPT !.fragment = v] = UrlOf(p, x, y, h, o, s, q, v)
    /\ UrlOf(p, x, y, h, o, s, q, f).pathname = s
    /\ UrlOf(p, x, y, h, o, s, q, f).query = q
<1> TAKE p, x, y, h, o, s, q, f, v
<1>1. [UrlOf(p, x, y, h, o, s, q, f) EXCEPT !.protocol = v] = UrlOf(v, x, y, h, o, s, q, f)
  BY DEF UrlOf
<1>2. [UrlOf(p, x, y, h, o, s, q, f) EXCEPT !.username = v] = UrlOf(p, v, y, h, o, s, q, f)
  BY DEF UrlOf
<1>3. [UrlOf(p, x, y, h, o, s, q, f) EXCEPT !.password = v] = UrlOf(p, x, v, h, o, s, q, f)
  BY DEF UrlOf
<1>4. [UrlOf(p, x, y, h, o, s, q, f) EXCEPT !.hostname = v] = UrlOf(p, x, y, v, o, s, q, f)
  BY DEF UrlOf
<1>5. [UrlOf(p, x, y, h, o, s, q, f) EXCEPT !.port = v] = UrlOf(p, x, y, h, v, s, q, f)
  BY DEF UrlOf
<1>6. [UrlOf(p, x, y, h, o, s, q, f) EXCEPT !.pathname = v] = UrlOf(p, x, y, h, o, v, q, f)
  BY DEF UrlOf
<1>7. [UrlOf(p, x, y, h, o, s, q, f) EXCEPT !.query = v] = UrlOf(p, x, y, h, o, s, v, f)
  BY DEF UrlOf
<1>8. [UrlOf(p, x, y, h, o, s, q, f) EXCEPT !.fragment = v] = UrlOf(p, x, y, h, o, s, q, v)
  BY DEF UrlOf
<1>9. UrlOf(p, x, y, h, o, s, q, f).pathname = s /\ UrlOf(p, x, y, h, o, s, q, f).query = q
  BY DEF UrlOf
<1> QED
  BY <1>1, <1>2, <1>3, <1>4, <1>5, <1>6, <1>7, <1>8, <1>9

(* The URL as the machine fills it.                                        *)
ProtocolOf(u) == UrlOf(u.protocol, <<>>, <<>>, <<>>, <<"0">>, <<>>, <<>>, <<>>)

PathUpTo(u, s) ==
  UrlOf(u.protocol, u.username, u.password, u.hostname, u.port, s, <<>>, <<>>)

QueryUpTo(u, q) ==
  UrlOf(u.protocol, u.username, u.password, u.hostname, u.port, u.pathname, q, <<>>)

PathGrows(u) ==
  \A s, x : [PathUpTo(u, s) EXCEPT !.pathname = Append(@, x)] = PathUpTo(u, Append(s, x))

QueryGrows(u) ==
  \A q, k, v : [QueryUpTo(u, q) EXCEPT !.query = PutQuery(@, k, v)]
                  = QueryUpTo(u, PutQuery(q, k, v))

LEMMA FilledUrl ==
  ASSUME NEW u, u = [f \in DOMAIN NewUrl |-> u[f]]
  PROVE  /\ [NewUrl EXCEPT !.protocol = u.protocol] = ProtocolOf(u)
         /\ PathGrows(u)
         /\ QueryUpTo(u, <<>>) = PathUpTo(u, u.pathname)
         /\ QueryGrows(u)
         /\ [QueryUpTo(u, u.query) EXCEPT !.fragment = u.fragment] = u
         /\ u.fragment = <<>> => QueryUpTo(u, u.query) = u
<1>1. u = UrlOf(u.protocol, u.username, u.password, u.hostname, u.port, u.pathname, u.query, u.fragment)
  BY DEF NewUrl, UrlOf
<1>2. [NewUrl EXCEPT !.protocol = u.protocol] = ProtocolOf(u)
  <2>1. NewUrl = UrlOf(<<>>, <<>>, <<>>, <<>>, <<"0">>, <<>>, <<>>, <<>>)
    BY DEF NewUrl, UrlOf
  <2> QED
    BY <2>1, FieldsWritten DEF ProtocolOf
<1>3. \A s, x : [PathUpTo(u, s) EXCEPT !.pathname = Append(@, x)] = PathUpTo(u, Append(s, x))
  <2> TAKE s, x
  <2> DEFINE w == PathUpTo(u, s)
             t == Append(w.pathname, x)
  <2>1. w.pathname = s
    BY FieldsWritten DEF PathUpTo
  <2>2. \A r : [w EXCEPT !.pathname = r] = PathUpTo(u, r)
    BY FieldsWritten DEF PathUpTo
  <2>3. t = Append(s, x)
    BY <2>1
  <2> HIDE DEF w, t
  <2>4. [w EXCEPT !.pathname = t] = PathUpTo(u, Append(s, x))
    BY <2>2, <2>3
  <2> QED
    BY <2>4 DEF w, t
<1>4. QueryUpTo(u, <<>>) = PathUpTo(u, u.pathname)
  BY DEF QueryUpTo, PathUpTo
<1>5. \A q, k, v : [QueryUpTo(u, q) EXCEPT !.query = PutQuery(@, k, v)]
                     = QueryUpTo(u, PutQuery(q, k, v))
  <2> TAKE q, k, v
  <2> DEFINE w == QueryUpTo(u, q)
             t == PutQuery(w.query, k, v)
  <2>1. w.query = q
    BY FieldsWritten DEF QueryUpTo
  <2>2. \A r : [w EXCEPT !.query = r] = QueryUpTo(u, r)
    BY FieldsWritten DEF QueryUpTo
  <2>3. t = PutQuery(q, k, v)
    BY <2>1
  <2> HIDE DEF w, t
  <2>4. [w EXCEPT !.query = t] = QueryUpTo(u, PutQuery(q, k, v))
    BY <2>2, <2>3
  <2> QED
    BY <2>4 DEF w, t
<1>6. [QueryUpTo(u, u.query) EXCEPT !.fragment = u.fragment]
        = UrlOf(u.protocol, u.username, u.password, u.hostname, u.port, u.pathname, u.query, u.fragment)
  <2>1. \A p, x, y, h, o, s, q, f, v :
          [UrlOf(p, x, y, h, o, s, q, f) EXCEPT !.fragment = v] = UrlOf(p, x, y, h, o, s, q, v)
    BY FieldsWritten, Zenon
  <2> QED
    BY <2>1 DEF QueryUpTo
<1>7. u.fragment = <<>> => QueryUpTo(u, u.query) = u
  BY <1>1 DEF QueryUpTo
<1> QED
  BY <1>1, <1>2, <1>3, <1>4, <1>5, <1>6, <1>7 DEF PathGrows, QueryGrows

LEMMA NamedReads ==
  ASSUME NEW u, Spelled(u), WellFormed(u)
  PROVE  Named(ProtocolOf(u), PartsOf(u)) = PathUpTo(u, <<>>)
<1>1. (u.username = <<>>) <=> (u.password = <<>>)
  BY FieldFacts
<1>2. \A p, x, y, h, o :
        LET w == UrlOf(p, <<>>, <<>>, <<>>, <<"0">>, <<>>, <<>>, <<>>)
        IN  /\ Named(w, <<h>>) = UrlOf(p, <<>>, <<>>, h, <<"0">>, <<>>, <<>>, <<>>)
            /\ Named(w, <<h, o>>) = UrlOf(p, <<>>, <<>>, h, o, <<>>, <<>>, <<>>)
            /\ Named(w, <<x, y, h>>) = UrlOf(p, x, y, h, <<"0">>, <<>>, <<>>, <<>>)
            /\ Named(w, <<x, y, h, o>>) = UrlOf(p, x, y, h, o, <<>>, <<>>, <<>>)
  <2> TAKE p, x, y, h, o
  <2> DEFINE w == UrlOf(p, <<>>, <<>>, <<>>, <<"0">>, <<>>, <<>>, <<>>)
  <2>1. /\ Named(w, <<h>>) = [w EXCEPT !.hostname = h]
        /\ Named(w, <<h, o>>) = [w EXCEPT !.hostname = h, !.port = o]
        /\ Named(w, <<x, y, h>>) = [w EXCEPT !.username = x, !.password = y, !.hostname = h]
        /\ Named(w, <<x, y, h, o>>)
             = [w EXCEPT !.username = x, !.password = y, !.hostname = h, !.port = o]
    <3> HIDE DEF w
    <3> QED
      BY DEF Named
  <2>2. [w EXCEPT !.hostname = h] = UrlOf(p, <<>>, <<>>, h, <<"0">>, <<>>, <<>>, <<>>)
    BY FieldsWritten
  <2>3. [w EXCEPT !.hostname = h, !.port = o] = UrlOf(p, <<>>, <<>>, h, o, <<>>, <<>>, <<>>)
    <3>1. [UrlOf(p, <<>>, <<>>, h, <<"0">>, <<>>, <<>>, <<>>) EXCEPT !.port = o]
            = UrlOf(p, <<>>, <<>>, h, o, <<>>, <<>>, <<>>)
      BY FieldsWritten
    <3> QED
      BY <2>2, <3>1
  <2>4. [w EXCEPT !.username = x, !.password = y, !.hostname = h]
          = UrlOf(p, x, y, h, <<"0">>, <<>>, <<>>, <<>>)
    <3>1. [w EXCEPT !.username = x] = UrlOf(p, x, <<>>, <<>>, <<"0">>, <<>>, <<>>, <<>>)
      BY FieldsWritten
    <3>2. [UrlOf(p, x, <<>>, <<>>, <<"0">>, <<>>, <<>>, <<>>) EXCEPT !.password = y]
            = UrlOf(p, x, y, <<>>, <<"0">>, <<>>, <<>>, <<>>)
      BY FieldsWritten
    <3>3. [UrlOf(p, x, y, <<>>, <<"0">>, <<>>, <<>>, <<>>) EXCEPT !.hostname = h]
            = UrlOf(p, x, y, h, <<"0">>, <<>>, <<>>, <<>>)
      BY FieldsWritten
    <3> HIDE DEF w
    <3> QED
      BY <3>1, <3>2, <3>3
  <2>5. [w EXCEPT !.username = x, !.password = y, !.hostname = h, !.port = o]
          = UrlOf(p, x, y, h, o, <<>>, <<>>, <<>>)
    <3>1. [UrlOf(p, x, y, h, <<"0">>, <<>>, <<>>, <<>>) EXCEPT !.port = o]
            = UrlOf(p, x, y, h, o, <<>>, <<>>, <<>>)
      BY FieldsWritten
    <3> HIDE DEF w
    <3> QED
      BY <2>4, <3>1
  <2> QED
    BY <2>1, <2>2, <2>3, <2>4, <2>5
<1>3. CASE u.username = <<>> /\ u.port = <<"0">>
  BY <1>1, <1>2, <1>3 DEF PartsOf, ProtocolOf, PathUpTo
<1>4. CASE u.username = <<>> /\ u.port # <<"0">>
  BY <1>1, <1>2, <1>4 DEF PartsOf, ProtocolOf, PathUpTo
<1>5. CASE u.username # <<>> /\ u.port = <<"0">>
  BY <1>2, <1>5 DEF PartsOf, ProtocolOf, PathUpTo
<1>6. CASE u.username # <<>> /\ u.port # <<"0">>
  BY <1>2, <1>6 DEF PartsOf, ProtocolOf, PathUpTo
<1> QED
  BY <1>3, <1>4, <1>5, <1>6

-----------------------------------------------------------------------------
(* The item the machine is in: where it stands, and what has been read.    *)
InProtocol(u, a, s) ==
  state = "PROTOCOL" /\ a = 0 /\ s = u.protocol /\ url = NewUrl /\ temp = <<>>

InPart(u, b, i, a, s) ==
  /\ state = "AUTHORITY" /\ i \in 1..Len(PartsOf(u)) /\ a = b[i - 1] + 1 /\ s = PartsOf(u)[i]
  /\ temp = SubSeq(PartsOf(u), 1, i - 1) /\ url = ProtocolOf(u)

InPath(u, c, i, a, s) ==
  /\ state = "PATHNAME" /\ i \in 1..Len(u.pathname) /\ a = c[i - 1] + 1 /\ s = u.pathname[i]
  /\ url = PathUpTo(u, SubSeq(u.pathname, 1, i - 1))

InKey(u, e, K, q, i, a, s) ==
  /\ state = "QUERYSTRING" /\ i \in 1..Len(QueryPairs(u)) /\ a = e[i - 1] + 1 /\ s = K[i]
  /\ url = QueryUpTo(u, q[i - 1])

InValue(u, e, K, V, q, i, a, s) ==
  /\ state = "QUERYSTRING" /\ i \in 1..Len(QueryPairs(u))
  /\ a = e[i - 1] + 1 + Len(K[i]) + 1 /\ s = V[i]
  /\ writingKey = K[i] /\ url = QueryUpTo(u, q[i - 1])

InFragment(u, e, a, s) ==
  /\ state = "FRAGMENT" /\ u.fragment # <<>> /\ a = e[Len(QueryPairs(u))] + 1 /\ s = u.fragment
  /\ url = QueryUpTo(u, u.query)

InItem(u, b, c, e, K, V, q, a, s) ==
  \/ InProtocol(u, a, s) \/ InFragment(u, e, a, s)
  \/ \E i : InPart(u, b, i, a, s)
  \/ \E i : InPath(u, c, i, a, s)
  \/ \E i : InKey(u, e, K, q, i, a, s)
  \/ \E i : InValue(u, e, K, V, q, i, a, s)

ReadAll(u) == rest = <<>> /\ url = u

(* The first item of what follows the path, the query, ...                 *)
LEMMA AfterProtocol ==
  ASSUME NEW u, Spelled(u), WellFormed(u), NEW T \in UrlText, NEW b,
         Stands(T, 0, u.protocol, Delimiters("PROTOCOL")), Len(u.protocol) + 3 < Len(T),
         T[Len(u.protocol) + 1] = ":", PartsStand(u, T, b, Len(PartsOf(u))),
         MachineNext, NEW a, NEW s, NEW j, HasRead(T, a, s, j), j = Len(s), InProtocol(u, a, s)
  PROVE  HasRead(T, b[0] + 1, PartsOf(u)[1], 0)' /\ InPart(u, b, 1, b[0] + 1, PartsOf(u)[1])'
<1> DEFINE k == Len(s)
           N == Len(T)
<1>1. /\ state = "PROTOCOL" /\ a = 0 /\ s = u.protocol /\ url = NewUrl /\ temp = <<>>
  BY DEF InProtocol
<1>2. /\ buf = s /\ s \in UrlText /\ a + k \in 0..N /\ N \in Nat
      /\ Len(rest) = N + 1 - (a + k)
      /\ Cursor = IF a + k = N THEN Mark ELSE T[a + k + 1]
      /\ \A n \in 1..(N + 1 - (a + k)) : Read(n) => rest' = Unread(T, a + k + n)
  BY EndsItem
<1>3. k \in Nat
  BY AtFacts
<1>4. k + 3 < N /\ T[k + 1] = ":" /\ b[0] + 1 = k + 3
  BY <1>1 DEF PartsStand
<1> DEFINE L == Len(rest)
<1> HIDE DEF k, N, L
<1>5. a + k = k /\ k # N /\ L >= 3 /\ 3 \in 1..(N + 1 - (a + k)) /\ k + 3 \in Nat
  BY <1>1, <1>2, <1>3, <1>4 DEF L
<1>6. Cursor = ":"
  BY <1>2, <1>4, <1>5
<1>7. EndProtocol
  BY <1>1, <1>6, EndsOnly, DelimiterSets DEF States
<1>8. /\ Read(3) /\ url' = [url EXCEPT !.protocol = buf] /\ state' = "AUTHORITY" /\ buf' = <<>>
      /\ temp' = temp
  BY <1>5, <1>7 DEF EndProtocol, L
<1>9. rest' = Unread(T, b[0] + 1)
  BY <1>2, <1>4, <1>5, <1>8
<1>10. url' = ProtocolOf(u)
  <2>1. [NewUrl EXCEPT !.protocol = u.protocol] = ProtocolOf(u)
    BY FilledUrl DEF Spelled
  <2> QED
    BY <1>1, <1>2, <1>8, <2>1
<1>11. 1 \in 1..Len(PartsOf(u)) /\ 1 - 1 = 0 /\ Stands(T, b[0] + 1, PartsOf(u)[1], Delimiters("AUTHORITY"))
  <2> DEFINE n == Len(PartsOf(u))
  <2>1. n \in 1..4
    BY DEF PartsStand
  <2>2. \A i \in 1..n : Stands(T, b[i - 1] + 1, PartsOf(u)[i], Delimiters("AUTHORITY"))
    BY DEF PartsStand
  <2> HIDE DEF n
  <2>3. 1 \in 1..n /\ 1 - 1 = 0
    BY <2>1
  <2> QED
    BY <2>2, <2>3 DEF n
<1>12. HasRead(T, b[0] + 1, PartsOf(u)[1], 0)'
  BY <1>8, <1>9, <1>11, BeginsItem
<1>13. temp' = SubSeq(PartsOf(u), 1, 0)
  <2>1. SubSeq(PartsOf(u), 1, 0) = <<>>
    BY DEF PartsOf
  <2> QED
    BY <1>1, <1>8, <2>1
<1> QED
  BY <1>8, <1>10, <1>11, <1>12, <1>13 DEF InPart

(* Behind a part comes the next one, behind the last one the path.         *)
LEMMA PartsList ==
  ASSUME NEW u, Spelled(u), WellFormed(u)
  PROVE  PartsOf(u) \in Seq(UrlText)
<1>1. u.username \in UrlText /\ u.password \in UrlText /\ u.hostname \in UrlText /\ u.port \in UrlText
  BY FieldFacts
<1> HIDE DEF UrlText
<1> QED
  BY <1>1 DEF PartsOf

LEMMA AfterPart ==
  ASSUME NEW u, Spelled(u), WellFormed(u), NEW T \in UrlText, NEW b, NEW c,
         PartsStand(u, T, b, Len(PartsOf(u))), c[0] = b[Len(PartsOf(u))],
         PathStands(u, T, c, Len(u.pathname)),
         MachineNext, NEW i, NEW a, NEW s, NEW j, HasRead(T, a, s, j), j = Len(s), InPart(u, b, i, a, s)
  PROVE  \/ HasRead(T, b[i] + 1, PartsOf(u)[i + 1], 0)' /\ InPart(u, b, i + 1, b[i] + 1, PartsOf(u)[i + 1])'
         \/ HasRead(T, c[0] + 1, u.pathname[1], 0)' /\ InPath(u, c, 1, c[0] + 1, u.pathname[1])'
<1> DEFINE k == Len(s)
           N == Len(T)
           n == Len(PartsOf(u))
           p == b[i]
<1>1. /\ state = "AUTHORITY" /\ i \in 1..n /\ a = b[i - 1] + 1 /\ s = PartsOf(u)[i]
      /\ temp = SubSeq(PartsOf(u), 1, i - 1) /\ url = ProtocolOf(u)
  BY DEF InPart
<1>2. /\ buf = s /\ (buf = <<>> <=> k = 0) /\ a + k \in 0..N /\ N \in Nat
      /\ Cursor = IF a + k = N THEN Mark ELSE T[a + k + 1]
      /\ \A x \in 1..(N + 1 - (a + k)) : Read(x) => rest' = Unread(T, a + k + x)
  BY EndsItem
<1>3. /\ n \in 1..4 /\ p = a + k /\ s # <<>> /\ p < N
      /\ T[p + 1] \in (IF i = n THEN {"/"} ELSE {":", "@"})
  BY <1>1 DEF PartsStand
<1>4. PartsOf(u) \in Seq(UrlText)
  BY PartsList
<1> HIDE DEF k, N, p
<1>5. Cursor = T[p + 1] /\ 1 \in 1..(N + 1 - p)
  BY <1>2, <1>3
<1>6. Cursor \in {":", "@", "/"}
  BY <1>3, <1>5
<1>7. AuthorityDelimiter
  BY <1>1, <1>6, EndsOnly, DelimiterSets DEF States
<1>8. /\ Read(1) /\ temp' = Pushed /\ buf' = <<>>
      /\ (IF Cursor = "/" THEN url' = Named(url, Pushed) /\ state' = "PATHNAME"
          ELSE url' = url /\ state' = state)
  BY <1>7 DEF AuthorityDelimiter
<1>9. rest' = Unread(T, p + 1)
  BY <1>2, <1>3, <1>5, <1>8
<1>10. Pushed = SubSeq(PartsOf(u), 1, i)
  BY <1>1, <1>2, <1>3, <1>4, PrefixFacts DEF Pushed, n
<1>11. CASE i # n
  <2>1. Cursor # "/" /\ url' = url /\ state' = "AUTHORITY"
    BY <1>1, <1>3, <1>5, <1>8, <1>11
  <2>2. i + 1 \in 1..n /\ (i + 1) - 1 = i
    BY <1>1, <1>3, <1>11
  <2>3. Stands(T, p + 1, PartsOf(u)[i + 1], Delimiters("AUTHORITY"))
    BY <2>2 DEF PartsStand, p, n
  <2>4. HasRead(T, p + 1, PartsOf(u)[i + 1], 0)'
    BY <1>8, <1>9, <2>1, <2>3, BeginsItem
  <2>5. InPart(u, b, i + 1, p + 1, PartsOf(u)[i + 1])'
    BY <1>1, <1>8, <1>10, <2>1, <2>2 DEF InPart, p, n
  <2> QED
    BY <2>4, <2>5 DEF p
<1>12. CASE i = n
  <2>1. Cursor = "/" /\ url' = Named(url, Pushed) /\ state' = "PATHNAME"
    BY <1>3, <1>5, <1>8, <1>12
  <2>2. Pushed = PartsOf(u)
    BY <1>4, <1>10, <1>12, PrefixFacts DEF n
  <2>3. url' = PathUpTo(u, <<>>)
    BY <1>1, <2>1, <2>2, NamedReads
  <2>4. 1 \in 1..Len(u.pathname) /\ 1 - 1 = 0 /\ u.pathname \in Seq(UrlText)
        /\ Stands(T, c[0] + 1, u.pathname[1], Delimiters("PATHNAME"))
    BY ItemsFacts DEF PathStands
  <2>5. c[0] = p
    BY <1>12 DEF p
  <2>6. HasRead(T, c[0] + 1, u.pathname[1], 0)'
    BY <1>8, <1>9, <2>1, <2>4, <2>5, BeginsItem
  <2>7. SubSeq(u.pathname, 1, 0) = <<>>
    BY <2>4, PrefixFacts
  <2>8. InPath(u, c, 1, c[0] + 1, u.pathname[1])'
    BY <2>1, <2>3, <2>4, <2>7 DEF InPath
  <2> QED
    BY <2>6, <2>8
<1> QED
  BY <1>11, <1>12

-----------------------------------------------------------------------------
(* What follows the query, or the path when there is no query.             *)
LEMMA AfterAll ==
  ASSUME NEW u, Spelled(u), WellFormed(u), NEW T \in UrlText, NEW f,
         NEW e, f = e[Len(QueryPairs(u))], FragmentStands(u, T, f),
         rest' = Unread(T, f + 1), buf' = <<>>, url' = QueryUpTo(u, u.query),
         u.fragment # <<>> => state' = "FRAGMENT"
  PROVE  \/ HasRead(T, f + 1, u.fragment, 0)' /\ InFragment(u, e, f + 1, u.fragment)'
         \/ ReadAll(u)'
<1>1. CASE u.fragment # <<>>
  <2>1. state' = "FRAGMENT" /\ Stands(T, f + 1, u.fragment, Delimiters("FRAGMENT"))
    BY <1>1 DEF FragmentStands
  <2>2. HasRead(T, f + 1, u.fragment, 0)'
    BY <2>1, BeginsItem
  <2> QED
    BY <1>1, <2>1, <2>2 DEF InFragment
<1>2. CASE u.fragment = <<>>
  <2>1. f = Len(T)
    BY <1>2 DEF FragmentStands
  <2>2. Len(T) + 1 \in 0..(Len(T) + 1)
    BY UnreadFacts
  <2>3. Unread(T, Len(T) + 1) = <<>>
    BY <2>2, UnreadFacts
  <2>4. QueryUpTo(u, u.query) = u
    BY <1>2, FilledUrl DEF Spelled
  <2> QED
    BY <2>1, <2>3, <2>4 DEF ReadAll
<1> QED
  BY <1>1, <1>2

(* Behind a segment.                                                       *)
LEMMA AfterSegment ==
  ASSUME NEW u, Spelled(u), WellFormed(u), NEW T \in UrlText, NEW c, NEW e, NEW K, NEW V, NEW q,
         PathStands(u, T, c, Len(u.pathname)), e[0] = c[Len(u.pathname)],
         QueryStands(u, T, e, Len(QueryPairs(u)), K, V, q),
         FragmentStands(u, T, e[Len(QueryPairs(u))]),
         MachineNext, NEW i, NEW a, NEW s, NEW j, HasRead(T, a, s, j), j = Len(s), InPath(u, c, i, a, s)
  PROVE  \/ HasRead(T, c[i] + 1, u.pathname[i + 1], 0)' /\ InPath(u, c, i + 1, c[i] + 1, u.pathname[i + 1])'
         \/ HasRead(T, e[0] + 1, K[1], 0)' /\ InKey(u, e, K, q, 1, e[0] + 1, K[1])'
         \/ HasRead(T, e[Len(QueryPairs(u))] + 1, u.fragment, 0)'
            /\ InFragment(u, e, e[Len(QueryPairs(u))] + 1, u.fragment)'
         \/ ReadAll(u)'
<1> DEFINE k == Len(s)
           N == Len(T)
           m == Len(u.pathname)
           z == Len(QueryPairs(u))
           p == c[i]
           f == e[z]
<1>1. /\ state = "PATHNAME" /\ i \in 1..m /\ a = c[i - 1] + 1 /\ s = u.pathname[i]
      /\ url = PathUpTo(u, SubSeq(u.pathname, 1, i - 1))
  BY DEF InPath
<1>2. /\ buf = s /\ (buf = <<>> <=> k = 0) /\ a + k \in 0..N /\ N \in Nat
      /\ Cursor = IF a + k = N THEN Mark ELSE T[a + k + 1]
      /\ \A x \in 1..(N + 1 - (a + k)) : Read(x) => rest' = Unread(T, a + k + x)
  BY EndsItem
<1>3. /\ m \in Nat \ {0} /\ p = a + k /\ s # <<>>
      /\ i # m => p < N /\ T[p + 1] = "/"
  BY <1>1 DEF PathStands
<1>4. u.pathname \in Seq(UrlText)
  BY ItemsFacts
<1>5. /\ z \in Nat /\ q[0] = <<>> /\ q[z] = u.query
      /\ z # 0 => T[e[0] + 1] = "?" /\ e[0] < N
      /\ \A x \in 1..z : Stands(T, e[x - 1] + 1, K[x], Delimiters("QUERYSTRING"))
  BY DEF QueryStands
<1>6. /\ u.fragment # <<>> => T[f + 1] = "#" /\ f < N
      /\ u.fragment = <<>> => f = N
  BY DEF FragmentStands
<1>7. i = m => e[0] = p
  OBVIOUS
<1>8. z = 0 => f = e[0]
  OBVIOUS
<1>9. FragmentStands(u, T, f)
  OBVIOUS
<1> HIDE DEF k, N, p
<1>10. 1 \in 1..(N + 1 - p) /\ p \in Nat /\ Cursor = IF p = N THEN Mark ELSE T[p + 1]
  BY <1>2, <1>3
<1> HIDE DEF z, f
<1>11. /\ i # m => Cursor = "/"
       /\ i = m /\ z # 0 => Cursor = "?"
       /\ i = m /\ z = 0 /\ u.fragment # <<>> => Cursor = "#"
       /\ i = m /\ z = 0 /\ u.fragment = <<>> => Cursor = Mark
  <2>1. i # m => p # N
    BY <1>2, <1>3, <1>10
  <2>2. i = m /\ z # 0 => p # N
    BY <1>2, <1>5, <1>7, <1>10
  <2>3. i = m /\ z = 0 /\ u.fragment # <<>> => p # N
    BY <1>2, <1>6, <1>7, <1>8, <1>10
  <2> HIDE DEF m
  <2> QED
    BY <1>3, <1>5, <1>6, <1>7, <1>8, <1>10, <2>1, <2>2, <2>3
<1> HIDE DEF m
<1>12. Cursor \in {"?", "#", "/", Mark}
  BY <1>11
<1>13. PathDelimiter
  BY <1>1, <1>12, EndsOnly, DelimiterSets DEF States
<1>14. /\ Read(1) /\ buf' = <<>> /\ url' = [url EXCEPT !.pathname = Append(@, buf)]
       /\ Cursor = "?" => state' = "QUERYSTRING"
       /\ Cursor = "#" => state' = "FRAGMENT"
       /\ Cursor = "/" => state' = "PATHNAME"
  BY <1>2, <1>3, <1>13 DEF PathDelimiter
<1>15. rest' = Unread(T, p + 1)
  BY <1>2, <1>3, <1>10, <1>14
<1>16. url' = PathUpTo(u, SubSeq(u.pathname, 1, i))
  <2>1. Append(SubSeq(u.pathname, 1, i - 1), s) = SubSeq(u.pathname, 1, i)
    BY <1>1, <1>4, PrefixFacts DEF m
  <2> DEFINE before == SubSeq(u.pathname, 1, i - 1)
  <2> HIDE DEF before
  <2>2. [PathUpTo(u, before) EXCEPT !.pathname = Append(@, s)] = PathUpTo(u, Append(before, s))
    <3>1. PathGrows(u)
      BY FilledUrl DEF Spelled
    <3> QED
      BY <3>1, Zenon DEF PathGrows
  <2>3. url = PathUpTo(u, before) /\ url' = [url EXCEPT !.pathname = Append(@, s)]
    BY <1>1, <1>2, <1>14 DEF before
  <2>4. url' = PathUpTo(u, Append(before, s))
    BY <2>2, <2>3
  <2> QED
    BY <2>1, <2>4 DEF before
<1>17. CASE i # m
  <2>1. state' = "PATHNAME"
    BY <1>11, <1>14, <1>17
  <2>2. i + 1 \in 1..m /\ (i + 1) - 1 = i
    BY <1>1, <1>3, <1>17
  <2>3. Stands(T, p + 1, u.pathname[i + 1], Delimiters("PATHNAME"))
    BY <2>2 DEF PathStands, p, m
  <2>4. HasRead(T, p + 1, u.pathname[i + 1], 0)'
    BY <1>14, <1>15, <2>1, <2>3, BeginsItem
  <2>5. InPath(u, c, i + 1, p + 1, u.pathname[i + 1])'
    BY <1>16, <2>1, <2>2 DEF InPath, p, m
  <2> QED
    BY <2>4, <2>5 DEF p
<1>18. ASSUME i = m PROVE url' = QueryUpTo(u, q[0]) /\ e[0] = p
  <2>1. SubSeq(u.pathname, 1, m) = u.pathname
    BY <1>4, PrefixFacts DEF m
  <2>2. QueryUpTo(u, <<>>) = PathUpTo(u, u.pathname)
    BY FilledUrl DEF Spelled
  <2> QED
    BY <1>5, <1>7, <1>16, <1>18, <2>1, <2>2
<1>19. CASE i = m /\ z # 0
  <2>1. state' = "QUERYSTRING"
    BY <1>11, <1>14, <1>19
  <2>2. 1 \in 1..z /\ 1 - 1 = 0
    BY <1>5, <1>19
  <2>3. Stands(T, e[0] + 1, K[1], Delimiters("QUERYSTRING"))
    BY <1>5, <2>2
  <2>4. HasRead(T, e[0] + 1, K[1], 0)'
    BY <1>14, <1>15, <1>18, <1>19, <2>1, <2>3, BeginsItem
  <2>5. InKey(u, e, K, q, 1, e[0] + 1, K[1])'
    BY <1>18, <1>19, <2>1, <2>2 DEF InKey, z
  <2> QED
    BY <2>4, <2>5
<1>20. CASE i = m /\ z = 0
  <2>1. f = p /\ url' = QueryUpTo(u, u.query) /\ rest' = Unread(T, f + 1)
    BY <1>5, <1>8, <1>15, <1>18, <1>20
  <2>2. u.fragment # <<>> => state' = "FRAGMENT"
    BY <1>11, <1>14, <1>20
  <2> QED
    BY <1>9, <1>14, <2>1, <2>2, AfterAll DEF f, z
<1> QED
  BY <1>17, <1>19, <1>20

(* Behind a key comes its value, ...                                       *)
LEMMA AfterKey ==
  ASSUME NEW u, Spelled(u), WellFormed(u), NEW T \in UrlText, NEW e, NEW K, NEW V, NEW q,
         QueryStands(u, T, e, Len(QueryPairs(u)), K, V, q),
         MachineNext, NEW i, NEW a, NEW s, NEW j, HasRead(T, a, s, j), j = Len(s), InKey(u, e, K, q, i, a, s)
  PROVE  LET b == e[i - 1] + 1 + Len(K[i]) + 1
         IN  HasRead(T, b, V[i], 0)' /\ InValue(u, e, K, V, q, i, b, V[i])'
<1> DEFINE k == Len(s)
           N == Len(T)
           z == Len(QueryPairs(u))
           p == a + k
<1>1. /\ state = "QUERYSTRING" /\ i \in 1..z /\ a = e[i - 1] + 1 /\ s = K[i]
      /\ url = QueryUpTo(u, q[i - 1])
  BY DEF InKey
<1>2. /\ buf = s /\ p \in 0..N /\ N \in Nat
      /\ Cursor = IF p = N THEN Mark ELSE T[p + 1]
      /\ \A x \in 1..(N + 1 - p) : Read(x) => rest' = Unread(T, p + x)
  BY EndsItem
<1>3. /\ Stands(T, p + 1, V[i], Delimiters("QUERYSTRING")) /\ T[p + 1] = "="
  BY <1>1 DEF QueryStands
<1>4. Len(V[i]) \in Nat /\ p + 1 + Len(V[i]) <= N
  BY <1>3 DEF Stands, HoldsAt
<1> DEFINE v == Len(V[i])
<1> HIDE DEF k, N, p
<1>4a. v \in Nat /\ p + 1 + v <= N /\ p \in 0..N /\ N \in Nat
  BY <1>2, <1>4
<1> HIDE DEF v
<1>5. p # N /\ 1 \in 1..(N + 1 - p)
  BY <1>4a
<1>6. Cursor = "="
  BY <1>2, <1>3, <1>5
<1>7. QueryDelimiter
  BY <1>1, <1>6, EndsOnly, DelimiterSets DEF States
<1>8. /\ Read(1) /\ buf' = <<>> /\ writingKey' = buf /\ url' = url /\ state' = "QUERYSTRING"
  BY <1>1, <1>6, <1>7 DEF QueryDelimiter
<1>9. rest' = Unread(T, p + 1)
  BY <1>2, <1>5, <1>8
<1>10. HasRead(T, p + 1, V[i], 0)'
  BY <1>3, <1>8, <1>9, BeginsItem
<1>11. p + 1 = e[i - 1] + 1 + Len(K[i]) + 1
  BY <1>1 DEF p, k
<1>12. InValue(u, e, K, V, q, i, p + 1, V[i])'
  BY <1>1, <1>2, <1>8, <1>11 DEF InValue
<1> QED
  BY <1>10, <1>11, <1>12

(* ... behind a value the next key or what follows the query.              *)
LEMMA AfterValue ==
  ASSUME NEW u, Spelled(u), WellFormed(u), NEW T \in UrlText, NEW e, NEW K, NEW V, NEW q,
         QueryStands(u, T, e, Len(QueryPairs(u)), K, V, q),
         FragmentStands(u, T, e[Len(QueryPairs(u))]),
         MachineNext, NEW i, NEW a, NEW s, NEW j, HasRead(T, a, s, j), j = Len(s),
         InValue(u, e, K, V, q, i, a, s)
  PROVE  \/ HasRead(T, e[i] + 1, K[i + 1], 0)' /\ InKey(u, e, K, q, i + 1, e[i] + 1, K[i + 1])'
         \/ HasRead(T, e[Len(QueryPairs(u))] + 1, u.fragment, 0)'
            /\ InFragment(u, e, e[Len(QueryPairs(u))] + 1, u.fragment)'
         \/ ReadAll(u)'
<1> DEFINE N == Len(T)
           z == Len(QueryPairs(u))
           p == e[i]
           f == e[z]
<1>1. /\ state = "QUERYSTRING" /\ i \in 1..z /\ a = e[i - 1] + 1 + Len(K[i]) + 1 /\ s = V[i]
      /\ writingKey = K[i] /\ url = QueryUpTo(u, q[i - 1])
  BY DEF InValue
<1>2. /\ z \in Nat /\ q[z] = u.query
      /\ \A x \in 1..z : /\ Stands(T, e[x - 1] + 1, K[x], Delimiters("QUERYSTRING"))
                         /\ q[x] = PutQuery(q[x - 1], K[x], V[x])
                         /\ e[x] = e[x - 1] + 1 + Len(K[x]) + 1 + Len(V[x])
                         /\ x # z => e[x] < N /\ T[e[x] + 1] = "&"
  BY DEF QueryStands
<1>3. p = a + Len(s)
  BY <1>1, <1>2
<1>4. /\ buf = s /\ p \in 0..N /\ N \in Nat
      /\ Cursor = IF p = N THEN Mark ELSE T[p + 1]
      /\ \A x \in 1..(N + 1 - p) : Read(x) => rest' = Unread(T, p + x)
  <2>1. /\ buf = s /\ a + Len(s) \in 0..N /\ N \in Nat
        /\ Cursor = IF a + Len(s) = N THEN Mark ELSE T[a + Len(s) + 1]
        /\ \A x \in 1..(N + 1 - (a + Len(s))) : Read(x) => rest' = Unread(T, a + Len(s) + x)
    BY EndsItem
  <2> DEFINE r == a + Len(s)
  <2>2. /\ r \in 0..N /\ (Cursor = IF r = N THEN Mark ELSE T[r + 1])
        /\ \A x \in 1..(N + 1 - r) : Read(x) => rest' = Unread(T, r + x)
    BY <2>1
  <2>3. p = r
    BY <1>3
  <2> HIDE DEF p, r, N
  <2> QED
    BY <2>1, <2>2, <2>3
<1>5. /\ u.fragment # <<>> => T[f + 1] = "#" /\ f < N
      /\ u.fragment = <<>> => f = N
  BY DEF FragmentStands
<1>6. i = z => f = p
  OBVIOUS
<1>7. FragmentStands(u, T, f)
  OBVIOUS
<1>8. i # z => p < N /\ T[p + 1] = "&"
  BY <1>1, <1>2
<1> HIDE DEF N, z, p, f
<1>9. 1 \in 1..(N + 1 - p) /\ p \in Nat
  BY <1>4
<1>10. /\ i # z => Cursor = "&"
       /\ i = z /\ u.fragment # <<>> => Cursor = "#"
       /\ i = z /\ u.fragment = <<>> => Cursor = Mark
  <2>1. i # z => p # N
    BY <1>4, <1>8, <1>9
  <2>2. i = z /\ u.fragment # <<>> => p # N
    BY <1>4, <1>5, <1>6, <1>9
  <2> QED
    BY <1>4, <1>5, <1>6, <1>8, <2>1, <2>2
<1>11. Cursor \in {"&", "#", "=", Mark}
  BY <1>10
<1>12. QueryDelimiter
  BY <1>1, <1>11, EndsOnly, DelimiterSets DEF States
<1>13. Cursor # "=" /\ (Cursor = "#" => i = z /\ u.fragment # <<>>)
  <2>1. Mark # "=" /\ Mark # "#"
    BY Zenon DEF Mark
  <2> QED
    BY <1>10, <2>1
<1>14. /\ Read(1) /\ buf' = <<>>
       /\ url' = [url EXCEPT !.query = PutQuery(@, writingKey, buf)]
       /\ state' = IF Cursor = "#" THEN "FRAGMENT" ELSE "QUERYSTRING"
  BY <1>1, <1>12, <1>13 DEF QueryDelimiter
<1>15. rest' = Unread(T, p + 1)
  BY <1>4, <1>9, <1>14
<1>16. url' = QueryUpTo(u, q[i])
  <2> DEFINE before == q[i - 1]
             k == K[i]
             v == V[i]
  <2> HIDE DEF before, k, v
  <2>1. [QueryUpTo(u, before) EXCEPT !.query = PutQuery(@, k, v)] = QueryUpTo(u, PutQuery(before, k, v))
    <3>1. QueryGrows(u)
      BY FilledUrl DEF Spelled
    <3> QED
      BY <3>1, Zenon DEF QueryGrows
  <2>2. url = QueryUpTo(u, before) /\ url' = [url EXCEPT !.query = PutQuery(@, k, v)]
    BY <1>1, <1>4, <1>14 DEF before, k, v
  <2>3. url' = QueryUpTo(u, PutQuery(before, k, v))
    BY <2>1, <2>2
  <2>4. PutQuery(before, k, v) = q[i]
    BY <1>1, <1>2 DEF before, k, v
  <2> QED
    BY <2>3, <2>4
<1>17. CASE i # z
  <2>1. state' = "QUERYSTRING"
    BY <1>13, <1>14, <1>17
  <2>2. i + 1 \in 1..z /\ (i + 1) - 1 = i
    BY <1>1, <1>2, <1>17
  <2>3. Stands(T, p + 1, K[i + 1], Delimiters("QUERYSTRING"))
    BY <1>2, <2>2 DEF p
  <2>4. HasRead(T, p + 1, K[i + 1], 0)'
    BY <1>14, <1>15, <2>1, <2>3, BeginsItem
  <2>5. InKey(u, e, K, q, i + 1, p + 1, K[i + 1])'
    BY <1>16, <2>1, <2>2 DEF InKey, p, z
  <2> QED
    BY <2>4, <2>5 DEF p
<1>18. CASE i = z
  <2>1. url' = QueryUpTo(u, u.query) /\ rest' = Unread(T, f + 1)
    BY <1>2, <1>6, <1>15, <1>16, <1>18
  <2>2. u.fragment # <<>> => state' = "FRAGMENT"
    BY <1>10, <1>14, <1>18
  <2> QED
    BY <1>7, <1>14, <2>1, <2>2, AfterAll DEF f, z
<1> QED
  BY <1>17, <1>18

(* The mark completes the fragment.                                        *)
LEMMA AfterFragment ==
  ASSUME NEW u, Spelled(u), WellFormed(u), NEW T \in UrlText, NEW e,
         FragmentStands(u, T, e[Len(QueryPairs(u))]),
         MachineNext, NEW a, NEW s, NEW j, HasRead(T, a, s, j), j = Len(s), InFragment(u, e, a, s)
  PROVE  ReadAll(u)'
<1> DEFINE N == Len(T)
           p == a + Len(s)
<1>1. /\ state = "FRAGMENT" /\ u.fragment # <<>> /\ s = u.fragment /\ url = QueryUpTo(u, u.query)
      /\ a = e[Len(QueryPairs(u))] + 1
  BY DEF InFragment
<1>2. N = p
  BY <1>1 DEF FragmentStands
<1>3. /\ buf = s /\ p \in 0..N /\ N \in Nat
      /\ Cursor = IF p = N THEN Mark ELSE T[p + 1]
      /\ \A x \in 1..(N + 1 - p) : Read(x) => rest' = Unread(T, p + x)
  BY EndsItem
<1> HIDE DEF N, p
<1>4. Cursor = Mark /\ 1 \in 1..(N + 1 - p) /\ p + 1 = N + 1 /\ N + 1 \in 0..(N + 1)
  BY <1>2, <1>3
<1>5. Mark # Blank
  BY Zenon DEF Blank, Mark
<1>6. KeepCharacter
  BY <1>1, <1>4, <1>5, KeepsOnly, DelimiterSets
<1>7. Read(1) /\ url' = [url EXCEPT !.fragment = buf]
  BY <1>1, <1>4, <1>6 DEF KeepCharacter
<1>8. rest' = <<>>
  <2>1. rest' = Unread(T, N + 1)
    BY <1>3, <1>4, <1>7
  <2> QED
    BY <1>4, <2>1, UnreadFacts DEF N
<1>9. url' = u
  <2>1. [QueryUpTo(u, u.query) EXCEPT !.fragment = u.fragment] = u
    BY FilledUrl DEF Spelled
  <2> QED
    BY <1>1, <1>3, <1>7, <2>1
<1> QED
  BY <1>8, <1>9 DEF ReadAll

(* Inside an item the place stays the same.                                *)
LEMMA PlaceKept ==
  ASSUME NEW u, NEW b, NEW c, NEW e, NEW K, NEW V, NEW q, NEW a, NEW s,
         InItem(u, b, c, e, K, V, q, a, s),
         state' = state, temp' = temp, writingKey' = writingKey, url' = url
  PROVE  InItem(u, b, c, e, K, V, q, a, s)'
<1>1. InProtocol(u, a, s) => InProtocol(u, a, s)'
  BY DEF InProtocol
<1>2. InFragment(u, e, a, s) => InFragment(u, e, a, s)'
  BY DEF InFragment
<1>3. \A i : InPart(u, b, i, a, s) => InPart(u, b, i, a, s)'
  BY DEF InPart
<1>4. \A i : InPath(u, c, i, a, s) => InPath(u, c, i, a, s)'
  BY DEF InPath
<1>5. \A i : InKey(u, e, K, q, i, a, s) => InKey(u, e, K, q, i, a, s)'
  BY DEF InKey
<1>6. \A i : InValue(u, e, K, V, q, i, a, s) => InValue(u, e, K, V, q, i, a, s)'
  BY DEF InValue
<1> QED
  BY <1>1, <1>2, <1>3, <1>4, <1>5, <1>6 DEF InItem

(* The machine is in an item of the text of u, or has read it all.         *)
Follows(u, T, b, c, e, K, V, q) ==
  \/ ReadAll(u)
  \/ \E a, s, j : HasRead(T, a, s, j) /\ InItem(u, b, c, e, K, V, q, a, s)

LEMMA FollowsOn ==
  ASSUME NEW u, Spelled(u), WellFormed(u), NEW T \in UrlText, \A x \in 1..Len(T) : T[x] # Mark,
         NEW b, NEW c, NEW e, NEW K, NEW V, NEW q, AllStand(u, T, b, c, e, K, V, q),
         Follows(u, T, b, c, e, K, V, q), MachineNext
  PROVE  Follows(u, T, b, c, e, K, V, q)'
<1>1. rest # <<>>
  BY DEF MachineNext, SkipSpace, EndProtocol, AuthorityDelimiter, PathDelimiter,
         QueryDelimiter, KeepCharacter, Read
<1>2. PICK a, s, j : HasRead(T, a, s, j) /\ InItem(u, b, c, e, K, V, q, a, s)
  BY <1>1 DEF Follows, ReadAll
<1>3. /\ Stands(T, 0, u.protocol, Delimiters("PROTOCOL"))
      /\ Len(u.protocol) + 3 < Len(T) /\ T[Len(u.protocol) + 1] = ":"
      /\ PartsStand(u, T, b, Len(PartsOf(u))) /\ c[0] = b[Len(PartsOf(u))]
      /\ PathStands(u, T, c, Len(u.pathname)) /\ e[0] = c[Len(u.pathname)]
      /\ QueryStands(u, T, e, Len(QueryPairs(u)), K, V, q)
      /\ FragmentStands(u, T, e[Len(QueryPairs(u))])
  BY DEF AllStand
<1>4. CASE j # Len(s)
  <2>1. /\ state' = state /\ temp' = temp /\ writingKey' = writingKey /\ url' = url
        /\ HasRead(T, a, s, j + 1)'
    BY <1>2, <1>4, KeepsInside
  <2>2. InItem(u, b, c, e, K, V, q, a, s)'
    BY <1>2, <2>1, PlaceKept
  <2> QED
    BY <2>1, <2>2 DEF Follows
<1>5. CASE j = Len(s)
  <2>1. HasRead(T, a, s, j)
    BY <1>2
  <2>2. CASE InProtocol(u, a, s)
    <3>1. HasRead(T, b[0] + 1, PartsOf(u)[1], 0)' /\ InPart(u, b, 1, b[0] + 1, PartsOf(u)[1])'
      BY <1>3, <1>5, <2>1, <2>2, AfterProtocol
    <3> QED
      BY <3>1 DEF Follows, InItem
  <2>3. ASSUME NEW i, InPart(u, b, i, a, s) PROVE Follows(u, T, b, c, e, K, V, q)'
    <3>1. \/ HasRead(T, b[i] + 1, PartsOf(u)[i + 1], 0)' /\ InPart(u, b, i + 1, b[i] + 1, PartsOf(u)[i + 1])'
          \/ HasRead(T, c[0] + 1, u.pathname[1], 0)' /\ InPath(u, c, 1, c[0] + 1, u.pathname[1])'
      BY <1>3, <1>5, <2>1, <2>3, AfterPart
    <3> QED
      BY <3>1 DEF Follows, InItem
  <2>4. ASSUME NEW i, InPath(u, c, i, a, s) PROVE Follows(u, T, b, c, e, K, V, q)'
    <3>1. \/ HasRead(T, c[i] + 1, u.pathname[i + 1], 0)'
             /\ InPath(u, c, i + 1, c[i] + 1, u.pathname[i + 1])'
          \/ HasRead(T, e[0] + 1, K[1], 0)' /\ InKey(u, e, K, q, 1, e[0] + 1, K[1])'
          \/ HasRead(T, e[Len(QueryPairs(u))] + 1, u.fragment, 0)'
             /\ InFragment(u, e, e[Len(QueryPairs(u))] + 1, u.fragment)'
          \/ ReadAll(u)'
      BY <1>3, <1>5, <2>1, <2>4, AfterSegment
    <3> QED
      BY <3>1 DEF Follows, InItem
  <2>5. ASSUME NEW i, InKey(u, e, K, q, i, a, s) PROVE Follows(u, T, b, c, e, K, V, q)'
    <3> DEFINE r == e[i - 1] + 1 + Len(K[i]) + 1
    <3>1. HasRead(T, r, V[i], 0)' /\ InValue(u, e, K, V, q, i, r, V[i])'
      BY <1>3, <1>5, <2>1, <2>5, AfterKey
    <3> HIDE DEF r
    <3> QED
      BY <3>1 DEF Follows, InItem
  <2>6. ASSUME NEW i, InValue(u, e, K, V, q, i, a, s) PROVE Follows(u, T, b, c, e, K, V, q)'
    <3>1. \/ HasRead(T, e[i] + 1, K[i + 1], 0)' /\ InKey(u, e, K, q, i + 1, e[i] + 1, K[i + 1])'
          \/ HasRead(T, e[Len(QueryPairs(u))] + 1, u.fragment, 0)'
             /\ InFragment(u, e, e[Len(QueryPairs(u))] + 1, u.fragment)'
          \/ ReadAll(u)'
      BY <1>3, <1>5, <2>1, <2>6, AfterValue
    <3> QED
      BY <3>1 DEF Follows, InItem
  <2>7. CASE InFragment(u, e, a, s)
    <3>1. ReadAll(u)'
      BY <1>3, <1>5, <2>1, <2>7, AfterFragment
    <3> QED
      BY <3>1 DEF Follows
  <2> QED
    BY <1>2, <2>2, <2>3, <2>4, <2>5, <2>6, <2>7 DEF InItem
<1> QED
  BY <1>4, <1>5

-----------------------------------------------------------------------------
(* A text that was written from u has no space.                            *)
LEMMA CleanHasNoBlank ==
  ASSUME NEW u, NEW T, NEW h, NEW g, NEW f, Clean(u, T, h, g, f)
  PROVE  \A x \in 1..Len(T) : T[x] # Blank
<1> DEFINE k == Len(u.protocol)
           N == Len(T)
<1>1. /\ k \in Nat \ {0} /\ h \in Nat /\ g \in Nat /\ f \in Nat
      /\ k + 3 <= h /\ h < g /\ g <= f /\ f <= N /\ N \in Nat
  BY DEF Clean
<1>2. /\ \A x \in 1..k : T[x] # Blank
      /\ \A x \in (k + 4)..h : T[x] # Blank
      /\ \A x \in (h + 1)..g : T[x] # Blank
      /\ \A x \in (g + 1)..f : T[x] # Blank
      /\ \A x \in (f + 1)..N : T[x] # Blank
  BY DEF Clean
<1>3. T[k + 1] # Blank /\ T[k + 2] # Blank /\ T[k + 3] # Blank
  BY BlankFacts DEF Clean
<1> HIDE DEF k, N
<1>4. ASSUME NEW x \in 1..N PROVE T[x] # Blank
  <2>1. \/ x \in 1..k \/ x = k + 1 \/ x = k + 2 \/ x = k + 3
        \/ x \in (k + 4)..h \/ x \in (h + 1)..g \/ x \in (g + 1)..f \/ x \in (f + 1)..N
    BY <1>1
  <2> QED
    BY <1>2, <1>3, <2>1
<1> QED
  BY <1>4 DEF N

(* The text was written from u, and the machine follows it.                *)
ReadsBack(u) ==
  /\ Spelled(u) /\ WellFormed(u) /\ Decode(raw) = Location(u)
  /\ Location(u) \in UrlText /\ \A x \in 1..Len(Location(u)) : Location(u)[x] # Mark
  /\ \E b, c, e, K, V, q : /\ AllStand(u, Location(u), b, c, e, K, V, q)
                           /\ Follows(u, Location(u), b, c, e, K, V, q)

Agreeing == \A u : u = meant /\ u # Nothing => ReadsBack(u)

LEMMA AgreeingStarts ==
  ASSUME MachineInit
  PROVE  Agreeing
<1> SUFFICES ASSUME NEW u, u = meant, u # Nothing PROVE ReadsBack(u)
  BY DEF Agreeing
<1>1. PICK i \in Inputs : raw = i.text /\ meant = i.url
  BY DEF MachineInit
<1>2. Spelled(u) /\ WellFormed(u) /\ Decode(raw) = Location(u)
  BY <1>1, InputsAssumption
<1>3. raw \in Seq(Character)
  BY ReadingStarts DEF Reading, Measured
<1> DEFINE T == Location(u)
<1>4. T \in UrlText
  BY <1>2, LocationLayout
<1>5. PICK b, c, e : Layout(u, T, b, c, e)
  BY <1>2, LocationLayout
<1>6. PICK K, V, q : PutsUp(u.query, QueryPairs(u), K, V, q, Len(QueryPairs(u)))
  BY <1>2, ItemsFacts
<1>7. \A x \in 1..Len(T) : T[x] # Mark
  <2>1. T \in Seq(Character)
    BY <1>2, <1>3, DecodedText
  <2> HIDE DEF T
  <2>2. \A x \in 1..Len(T) : T[x] \in Character
    BY <2>1
  <2> QED
    BY <2>2, MarkIsNone
<1>8. \A x \in 1..Len(T) : T[x] # Blank
  <2> HIDE DEF T
  <2>1. Clean(u, T, b[Len(PartsOf(u))], c[Len(u.pathname)], e[Len(QueryPairs(u))])
    BY <1>2, <1>5, LayoutClean
  <2> QED
    BY <2>1, CleanHasNoBlank
<1>9. Decode2(raw) = T
  <2>1. \A x \in 1..Len(raw) : Decode(raw)[x] # Blank
    BY <1>2, <1>3, <1>8, DecodedText
  <2> QED
    BY <1>2, <1>3, <2>1, DecodesAgree
<1>10. /\ rest = Append(T, Mark) /\ state = "PROTOCOL" /\ buf = <<>> /\ temp = <<>> /\ url = NewUrl
  BY <1>9 DEF MachineInit
<1> HIDE DEF T
<1>11. AllStand(u, T, b, c, e, K, V, q)
  BY <1>2, <1>5, <1>6, <1>7, MappedThere
<1> DEFINE s == u.protocol
<1>12. Stands(T, 0, s, Delimiters("PROTOCOL"))
  BY <1>11 DEF AllStand
<1>13. HasRead(T, 0, s, 0)
  <2>1. s \in UrlText /\ Len(s) \in Nat
    BY <1>12 DEF Stands, HoldsAt
  <2> HIDE DEF s
  <2>2. 0 \in 0..Len(s) /\ 0 + 0 = 0
    BY <2>1
  <2>3. SubSeq(s, 1, 0) = <<>>
    BY <2>1, PrefixFacts DEF UrlText
  <2>4. rest = Unread(T, 0)
    BY <1>4, <1>10, UnreadFacts
  <2> QED
    BY <1>10, <1>12, <2>2, <2>3, <2>4 DEF HasRead
<1>14. InItem(u, b, c, e, K, V, q, 0, s)
  BY <1>10 DEF InItem, InProtocol
<1>15. Follows(u, T, b, c, e, K, V, q)
  BY <1>13, <1>14 DEF Follows
<1> QED
  BY <1>2, <1>4, <1>7, <1>11, <1>15 DEF ReadsBack, T

LEMMA FollowsStill ==
  ASSUME NEW u, NEW T, NEW b, NEW c, NEW e, NEW K, NEW V, NEW q,
         Follows(u, T, b, c, e, K, V, q), UNCHANGED machineVars
  PROVE  Follows(u, T, b, c, e, K, V, q)'
<1>1. /\ rest' = rest /\ state' = state /\ buf' = buf /\ temp' = temp
      /\ writingKey' = writingKey /\ url' = url
  BY DEF machineVars
<1>2. ReadAll(u) => ReadAll(u)'
  BY <1>1 DEF ReadAll
<1>3. ASSUME NEW a, NEW s, NEW j, HasRead(T, a, s, j), InItem(u, b, c, e, K, V, q, a, s)
      PROVE  HasRead(T, a, s, j)' /\ InItem(u, b, c, e, K, V, q, a, s)'
  <2>1. HasRead(T, a, s, j)'
    BY <1>1, <1>3 DEF HasRead
  <2>2. InItem(u, b, c, e, K, V, q, a, s)'
    BY <1>1, <1>3, PlaceKept
  <2> QED
    BY <2>1, <2>2
<1> QED
  BY <1>2, <1>3 DEF Follows

LEMMA AgreeingSteps ==
  ASSUME Agreeing, [MachineNext]_machineVars
  PROVE  Agreeing'
<1>1. meant' = meant /\ raw' = raw
  BY DEF MachineNext, machineVars, SkipSpace, EndProtocol, AuthorityDelimiter, PathDelimiter,
         QueryDelimiter, KeepCharacter, Read
<1> SUFFICES ASSUME NEW u, u = meant, u # Nothing PROVE ReadsBack(u)'
  BY <1>1 DEF Agreeing
<1>2. ReadsBack(u)
  BY DEF Agreeing
<1> DEFINE T == Location(u)
<1>3. /\ Spelled(u) /\ WellFormed(u) /\ Decode(raw') = T
      /\ T \in UrlText /\ \A x \in 1..Len(T) : T[x] # Mark
  BY <1>1, <1>2 DEF ReadsBack
<1>4. PICK b, c, e, K, V, q : AllStand(u, T, b, c, e, K, V, q) /\ Follows(u, T, b, c, e, K, V, q)
  BY <1>2 DEF ReadsBack
<1> HIDE DEF T
<1>5. Follows(u, T, b, c, e, K, V, q)'
  <2>1. CASE MachineNext
    BY <1>3, <1>4, <2>1, FollowsOn
  <2>2. CASE UNCHANGED machineVars
    BY <1>4, <2>2, FollowsStill
  <2> QED
    BY <2>1, <2>2
<1> QED
  BY <1>3, <1>4, <1>5 DEF ReadsBack, T

LEMMA AgreeingAgrees ==
  ASSUME Agreeing
  PROVE  RoundTrip /\ SolutionsAgree
<1> SUFFICES ASSUME NEW u, u = meant, u # Nothing
             PROVE  /\ From(raw) = u /\ Location(From(raw)) = Decode(raw)
                    /\ Done => url = From(raw) /\ Location2(url) = Location(url)
  BY DEF RoundTrip, SolutionsAgree
<1> DEFINE T == Location(u)
<1>1. Spelled(u) /\ WellFormed(u) /\ Decode(raw) = T /\ T \in UrlText
  BY DEF Agreeing, ReadsBack
<1>2. PICK b, c, e, K, V, q : Follows(u, T, b, c, e, K, V, q)
  BY DEF Agreeing, ReadsBack
<1>3. From(raw) = u
  BY <1>1, FromReads
<1>4. ASSUME Done PROVE url = u
  <2> HIDE DEF T
  <2>1. ASSUME NEW a, NEW s, NEW j, HasRead(T, a, s, j) PROVE FALSE
    <3> DEFINE p == a + j
               N == Len(T)
    <3>1. p \in 0..N /\ N \in Nat
      BY <2>1, AtFacts
    <3>2. rest = Unread(T, p)
      BY <2>1 DEF HasRead
    <3> HIDE DEF p, N
    <3>3. p \in 0..(N + 1) /\ p # N + 1
      BY <3>1
    <3>4. Unread(T, p) # <<>>
      BY <1>1, <3>3, UnreadFacts DEF N
    <3> QED
      BY <1>4, <3>2, <3>4 DEF Done
  <2> QED
    BY <1>2, <2>1 DEF Follows, ReadAll
<1>5. Location2(u) = Location(u)
  BY <1>1, LocationsAgree
<1> QED
  BY <1>1, <1>3, <1>4, <1>5

(* Whatever well-formed URL a text was written from, and whichever of its  *)
(* characters are escaped: the parser of URL.h finds that URL and writes   *)
(* the decoded text again, the machine of URL2.h ends with the same URL    *)
(* and writes the same text; and no text whatever puts a delimiter into a  *)
(* field that it should have ended.                                        *)
THEOREM SolutionsReadAlike == MachineSpec => []UrlsAgree
<1>1. MachineInit => Reading /\ Agreeing
  BY ReadingStarts, AgreeingStarts
<1>2. Reading /\ Agreeing /\ [MachineNext]_machineVars => (Reading /\ Agreeing)'
  BY ReadingSteps, AgreeingSteps
<1>3. Reading /\ Agreeing => UrlsAgree
  BY AgreeingAgrees, DelimitedFields DEF Reading, UrlsAgree
<1> QED
  BY <1>1, <1>2, <1>3, PTL DEF MachineSpec
=============================================================================
