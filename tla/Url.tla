-------------------------------- MODULE Url ---------------------------------
(***************************************************************************)
(* The first solution of final exercise 004: URL::from and URL::location   *)
(* of 113final004/solution/URL.h.                                          *)
(*                                                                         *)
(* A text is a sequence of characters; a word of letters that no rule      *)
(* looks into counts as one character, and the letters are no hex digits.  *)
(* "%2F" is the character that decodes to "/", "%" alone a stray one.      *)
(***************************************************************************)
EXTENDS Integers, Sequences, FiniteSets
Texts == INSTANCE SequencesExt

CONSTANT Order   \* the characters and words in ascending order

ASSUME OrderAssumption ==
  \A i, j \in 1..Len(Order) : Order[i] = Order[j] => i = j

Escapes == {"%2F", "%3A", "%3F", "%23", "%26", "%3D", "%40", "%20"}

Unescaped(c) ==
  CASE c = "%2F" -> "/" [] c = "%3A" -> ":" [] c = "%3F" -> "?" [] c = "%23" -> "#"
    [] c = "%26" -> "&" [] c = "%3D" -> "=" [] c = "%40" -> "@" [] c = "%20" -> " "
    [] OTHER -> c

-----------------------------------------------------------------------------
(* std::string::find from position i on; 0 is npos.                        *)
FindFrom(s, c, i) ==
  LET at == {j \in i..Len(s) : s[j] = c}
  IN  IF at = {} THEN 0 ELSE CHOOSE j \in at : \A k \in at : j <= k

Find(s, c) == FindFrom(s, c, 1)

FindDivider(s) ==
  LET at == {j \in 1..Len(s) - 2 : s[j] = ":" /\ s[j + 1] = "/" /\ s[j + 2] = "/"}
  IN  IF at = {} THEN 0 ELSE CHOOSE j \in at : \A k \in at : j <= k

(* substr(a, b - a): the count is unsigned, so that b < a is a huge count  *)
(* and means "to the end".                                                 *)
Substr(s, a, b) == IF b < a THEN SubSeq(s, a, Len(s)) ELSE SubSeq(s, a, b - 1)

(* The non-empty pieces that getline finds between the delimiters.         *)
KeepPiece(pieces, piece) == IF piece = <<>> THEN pieces ELSE Append(pieces, piece)

Pieces(s, delimiter) ==
  LET read[i \in 0..Len(s)] ==   \* the pieces that have ended and the open one
        IF i = 0 THEN [ended |-> <<>>, open |-> <<>>]
        ELSE LET last == read[i - 1]
             IN  IF s[i] = delimiter
                 THEN [ended |-> KeepPiece(last.ended, last.open), open |-> <<>>]
                 ELSE [last EXCEPT !.open = Append(@, s[i])]
      end == read[Len(s)]
  IN  KeepPiece(end.ended, end.open)

(* The order of the keys in a std::map.                                    *)
Place(c) == CHOOSE i \in 1..Len(Order) : Order[i] = c

Before(s, t) ==
  \E n \in 0..Len(s) :
    /\ n <= Len(t) /\ \A i \in 1..n : s[i] = t[i]
    /\ \/ n = Len(s) /\ n < Len(t)
       \/ n < Len(s) /\ n < Len(t) /\ Place(s[n + 1]) < Place(t[n + 1])

-----------------------------------------------------------------------------
NewUrl ==
  [protocol |-> <<>>, username |-> <<>>, password |-> <<>>, hostname |-> <<>>,
   port |-> <<"0">>, pathname |-> <<>>, query |-> <<>>, fragment |-> <<>>]

(* query[key].push_back(value).                                            *)
PutQuery(query, key, value) ==
  [k \in DOMAIN query \cup {key} |->
     IF k # key THEN query[k]
     ELSE IF k \in DOMAIN query THEN Append(query[k], value) ELSE <<value>>]

(* percentDecode: a stray "%" is kept when it is within two characters of  *)
(* the end and makes stoi throw elsewhere.                                 *)
Width(c) == IF c \in Escapes THEN 3 ELSE 1

Left(s, i) == Texts!FoldLeft(LAMBDA n, c : n + Width(c), 0, SubSeq(s, i + 1, Len(s)))

DecodeThrows(s) == \E i \in 1..Len(s) : s[i] = "%" /\ Left(s, i) >= 2

Decode(s) == [i \in DOMAIN s |-> Unescaped(s[i])]

(* The authority: [username:password@]hostname[:port].                     *)
WithAuthority(u, authority) ==
  LET at   == Find(authority, "@")
      user == SubSeq(authority, 1, at - 1)
      mid  == Find(user, ":")
      host == IF at > 1 THEN SubSeq(authority, at + 1, Len(authority)) ELSE authority
      port == Find(host, ":")
      named == IF at > 1 /\ mid # 0
               THEN [u EXCEPT !.username = SubSeq(user, 1, mid - 1),
                              !.password = SubSeq(user, mid + 1, Len(user))]
               ELSE u
  IN  IF port # 0
      THEN [named EXCEPT !.hostname = SubSeq(host, 1, port - 1),
                         !.port = SubSeq(host, port + 1, Len(host))]
      ELSE [named EXCEPT !.hostname = host]

(* A pair without "=" is dropped; the value runs from the first "=".       *)
PutPair(query, pair) ==
  LET eq == Find(pair, "=")
  IN  IF eq = 0 THEN query
      ELSE PutQuery(query, SubSeq(pair, 1, eq - 1), SubSeq(pair, eq + 1, Len(pair)))

QueryOf(text) ==
  LET pairs == Pieces(text, "&")
      query[i \in 0..Len(pairs)] ==
        IF i = 0 THEN <<>> ELSE PutPair(query[i - 1], pairs[i])
  IN  query[Len(pairs)]

First(positions, otherwise) ==
  LET found == {i \in DOMAIN positions : positions[i] # 0}
  IN  IF found = {} THEN otherwise
      ELSE positions[CHOOSE i \in found : \A j \in found : i <= j]

From(inputUrl) ==
  LET s        == Decode(inputUrl)
      end      == Len(s) + 1
      protocol == FindDivider(s)
      fragment == Find(s, "#")
      query    == Find(SubSeq(s, 1, First(<<fragment>>, end) - 1), "?")
      path     == FindFrom(s, "/", protocol + 3)
      authorityEnd == First(<<path, query, fragment>>, end)
      pathEnd      == First(<<query, fragment>>, end)
      queryEnd     == First(<<fragment>>, end)
      u == WithAuthority([NewUrl EXCEPT !.protocol = SubSeq(s, 1, protocol - 1)],
                         Substr(s, protocol + 3, authorityEnd))
  IN  IF protocol = 0 THEN [NewUrl EXCEPT !.protocol = s]
      ELSE [u EXCEPT
              !.pathname = IF path = 0 THEN @ ELSE Pieces(Substr(s, path + 1, pathEnd), "/"),
              !.query    = IF query = 0 THEN @ ELSE QueryOf(Substr(s, query + 1, queryEnd)),
              !.fragment = IF fragment = 0 THEN @ ELSE SubSeq(s, fragment + 1, Len(s))]

-----------------------------------------------------------------------------
(* location: user and password only together, port "0" and "" left out,    *)
(* the keys in order.                                                      *)
UserInfo(u) ==
  IF u.username = <<>> \/ u.password = <<>> THEN <<>>
  ELSE u.username \o <<":">> \o u.password \o <<"@">>

Keys(query) ==
  LET rank(k) == Cardinality({l \in DOMAIN query : Before(l, k)})
  IN  [i \in 1..Cardinality(DOMAIN query) |-> CHOOSE k \in DOMAIN query : rank(k) = i - 1]

QueryPairs(u) ==
  LET keys == Keys(u.query)
  IN  Texts!FlattenSeq([i \in DOMAIN keys |->
        [j \in DOMAIN u.query[keys[i]] |-> keys[i] \o <<"=">> \o u.query[keys[i]][j]]])

Location(u) ==
  LET pairs == QueryPairs(u)
  IN  u.protocol \o <<":", "/", "/">> \o UserInfo(u) \o u.hostname
      \o (IF u.port \in {<<>>, <<"0">>} THEN <<>> ELSE <<":">> \o u.port)
      \o Texts!FlattenSeq([i \in DOMAIN u.pathname |-> <<"/">> \o u.pathname[i]])
      \o (IF DOMAIN u.query = {} THEN <<>> ELSE <<"?">>)
      \o Texts!FlattenSeq([i \in DOMAIN pairs |-> (IF i = 1 THEN <<>> ELSE <<"&">>) \o pairs[i]])
      \o (IF u.fragment = <<>> THEN <<>> ELSE <<"#">> \o u.fragment)
=============================================================================
