----------------------------- MODULE UrlMachine -----------------------------
(***************************************************************************)
(* The second solution of final exercise 004: URL::from of                 *)
(* 113final004/solution/URL2.h, a machine that reads the decoded text      *)
(* character by character up to an end mark it appended itself.  The texts *)
(* and the first solution are in module Url.                               *)
(***************************************************************************)
EXTENDS Url

CONSTANT Inputs    \* the texts a programme parses, and the URLs some were written from

Mark == "\\x1F"

Nothing == [NewUrl EXCEPT !.port = <<"none">>]

(* decode reads with >>, which skips spaces, and takes the two characters  *)
(* after a "%" whatever they are: a stray "%" makes stoi throw.            *)
Decode2Throws(s) == \E i \in 1..Len(s) : s[i] = "%"

Decode2(s) ==
  LET kept[i \in 0..Len(s)] ==
        IF i = 0 THEN <<>> ELSE IF s[i] = " " THEN kept[i - 1] ELSE Append(kept[i - 1], Unescaped(s[i]))
  IN  kept[Len(s)]

VARIABLES raw,         \* the text that is parsed
          meant,       \* the URL it was written from, or Nothing
          rest,        \* what the machine has not read yet
          state,       \* Parse
          buf, temp, writingKey,
          url

machineVars == <<raw, meant, rest, state, buf, temp, writingKey, url>>

States == {"PROTOCOL", "AUTHORITY", "PATHNAME", "QUERYSTRING", "FRAGMENT"}

MachineInit ==
  /\ \E i \in Inputs : raw = i.text /\ meant = i.url
  /\ ~Decode2Throws(raw) /\ ~DecodeThrows(raw)
  /\ rest = Append(Decode2(raw), Mark)
  /\ state = "PROTOCOL"
  /\ buf = <<>> /\ temp = <<>> /\ writingKey = <<>>
  /\ url = NewUrl

(* iss >> cursor skips spaces; the loop ends with the text.                *)
Cursor == Head(rest)

Read(n) ==
  /\ rest # <<>>
  /\ rest' = SubSeq(rest, n + 1, Len(rest))
  /\ UNCHANGED <<raw, meant>>

SkipSpace ==
  /\ Read(1)
  /\ Cursor = " "
  /\ UNCHANGED <<state, buf, temp, writingKey, url>>

(* The first ":" ends the protocol; two characters are skipped unread, and *)
(* a seek past the end makes the loop stop.                                *)
EndProtocol ==
  /\ state = "PROTOCOL" /\ rest # <<>> /\ Cursor = ":"
  /\ Read(IF Len(rest) >= 3 THEN 3 ELSE Len(rest))
  /\ url' = [url EXCEPT !.protocol = buf]
  /\ state' = "AUTHORITY"
  /\ buf' = <<>>
  /\ UNCHANGED <<temp, writingKey>>

(* The number of parts tells what they are.                                *)
Pushed == IF buf = <<>> THEN temp ELSE Append(temp, buf)

Named(u, parts) ==
  CASE Len(parts) = 1 -> [u EXCEPT !.hostname = parts[1]]
    [] Len(parts) = 2 -> [u EXCEPT !.hostname = parts[1], !.port = parts[2]]
    [] Len(parts) = 3 -> [u EXCEPT !.username = parts[1], !.password = parts[2],
                                   !.hostname = parts[3]]
    [] Len(parts) = 4 -> [u EXCEPT !.username = parts[1], !.password = parts[2],
                                   !.hostname = parts[3], !.port = parts[4]]
    [] OTHER -> u

AuthorityDelimiter ==
  /\ state = "AUTHORITY" /\ Read(1) /\ Cursor \in {":", "@", "/"}
  /\ temp' = Pushed
  /\ buf' = <<>>
  /\ IF Cursor = "/" THEN url' = Named(url, Pushed) /\ state' = "PATHNAME"
     ELSE UNCHANGED <<url, state>>
  /\ UNCHANGED writingKey

(* A bug: empty segments are kept.                                         *)
PathKeepsEmpty ==
  /\ state = "PATHNAME" /\ Read(1) /\ Cursor \in {"?", "#", "/", Mark}
  /\ state' = CASE Cursor = "?" -> "QUERYSTRING" [] Cursor = "#" -> "FRAGMENT"
                [] OTHER -> "PATHNAME"
  /\ url' = [url EXCEPT !.pathname = Append(@, buf)]
  /\ buf' = <<>>
  /\ UNCHANGED <<temp, writingKey>>

PathDelimiter ==
  /\ state = "PATHNAME" /\ Read(1) /\ Cursor \in {"?", "#", "/", Mark}
  /\ state' = CASE Cursor = "?" -> "QUERYSTRING" [] Cursor = "#" -> "FRAGMENT"
                [] OTHER -> "PATHNAME"
  /\ url' = IF buf = <<>> THEN url ELSE [url EXCEPT !.pathname = Append(@, buf)]
  /\ buf' = <<>>
  /\ UNCHANGED <<temp, writingKey>>

QueryDelimiter ==
  /\ state = "QUERYSTRING" /\ Read(1) /\ Cursor \in {"&", "#", "=", Mark}
  /\ IF Cursor = "=" THEN writingKey' = buf /\ UNCHANGED url
     ELSE /\ url' = [url EXCEPT !.query = PutQuery(@, writingKey, buf)]
          /\ UNCHANGED writingKey
  /\ state' = IF Cursor = "#" THEN "FRAGMENT" ELSE state
  /\ buf' = <<>>
  /\ UNCHANGED temp

Delimiters(s) ==
  CASE s = "PROTOCOL" -> {":"} [] s = "AUTHORITY" -> {":", "@", "/"}
    [] s = "PATHNAME" -> {"?", "#", "/", Mark}
    [] s = "QUERYSTRING" -> {"&", "#", "=", Mark} [] s = "FRAGMENT" -> {}

(* Any other character is kept; the mark first completes the fragment.     *)
KeepCharacter ==
  /\ Read(1)
  /\ Cursor # " " /\ Cursor \notin Delimiters(state)
  /\ url' = IF state = "FRAGMENT" /\ Cursor = Mark THEN [url EXCEPT !.fragment = buf] ELSE url
  /\ buf' = Append(buf, Cursor)
  /\ UNCHANGED <<state, temp, writingKey>>

MachineNext ==
  \/ SkipSpace \/ EndProtocol \/ AuthorityDelimiter \/ PathDelimiter
  \/ QueryDelimiter \/ KeepCharacter

MachineSpec == MachineInit /\ [][MachineNext]_machineVars

(* location of URL2.h: it writes every "/" and "&" behind and removes the  *)
(* last one.                                                               *)
Location2(u) ==
  LET path  == Texts!FlattenSeq([i \in DOMAIN u.pathname |-> u.pathname[i] \o <<"/">>])
      base  == u.protocol \o <<":", "/", "/">> \o UserInfo(u) \o u.hostname
               \o (IF u.port = <<"0">> THEN <<>> ELSE <<":">> \o u.port)
               \o Texts!Front(<<"/">> \o path)
      pairs == QueryPairs(u)
      query == <<"?">> \o Texts!FlattenSeq([i \in DOMAIN pairs |-> pairs[i] \o <<"&">>])
  IN  base \o (IF DOMAIN u.query = {} THEN <<>> ELSE Texts!Front(query))
      \o (IF u.fragment = <<>> THEN <<>> ELSE <<"#">> \o u.fragment)

-----------------------------------------------------------------------------
Done == rest = <<>>

Without(text, characters) == \A i \in 1..Len(text) : text[i] \notin characters

(* The fields a URL may have for its text to be read back: no field holds  *)
(* a delimiter that ends it, user and password come together, and there is *)
(* a path.                                                                 *)
WellFormed(u) ==
  /\ \A t \in {u.protocol, u.username, u.password, u.hostname, u.port} :
        Without(t, {":", "/", "?", "#", "@", " ", "%"})
  /\ <<>> \notin {u.protocol, u.hostname, u.port}
  /\ (u.username = <<>>) <=> (u.password = <<>>)
  /\ u.pathname # <<>>
  /\ \A i \in DOMAIN u.pathname :
        u.pathname[i] # <<>> /\ Without(u.pathname[i], {"/", "?", "#", " "})
  /\ \A k \in DOMAIN u.query :
        /\ Without(k, {"=", "&", "#", " "}) /\ u.query[k] # <<>>
        /\ \A j \in DOMAIN u.query[k] : Without(u.query[k][j], {"=", "&", "#", " "})
  /\ Without(u.fragment, {" "})

(* A URL as a programme holds it: texts, a list of segments and a map from *)
(* texts to lists of texts, whose keys std::map can order.                 *)
Spelled(u) ==
  LET Text == Seq(STRING)
  IN  /\ \A f \in {"protocol", "username", "password", "hostname", "port", "fragment"} : u[f] \in Text
      /\ u.pathname \in Seq(Text)
      /\ IsFiniteSet(DOMAIN u.query) /\ u.query = [k \in DOMAIN u.query |-> u.query[k]]
      /\ \A k \in DOMAIN u.query :
            /\ k \in Text /\ u.query[k] \in Seq(Text)
            /\ \A i \in 1..Len(k) : \E j \in 1..Len(Order) : Order[j] = k[i]
      /\ u = [f \in DOMAIN NewUrl |-> u[f]]

(* The end mark is a character that no text holds: the reason URL2.h gives *)
(* for its choice. A URL that comes with a text is what it was written     *)
(* from, some of its characters escaped.                                   *)
ASSUME InputsAssumption ==
  \A i \in Inputs :
    /\ i.text \in Seq(STRING) /\ Without(i.text, {Mark})
    /\ \/ i.url = Nothing
       \/ Spelled(i.url) /\ WellFormed(i.url) /\ Decode(i.text) = Location(i.url)

(* The machine is in one of its states, the URL keeps its fields, and it   *)
(* never has more parts or more to read than the text has characters.      *)
MachineTypeOK ==
  /\ state \in States
  /\ DOMAIN url = DOMAIN NewUrl
  /\ Len(temp) <= Len(raw) /\ Len(rest) <= Len(raw) + 1

(* The parser of URL.h recovers every well-formed URL from its text,       *)
(* whichever of its characters are percent-encoded, and location gives the *)
(* decoded text again.                                                     *)
RoundTrip ==
  (state = "PROTOCOL" /\ buf = <<>> /\ meant # Nothing) =>
    /\ From(raw) = meant
    /\ Location(From(raw)) = Decode(raw)

(* The two solutions agree: the machine of URL2.h ends with the URL that   *)
(* the text was written from, and its location writes the same text.       *)
SolutionsAgree ==
  (Done /\ meant # Nothing) => url = From(raw) /\ Location2(url) = Location(url)

(* Whatever the text, no field of the machine's URL holds a delimiter that *)
(* should have ended it: a segment no "/", "?" or "#", a value no "&" or   *)
(* "#", no part of the authority a "/", and the end mark is nowhere.       *)
FieldsAreDelimited ==
  /\ Without(url.protocol, {":", Mark})
  /\ \A t \in {url.username, url.password, url.hostname, url.port} :
        Without(t, {":", "@", "/", Mark})
  /\ \A i \in 1..Len(url.pathname) :
        url.pathname[i] # <<>> /\ Without(url.pathname[i], {"/", "?", "#", Mark})
  /\ \A k \in DOMAIN url.query :
        \A j \in 1..Len(url.query[k]) : Without(url.query[k][j], {"&", "#", "=", Mark})
  /\ Without(url.fragment, {Mark})

(* Once the machine has left a part of the URL it never writes it again:   *)
(* the fields settle in the order protocol, authority, path, query,        *)
(* fragment.                                                               *)
Stage(s) == CASE s = "PROTOCOL" -> 1 [] s = "AUTHORITY" -> 2 [] s = "PATHNAME" -> 3
              [] s = "QUERYSTRING" -> 4 [] s = "FRAGMENT" -> 5

FieldsSettle ==
  [][/\ Stage(state) <= Stage(state')
     /\ Stage(state) > 1 => url'.protocol = url.protocol
     /\ Stage(state) > 2 => \A f \in {"username", "password", "hostname", "port"} :
                              url'[f] = url[f]
     /\ Stage(state) > 3 => url'.pathname = url.pathname
     /\ Stage(state) > 4 => url'.query = url.query]_machineVars

(* Reading a URL: every well-formed one comes back from its text, the same *)
(* from both solutions, and no text puts a delimiter into a field.         *)
UrlsAgree == RoundTrip /\ SolutionsAgree /\ FieldsAreDelimited
=============================================================================
