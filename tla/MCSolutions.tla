----------------------------- MODULE MCSolutions -----------------------------
(***************************************************************************)
(* The programmes of the problem packages and the reporter they are judged *)
(* by, for TLC.  One of them runs in a behaviour, the others rest.         *)
(***************************************************************************)
EXTENDS SchoolCases, ComplexCases, TapReporter, UrlCases, SliceCases, VariantCases, TLC

(* 003: a plain, a private and a public school, the last of more students  *)
(* than a float counts, and amounts at the limits of the calls.            *)
MCKind == [s \in Schools |-> CASE s = "ntust" -> "School" [] s = "priv" -> "PrivateSchool"
                               [] OTHER -> "PublicSchool"]
MCStart == [s \in Schools |-> CASE s = "ntust" -> 1 [] s = "priv" -> 150 [] OTHER -> 16777219]
MCAmounts == {0, 1, 2, 200, 202, 33554440}

(* 001: doubles of five bits, subnormal below 2, the largest one 62.       *)
MCFloat ==
  [k \in 0..96 |-> IF k < 16 THEN Reduced(k, 8)
                   ELSE Reduced((16 + (k % 16)) * 2^((k \div 16) - 1), 8)]
MCDoubles == {-1, 0, 3}

(* 005                                                                     *)
MCData == UNION {[1..n -> 1..3] : n \in 0..3}
MCBounds == {-1, 0, 2}

(* 006: each type, numbers a stream prints in full and not, texts that     *)
(* begin with a number and texts that do not.                              *)
MCLiterals ==
  {Num("int", 0), Num("int", 1), Num("int", 1000005), Num("float", 7), Num("double", 1000015),
   Num("bool", 1), Num("long", 7), Str(<<0, 1>>), Str(<<Letter>>), Str(<<MinusSign, 7, Letter>>)}

(* 004: the characters in the order of std::map, URLs with every part and  *)
(* delimiters within the parts, plain and percent-encoded, and all the     *)
(* ends of three characters that a host can have.                          *)
MCOrder ==
  <<" ", "#", "%", "&", "/", ":", "2zVQTZ", "7kX", "=", "?", "@", "MNlVOR", "MmrZ", "UFAlq", "X",
    "demergo", "fArZZY", "h", "k", "key", "oNZ", "p", "porro", "v", "vIg", "vhAZA", "wdW", "x", "z1Y">>

EscapeOf(c) ==
  CASE c = "/" -> "%2F" [] c = ":" -> "%3A" [] c = "?" -> "%3F" [] c = "#" -> "%23" [] c = "&" -> "%26"
    [] c = "=" -> "%3D" [] c = "@" -> "%40" [] c = " " -> "%20" [] OTHER -> c
Escaped(s) == [i \in DOMAIN s |-> EscapeOf(s[i])]

Keyed == <<"k">>
Hosted == <<"h">>
Valued == <<"v">>

MCUrls ==
  {[protocol |-> <<"p">>, username |-> a[1], password |-> a[2], hostname |-> Hosted, port |-> port,
    pathname |-> path, query |-> query, fragment |-> fragment] :
     a \in {<<<<>>, <<>>>>, <<<<"x">>, Valued>>},
     port \in {<<"0">>, <<"x">>},
     path \in {<<Hosted>>, <<Valued, <<":", "@">>>>},
     query \in {<<>>, Keyed :> <<Valued, <<>>>>, (Keyed :> <<<<"/", "?">>>>) @@ (Hosted :> <<Valued>>)},
     fragment \in {<<>>, <<"#", "/", ":">>, <<"&", "=">>}}

Tails == UNION {[1..n -> {":", "/", "?", "#", "&", "=", "@", "h", "%20"}] : n \in 0..3}

Plain == <<"p", ":", "/", "/", "h">>

MCInputs ==
  {[text |-> Location(u), url |-> u] : u \in MCUrls}
    \cup {[text |-> Escaped(Location(u)), url |-> u] : u \in MCUrls}
    \cup {[text |-> Plain \o t, url |-> Nothing] : t \in Tails}

-----------------------------------------------------------------------------
VARIABLE running   \* the package whose programme runs, or the reporter

SolutionsInit ==
  /\ running \in {"001", "003", "004", "005", "006", "tap"}
  /\ SchoolInit
  /\ TapInit
  /\ ComplexInit /\ (running # "001" => y = Complex0)
  /\ SliceInit /\ (running # "005" => slice = <<>> /\ over = "slice" /\ range = <<0, 0>>)
  /\ VariantInit /\ (running # "006" => heap[1] = Num("int", 0))
  /\ MachineInit /\ (running # "004" => raw = Plain)

SolutionsNext ==
  /\ UNCHANGED running
  /\ \/ running = "001" /\ ComplexNext
     \/ running # "001" /\ UNCHANGED complexVars
  /\ \/ running = "003" /\ SchoolNext
     \/ running # "003" /\ UNCHANGED schoolVars
  /\ \/ running = "004" /\ MachineNext
     \/ running # "004" /\ UNCHANGED machineVars
  /\ \/ running = "005" /\ SliceNext
     \/ running # "005" /\ UNCHANGED sliceVars
  /\ \/ running = "006" /\ VariantNext
     \/ running # "006" /\ UNCHANGED variantVars
  /\ \/ running = "tap" /\ TapNext
     \/ running # "tap" /\ UNCHANGED tapVars

solutionsVars ==
  <<running, complexVars, schoolVars, machineVars, sliceVars, variantVars, tapVars>>

SolutionsSpec ==
  /\ SolutionsInit
  /\ [][SolutionsNext]_solutionsVars
  /\ WF_solutionsVars(running = "005" /\ SolutionsNext)

-----------------------------------------------------------------------------
(* The type invariants of the six.                                         *)
SolutionsTypeOK ==
  /\ ComplexTypeOK /\ SchoolTypeOK /\ MachineTypeOK
  /\ SliceTypeOK /\ VariantTypeOK /\ TapTypeOK

(* The solution of each package passes the cases shipped with it: what the *)
(* judge must answer AC to.                                                *)
ShippedCasesPass ==
  CASE running = "001" -> ComplexCase1 /\ ComplexCase2
    [] running = "003" -> SchoolCase1 /\ SchoolCase2
    [] running = "004" -> UrlCase1 /\ UrlCase2 /\ UrlCase3
    [] running = "005" -> SliceCase1 /\ SliceCase2 /\ SliceCase3 /\ HintExample
    [] running = "006" -> VariantCase1 /\ VariantCase2 /\ VariantCase3
    [] running = "tap" -> TRUE
=============================================================================
