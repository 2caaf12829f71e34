------------------------------ MODULE UrlCases -------------------------------
(***************************************************************************)
(* The test cases shipped with final exercise 004 (solution/case.h): URLs  *)
(* parsed from fully encoded text, fields changed, locations compared.     *)
(***************************************************************************)
EXTENDS UrlMachine

(* A URL by its parts: authority <<user, password, host, port>>.           *)
Parts(protocol, authority, path, query, fragment) ==
  [protocol |-> <<protocol>>, username |-> authority[1], password |-> authority[2],
   hostname |-> authority[3], port |-> authority[4],
   pathname |-> [i \in DOMAIN path |-> <<path[i]>>], query |-> query, fragment |-> fragment]

Host(h, port) == <<<<>>, <<>>, <<h>>, <<port>>>>
Login(u, p, h, port) == <<<<u>>, <<p>>, <<h>>, <<port>>>>

(* key=value pairs of words, one value each.                               *)
Fields(pairs) ==
  [k \in {<<pairs[i][1]>> : i \in DOMAIN pairs} |->
     LET i == CHOOSE i \in DOMAIN pairs : <<pairs[i][1]>> = k IN <<pairs[i][2]>>]

Typed(s) ==
  [i \in DOMAIN s |->
     IF \E e \in Escapes : Unescaped(e) = s[i]
     THEN CHOOSE e \in Escapes : Unescaped(e) = s[i] ELSE s[i]]

At(protocol) == <<protocol, ":", "/", "/">>
Path(segments) == Texts!FlattenSeq([i \in DOMAIN segments |-> <<"/", segments[i]>>])

Reads(text, u) == From(Typed(text)) = u /\ Location(u) = text

UrlCase1 ==
  LET telnet == Parts("telnet", Host("hydrocarbon", "44829"),
                      <<"crustulum", "cavus", "suppono">>, Fields(<<<<"demergo", <<"constans">>>>>>), <<>>)
      svn == Parts("svn", Host("understanding", "0"), <<"solitudo">>, <<>>, <<>>)
      user == Parts("svn", Login("bartoletti", "4idJdR5b", "handover", "8717"),
                    <<"recusandae">>, Fields(<<<<"porro", <<"stabilis">>>>>>), <<>>)
      t1 == At("telnet") \o <<"hydrocarbon", ":", "44829">> \o Path(<<"crustulum", "cavus", "suppono">>)
            \o <<"?", "demergo", "=", "constans">>
      t2 == At("svn") \o <<"understanding", "/", "solitudo">>
      rest3 == <<":", "4idJdR5b", "@", "handover", ":", "8717", "/", "recusandae",
                 "?", "porro", "=", "stabilis">>
  IN  /\ Reads(t1, telnet)
      /\ Location([telnet EXCEPT !.fragment = <<"123456">>]) = t1 \o <<"#", "123456">>
      /\ Reads(t2, svn)
      /\ Location([svn EXCEPT !.query = Fields(<<<<"key", <<"value">>>>>>)])
           = t2 \o <<"?", "key", "=", "value">>
      /\ Reads(At("svn") \o <<"bartoletti">> \o rest3, user)
      /\ Location([user EXCEPT !.username = <<"user">>]) = At("svn") \o <<"user">> \o rest3

UrlCase2 ==
  LET segments == <<"comburo", "summisse", "uterque", "nesciunt", "iM~oyYEkl$", "nhW,(67+", "SXjhhc">>
      sftp == Parts("sftp", Host("alliance", "0"), segments,
                    Fields(<<<<"UFAlq", <<"'tq">>>>, <<"oNZ", <<"'9U">>>>, <<"vIg", <<"X1hU">>>>>>),
                    <<"[;knT2!vNSO">>)
      base1 == At("sftp") \o <<"alliance">> \o Path(segments)
      dirs == <<"quidem", "cui", "crustulum", "usitas", "titulus", "stips">>
      ftps == Parts("ftps", Login("wiegand", "vZEJus", "molasses", "0"), dirs, <<>>, <<"mEwxTgvtFC2I(">>)
      base2 == At("ftps") \o <<"wiegand", ":", "vZEJus", "@", "molasses">>
      ssh == Parts("ssh", Login("howe", "zFGl", "jacket", "0"), <<"curiositas">>,
                   Fields(<<<<"2zVQTZ", <<"vQ", "?", "ON">>>>, <<"MNlVOR", <<"5CMP-">>>>,
                         <<"vhAZA", <<"!Y", "?", "YrJ">>>>, <<"wdW", <<"M,BNN">>>>,
                         <<"z1Y", <<"wd+W">>>>>>), <<"Qqe3.", ":", "j0g_5_0">>)
      base3 == At("ssh") \o <<"howe", ":", "zFGl", "@", "jacket", "/", "curiositas", "?",
                 "2zVQTZ", "=", "vQ", "?", "ON", "&", "MNlVOR", "=", "5CMP-", "&", "vhAZA", "=",
                 "!Y", "?", "YrJ", "&", "wdW", "=", "M,BNN", "&", "z1Y", "=", "wd+W">>
  IN  /\ Reads(base1 \o <<"?", "UFAlq", "=", "'tq", "&", "oNZ", "=", "'9U", "&", "vIg", "=", "X1hU",
                          "#", "[;knT2!vNSO">>, sftp)
      /\ Location([sftp EXCEPT !.fragment = <<>>, !.query = <<>>]) = base1
      /\ Reads(base2 \o Path(dirs) \o <<"#", "mEwxTgvtFC2I(">>, ftps)
      /\ Location([ftps EXCEPT !.pathname = <<<<"path">>, <<"to">>, <<"new">>>>])
           = base2 \o Path(<<"path", "to", "new">>) \o <<"#", "mEwxTgvtFC2I(">>
      /\ Reads(base3 \o <<"#", "Qqe3.", ":", "j0g_5_0">>, ssh)
      /\ Location([ssh EXCEPT !.fragment = <<"123">>]) = base3 \o <<"#", "123">>

UrlCase3 ==
  LET dirs1 == <<"socius", "coniecto", "tumultus", "nobis", "civitas", "usus", "3pXDg6", "6">>
      ftp == Parts("ftp", Host("jury", "22071"), dirs1,
                   Fields(<<<<"7kX", <<"5KBS">>>>, <<"MmrZ", <<"DExg3">>>>, <<"fArZZY", <<"@", "e-">>>>>>), <<>>)
      dirs2 == <<"celebrer", "spoliatio", "tolero">>
      ftps == Parts("ftps", Host("scorn", "0"), dirs2, <<>>, <<":">>)
      dirs3 == <<"umerus", "perferendis", "sui", "a", "triduana">>
      ldap == Parts("ldap", Host("disclosure", "28935"), dirs3, <<>>, <<"yQLXEB5(GN">>)
      tail3 == Path(dirs3) \o <<"#", "yQLXEB5(GN">>
      free == <<"~!", "@", "#", "$", "%", "^", "&", "*()_", "=">>
  IN  /\ Reads(At("ftp") \o <<"jury", ":", "22071">> \o Path(dirs1)
                 \o <<"?", "7kX", "=", "5KBS", "&", "MmrZ", "=", "DExg3", "&", "fArZZY", "=", "@", "e-">>, ftp)
      /\ Location([ftp EXCEPT !.port = <<"1111">>, !.pathname = <<<<"a">>, <<"b">>, <<"c">>>>,
                              !.query = Fields(<<<<"X", <<"!", "@", "~$", "%">>>>>>), !.fragment = free])
           = At("ftp") \o <<"jury", ":", "1111">> \o Path(<<"a", "b", "c">>)
             \o <<"?", "X", "=", "!", "@", "~$", "%", "#">> \o free
      /\ Reads(At("ftps") \o <<"scorn">> \o Path(dirs2) \o <<"#", ":">>, ftps)
      /\ Reads(At("ldap") \o <<"disclosure", ":", "28935">> \o tail3, ldap)
      /\ Location([ldap EXCEPT !.port = <<"0">>]) = At("ldap") \o <<"disclosure">> \o tail3
=============================================================================
