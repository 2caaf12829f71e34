-------------------------- MODULE ProblemStoreProofs -------------------------
(***************************************************************************)
(* What module ProblemStore promises of a problem's directory, its backup  *)
(* and its row, for any number of requests, packages and crashes.          *)
(*                                                                         *)
(* Tidy adds to the types what a request has in its directories at each    *)
(* stage, and whose doing it is when something of them stays.  On it rest  *)
(* Copies (some whole version is on the disk) for every interleaving, and  *)
(* Serial (the places agree, and a running request keeps what it needs to  *)
(* make them agree again) while nothing went amiss.                        *)
(***************************************************************************)
EXTENDS ProblemStore, TLAPS

Request == [at : Stages, body : Versions \cup {NoPackage, Refused},
            read : Versions \cup {NoRow, NoCases}, dropped : SUBSET Drops]

Job == [cases : Versions \cup {NoRow}, bound : SUBSET (Versions \cup {Empty}),
        disturbed : BOOLEAN]

(* The directories a request has made, and its package, stage by stage.    *)
TidyRequest(stage, body, dropped, staged, saved) ==
  /\ stage = "unsent" => staged = Absent /\ saved = Absent /\ dropped = {}
  /\ stage = "extract" => body \in Versions \cup {Refused} /\ saved = Absent
  /\ stage \in {"stat", "swap out"} => body \in Versions /\ staged = body /\ saved = Absent
  /\ stage = "install" => body \in Versions /\ staged = body /\ saved # Partial
  /\ stage = "roll back" => body \in Versions /\ saved # Partial
  /\ stage \in {"clean", "copy"} => body \in Versions /\ staged = Absent
  /\ stage = "save" => body \in Versions \cup {NoPackage} /\ staged = Absent
  /\ stage \in {"copy", "save", "done", "failed"} =>
       saved = Absent \/ dropped \cap {"roll back", "backup"} # {}
  /\ stage \in {"done", "failed"} => staged = Absent \/ "staging" \in dropped

(* A request that is over and may have left something.                     *)
Blamed(r) ==
  \/ put[r].at = "cut off"
  \/ /\ put[r].at \in {"done", "failed"}
     /\ put[r].dropped \cap {"roll back", "backup", "staging"} # {}

Tidy ==
  /\ StoreTypeOK
  /\ ~up => Idle
  /\ crashes = 0 => up /\ ghosts = {}
  /\ \A r \in Puts : TidyRequest(put[r].at, put[r].body, put[r].dropped, staging[r], backup[r])
  /\ \A r \in Puts : <<"staging", r>> \in ghosts \/ <<"backup", r>> \in ghosts => Blamed(r)

-----------------------------------------------------------------------------
LEMMA VersionsApart ==
  /\ \A v \in Versions : v # Absent /\ v # Empty /\ v # Partial /\ v # NoPackage
                         /\ v # Refused /\ v # NoCases /\ v # NoRow
  /\ Absent # Empty /\ Absent # Partial /\ NoPackage # Refused /\ NoRow # NoCases
  /\ Empty # Partial
BY VersionAssumption DEF Absent, Empty, Partial, NoPackage, Refused, NoCases, NoRow

LEMMA TypesOpened ==
  StoreTypeOK <=>
    /\ dst \in Versions \cup {Absent, Empty}
    /\ staging \in [Puts -> Versions \cup {Absent, Partial}]
    /\ backup \in [Puts -> Versions \cup {Absent, Empty, Partial}]
    /\ package \in Versions \cup {Absent, Partial}
    /\ row \in Versions \cup {NoRow, NoCases}
    /\ ghosts \subseteq {"staging", "backup"} \X Puts
    /\ put \in [Puts -> Request] /\ job \in Job
    /\ up \in BOOLEAN /\ amiss \subseteq Mishaps
    /\ crashes \in 0..MaxCrashes
BY DEF StoreTypeOK, Request, Job

LEMMA TypesOpenedPrimed ==
  StoreTypeOK' <=>
    /\ dst' \in Versions \cup {Absent, Empty}
    /\ staging' \in [Puts -> Versions \cup {Absent, Partial}]
    /\ backup' \in [Puts -> Versions \cup {Absent, Empty, Partial}]
    /\ package' \in Versions \cup {Absent, Partial}
    /\ row' \in Versions \cup {NoRow, NoCases}
    /\ ghosts' \subseteq {"staging", "backup"} \X Puts
    /\ put' \in [Puts -> Request] /\ job' \in Job
    /\ up' \in BOOLEAN /\ amiss' \subseteq Mishaps
    /\ crashes' \in 0..MaxCrashes
BY DEF StoreTypeOK, Request, Job

(* A request's place is set, it drops some errors, and nothing else of it  *)
(* changes.                                                                *)
LEMMA ProceedFacts ==
  ASSUME put \in [Puts -> Request], NEW r \in Puts, NEW stage \in Stages,
         NEW errors \in SUBSET Drops, Proceed(r, stage, errors)
  PROVE  /\ put' \in [Puts -> Request]
         /\ put'[r].at = stage /\ put'[r].body = put[r].body /\ put'[r].read = put[r].read
         /\ put'[r].dropped = put[r].dropped \cup errors
         /\ \A q \in Puts \ {r} : put'[q] = put[q]
<1> DEFINE there == [put[r] EXCEPT !.at = stage, !.dropped = put[r].dropped \cup errors]
<1>1. put' = [put EXCEPT ![r] = there]
  BY DEF Proceed
<1>2. put[r] \in Request
  OBVIOUS
<1>3. /\ there \in Request /\ there.at = stage /\ there.body = put[r].body
      /\ there.read = put[r].read /\ there.dropped = put[r].dropped \cup errors
  BY <1>2 DEF Request
<1> HIDE DEF there
<1> QED
  BY <1>1, <1>3

LEMMA DisturbFacts ==
  ASSUME job \in Job, Disturb
  PROVE  job' \in Job /\ job'.disturbed
BY DEF Disturb, Job

LEMMA NamesKnown ==
  /\ {"unsent", "extract", "stat", "swap out", "install", "roll back",
      "clean", "copy", "save", "done", "failed", "cut off"} \subseteq Stages
  /\ {} \in SUBSET Drops /\ {"roll back", "backup", "staging", "copy"} \subseteq Drops
  /\ {"mixed", "first", "save", "roll back", "seed"} \subseteq Mishaps
BY DEF Stages, Drops, Mishaps

(* What Tidy says of one request.                                          *)
LEMMA RequestFacts ==
  ASSUME Tidy, NEW r \in Puts
  PROVE  /\ put[r] \in Request /\ put[r].at \in Stages
         /\ put[r].body \in Versions \cup {NoPackage, Refused}
         /\ put[r].read \in Versions \cup {NoRow, NoCases}
         /\ put[r].dropped \in SUBSET Drops
         /\ TidyRequest(put[r].at, put[r].body, put[r].dropped, staging[r], backup[r])
<1>1. put[r] \in Request
  BY TypesOpened DEF Tidy
<1> QED
  BY <1>1 DEF Tidy, Request

-----------------------------------------------------------------------------
(* A step of request r seen from outside: it goes from one stage to        *)
(* another, dropping errors, touches its own directories only and disturbs *)
(* a judging.                                                              *)
Move(r, from, to, errors, staged, saved) ==
  /\ up /\ put[r].at = from
  /\ put'[r].at = to /\ put'[r].body = put[r].body /\ put'[r].read = put[r].read
  /\ put'[r].dropped = put[r].dropped \cup errors
  /\ staging'[r] = staged /\ backup'[r] = saved
  /\ \A q \in Puts \ {r} :
       put'[q] = put[q] /\ staging'[q] = staging[q] /\ backup'[q] = backup[q]
  /\ UNCHANGED <<ghosts, up, crashes>>
  /\ job'.disturbed

(* A step of one running request leaves the others as they were.           *)
LEMMA Moving ==
  ASSUME Tidy, up, NEW r \in Puts, Running(r), NEW stage \in Stages, NEW errors \in SUBSET Drops,
         Proceed(r, stage, errors), Disturb,
         UNCHANGED <<ghosts, up, crashes>>, amiss' \subseteq Mishaps,
         dst' \in Versions \cup {Absent, Empty},
         package' \in Versions \cup {Absent, Partial},
         row' \in Versions \cup {NoRow, NoCases},
         NEW there \in Versions \cup {Absent, Partial}, staging' = [staging EXCEPT ![r] = there],
         NEW kept \in Versions \cup {Absent, Empty, Partial}, backup' = [backup EXCEPT ![r] = kept],
         TidyRequest(stage, put[r].body, put[r].dropped \cup errors, there, kept)
  PROVE  Tidy' /\ Move(r, put[r].at, stage, errors, there, kept)
<1>1. /\ staging \in [Puts -> Versions \cup {Absent, Partial}]
      /\ backup \in [Puts -> Versions \cup {Absent, Empty, Partial}]
      /\ put \in [Puts -> Request] /\ job \in Job
      /\ ghosts \subseteq {"staging", "backup"} \X Puts
      /\ crashes \in 0..MaxCrashes
  BY TypesOpened DEF Tidy
<1>2. /\ put' \in [Puts -> Request]
      /\ put'[r].at = stage /\ put'[r].body = put[r].body /\ put'[r].read = put[r].read
      /\ put'[r].dropped = put[r].dropped \cup errors
      /\ \A q \in Puts \ {r} : put'[q] = put[q]
  BY <1>1, ProceedFacts
<1>3. job' \in Job /\ job'.disturbed
  BY <1>1, DisturbFacts
<1>4. /\ staging' \in [Puts -> Versions \cup {Absent, Partial}]
      /\ backup' \in [Puts -> Versions \cup {Absent, Empty, Partial}]
      /\ staging'[r] = there /\ backup'[r] = kept
      /\ \A q \in Puts \ {r} : staging'[q] = staging[q] /\ backup'[q] = backup[q]
  BY <1>1
<1>5. StoreTypeOK'
  BY <1>1, <1>2, <1>3, <1>4, TypesOpenedPrimed
<1>6. \A q \in Puts : TidyRequest(put'[q].at, put'[q].body, put'[q].dropped, staging'[q], backup'[q])
  <2> SUFFICES ASSUME NEW q \in Puts
               PROVE  TidyRequest(put'[q].at, put'[q].body, put'[q].dropped, staging'[q], backup'[q])
    OBVIOUS
  <2>1. CASE q = r
    BY <1>2, <1>4, <2>1
  <2>2. CASE q # r
    <3>1. staging'[q] = staging[q] /\ backup'[q] = backup[q] /\ put'[q] = put[q]
      BY <1>2, <1>4, <2>2
    <3> QED
      BY <3>1 DEF Tidy
  <2> QED
    BY <2>1, <2>2
<1>7. \A q \in Puts : TidyRequest(put[q].at, put[q].body, put[q].dropped, staging[q], backup[q])'
  BY <1>6 DEF TidyRequest
<1>8. \A q \in Puts : <<"staging", q>> \in ghosts' \/ <<"backup", q>> \in ghosts' => Blamed(q)'
  <2> SUFFICES ASSUME NEW q \in Puts, <<"staging", q>> \in ghosts \/ <<"backup", q>> \in ghosts
               PROVE  Blamed(q)'
    OBVIOUS
  <2>1. Blamed(q)
    BY DEF Tidy
  <2>2. q # r
    BY <2>1 DEF Blamed, Running
  <2>3. put'[q] = put[q]
    BY <1>2, <2>2
  <2> QED
    BY <2>1, <2>3 DEF Blamed
<1>9. Tidy'
  BY <1>5, <1>7, <1>8 DEF Tidy
<1> QED
  BY <1>2, <1>3, <1>4, <1>9 DEF Move

(* What Tidy says of the places, and of maps that stay as they are.        *)
LEMMA Same ==
  ASSUME Tidy, NEW r \in Puts
  PROVE  /\ staging' = staging => staging' = [staging EXCEPT ![r] = staging[r]]
         /\ backup' = backup => backup' = [backup EXCEPT ![r] = backup[r]]
         /\ staging[r] \in Versions \cup {Absent, Partial}
         /\ backup[r] \in Versions \cup {Absent, Empty, Partial}
         /\ dst \in Versions \cup {Absent, Empty} /\ package \in Versions \cup {Absent, Partial}
         /\ row \in Versions \cup {NoRow, NoCases} /\ amiss \subseteq Mishaps
<1>1. /\ staging \in [Puts -> Versions \cup {Absent, Partial}]
      /\ backup \in [Puts -> Versions \cup {Absent, Empty, Partial}]
      /\ dst \in Versions \cup {Absent, Empty} /\ package \in Versions \cup {Absent, Partial}
      /\ row \in Versions \cup {NoRow, NoCases} /\ amiss \subseteq Mishaps
  BY TypesOpened DEF Tidy
<1> QED
  BY <1>1

(* A request that ends with an error, whatever RemoveAll leaves.           *)
Failing(r, from, errors, saved) ==
  \E rest, more : /\ more \in SUBSET {"staging"}
                  /\ Move(r, from, "failed", errors \cup more, rest, saved)

LEMMA AbandonMoves ==
  ASSUME Tidy, up, NEW r \in Puts, Running(r), NEW errors \in SUBSET Drops, Abandon(r, errors),
         Disturb, UNCHANGED <<package, row, ghosts, up, crashes>>, amiss' \subseteq Mishaps,
         dst' \in Versions \cup {Absent, Empty},
         NEW kept \in Versions \cup {Absent, Empty, Partial}, backup' = [backup EXCEPT ![r] = kept],
         kept = Absent \/ errors \cap {"roll back", "backup"} # {}
  PROVE  Tidy' /\ Failing(r, put[r].at, errors, kept)
<1> USE NamesKnown
<1>1. PICK rest \in {Absent, Partial, staging[r]} :
        /\ staging' = [staging EXCEPT ![r] = rest]
        /\ Proceed(r, "failed", errors \cup IF rest = Absent THEN {} ELSE {"staging"})
  BY DEF Abandon
<1> DEFINE more == IF rest = Absent THEN {} ELSE {"staging"}
<1>2. more \in SUBSET {"staging"} /\ (rest # Absent => "staging" \in more)
  OBVIOUS
<1>3. Proceed(r, "failed", errors \cup more)
  BY <1>1
<1> HIDE DEF more
<1>4. errors \cup more \in SUBSET Drops
  BY <1>2
<1>5. rest \in Versions \cup {Absent, Partial}
  BY Same
<1>6. TidyRequest("failed", put[r].body, put[r].dropped \cup (errors \cup more), rest, kept)
  BY <1>2 DEF TidyRequest
<1>7. /\ package' \in Versions \cup {Absent, Partial}
      /\ row' \in Versions \cup {NoRow, NoCases}
  BY Same
<1>8. Tidy' /\ Move(r, put[r].at, "failed", errors \cup more, rest, kept)
  BY <1>1, <1>3, <1>4, <1>5, <1>6, <1>7, Moving
<1> QED
  BY <1>2, <1>8 DEF Failing

(* The stages one by one.                                                  *)
LEMMA ExtractMoves ==
  ASSUME Tidy, NEW r \in Puts, Extract(r)
  PROVE  /\ Tidy' /\ UNCHANGED <<dst, package, row, amiss>>
         /\ \/ Failing(r, "extract", {}, Absent)
            \/ put[r].body \in Versions /\ Move(r, "extract", "stat", {}, put[r].body, Absent)
<1> USE NamesKnown, VersionsApart
<1>1. /\ put[r].at = "extract" /\ up /\ Disturb /\ Running(r)
      /\ UNCHANGED <<dst, backup, package, row, ghosts, up, crashes, amiss>>
  BY DEF Extract, Running
<1>2. put[r].body \in Versions \cup {Refused} /\ backup[r] = Absent
  BY <1>1, RequestFacts DEF TidyRequest
<1>3. /\ backup' = [backup EXCEPT ![r] = Absent] /\ amiss' \subseteq Mishaps
      /\ dst' \in Versions \cup {Absent, Empty} /\ package' \in Versions \cup {Absent, Partial}
      /\ row' \in Versions \cup {NoRow, NoCases}
  BY <1>1, <1>2, Same
<1>4. CASE Abandon(r, {})
  <2>1. Tidy' /\ Failing(r, put[r].at, {}, Absent)
    BY <1>1, <1>3, <1>4, AbandonMoves
  <2> QED
    BY <1>1, <2>1
<1>5. CASE /\ put[r].body # Refused /\ Proceed(r, "stat", {})
           /\ staging' = [staging EXCEPT ![r] = put[r].body]
  <2>1. put[r].body \in Versions
    BY <1>2, <1>5
  <2>2. TidyRequest("stat", put[r].body, put[r].dropped \cup {}, put[r].body, Absent)
    BY <2>1 DEF TidyRequest
  <2>3. put[r].body \in Versions \cup {Absent, Partial}
    BY <2>1
  <2>4. Tidy' /\ Move(r, put[r].at, "stat", {}, put[r].body, Absent)
    BY <1>1, <1>3, <1>5, <2>2, <2>3, Moving
  <2> QED
    BY <1>1, <2>1, <2>4
<1> QED
  BY <1>4, <1>5 DEF Extract

LEMMA StatMoves ==
  ASSUME Tidy, NEW r \in Puts, StatDst(r)
  PROVE  /\ Tidy' /\ UNCHANGED <<dst, package, row, amiss>>
         /\ \/ Move(r, "stat", "install", {}, put[r].body, Absent)
            \/ Move(r, "stat", "swap out", {}, put[r].body, Absent)
<1> USE NamesKnown, VersionsApart
<1>1. /\ put[r].at = "stat" /\ up /\ Disturb /\ Running(r)
      /\ UNCHANGED <<dst, staging, backup, package, row, ghosts, up, crashes, amiss>>
  BY DEF StatDst, Running
<1>2. put[r].body \in Versions /\ staging[r] = put[r].body /\ backup[r] = Absent
  BY <1>1, RequestFacts DEF TidyRequest
<1>3. /\ staging' = [staging EXCEPT ![r] = put[r].body] /\ backup' = [backup EXCEPT ![r] = Absent]
      /\ put[r].body \in Versions \cup {Absent, Partial} /\ amiss' \subseteq Mishaps
      /\ dst' \in Versions \cup {Absent, Empty} /\ package' \in Versions \cup {Absent, Partial}
      /\ row' \in Versions \cup {NoRow, NoCases}
  BY <1>1, <1>2, Same
<1>4. ASSUME NEW stage \in {"install", "swap out"}, Proceed(r, stage, {})
      PROVE  Tidy' /\ Move(r, "stat", stage, {}, put[r].body, Absent)
  <2>1. stage \in Stages /\ TidyRequest(stage, put[r].body, put[r].dropped \cup {}, put[r].body, Absent)
    BY <1>2 DEF TidyRequest
  <2>2. Tidy' /\ Move(r, put[r].at, stage, {}, put[r].body, Absent)
    BY <1>1, <1>3, <1>4, <2>1, Moving
  <2> QED
    BY <1>1, <2>2
<1> QED
  BY <1>1, <1>4 DEF StatDst

LEMMA SwapOutMoves ==
  ASSUME Tidy, NEW r \in Puts, SwapOut(r)
  PROVE  /\ Tidy' /\ UNCHANGED <<package, row, amiss>>
         /\ \/ dst' = dst /\ Failing(r, "swap out", {}, Absent)
            \/ dst # Absent /\ dst' = Absent /\ Move(r, "swap out", "install", {}, put[r].body, dst)
<1> USE NamesKnown, VersionsApart
<1>1. /\ put[r].at = "swap out" /\ up /\ Disturb /\ Running(r)
      /\ UNCHANGED <<package, row, ghosts, up, crashes, amiss>>
  BY DEF SwapOut, Running
<1>2. put[r].body \in Versions /\ staging[r] = put[r].body /\ backup[r] = Absent
  BY <1>1, RequestFacts DEF TidyRequest
<1>3. /\ amiss' \subseteq Mishaps /\ dst \in Versions \cup {Absent, Empty}
      /\ package' \in Versions \cup {Absent, Partial} /\ row' \in Versions \cup {NoRow, NoCases}
  BY <1>1, Same
<1>4. CASE Abandon(r, {}) /\ UNCHANGED <<dst, backup>>
  <2>1. backup' = [backup EXCEPT ![r] = Absent] /\ dst' \in Versions \cup {Absent, Empty}
    BY <1>2, <1>3, <1>4, Same
  <2>2. Tidy' /\ Failing(r, put[r].at, {}, Absent)
    BY <1>1, <1>3, <1>4, <2>1, AbandonMoves
  <2> QED
    BY <1>1, <1>4, <2>2
<1>5. CASE /\ ~Free /\ Proceed(r, "install", {}) /\ backup' = [backup EXCEPT ![r] = dst]
           /\ dst' = Absent /\ UNCHANGED staging
  <2>1. TidyRequest("install", put[r].body, put[r].dropped \cup {}, put[r].body, dst)
    BY <1>2, <1>3 DEF TidyRequest
  <2>2. /\ staging' = [staging EXCEPT ![r] = put[r].body] /\ dst' \in Versions \cup {Absent, Empty}
        /\ put[r].body \in Versions \cup {Absent, Partial}
        /\ dst \in Versions \cup {Absent, Empty, Partial}
    BY <1>2, <1>3, <1>5, Same
  <2>3. Tidy' /\ Move(r, put[r].at, "install", {}, put[r].body, dst)
    BY <1>1, <1>3, <1>5, <2>1, <2>2, Moving
  <2> QED
    BY <1>1, <1>5, <2>3 DEF Free
<1> QED
  BY <1>4, <1>5 DEF SwapOut

LEMMA InstallMoves ==
  ASSUME Tidy, NEW r \in Puts, Install(r)
  PROVE  /\ Tidy' /\ UNCHANGED <<package, row, amiss>> /\ put[r].body \in Versions
         /\ \/ dst' = put[r].body /\ Move(r, "install", "clean", {}, Absent, backup[r])
            \/ dst' = dst /\ Move(r, "install", "roll back", {}, staging[r], backup[r])
<1> USE NamesKnown, VersionsApart
<1>1. /\ put[r].at = "install" /\ up /\ Disturb /\ Running(r)
      /\ UNCHANGED <<backup, package, row, ghosts, up, crashes, amiss>>
  BY DEF Install, Running
<1>2. put[r].body \in Versions /\ staging[r] = put[r].body /\ backup[r] # Partial
  BY <1>1, RequestFacts DEF TidyRequest
<1>3. /\ backup' = [backup EXCEPT ![r] = backup[r]]
      /\ backup[r] \in Versions \cup {Absent, Empty, Partial} /\ amiss' \subseteq Mishaps
      /\ dst \in Versions \cup {Absent, Empty} /\ package' \in Versions \cup {Absent, Partial}
      /\ row' \in Versions \cup {NoRow, NoCases}
  BY <1>1, Same
<1>4. CASE /\ Free /\ dst' = staging[r] /\ staging' = [staging EXCEPT ![r] = Absent]
           /\ Proceed(r, "clean", {})
  <2>1. TidyRequest("clean", put[r].body, put[r].dropped \cup {}, Absent, backup[r])
    BY <1>2 DEF TidyRequest
  <2>2. dst' \in Versions \cup {Absent, Empty}
    BY <1>2, <1>4
  <2>3. Tidy' /\ Move(r, put[r].at, "clean", {}, Absent, backup[r])
    BY <1>1, <1>3, <1>4, <2>1, <2>2, Moving
  <2> QED
    BY <1>1, <1>2, <1>4, <2>3
<1>5. CASE Proceed(r, "roll back", {}) /\ UNCHANGED <<dst, staging>>
  <2>1. TidyRequest("roll back", put[r].body, put[r].dropped \cup {}, staging[r], backup[r])
    BY <1>2 DEF TidyRequest
  <2>2. /\ staging' = [staging EXCEPT ![r] = staging[r]]
        /\ staging[r] \in Versions \cup {Absent, Partial} /\ dst' \in Versions \cup {Absent, Empty}
    BY <1>3, <1>5, Same
  <2>3. Tidy' /\ Move(r, put[r].at, "roll back", {}, staging[r], backup[r])
    BY <1>1, <1>3, <1>5, <2>1, <2>2, Moving
  <2> QED
    BY <1>1, <1>2, <1>5, <2>3
<1> QED
  BY <1>4, <1>5 DEF Install

LEMMA RollBackMoves ==
  ASSUME Tidy, NEW r \in Puts, RollBack(r)
  PROVE  /\ Tidy' /\ UNCHANGED <<package, row>> /\ backup[r] # Partial
         /\ \/ /\ backup[r] # Absent /\ dst = Absent /\ dst' = backup[r] /\ amiss' = amiss
               /\ Failing(r, "roll back", {}, Absent)
            \/ /\ backup[r] # Absent /\ dst' = dst /\ amiss' = amiss \cup {"roll back"}
               /\ Failing(r, "roll back", {"roll back"}, backup[r])
            \/ /\ backup[r] = Absent /\ dst' = dst /\ amiss' = amiss
               /\ Failing(r, "roll back", {}, backup[r])
<1> USE NamesKnown, VersionsApart
<1>1. /\ put[r].at = "roll back" /\ up /\ Disturb /\ Running(r)
      /\ UNCHANGED <<package, row, ghosts, up, crashes>>
  BY DEF RollBack, Running
<1>2. backup[r] # Partial
  BY <1>1, RequestFacts DEF TidyRequest
<1>3. /\ backup[r] \in Versions \cup {Absent, Empty} /\ amiss \subseteq Mishaps
      /\ dst \in Versions \cup {Absent, Empty}
      /\ backup' = backup => backup' = [backup EXCEPT ![r] = backup[r]]
  BY <1>2, Same
<1>4. CASE /\ Free /\ backup[r] # Absent /\ dst' = backup[r]
           /\ backup' = [backup EXCEPT ![r] = Absent] /\ Abandon(r, {}) /\ UNCHANGED amiss
  <2>1. dst' \in Versions \cup {Absent, Empty} /\ amiss' \subseteq Mishaps
    BY <1>3, <1>4
  <2>2. Tidy' /\ Failing(r, put[r].at, {}, Absent)
    BY <1>1, <1>4, <2>1, AbandonMoves
  <2> QED
    BY <1>1, <1>2, <1>4, <2>2 DEF Free
<1>5. CASE /\ backup[r] # Absent /\ Abandon(r, {"roll back"}) /\ amiss' = amiss \cup {"roll back"}
           /\ UNCHANGED <<dst, backup>>
  <2>1. /\ dst' \in Versions \cup {Absent, Empty} /\ amiss' \subseteq Mishaps
        /\ backup[r] \in Versions \cup {Absent, Empty, Partial}
        /\ {"roll back"} \in SUBSET Drops
    BY <1>3, <1>5
  <2>2. Tidy' /\ Failing(r, put[r].at, {"roll back"}, backup[r])
    BY <1>1, <1>3, <1>5, <2>1, AbandonMoves
  <2> QED
    BY <1>1, <1>2, <1>5, <2>2
<1>6. CASE backup[r] = Absent /\ Abandon(r, {}) /\ UNCHANGED <<dst, backup, amiss>>
  <2>1. /\ dst' \in Versions \cup {Absent, Empty} /\ amiss' \subseteq Mishaps
        /\ backup[r] \in Versions \cup {Absent, Empty, Partial}
    BY <1>3, <1>6
  <2>2. Tidy' /\ Failing(r, put[r].at, {}, backup[r])
    BY <1>1, <1>3, <1>6, <2>1, AbandonMoves
  <2> QED
    BY <1>1, <1>2, <1>6, <2>2
<1> QED
  BY <1>4, <1>5, <1>6 DEF RollBack

LEMMA RemoveBackupMoves ==
  ASSUME Tidy, NEW r \in Puts, RemoveBackup(r)
  PROVE  /\ Tidy' /\ UNCHANGED <<dst, package, row, amiss>>
         /\ \E rest, errors : Move(r, "clean", "copy", errors, Absent, rest)
<1> USE NamesKnown, VersionsApart
<1>1. /\ put[r].at = "clean" /\ up /\ Disturb /\ Running(r)
      /\ UNCHANGED <<dst, staging, package, row, ghosts, up, crashes, amiss>>
  BY DEF RemoveBackup, Running
<1>2. put[r].body \in Versions /\ staging[r] = Absent
  BY <1>1, RequestFacts DEF TidyRequest
<1>3. PICK rest \in {Absent, backup[r], Partial} :
        /\ backup' = [backup EXCEPT ![r] = rest]
        /\ Proceed(r, "copy", IF rest = Absent THEN {} ELSE {"backup"})
  BY DEF RemoveBackup
<1> DEFINE errors == IF rest = Absent THEN {} ELSE {"backup"}
<1>4. Proceed(r, "copy", errors)
  BY <1>3
<1>5. errors \in SUBSET Drops /\ (rest # Absent => "backup" \in errors)
  OBVIOUS
<1> HIDE DEF errors
<1>6. TidyRequest("copy", put[r].body, put[r].dropped \cup errors, Absent, rest)
  BY <1>2, <1>5 DEF TidyRequest
<1>7. /\ rest \in Versions \cup {Absent, Empty, Partial} /\ amiss' \subseteq Mishaps
      /\ staging' = [staging EXCEPT ![r] = Absent]
      /\ dst' \in Versions \cup {Absent, Empty} /\ package' \in Versions \cup {Absent, Partial}
      /\ row' \in Versions \cup {NoRow, NoCases}
  BY <1>1, <1>2, Same
<1>8. Tidy' /\ Move(r, put[r].at, "copy", errors, Absent, rest)
  BY <1>1, <1>3, <1>4, <1>5, <1>6, <1>7, Moving
<1> QED
  BY <1>1, <1>8

LEMMA CopyPackageMoves ==
  ASSUME Tidy, NEW r \in Puts, CopyPackage(r)
  PROVE  /\ Tidy' /\ UNCHANGED <<dst, row, amiss>> /\ put[r].body \in Versions
         /\ \/ package' = put[r].body /\ Move(r, "copy", "save", {}, Absent, backup[r])
            \/ Move(r, "copy", "save", {"copy"}, Absent, backup[r])
<1> USE NamesKnown, VersionsApart
<1>1. /\ put[r].at = "copy" /\ up /\ Disturb /\ Running(r)
      /\ UNCHANGED <<dst, staging, backup, row, ghosts, up, crashes, amiss>>
  BY DEF CopyPackage, Running
<1>2. /\ put[r].body \in Versions /\ staging[r] = Absent
      /\ backup[r] = Absent \/ put[r].dropped \cap {"roll back", "backup"} # {}
  BY <1>1, RequestFacts DEF TidyRequest
<1>3. /\ staging' = [staging EXCEPT ![r] = Absent] /\ backup' = [backup EXCEPT ![r] = backup[r]]
      /\ backup[r] \in Versions \cup {Absent, Empty, Partial} /\ amiss' \subseteq Mishaps
      /\ dst' \in Versions \cup {Absent, Empty} /\ row' \in Versions \cup {NoRow, NoCases}
  BY <1>1, <1>2, Same
<1>4. package' \in Versions \cup {Absent, Partial}
  BY <1>2, Same DEF CopyPackage
<1>5. ASSUME NEW errors \in SUBSET Drops, Proceed(r, "save", errors)
      PROVE  Tidy' /\ Move(r, "copy", "save", errors, Absent, backup[r])
  <2>1. TidyRequest("save", put[r].body, put[r].dropped \cup errors, Absent, backup[r])
    BY <1>2 DEF TidyRequest
  <2>2. Tidy' /\ Move(r, put[r].at, "save", errors, Absent, backup[r])
    BY <1>1, <1>3, <1>4, <1>5, <2>1, Moving
  <2> QED
    BY <1>1, <2>2
<1>6. {"copy"} \in SUBSET Drops
  OBVIOUS
<1> QED
  BY <1>1, <1>2, <1>5, <1>6 DEF CopyPackage

LEMMA SaveRowMoves ==
  ASSUME Tidy, NEW r \in Puts, SaveRow(r)
  PROVE  /\ Tidy' /\ UNCHANGED <<dst, package>>
         /\ \/ /\ put[r].read = NoRow /\ row' = row /\ amiss' = amiss
               /\ Move(r, "save", "failed", {}, Absent, backup[r])
            \/ /\ put[r].read = NoRow => row = NoRow
               /\ row' \in Versions =>
                    \/ put[r].body \in Versions /\ row' = put[r].body
                    \/ put[r].body = NoPackage /\ row' = put[r].read
               /\ amiss' = amiss
               /\ Move(r, "save", "done", {}, Absent, backup[r])
            \/ /\ row' = row /\ "save" \in amiss'
               /\ Move(r, "save", "done", {}, Absent, backup[r])
<1> USE NamesKnown, VersionsApart
<1>1. /\ put[r].at = "save" /\ up /\ Disturb /\ Running(r)
      /\ UNCHANGED <<dst, staging, backup, package, ghosts, up, crashes>>
  BY DEF SaveRow, Running
<1>2. /\ put[r].body \in Versions \cup {NoPackage} /\ put[r].read \in Versions \cup {NoRow, NoCases}
      /\ staging[r] = Absent /\ put[r].dropped \cup {} = put[r].dropped
      /\ backup[r] = Absent \/ put[r].dropped \cap {"roll back", "backup"} # {}
  BY <1>1, RequestFacts DEF TidyRequest
<1>3. /\ staging' = [staging EXCEPT ![r] = Absent] /\ backup' = [backup EXCEPT ![r] = backup[r]]
      /\ backup[r] \in Versions \cup {Absent, Empty, Partial} /\ amiss \subseteq Mishaps
      /\ dst' \in Versions \cup {Absent, Empty} /\ package' \in Versions \cup {Absent, Partial}
      /\ row \in Versions \cup {NoRow, NoCases}
  BY <1>1, <1>2, Same
<1>4. ASSUME NEW stage \in {"done", "failed"}, Proceed(r, stage, {}),
             row' \in Versions \cup {NoRow, NoCases}, amiss' \subseteq Mishaps
      PROVE  Tidy' /\ Move(r, "save", stage, {}, Absent, backup[r])
  <2>1. stage \in Stages /\ TidyRequest(stage, put[r].body, put[r].dropped \cup {}, Absent, backup[r])
    BY <1>2 DEF TidyRequest
  <2>2. Tidy' /\ Move(r, put[r].at, stage, {}, Absent, backup[r])
    BY <1>1, <1>3, <1>4, <2>1, Moving
  <2> QED
    BY <1>1, <2>2
<1>5. CASE put[r].read = NoRow /\ Proceed(r, "failed", {}) /\ UNCHANGED <<row, amiss>>
  BY <1>1, <1>3, <1>4, <1>5
<1>6. CASE /\ put[r].read = NoRow /\ row = NoRow /\ Proceed(r, "done", {}) /\ UNCHANGED amiss
           /\ row' = IF put[r].body = NoPackage THEN NoCases ELSE put[r].body
  BY <1>1, <1>2, <1>3, <1>4, <1>6
<1>7. CASE put[r].read # NoRow /\ Proceed(r, "done", {}) /\ row' = Saved(r) /\ UNCHANGED amiss
  <2>1. row' = IF put[r].body = NoPackage THEN put[r].read ELSE put[r].body
    BY <1>7 DEF Saved
  <2> QED
    BY <1>1, <1>2, <1>3, <1>4, <1>7, <2>1
<1>8. CASE /\ put[r].read # NoRow /\ Proceed(r, "done", {})
           /\ UNCHANGED row /\ amiss' = amiss \cup {"save"}
  <2>1. amiss' \subseteq Mishaps /\ "save" \in amiss'
    BY <1>3, <1>8
  <2> QED
    BY <1>1, <1>3, <1>4, <1>8, <2>1
<1> QED
  BY <1>5, <1>6, <1>7, <1>8 DEF SaveRow

-----------------------------------------------------------------------------
LEMMA BeginPutMoves ==
  ASSUME Tidy, NEW r \in Puts, BeginPut(r)
  PROVE  /\ Tidy' /\ up /\ put[r].at = "unsent" /\ put[r].dropped = {}
         /\ put'[r].read \in {row, NoRow} /\ backup[r] = Absent
         /\ \/ put'[r].at = "save" /\ put'[r].body = NoPackage
            \/ put'[r].at = "extract" /\ put'[r].body # NoPackage
         /\ \A q \in Puts \ {r} : put'[q] = put[q] /\ staging'[q] = staging[q]
         /\ amiss \subseteq amiss' /\ ("mixed" \in amiss' \/ Idle)
         /\ "first" \in amiss' \/ put'[r].read = row
         /\ job'.disturbed
         /\ UNCHANGED <<dst, backup, package, row, ghosts, up, crashes>>
<1> USE NamesKnown, VersionsApart
<1>1. PICK body \in Versions \cup {NoPackage, Refused}, read \in {row, NoRow} :
        /\ put' = [put EXCEPT ![r] =
                     [at |-> IF body = NoPackage THEN "save" ELSE "extract",
                      body |-> body, read |-> read, dropped |-> {}]]
        /\ staging' = [staging EXCEPT ![r] = IF body = NoPackage THEN Absent ELSE Partial]
        /\ amiss' = amiss \cup (IF Idle THEN {} ELSE {"mixed"})
                          \cup (IF read = row THEN {} ELSE {"first"})
  BY DEF BeginPut
<1>2. /\ up /\ put[r].at = "unsent" /\ Disturb
      /\ UNCHANGED <<dst, backup, package, row, ghosts, up, crashes>>
  BY DEF BeginPut
<1>3. staging[r] = Absent /\ backup[r] = Absent /\ put[r].dropped = {}
  BY <1>2, RequestFacts DEF TidyRequest
<1>4. StoreTypeOK
  BY DEF Tidy
<1>5. /\ staging \in [Puts -> Versions \cup {Absent, Partial}]
      /\ backup \in [Puts -> Versions \cup {Absent, Empty, Partial}]
      /\ put \in [Puts -> Request] /\ job \in Job
      /\ row \in Versions \cup {NoRow, NoCases} /\ amiss \subseteq Mishaps
  BY <1>4, TypesOpened
<1> DEFINE first == [at |-> IF body = NoPackage THEN "save" ELSE "extract",
                     body |-> body, read |-> read, dropped |-> {}]
           there == IF body = NoPackage THEN Absent ELSE Partial
<1>6. first \in Request /\ there \in Versions \cup {Absent, Partial}
  BY <1>5 DEF Request
<1>7. /\ first.read = read /\ first.body = body /\ first.dropped = {}
      /\ first.at = IF body = NoPackage THEN "save" ELSE "extract"
  OBVIOUS
<1> HIDE DEF first
<1>8. /\ put' \in [Puts -> Request] /\ put'[r] = first
      /\ staging' \in [Puts -> Versions \cup {Absent, Partial}] /\ staging'[r] = there
      /\ \A q \in Puts \ {r} : put'[q] = put[q] /\ staging'[q] = staging[q]
  BY <1>1, <1>5, <1>6 DEF first
<1>9. job' \in Job /\ job'.disturbed
  BY <1>2, <1>5, DisturbFacts
<1>10. /\ amiss' \subseteq Mishaps /\ amiss \subseteq amiss' /\ ("mixed" \in amiss' \/ Idle)
       /\ "first" \in amiss' \/ read = row
  BY <1>1, <1>5
<1>11. StoreTypeOK'
  BY <1>2, <1>4, <1>8, <1>9, <1>10, TypesOpened, TypesOpenedPrimed
<1>12. TidyRequest(first.at, first.body, {}, there, Absent)
  BY <1>7 DEF TidyRequest
<1>13. \A q \in Puts : TidyRequest(put[q].at, put[q].body, put[q].dropped, staging[q], backup[q])'
  <2> SUFFICES ASSUME NEW q \in Puts
               PROVE  TidyRequest(put'[q].at, put'[q].body, put'[q].dropped, staging'[q], backup'[q])
    BY DEF TidyRequest
  <2>1. CASE q = r
    BY <1>2, <1>3, <1>7, <1>8, <1>12, <2>1
  <2>2. CASE q # r
    <3>1. TidyRequest(put[q].at, put[q].body, put[q].dropped, staging[q], backup[q])
      BY DEF Tidy
    <3> QED
      BY <1>2, <1>8, <2>2, <3>1
  <2> QED
    BY <2>1, <2>2
<1>14. \A q \in Puts : <<"staging", q>> \in ghosts' \/ <<"backup", q>> \in ghosts' => Blamed(q)'
  <2> SUFFICES ASSUME NEW q \in Puts, <<"staging", q>> \in ghosts \/ <<"backup", q>> \in ghosts
               PROVE  Blamed(q)'
    BY <1>2
  <2>1. Blamed(q)
    BY DEF Tidy
  <2>2. q # r
    BY <1>2, <2>1 DEF Blamed
  <2>3. put'[q] = put[q]
    BY <1>8, <2>2
  <2> QED
    BY <2>1, <2>3 DEF Blamed
<1>15. Tidy'
  BY <1>2, <1>11, <1>13, <1>14 DEF Tidy
<1> QED
  BY <1>2, <1>3, <1>7, <1>8, <1>9, <1>10, <1>15

(* A step that moves no request.                                           *)
LEMMA TidyStill ==
  ASSUME Tidy, UNCHANGED <<staging, backup, package, put>>,
         dst' \in Versions \cup {Absent, Empty}, row' \in Versions \cup {NoRow, NoCases},
         ghosts' \subseteq {"staging", "backup"} \X Puts, job' \in Job,
         up' \in BOOLEAN, amiss' \subseteq Mishaps, UNCHANGED crashes,
         crashes = 0 => up' /\ ghosts' = {}, ~up' => ~up,
         \A r \in Puts : <<"staging", r>> \in ghosts' \/ <<"backup", r>> \in ghosts' => Blamed(r)
  PROVE  Tidy'
<1>1. StoreTypeOK'
  <2>1. StoreTypeOK
    BY DEF Tidy
  <2> QED
    BY <2>1, TypesOpened, TypesOpenedPrimed
<1>2. \A q \in Puts : TidyRequest(put[q].at, put[q].body, put[q].dropped, staging[q], backup[q])'
  <2> SUFFICES ASSUME NEW q \in Puts
               PROVE  TidyRequest(put[q].at, put[q].body, put[q].dropped, staging[q], backup[q])'
    OBVIOUS
  <2>1. TidyRequest(put[q].at, put[q].body, put[q].dropped, staging[q], backup[q])
    BY DEF Tidy
  <2> QED
    BY <2>1 DEF TidyRequest
<1>3. Idle => Idle'
  BY DEF Idle, Running
<1>4. \A r \in Puts : <<"staging", r>> \in ghosts' \/ <<"backup", r>> \in ghosts' => Blamed(r)'
  BY DEF Blamed
<1> QED
  BY <1>1, <1>2, <1>3, <1>4 DEF Tidy

LEMMA DeleteMoves ==
  ASSUME Tidy, Delete
  PROVE  /\ Tidy' /\ up /\ row' = NoRow
         /\ UNCHANGED <<dst, staging, backup, package, ghosts, put, job, up, crashes, amiss>>
<1>1. /\ up /\ row' = NoRow
      /\ UNCHANGED <<dst, staging, backup, package, ghosts, put, job, up, crashes, amiss>>
  BY DEF Delete
<1>2. StoreTypeOK
  BY DEF Tidy
<1>3. Tidy'
  BY <1>1, <1>2, TypesOpened, TidyStill DEF Tidy
<1> QED
  BY <1>1, <1>3

LEMMA StartJobMoves ==
  ASSUME Tidy, StartJob
  PROVE  /\ Tidy' /\ up /\ row \in Versions
         /\ job'.cases = row /\ job'.bound = {} /\ (~job'.disturbed => amiss = {} /\ Idle)
         /\ UNCHANGED <<dst, staging, backup, package, row, ghosts, put, up, crashes, amiss>>
<1>1. /\ up /\ row \in Versions
      /\ job' = [cases |-> row, bound |-> {}, disturbed |-> amiss # {} \/ ~Idle]
      /\ UNCHANGED <<dst, staging, backup, package, row, ghosts, put, up, crashes, amiss>>
  BY DEF StartJob
<1>2. StoreTypeOK
  BY DEF Tidy
<1>3. Idle \in BOOLEAN
  BY DEF Idle
<1>4. job' \in Job /\ job'.disturbed = (amiss # {} \/ ~Idle)
  BY <1>1, <1>3 DEF Job
<1>5. Tidy'
  BY <1>1, <1>2, <1>4, TypesOpened, TidyStill DEF Tidy
<1> QED
  BY <1>1, <1>4, <1>5

LEMMA BindMoves ==
  ASSUME Tidy, BindProblem
  PROVE  /\ Tidy' /\ up /\ dst' = IF dst = Absent THEN Empty ELSE dst
         /\ job.cases # NoRow
         /\ job'.cases = job.cases /\ job'.disturbed = job.disturbed
         /\ job'.bound = job.bound \cup {dst'}
         /\ UNCHANGED <<staging, backup, package, row, ghosts, put, up, crashes, amiss>>
<1>1. /\ up /\ job.cases # NoRow /\ dst' = IF dst = Absent THEN Empty ELSE dst
      /\ job' = [job EXCEPT !.bound = @ \cup {dst'}]
      /\ UNCHANGED <<staging, backup, package, row, ghosts, put, up, crashes, amiss>>
  BY DEF BindProblem
<1>2. StoreTypeOK
  BY DEF Tidy
<1>3. dst \in Versions \cup {Absent, Empty} /\ job \in Job
  BY <1>2, TypesOpened
<1>4. dst' \in Versions \cup {Empty}
  BY <1>1, <1>3
<1>5. /\ job' \in Job /\ job'.cases = job.cases /\ job'.disturbed = job.disturbed
      /\ job'.bound = job.bound \cup {dst'}
  BY <1>1, <1>3, <1>4 DEF Job
<1>6. Tidy'
  BY <1>1, <1>2, <1>4, <1>5, TypesOpened, TidyStill DEF Tidy
<1> QED
  BY <1>1, <1>5, <1>6

(* The bound on the crashes.                                               *)
LEMMA CrashCount ==
  /\ 0 \in 0..MaxCrashes
  /\ \A n \in 0..MaxCrashes : n < MaxCrashes => n + 1 \in 0..MaxCrashes /\ n + 1 # 0
BY StoreAssumption

LEMMA CrashMoves ==
  ASSUME Tidy, Crash
  PROVE  /\ Tidy' /\ Idle' /\ ~up' /\ crashes' # 0 /\ job'.cases = NoRow
         /\ \A q \in Puts : /\ put'[q].body = put[q].body /\ put'[q].read = put[q].read
                            /\ put'[q].at = put[q].at \/ put'[q].at = "cut off"
                            /\ put'[q].at \in {"unsent", "done", "failed", "cut off"}
         /\ UNCHANGED <<dst, staging, backup, package, row, ghosts, amiss>>
<1> USE NamesKnown
<1>1. /\ up /\ crashes < MaxCrashes /\ up' = FALSE /\ crashes' = crashes + 1
      /\ put' = [r \in Puts |-> IF Running(r) THEN [put[r] EXCEPT !.at = "cut off"] ELSE put[r]]
      /\ job' = [cases |-> NoRow, bound |-> {}, disturbed |-> FALSE]
      /\ UNCHANGED <<dst, staging, backup, package, row, ghosts, amiss>>
  BY DEF Crash
<1>2. StoreTypeOK
  BY DEF Tidy
<1>3. crashes \in 0..MaxCrashes /\ put \in [Puts -> Request]
  BY <1>2, TypesOpened
<1>4. crashes' \in 0..MaxCrashes /\ crashes' # 0
  BY <1>1, <1>3, CrashCount
<1>5. job' \in Job /\ job'.cases = NoRow
  BY <1>1 DEF Job
<1>6. ASSUME NEW q \in Puts
      PROVE  /\ put'[q] \in Request
             /\ put'[q].body = put[q].body /\ put'[q].read = put[q].read
             /\ put'[q].dropped = put[q].dropped
             /\ (~Running(q) /\ put'[q] = put[q]) \/ put'[q].at = "cut off"
             /\ put'[q].at \in {"unsent", "done", "failed", "cut off"}
  <2>1. put[q] \in Request
    BY <1>3
  <2>2. CASE Running(q)
    <3>1. put'[q] = [put[q] EXCEPT !.at = "cut off"]
      BY <1>1, <2>2
    <3> QED
      BY <2>1, <3>1 DEF Request
  <2>3. CASE ~Running(q)
    <3>1. put'[q] = put[q]
      BY <1>1, <2>3
    <3> QED
      BY <2>1, <2>3, <3>1 DEF Running
  <2> QED
    BY <2>2, <2>3
<1>7. put' \in [Puts -> Request]
  BY <1>1, <1>6
<1>8. StoreTypeOK'
  BY <1>1, <1>2, <1>4, <1>5, <1>7, TypesOpened, TypesOpenedPrimed
<1>9. \A q \in Puts : TidyRequest(put[q].at, put[q].body, put[q].dropped, staging[q], backup[q])'
  <2> SUFFICES ASSUME NEW q \in Puts
               PROVE  TidyRequest(put'[q].at, put'[q].body, put'[q].dropped, staging'[q], backup'[q])
    BY DEF TidyRequest
  <2>1. TidyRequest(put[q].at, put[q].body, put[q].dropped, staging[q], backup[q])
    BY DEF Tidy
  <2>2. put'[q] = put[q] \/ put'[q].at = "cut off"
    BY <1>6
  <2>3. \A body, dropped : TidyRequest("cut off", body, dropped, staging[q], backup[q])
    BY DEF TidyRequest
  <2>4. UNCHANGED <<staging, backup>>
    BY <1>1
  <2> QED
    BY <2>1, <2>2, <2>3, <2>4
<1>10. Idle'
  BY <1>6 DEF Idle, Running
<1>11. \A r \in Puts : <<"staging", r>> \in ghosts' \/ <<"backup", r>> \in ghosts' => Blamed(r)'
  <2> SUFFICES ASSUME NEW r \in Puts, <<"staging", r>> \in ghosts \/ <<"backup", r>> \in ghosts
               PROVE  Blamed(r)'
    BY <1>1
  <2>1. Blamed(r)
    BY DEF Tidy
  <2>2. put'[r] = put[r] \/ put'[r].at = "cut off"
    BY <1>6
  <2> QED
    BY <2>1, <2>2 DEF Blamed
<1>12. Tidy'
  BY <1>4, <1>8, <1>9, <1>10, <1>11 DEF Tidy
<1> QED
  BY <1>1, <1>4, <1>5, <1>6, <1>10, <1>12

LEMMA BootMoves ==
  ASSUME Tidy, Boot
  PROVE  /\ Tidy' /\ Idle /\ crashes # 0 /\ up'
         /\ \/ amiss' = {} /\ row' = IF dst \in Versions THEN dst ELSE row
            \/ "seed" \in amiss' /\ row' \in IF dst \in Versions THEN {row, dst} ELSE {row}
         /\ UNCHANGED <<dst, staging, backup, package, put, job, crashes>>
<1> USE NamesKnown
<1>1. /\ ~up /\ up' = TRUE
      /\ \/ amiss' = {} /\ row' = IF dst \in Versions THEN dst ELSE row
         \/ amiss' = {"seed"} /\ row' \in IF dst \in Versions THEN {row, dst} ELSE {row}
      /\ UNCHANGED <<dst, staging, backup, package, put, job, crashes>>
  BY DEF Boot, SeedProblems
<1>2. StoreTypeOK
  BY DEF Tidy
<1>3. Idle /\ crashes # 0
  BY <1>1 DEF Tidy
<1> DEFINE left == Leftovers(Versions \cup {Partial})
<1>4. ghosts' \subseteq ghosts \cup left
  <2>1. \E some : /\ some \subseteq Leftovers(Versions \cup {Partial}) \cup Leftovers({Partial})
                  /\ ghosts' = ghosts \cup Leftovers(Versions) \cup some \/ ghosts' = ghosts \cup some
    BY DEF Boot, SeedProblems
  <2>2. Leftovers(Versions) \subseteq left /\ Leftovers({Partial}) \subseteq left
    BY DEF Leftovers
  <2> QED
    BY <2>1, <2>2
<1>5. left \subseteq {"staging", "backup"} \X Puts
  BY DEF Leftovers
<1>6. ghosts' \subseteq {"staging", "backup"} \X Puts
  BY <1>2, <1>4, <1>5, TypesOpened
<1>7. ASSUME NEW r \in Puts, <<"staging", r>> \in left \/ <<"backup", r>> \in left
      PROVE  Blamed(r)
  <2>1. staging[r] # Absent \/ backup[r] # Absent
    BY <1>7, VersionsApart DEF Leftovers
  <2>2. put[r].at \in {"unsent", "done", "failed", "cut off"}
    BY <1>3 DEF Idle, Running
  <2>3. TidyRequest(put[r].at, put[r].body, put[r].dropped, staging[r], backup[r])
    BY DEF Tidy
  <2> QED
    BY <2>1, <2>2, <2>3 DEF TidyRequest, Blamed
<1>8. \A r \in Puts : <<"staging", r>> \in ghosts' \/ <<"backup", r>> \in ghosts' => Blamed(r)
  BY <1>4, <1>7 DEF Tidy
<1>9. row' \in Versions \cup {NoRow, NoCases} /\ amiss' \subseteq Mishaps
  BY <1>1, <1>2, TypesOpened
<1>10. Tidy'
  BY <1>1, <1>2, <1>3, <1>6, <1>8, <1>9, TypesOpened, TidyStill
<1> QED
  BY <1>1, <1>3, <1>10

-----------------------------------------------------------------------------
LEMMA StoreInitTidy == StoreInit => Tidy
<1> SUFFICES ASSUME StoreInit PROVE Tidy
  OBVIOUS
<1> USE NamesKnown, VersionsApart
<1>1. PICK v \in Versions \cup {Absent} : dst = v /\ row = IF v = Absent THEN NoRow ELSE v
  BY DEF StoreInit
<1>2. [at |-> "unsent", body |-> NoPackage, read |-> NoRow, dropped |-> {}] \in Request
  BY DEF Request
<1>3. job \in Job
  BY DEF StoreInit, Job
<1>4. \A r \in Puts : /\ put[r] = [at |-> "unsent", body |-> NoPackage, read |-> NoRow, dropped |-> {}]
                      /\ put[r].at = "unsent" /\ put[r].body = NoPackage /\ put[r].dropped = {}
                      /\ staging[r] = Absent /\ backup[r] = Absent
  BY DEF StoreInit
<1>5. put \in [Puts -> Request]
  BY <1>2 DEF StoreInit
<1>6. StoreTypeOK
  <2>1. crashes \in 0..MaxCrashes
    BY CrashCount DEF StoreInit
  <2> QED
    BY <1>1, <1>3, <1>5, <2>1, TypesOpened DEF StoreInit
<1>7. \A r \in Puts : TidyRequest(put[r].at, put[r].body, put[r].dropped, staging[r], backup[r])
  <2>1. TidyRequest("unsent", NoPackage, {}, Absent, Absent)
    BY DEF TidyRequest
  <2> QED
    BY <1>4, <2>1
<1> QED
  BY <1>6, <1>7 DEF StoreInit, Tidy

LEMMA TidyStep == Tidy /\ [StoreNext]_storeVars => Tidy'
<1> SUFFICES ASSUME Tidy, [StoreNext]_storeVars PROVE Tidy'
  OBVIOUS
<1>1. ASSUME NEW r \in Puts, PutStep(r) PROVE Tidy'
  BY <1>1, BeginPutMoves, ExtractMoves, StatMoves, SwapOutMoves, InstallMoves, RollBackMoves,
     RemoveBackupMoves, CopyPackageMoves, SaveRowMoves DEF PutStep
<1>2. CASE UNCHANGED storeVars
  <2>1. StoreTypeOK
    BY DEF Tidy
  <2> QED
    BY <1>2, <2>1, TypesOpened, TidyStill DEF storeVars, Tidy
<1> QED
  BY <1>1, <1>2, DeleteMoves, StartJobMoves, BindMoves, CrashMoves, BootMoves DEF StoreNext

(* Every place holds what it can hold: nothing that is half extracted or   *)
(* refused ever gets to the problem's directory.                           *)
THEOREM StoreTypeCorrect == StoreSpec => []StoreTypeOK
<1>1. Tidy => StoreTypeOK
  BY DEF Tidy
<1> QED
  BY <1>1, StoreInitTidy, TidyStep, PTL DEF StoreSpec

(* However requests, crashes and failing calls interleave, a directory     *)
(* that a request left, or a problem that a boot made of one, is due to a  *)
(* crash in the middle of that request or to an error that it dropped.     *)
THEOREM LeftoversAreExplained == StoreSpec => []LeftoversHaveACause
<1>1. Tidy => LeftoversHaveACause
  <2> SUFFICES ASSUME Tidy, NEW r \in Puts, ~Running(r),
                      staging[r] # Absent \/ backup[r] # Absent \/ <<"staging", r>> \in ghosts
                        \/ <<"backup", r>> \in ghosts
               PROVE  put[r].at = "cut off"
                        \/ put[r].dropped \cap {"roll back", "backup", "staging"} # {}
    BY DEF LeftoversHaveACause
  <2>1. put[r].at \in {"unsent", "done", "failed", "cut off"}
    BY DEF Running
  <2>2. TidyRequest(put[r].at, put[r].body, put[r].dropped, staging[r], backup[r])
    BY DEF Tidy
  <2>3. CASE staging[r] # Absent \/ backup[r] # Absent
    BY <2>1, <2>2, <2>3 DEF TidyRequest
  <2>4. CASE <<"staging", r>> \in ghosts \/ <<"backup", r>> \in ghosts
    BY <2>4 DEF Tidy, Blamed
  <2> QED
    BY <2>3, <2>4
<1> QED
  BY <1>1, StoreInitTidy, TidyStep, PTL DEF StoreSpec

-----------------------------------------------------------------------------
(* A whole version is on the disk; one is there that no request is about   *)
(* to remove.                                                              *)
Copy == dst \in Versions \/ \E r \in Puts : backup[r] \in Versions

Spare == dst \in Versions \/ \E r \in Puts : put[r].at # "clean" /\ backup[r] \in Versions

(* Someone knows of a version: the row, a request that read the row, or    *)
(* one that has installed its package.                                     *)
KnownTo(r) ==
  \/ put[r].read \in Versions
  \/ put[r].at \in {"clean", "copy", "save"} /\ put[r].body \in Versions

Copies ==
  /\ row \in Versions => Copy
  /\ \A r \in Puts : KnownTo(r) => Copy
  /\ \A r \in Puts : put[r].at = "clean" => Spare

(* The copies after a move of r that leaves dst and the backups alone.     *)
LEMMA CopiesMove ==
  ASSUME Copies, NEW r \in Puts, NEW from, NEW to, NEW errors, NEW staged,
         Move(r, from, to, errors, staged, backup[r]), dst' = dst,
         from # "clean", to # "clean", row' \in Versions => row \in Versions \/ KnownTo(r),
         to \in {"clean", "copy", "save"} => from \in {"clean", "copy", "save"}
  PROVE  Copies'
<1>1. /\ put[r].at = from /\ put'[r].at = to /\ put'[r].body = put[r].body
      /\ put'[r].read = put[r].read
      /\ \A q \in Puts : backup'[q] = backup[q]
      /\ \A q \in Puts : q # r => put'[q] = put[q]
  BY DEF Move
<1>2. Copy => Copy'
  BY <1>1 DEF Copy
<1>3. Spare => Spare'
  BY <1>1 DEF Spare
<1>4. \A q \in Puts : KnownTo(q)' => KnownTo(q)
  BY <1>1 DEF KnownTo
<1>5. \A q \in Puts : put'[q].at = "clean" => put[q].at = "clean"
  BY <1>1
<1> QED
  BY <1>2, <1>3, <1>4, <1>5 DEF Copies

(* A request that ends without saving takes no copy away.                  *)
LEMMA CopiesFail ==
  ASSUME Copies, NEW r \in Puts, NEW from, NEW errors, Failing(r, from, errors, backup[r]),
         dst' = dst, row' = row, from # "clean"
  PROVE  Copies'
<1>1. PICK rest, more : Move(r, from, "failed", errors \cup more, rest, backup[r])
  BY DEF Failing
<1> QED
  BY <1>1, CopiesMove

(* With a version in place there is nothing to fear.                       *)
LEMMA InPlace == dst' \in Versions => Copies'
BY DEF Copies, Copy, Spare

LEMMA CopiesStep == Tidy /\ Copies /\ [StoreNext]_storeVars => Copies'
<1> SUFFICES ASSUME Tidy, Copies, [StoreNext]_storeVars PROVE Copies'
  OBVIOUS
<1> USE VersionsApart
<1>0. ASSUME NEW r \in Puts
      PROVE  /\ put[r].at \in {"unsent", "extract", "stat", "swap out"} => backup[r] = Absent
             /\ dst \in Versions \cup {Absent, Empty}
             /\ backup[r] \in Versions \cup {Absent, Empty, Partial}
  BY RequestFacts, Same DEF TidyRequest
<1>1. ASSUME NEW r \in Puts, BeginPut(r) PROVE Copies'
  <2>1. /\ put[r].at = "unsent" /\ put'[r].read \in {row, NoRow}
        /\ \/ put'[r].at = "save" /\ put'[r].body = NoPackage
           \/ put'[r].at = "extract"
        /\ \A q \in Puts \ {r} : put'[q] = put[q]
        /\ UNCHANGED <<dst, backup, row>>
    BY <1>1, BeginPutMoves
  <2>2. Copy' <=> Copy
    BY <2>1 DEF Copy
  <2>3. Spare => Spare'
    BY <2>1 DEF Spare
  <2>4. \A q \in Puts : KnownTo(q)' => KnownTo(q) \/ row \in Versions
    BY <2>1 DEF KnownTo
  <2>5. \A q \in Puts : put'[q].at = "clean" => put[q].at = "clean"
    BY <2>1
  <2> QED
    BY <2>1, <2>2, <2>3, <2>4, <2>5 DEF Copies
<1>2. ASSUME NEW r \in Puts, Extract(r) PROVE Copies'
  <2>1. /\ UNCHANGED <<dst, package, row>> /\ backup[r] = Absent
        /\ \/ Failing(r, "extract", {}, backup[r])
           \/ Move(r, "extract", "stat", {}, put[r].body, backup[r])
    BY <1>2, ExtractMoves, <1>0 DEF Extract
  <2> QED
    BY <2>1, CopiesMove, CopiesFail
<1>3. ASSUME NEW r \in Puts, StatDst(r) PROVE Copies'
  <2>1. /\ UNCHANGED <<dst, package, row>> /\ backup[r] = Absent
        /\ \/ Move(r, "stat", "install", {}, put[r].body, backup[r])
           \/ Move(r, "stat", "swap out", {}, put[r].body, backup[r])
    BY <1>3, StatMoves, <1>0 DEF StatDst
  <2> QED
    BY <2>1, CopiesMove
<1>4. ASSUME NEW r \in Puts, SwapOut(r) PROVE Copies'
  <2>1. backup[r] = Absent /\ row' = row
    BY <1>4, <1>0, SwapOutMoves DEF SwapOut
  <2>2. CASE dst' = dst /\ Failing(r, "swap out", {}, Absent)
    BY <2>1, <2>2, CopiesFail
  <2>3. CASE dst # Absent /\ dst' = Absent /\ Move(r, "swap out", "install", {}, put[r].body, dst)
    <3>1. /\ put[r].at = "swap out" /\ put'[r].at = "install" /\ put'[r].read = put[r].read
          /\ backup'[r] = dst
          /\ \A q \in Puts \ {r} : put'[q] = put[q] /\ backup'[q] = backup[q]
      BY <1>4, <2>3 DEF Move
    <3>2. Copy => Copy'
      BY <2>1, <2>3, <3>1 DEF Copy
    <3>3. Spare => Spare'
      BY <2>1, <2>3, <3>1 DEF Spare
    <3>4. \A q \in Puts : KnownTo(q)' => KnownTo(q)
      BY <3>1 DEF KnownTo
    <3>5. \A q \in Puts : put'[q].at = "clean" => put[q].at = "clean"
      BY <3>1
    <3> QED
      BY <2>1, <3>1, <3>2, <3>3, <3>4, <3>5 DEF Copies
  <2> QED
    BY <1>4, <2>2, <2>3, SwapOutMoves
<1>5. ASSUME NEW r \in Puts, Install(r) PROVE Copies'
  <2>1. CASE dst' = put[r].body /\ put[r].body \in Versions
    BY <2>1, InPlace
  <2>2. CASE dst' = dst /\ row' = row /\ Move(r, "install", "roll back", {}, staging[r], backup[r])
    BY <2>2, CopiesMove
  <2> QED
    BY <1>5, <2>1, <2>2, InstallMoves
<1>6. ASSUME NEW r \in Puts, RollBack(r) PROVE Copies'
  <2>1. row' = row /\ put[r].at = "roll back"
    BY <1>6, RollBackMoves DEF RollBack
  <2>2. CASE dst' = dst /\ \E errors : Failing(r, "roll back", errors, backup[r])
    BY <2>1, <2>2, CopiesFail
  <2>3. CASE backup[r] \in Versions /\ dst' = backup[r]
    BY <2>3, InPlace
  <2>4. CASE /\ dst = Absent /\ backup[r] \notin Versions
             /\ dst' = backup[r] /\ Failing(r, "roll back", {}, Absent)
    <3>1. /\ put'[r].at = "failed" /\ put'[r].read = put[r].read
          /\ \A q \in Puts \ {r} : put'[q] = put[q] /\ backup'[q] = backup[q]
      BY <2>4 DEF Failing, Move
    <3>2. Copy => Copy'
      BY <2>4, <3>1 DEF Copy
    <3>3. Spare => Spare'
      BY <2>4, <3>1 DEF Spare
    <3>4. \A q \in Puts : KnownTo(q)' => KnownTo(q)
      BY <3>1 DEF KnownTo
    <3>5. \A q \in Puts : put'[q].at = "clean" => put[q].at = "clean"
      BY <3>1
    <3> QED
      BY <2>1, <3>2, <3>3, <3>4, <3>5 DEF Copies
  <2> QED
    BY <1>6, <2>2, <2>3, <2>4, RollBackMoves
<1>7. ASSUME NEW r \in Puts, RemoveBackup(r) PROVE Copies'
  <2>1. /\ put[r].at = "clean" /\ put'[r].at = "copy" /\ UNCHANGED <<dst, row>>
        /\ put'[r].read = put[r].read /\ put'[r].body = put[r].body
        /\ \A q \in Puts \ {r} : put'[q] = put[q] /\ backup'[q] = backup[q]
    BY <1>7, RemoveBackupMoves DEF Move
  <2>2. Spare
    BY <2>1 DEF Copies
  <2>3. Spare' /\ Copy'
    BY <2>1, <2>2 DEF Spare, Copy
  <2> QED
    BY <2>3 DEF Copies
<1>8. ASSUME NEW r \in Puts, CopyPackage(r) PROVE Copies'
  <2>1. dst' = dst /\ row' = row /\ \E errors : Move(r, "copy", "save", errors, Absent, backup[r])
    BY <1>8, CopyPackageMoves
  <2> QED
    BY <2>1, CopiesMove
<1>9. ASSUME NEW r \in Puts, SaveRow(r) PROVE Copies'
  <2>1. /\ dst' = dst
        /\ \/ row' = row /\ Move(r, "save", "failed", {}, Absent, backup[r])
           \/ /\ row' \in Versions => row' \in {put[r].body, put[r].read}
              /\ Move(r, "save", "done", {}, Absent, backup[r])
           \/ row' = row /\ Move(r, "save", "done", {}, Absent, backup[r])
    BY <1>9, SaveRowMoves
  <2>2. row' \in Versions /\ row' \in {put[r].body, put[r].read} => KnownTo(r)
    BY <1>9 DEF KnownTo, SaveRow
  <2> QED
    BY <2>1, <2>2, CopiesMove
<1>10. ASSUME NEW r \in Puts, PutStep(r) PROVE Copies'
  BY <1>10, <1>1, <1>2, <1>3, <1>4, <1>5, <1>6, <1>7, <1>8, <1>9 DEF PutStep
<1>11. ASSUME UNCHANGED <<backup, put>>, dst \in Versions => dst' = dst,
              row' \in Versions => row \in Versions \/ dst \in Versions
       PROVE  Copies'
  BY <1>11 DEF Copies, Copy, Spare, KnownTo
<1>12. CASE Delete
  BY <1>11, <1>12, DeleteMoves
<1>13. CASE StartJob
  BY <1>11, <1>13, StartJobMoves
<1>14. CASE BindProblem
  BY <1>11, <1>14, BindMoves
<1>15. CASE Boot
  BY <1>11, <1>15, BootMoves
<1>16. CASE Crash
  <2>1. /\ UNCHANGED <<dst, backup, row>>
        /\ \A q \in Puts : /\ put'[q].body = put[q].body /\ put'[q].read = put[q].read
                           /\ put'[q].at \in {"unsent", "done", "failed", "cut off"}
    BY <1>16, CrashMoves
  <2>2. Copy => Copy'
    BY <2>1 DEF Copy
  <2>3. \A q \in Puts : (KnownTo(q)' => KnownTo(q)) /\ put'[q].at # "clean"
    BY <2>1 DEF KnownTo
  <2> QED
    BY <2>1, <2>2, <2>3 DEF Copies
<1>17. CASE UNCHANGED storeVars
  BY <1>11, <1>17 DEF storeVars
<1> QED
  BY <1>10, <1>12, <1>13, <1>14, <1>15, <1>16, <1>17 DEF StoreNext

LEMMA StoreInitCopies == StoreInit => Copies
<1> SUFFICES ASSUME StoreInit PROVE Copies
  OBVIOUS
<1>1. \A r \in Puts : put[r].at = "unsent" /\ put[r].read = NoRow
  BY DEF StoreInit
<1>2. row \in Versions => dst \in Versions
  BY VersionsApart DEF StoreInit
<1> QED
  BY <1>1, <1>2, VersionsApart DEF Copies, Copy, KnownTo

(* Whatever requests run at once, whichever of their calls fail and        *)
(* wherever a crash cuts them off, a problem that has a row has a whole    *)
(* version on the disk.                                                    *)
THEOREM ReplacingKeepsACopy == StoreSpec => []SomeCopySurvives
<1>1. Copies => SomeCopySurvives
  BY DEF Copies, Copy, SomeCopySurvives
<1> QED
  BY <1>1, StoreInitTidy, TidyStep, StoreInitCopies, CopiesStep, PTL DEF StoreSpec

-----------------------------------------------------------------------------
(* Nothing went amiss and no boot was needed; nothing did that parts the   *)
(* row from a version in place.                                            *)
Calm == crashes = 0 /\ amiss = {}

Repaired == amiss \subseteq {"roll back"}

CopyLost == \E r \in Puts : "copy" \in put[r].dropped

(* The row and the download are those of directory content x; after a      *)
(* mishap only the row is, and only of a version.                          *)
Match(x) ==
  /\ row \in Versions /\ (x \in Versions \/ Calm) => row = x
  /\ Calm => package \in {Absent, x} \/ CopyLost

(* What is put back when a request rolls back.                             *)
Old(r) == IF backup[r] = Absent THEN dst ELSE backup[r]

(* A request on its way to the agreement: what it will leave matches.      *)
Halfway(r) ==
  /\ put[r].read = NoRow => row = NoRow
  /\ put[r].at \in {"extract", "stat", "swap out"} => Match(dst)
  /\ put[r].at \in {"install", "roll back"} =>
       Match(Old(r)) /\ (backup[r] # Absent => dst \notin Versions)
  /\ put[r].at \in {"clean", "copy"} => dst = put[r].body
  /\ put[r].at = "save" =>
       /\ put[r].body \in Versions => dst = put[r].body /\ (Calm => package = dst \/ CopyLost)
       /\ put[r].body = NoPackage =>
            /\ Match(dst)
            /\ put[r].read \in Versions /\ (dst \in Versions \/ Calm) => put[r].read = dst

Serial ==
  up /\ Repaired =>
    /\ \A r, q \in Puts : Running(r) /\ Running(q) => r = q
    /\ Idle => Match(dst)
    /\ \A r \in Puts : Running(r) => Halfway(r)

Ended(stage) == stage \in {"done", "failed"}

LEMMA CopyLostStays ==
  ASSUME NEW r \in Puts, NEW from, NEW to, NEW errors, NEW staged, NEW saved,
         Move(r, from, to, errors, staged, saved)
  PROVE  (CopyLost => CopyLost') /\ ("copy" \in errors => CopyLost')
BY DEF CopyLost, Move

(* A running request moves alone: it suffices that it stays halfway, or    *)
(* that what it leaves when it ends matches.                               *)
LEMMA SerialMove ==
  ASSUME Serial, NEW r \in Puts, NEW from, NEW to, NEW errors, NEW staged, NEW saved,
         Move(r, from, to, errors, staged, saved), Running(r), to \notin {"unsent", "cut off"},
         amiss \subseteq amiss',
         Repaired' /\ Halfway(r) => IF Ended(to) THEN Match(dst)' ELSE Halfway(r)'
  PROVE  Serial'
<1> SUFFICES ASSUME up', Repaired'
             PROVE  /\ \A p, q \in Puts : Running(p)' /\ Running(q)' => p = q
                    /\ Idle' => Match(dst)'
                    /\ \A q \in Puts : Running(q)' => Halfway(q)'
  BY DEF Serial
<1>1. /\ up /\ put'[r].at = to
      /\ \A q \in Puts \ {r} : put'[q] = put[q]
  BY DEF Move
<1>2. Repaired
  BY DEF Repaired
<1>3. /\ Halfway(r)
      /\ \A q \in Puts \ {r} : ~Running(q)
  BY <1>1, <1>2 DEF Serial
<1>4. \A q \in Puts \ {r} : ~Running(q)'
  BY <1>1, <1>3 DEF Running
<1>5. Running(r)' <=> ~Ended(to)
  BY <1>1 DEF Running, Ended
<1>6. CASE Ended(to)
  <2>1. Match(dst)'
    BY <1>3, <1>6
  <2>2. \A q \in Puts : ~Running(q)'
    BY <1>4, <1>5, <1>6
  <2> QED
    BY <2>1, <2>2
<1>7. CASE ~Ended(to)
  <2>1. Halfway(r)' /\ Running(r)'
    BY <1>3, <1>5, <1>7
  <2>2. ~Idle'
    BY <2>1 DEF Idle
  <2>3. \A q \in Puts : Running(q)' <=> q = r
    BY <1>4, <2>1
  <2> QED
    BY <2>1, <2>2, <2>3
<1> QED
  BY <1>6, <1>7

LEMMA SerialGoesOn ==
  ASSUME Serial, NEW r \in Puts, NEW from, NEW to, NEW errors, NEW staged, NEW saved,
         Move(r, from, to, errors, staged, saved), Running(r),
         to \notin {"unsent", "cut off", "done", "failed"},
         amiss \subseteq amiss', Halfway(r) => Halfway(r)'
  PROVE  Serial'
<1>1. ~Ended(to)
  BY DEF Ended
<1>2. Repaired' /\ Halfway(r) => IF Ended(to) THEN Match(dst)' ELSE Halfway(r)'
  BY <1>1
<1>3. to \notin {"unsent", "cut off"}
  OBVIOUS
<1> QED
  BY <1>2, <1>3, SerialMove

LEMMA SerialEnds ==
  ASSUME Serial, NEW r \in Puts, NEW from, NEW to, NEW errors, NEW staged, NEW saved,
         Move(r, from, to, errors, staged, saved), Running(r), to \in {"done", "failed"},
         amiss \subseteq amiss', Halfway(r) => Match(dst)'
  PROVE  Serial'
<1>1. Ended(to)
  BY DEF Ended
<1>2. Repaired' /\ Halfway(r) => IF Ended(to) THEN Match(dst)' ELSE Halfway(r)'
  BY <1>1
<1>3. to \notin {"unsent", "cut off"}
  OBVIOUS
<1> QED
  BY <1>2, <1>3, SerialMove

(* The same for a request that ends with an error.                         *)
LEMMA SerialFail ==
  ASSUME Serial, NEW r \in Puts, NEW from, NEW errors, NEW saved, Failing(r, from, errors, saved),
         Running(r), amiss \subseteq amiss', Halfway(r) /\ (CopyLost => CopyLost') => Match(dst)'
  PROVE  Serial'
<1>1. PICK rest, more : Move(r, from, "failed", errors \cup more, rest, saved)
  BY DEF Failing
<1>2. CopyLost => CopyLost'
  BY <1>1, CopyLostStays
<1>3. Halfway(r) => Match(dst)'
  BY <1>2
<1>4. "failed" \in {"done", "failed"}
  OBVIOUS
<1> QED
  BY <1>1, <1>3, <1>4, SerialEnds

(* A step that moves no request while the server runs.                     *)
LEMMA SerialStill ==
  ASSUME Serial, UNCHANGED <<put, up, amiss>>,
         Match(dst) => Match(dst)',
         \A r \in Puts : Running(r) /\ Halfway(r) => Halfway(r)'
  PROVE  Serial'
<1>1. \A r \in Puts : Running(r)' <=> Running(r)
  BY DEF Running
<1>2. Idle' <=> Idle
  BY DEF Idle, Running
<1>3. Repaired' <=> Repaired
  BY DEF Repaired
<1>4. CASE up /\ Repaired
  <2>1. /\ \A r, q \in Puts : Running(r) /\ Running(q) => r = q
        /\ Idle => Match(dst)
        /\ \A r \in Puts : Running(r) => Halfway(r)
    BY <1>4 DEF Serial
  <2>2. \A r \in Puts : Running(r)' => Halfway(r)'
    BY <1>1, <2>1
  <2>3. Idle' => Match(dst)'
    BY <1>2, <2>1
  <2>4. \A r, q \in Puts : Running(r)' /\ Running(q)' => r = q
    BY <1>1, <2>1
  <2> QED
    BY <2>2, <2>3, <2>4 DEF Serial
<1>5. CASE ~(up /\ Repaired)
  BY <1>3, <1>5 DEF Serial
<1> QED
  BY <1>4, <1>5

LEMMA HalfwayStays ==
  ASSUME UNCHANGED <<dst, backup, package, row, put, crashes, amiss>>
  PROVE  \A r \in Puts : Halfway(r) => Halfway(r)'
<1> SUFFICES ASSUME NEW r \in Puts, Halfway(r) PROVE Halfway(r)'
  OBVIOUS
<1>1. (Calm' <=> Calm) /\ (CopyLost' <=> CopyLost)
  BY DEF Calm, CopyLost
<1>2. (Match(dst)' <=> Match(dst)) /\ (Match(Old(r))' <=> Match(Old(r)))
  BY <1>1 DEF Match, Old
<1> QED
  BY <1>1, <1>2 DEF Halfway

LEMMA SerialStep == Tidy /\ Serial /\ [StoreNext]_storeVars => Serial'
<1> SUFFICES ASSUME Tidy, Serial, [StoreNext]_storeVars PROVE Serial'
  OBVIOUS
<1> USE VersionsApart
<1>0. ASSUME NEW r \in Puts
      PROVE  /\ dst \in Versions \cup {Absent, Empty} /\ package \in Versions \cup {Absent, Partial}
             /\ row \in Versions \cup {NoRow, NoCases}
             /\ put[r].read \in Versions \cup {NoRow, NoCases}
             /\ put[r].at = "save" => put[r].body \in Versions \cup {NoPackage}
             /\ put[r].at \in {"clean", "copy", "install"} => put[r].body \in Versions
             /\ put[r].at \in {"extract", "stat", "swap out"} => backup[r] = Absent
  BY RequestFacts, Same DEF TidyRequest
<1>1. ASSUME NEW r \in Puts, BeginPut(r) PROVE Serial'
  <2>1. /\ up /\ put[r].at = "unsent" /\ put[r].dropped = {}
        /\ \/ put'[r].at = "save" /\ put'[r].body = NoPackage
           \/ put'[r].at = "extract" /\ put'[r].body # NoPackage
        /\ \A q \in Puts \ {r} : put'[q] = put[q]
        /\ amiss \subseteq amiss' /\ ("mixed" \in amiss' \/ Idle)
        /\ "first" \in amiss' \/ put'[r].read = row
        /\ UNCHANGED <<dst, backup, package, row, up, crashes>>
    BY <1>1, BeginPutMoves
  <2>2. CASE ~Repaired'
    BY <2>2 DEF Serial
  <2>3. CASE Repaired'
    <3>1. Repaired /\ Idle /\ put'[r].read = row
      BY <2>1, <2>3 DEF Repaired
    <3>2. Match(dst)
      BY <2>1, <3>1 DEF Serial
    <3>3. CopyLost => CopyLost'
      BY <2>1 DEF CopyLost
    <3>4. Match(dst)'
      BY <2>1, <3>2, <3>3 DEF Match, Calm
    <3>5. \A q \in Puts \ {r} : ~Running(q)'
      BY <2>1, <3>1 DEF Idle, Running
    <3>6. Running(r)'
      BY <2>1 DEF Running
    <3>7. Halfway(r)'
      <4>1. CASE put'[r].at = "extract"
        BY <2>1, <3>1, <3>4, <4>1 DEF Halfway
      <4>2. CASE put'[r].at = "save" /\ put'[r].body = NoPackage
        BY <2>1, <3>1, <3>4, <4>2 DEF Halfway, Match
      <4> QED
        BY <2>1, <4>1, <4>2
    <3>8. ~Idle'
      BY <3>6 DEF Idle
    <3> QED
      BY <3>5, <3>6, <3>7, <3>8 DEF Serial
  <2> QED
    BY <2>2, <2>3
<1>2. ASSUME NEW r \in Puts, Extract(r) PROVE Serial'
  <2>1. /\ put[r].at = "extract" /\ Running(r) /\ UNCHANGED <<dst, package, row, amiss, crashes>>
    BY <1>2, ExtractMoves DEF Extract, Running
  <2>2. CASE Failing(r, "extract", {}, Absent)
    <3>1. Halfway(r) /\ (CopyLost => CopyLost') => Match(dst)'
      BY <2>1 DEF Halfway, Match, Calm
    <3> QED
      BY <2>1, <2>2, <3>1, SerialFail
  <2>3. CASE Move(r, "extract", "stat", {}, put[r].body, Absent)
    <3>1. CopyLost => CopyLost'
      BY <2>3, CopyLostStays
    <3>2. Halfway(r) => Match(dst)'
      BY <2>1, <3>1 DEF Halfway, Match, Calm
    <3>3. put'[r].at = "stat" /\ put'[r].read = put[r].read
      BY <2>3 DEF Move
    <3>4. Halfway(r) => Halfway(r)'
      BY <2>1, <3>2, <3>3 DEF Halfway
    <3> QED
      BY <2>1, <2>3, <3>4, SerialGoesOn
  <2> QED
    BY <1>2, <2>2, <2>3, ExtractMoves
<1>3. ASSUME NEW r \in Puts, StatDst(r) PROVE Serial'
  <2>1. /\ put[r].at = "stat" /\ Running(r) /\ UNCHANGED <<dst, package, row, amiss, crashes>>
    BY <1>3, StatMoves DEF StatDst, Running
  <2>2. ASSUME NEW to \in {"install", "swap out"}, Move(r, "stat", to, {}, put[r].body, Absent)
        PROVE  Serial'
    <3>1. CopyLost => CopyLost'
      BY <2>2, CopyLostStays
    <3>2. Halfway(r) => Match(dst)'
      BY <2>1, <3>1 DEF Halfway, Match, Calm
    <3>3. put'[r].at = to /\ put'[r].read = put[r].read /\ backup'[r] = Absent
      BY <2>2 DEF Move
    <3>4. Old(r)' = dst'
      BY <3>3 DEF Old
    <3>5. Halfway(r) => Match(Old(r))'
      BY <3>2, <3>4 DEF Match
    <3>6. Halfway(r) => Halfway(r)'
      BY <2>1, <3>2, <3>3, <3>5 DEF Halfway
    <3> QED
      BY <2>1, <2>2, <3>6, SerialGoesOn
  <2> QED
    BY <1>3, <2>2, StatMoves
<1>4. ASSUME NEW r \in Puts, SwapOut(r) PROVE Serial'
  <2>1. /\ put[r].at = "swap out" /\ Running(r) /\ UNCHANGED <<package, row, amiss, crashes>>
    BY <1>4, SwapOutMoves DEF SwapOut, Running
  <2>2. CASE dst' = dst /\ Failing(r, "swap out", {}, Absent)
    <3>1. Halfway(r) /\ (CopyLost => CopyLost') => Match(dst)'
      BY <2>1, <2>2 DEF Halfway, Match, Calm
    <3> QED
      BY <2>1, <2>2, <3>1, SerialFail
  <2>3. CASE dst # Absent /\ dst' = Absent /\ Move(r, "swap out", "install", {}, put[r].body, dst)
    <3>1. CopyLost => CopyLost'
      BY <2>3, CopyLostStays
    <3>2. put'[r].at = "install" /\ put'[r].read = put[r].read /\ backup'[r] = dst
      BY <2>3 DEF Move
    <3>3. Old(r)' = dst
      BY <2>3, <3>2 DEF Old
    <3>4. Halfway(r) => Match(Old(r))'
      BY <2>1, <3>1, <3>3 DEF Halfway, Match, Calm
    <3>5. dst' \notin Versions
      BY <2>3
    <3>6. Halfway(r) => Halfway(r)'
      BY <2>1, <3>2, <3>4, <3>5 DEF Halfway
    <3> QED
      BY <2>1, <2>3, <3>6, SerialGoesOn
  <2> QED
    BY <1>4, <2>2, <2>3, SwapOutMoves
<1>5. ASSUME NEW r \in Puts, Install(r) PROVE Serial'
  <2>1. /\ put[r].at = "install" /\ Running(r) /\ UNCHANGED <<package, row, amiss, crashes>>
    BY <1>5, InstallMoves DEF Install, Running
  <2>2. CASE dst' = put[r].body /\ Move(r, "install", "clean", {}, Absent, backup[r])
    <3>1. Halfway(r) => Halfway(r)'
      BY <2>1, <2>2 DEF Halfway, Move
    <3>2. amiss \subseteq amiss' /\ "clean" \notin {"unsent", "cut off", "done", "failed"}
      BY <2>1
    <3> QED
      BY <2>1, <2>2, <3>1, <3>2, SerialGoesOn
  <2>3. CASE dst' = dst /\ Move(r, "install", "roll back", {}, staging[r], backup[r])
    <3>1. CopyLost => CopyLost'
      BY <2>3, CopyLostStays
    <3>2. put'[r].at = "roll back" /\ put'[r].read = put[r].read /\ backup'[r] = backup[r]
      BY <2>3 DEF Move
    <3>3. Old(r)' = Old(r)
      BY <2>3, <3>2 DEF Old
    <3>4. Halfway(r) => Match(Old(r))'
      BY <2>1, <3>1, <3>3 DEF Halfway, Match, Calm
    <3>5. Halfway(r) => Halfway(r)'
      BY <2>1, <2>3, <3>2, <3>4 DEF Halfway
    <3>6. amiss \subseteq amiss' /\ "roll back" \notin {"unsent", "cut off", "done", "failed"}
      BY <2>1
    <3> QED
      BY <2>1, <2>3, <3>5, <3>6, SerialGoesOn
  <2> QED
    BY <1>5, <2>2, <2>3, InstallMoves
<1>6. ASSUME NEW r \in Puts, RollBack(r) PROVE Serial'
  <2>1. put[r].at = "roll back" /\ Running(r) /\ UNCHANGED <<package, row, crashes>>
    BY <1>6, RollBackMoves DEF RollBack, Running
  <2>2. CASE /\ backup[r] # Absent /\ dst' = backup[r] /\ amiss' = amiss
             /\ Failing(r, "roll back", {}, Absent)
    <3>1. Halfway(r) /\ (CopyLost => CopyLost') => Match(dst)'
      BY <2>1, <2>2 DEF Halfway, Match, Calm, Old
    <3> QED
      BY <2>1, <2>2, <3>1, SerialFail
  <2>3. CASE /\ backup[r] # Absent /\ dst' = dst /\ amiss' = amiss \cup {"roll back"}
             /\ Failing(r, "roll back", {"roll back"}, backup[r])
    <3>1. amiss \subseteq amiss' /\ ~Calm'
      BY <2>3 DEF Calm
    <3>2. Halfway(r) => dst' \notin Versions
      BY <2>1, <2>3 DEF Halfway
    <3>3. Halfway(r) => Match(dst)'
      BY <3>1, <3>2 DEF Match
    <3> QED
      BY <2>1, <2>3, <3>1, <3>3, SerialFail
  <2>4. CASE backup[r] = Absent /\ dst' = dst /\ amiss' = amiss /\ Failing(r, "roll back", {}, backup[r])
    <3>1. Halfway(r) /\ (CopyLost => CopyLost') => Match(dst)'
      BY <2>1, <2>4 DEF Halfway, Match, Calm, Old
    <3> QED
      BY <2>1, <2>4, <3>1, SerialFail
  <2> QED
    BY <1>6, <2>2, <2>3, <2>4, RollBackMoves
<1>7. ASSUME NEW r \in Puts, RemoveBackup(r) PROVE Serial'
  <2>1. PICK rest, errors : Move(r, "clean", "copy", errors, Absent, rest)
    BY <1>7, RemoveBackupMoves
  <2>2. /\ put[r].at = "clean" /\ Running(r) /\ UNCHANGED <<dst, row, amiss>>
        /\ put'[r].at = "copy" /\ put'[r].body = put[r].body /\ put'[r].read = put[r].read
    BY <1>7, <2>1, RemoveBackupMoves DEF RemoveBackup, Running, Move
  <2>3. Halfway(r) => Halfway(r)'
    BY <2>2 DEF Halfway
  <2> QED
    BY <2>1, <2>2, <2>3, SerialGoesOn
<1>8. ASSUME NEW r \in Puts, CopyPackage(r) PROVE Serial'
  <2>1. /\ put[r].at = "copy" /\ Running(r) /\ UNCHANGED <<dst, row, amiss, crashes>>
        /\ put[r].body \in Versions
    BY <1>8, CopyPackageMoves DEF CopyPackage, Running
  <2>2. PICK errors : /\ Move(r, "copy", "save", errors, Absent, backup[r])
                      /\ package' = put[r].body \/ "copy" \in errors
    BY <1>8, CopyPackageMoves
  <2>3. package' = put[r].body \/ CopyLost'
    BY <2>2, CopyLostStays
  <2>4. put'[r].at = "save" /\ put'[r].body = put[r].body /\ put'[r].read = put[r].read
    BY <2>2 DEF Move
  <2>5. Halfway(r) => Halfway(r)'
    BY <2>1, <2>3, <2>4 DEF Halfway
  <2>6. amiss \subseteq amiss' /\ "save" \notin {"unsent", "cut off", "done", "failed"}
    BY <2>1
  <2> QED
    BY <2>1, <2>2, <2>5, <2>6, SerialGoesOn
<1>9. ASSUME NEW r \in Puts, SaveRow(r) PROVE Serial'
  <2>1. put[r].at = "save" /\ Running(r) /\ UNCHANGED <<dst, package, crashes>>
    BY <1>9, SaveRowMoves DEF SaveRow, Running
  <2>2. CASE /\ put[r].read = NoRow /\ row' = row /\ amiss' = amiss
             /\ Move(r, "save", "failed", {}, Absent, backup[r])
    <3>1. CopyLost => CopyLost'
      BY <2>2, CopyLostStays
    <3>2. Halfway(r) => row' \notin Versions
      BY <2>2 DEF Halfway
    <3>3. Halfway(r) /\ Calm => package' \in {Absent, dst'} \/ CopyLost'
      BY <1>0, <2>1, <3>1 DEF Halfway, Match
    <3>4. Halfway(r) => Match(dst)'
      BY <2>1, <2>2, <3>2, <3>3 DEF Match, Calm
    <3> QED
      BY <2>1, <2>2, <3>4, SerialEnds
  <2>3. CASE /\ row' \in Versions =>
                  \/ put[r].body \in Versions /\ row' = put[r].body
                  \/ put[r].body = NoPackage /\ row' = put[r].read
             /\ amiss' = amiss
             /\ Move(r, "save", "done", {}, Absent, backup[r])
    <3>1. CopyLost => CopyLost'
      BY <2>3, CopyLostStays
    <3>2. Halfway(r) /\ row' \in Versions /\ (dst \in Versions \/ Calm) => row' = dst
      BY <1>0, <2>1, <2>3 DEF Halfway
    <3>3. Halfway(r) /\ Calm => package' \in {Absent, dst'} \/ CopyLost'
      BY <1>0, <2>1, <3>1 DEF Halfway, Match
    <3>4. Halfway(r) => Match(dst)'
      BY <2>1, <2>3, <3>2, <3>3 DEF Match, Calm
    <3> QED
      BY <2>1, <2>3, <3>4, SerialEnds
  <2>4. CASE "save" \in amiss'
    BY <2>4 DEF Serial, Repaired
  <2> QED
    BY <1>9, <2>2, <2>3, <2>4, SaveRowMoves
<1>10. ASSUME NEW r \in Puts, PutStep(r) PROVE Serial'
  BY <1>10, <1>1, <1>2, <1>3, <1>4, <1>5, <1>6, <1>7, <1>8, <1>9 DEF PutStep
<1>11. CASE Delete
  <2>1. /\ row' = NoRow
        /\ UNCHANGED <<dst, staging, backup, package, ghosts, put, job, up, crashes, amiss>>
    BY <1>11, DeleteMoves
  <2>2. (Calm' <=> Calm) /\ (CopyLost' <=> CopyLost)
    BY <2>1 DEF Calm, CopyLost
  <2>3. Match(dst) => Match(dst)'
    BY <2>1, <2>2 DEF Match
  <2>4. ASSUME NEW r \in Puts, Halfway(r) PROVE Halfway(r)'
    <3>1. Old(r)' = Old(r) /\ (Match(Old(r)) => Match(Old(r))')
      BY <2>1, <2>2 DEF Match, Old
    <3> QED
      BY <2>1, <2>2, <2>3, <2>4, <3>1 DEF Halfway
  <2> QED
    BY <2>1, <2>3, <2>4, SerialStill
<1>12. CASE StartJob
  <2>1. UNCHANGED <<dst, staging, backup, package, row, ghosts, put, up, crashes, amiss>>
    BY <1>12, StartJobMoves
  <2>2. Match(dst) => Match(dst)'
    BY <2>1 DEF Match, Calm, CopyLost
  <2>3. \A r \in Puts : Halfway(r) => Halfway(r)'
    BY <2>1, HalfwayStays
  <2> QED
    BY <2>1, <2>2, <2>3, SerialStill
<1>13. CASE BindProblem
  <2>1. /\ dst' = IF dst = Absent THEN Empty ELSE dst
        /\ UNCHANGED <<staging, backup, package, row, ghosts, put, up, crashes, amiss>>
    BY <1>13, BindMoves
  <2>2. (Calm' <=> Calm) /\ (CopyLost' <=> CopyLost)
    BY <2>1 DEF Calm, CopyLost
  <2>3. Match(dst) => Match(dst)'
    BY <2>1, <2>2 DEF Match
  <2>4. ASSUME NEW r \in Puts, Halfway(r), Running(r) PROVE Halfway(r)'
    <3>1. Match(Old(r)) => Match(Old(r))'
      BY <2>1, <2>2 DEF Match, Old
    <3>2. (dst' \in Versions <=> dst \in Versions) /\ (dst \in Versions => dst' = dst)
      BY <2>1
    <3>3. ASSUME put[r].at = "save", put[r].body = NoPackage, put[r].read \in Versions,
                 dst' \in Versions \/ Calm'
          PROVE  put[r].read = dst'
      <4>1. put[r].read = dst
        BY <2>2, <2>4, <3>2, <3>3 DEF Halfway
      <4> QED
        BY <3>2, <3>3, <4>1
    <3>4. put[r].at \in {"clean", "copy"} \/ (put[r].at = "save" /\ put[r].body \in Versions) => dst' = dst
      BY <1>0, <2>1, <2>4 DEF Halfway
    <3>5. /\ put'[r] = put[r] /\ (put[r].read = NoRow => row' = NoRow)
          /\ backup'[r] # Absent => backup[r] # Absent
          /\ package' = package /\ (Calm' <=> Calm) /\ (CopyLost' <=> CopyLost)
      BY <2>1, <2>2, <2>4 DEF Halfway
    <3>6. put[r].at \in {"install", "roll back"} =>
            Match(Old(r))' /\ (backup'[r] # Absent => dst' \notin Versions)
      BY <2>4, <3>1, <3>2, <3>5 DEF Halfway
    <3>7. put[r].at \in {"extract", "stat", "swap out"} => Match(dst)'
      BY <2>3, <2>4 DEF Halfway
    <3>8. put[r].at = "save" /\ put[r].body \in Versions =>
            dst' = put[r].body /\ (Calm' => package' = dst' \/ CopyLost')
      BY <2>4, <3>4, <3>5 DEF Halfway
    <3>9. put[r].at = "save" /\ put[r].body = NoPackage => Match(dst)'
      BY <2>3, <2>4 DEF Halfway
    <3>10. ASSUME put[r].at \in {"clean", "copy"} PROVE dst' = put[r].body
      <4>1. dst = put[r].body
        BY <2>4, <3>10 DEF Halfway
      <4> QED
        BY <3>4, <3>10, <4>1
    <3>11. put' = put
      BY <2>1
    <3> QED
      BY <3>3, <3>5, <3>6, <3>7, <3>8, <3>9, <3>10, <3>11 DEF Halfway
  <2> QED
    BY <2>1, <2>3, <2>4, SerialStill
<1>14. CASE Crash
  BY <1>14, CrashMoves DEF Serial
<1>15. CASE Boot
  <2>1. /\ Idle /\ crashes # 0
        /\ "seed" \in amiss' \/ row' = IF dst \in Versions THEN dst ELSE row
        /\ UNCHANGED <<dst, staging, backup, package, put, job, crashes>>
    BY <1>15, BootMoves
  <2>2. CASE "seed" \in amiss'
    BY <2>2 DEF Serial, Repaired
  <2>3. CASE row' = IF dst \in Versions THEN dst ELSE row
    <3>1. Match(dst)'
      BY <2>1, <2>3 DEF Match, Calm
    <3>2. \A q \in Puts : ~Running(q)'
      BY <2>1 DEF Idle, Running
    <3> QED
      BY <3>1, <3>2 DEF Serial
  <2> QED
    BY <2>1, <2>2, <2>3
<1>16. CASE UNCHANGED storeVars
  <2>1. UNCHANGED <<dst, staging, backup, package, row, put, up, crashes, amiss>>
    BY <1>16 DEF storeVars
  <2>2. Match(dst) => Match(dst)'
    BY <2>1 DEF Match, Calm, CopyLost
  <2>3. \A r \in Puts : Halfway(r) => Halfway(r)'
    BY <2>1, HalfwayStays
  <2> QED
    BY <2>1, <2>2, <2>3, SerialStill
<1> QED
  BY <1>10, <1>11, <1>12, <1>13, <1>14, <1>15, <1>16 DEF StoreNext

LEMMA StoreInitSerial == StoreInit => Serial
<1> SUFFICES ASSUME StoreInit PROVE Serial
  OBVIOUS
<1>1. \A r \in Puts : put[r].at = "unsent"
  BY DEF StoreInit
<1>2. Match(dst)
  <2>1. PICK v \in Versions \cup {Absent} : dst = v /\ row = IF v = Absent THEN NoRow ELSE v
    BY DEF StoreInit
  <2>2. package = Absent
    BY DEF StoreInit
  <2> QED
    BY <2>1, <2>2, VersionsApart DEF Match
<1> QED
  BY <1>1, <1>2 DEF Serial, Running

-----------------------------------------------------------------------------
(* A judging that nothing disturbed runs the version that is in place.     *)
Undisturbed ==
  job.cases # NoRow /\ ~job.disturbed =>
    /\ up /\ job.cases \in Versions
    /\ crashes = 0 \/ dst \in Versions => dst = job.cases /\ job.bound \subseteq {job.cases}

LEMMA UndisturbedStep ==
  Tidy /\ Serial /\ Undisturbed /\ [StoreNext]_storeVars => Undisturbed'
<1> SUFFICES ASSUME Tidy, Serial, Undisturbed, [StoreNext]_storeVars PROVE Undisturbed'
  OBVIOUS
<1> USE VersionsApart
<1>1. ASSUME NEW r \in Puts, PutStep(r) PROVE Undisturbed'
  <2>1. job'.disturbed
    BY <1>1, BeginPutMoves, ExtractMoves, StatMoves, SwapOutMoves, InstallMoves, RollBackMoves,
       RemoveBackupMoves, CopyPackageMoves, SaveRowMoves DEF PutStep, Move, Failing
  <2> QED
    BY <2>1 DEF Undisturbed
<1>2. CASE Delete
  BY <1>2, DeleteMoves DEF Undisturbed
<1>3. CASE StartJob
  <2>1. /\ up /\ row \in Versions /\ job'.cases = row /\ job'.bound = {}
        /\ ~job'.disturbed => amiss = {} /\ Idle
        /\ UNCHANGED <<dst, up, crashes>>
    BY <1>3, StartJobMoves
  <2>2. ~job'.disturbed => Match(dst) /\ (crashes = 0 => Calm)
    BY <2>1 DEF Serial, Repaired, Calm
  <2> QED
    BY <2>1, <2>2 DEF Undisturbed, Match
<1>4. CASE BindProblem
  BY <1>4, BindMoves DEF Undisturbed
<1>5. CASE Crash
  BY <1>5, CrashMoves DEF Undisturbed
<1>6. CASE Boot
  <2>1. ~up /\ UNCHANGED job
    BY <1>6 DEF Boot
  <2> QED
    BY <2>1 DEF Undisturbed
<1>7. CASE UNCHANGED storeVars
  BY <1>7 DEF storeVars, Undisturbed
<1> QED
  BY <1>1, <1>2, <1>3, <1>4, <1>5, <1>6, <1>7 DEF StoreNext

LEMMA StoreInitUndisturbed == StoreInit => Undisturbed
BY DEF StoreInit, Undisturbed

(* While requests come one after the other and neither a read nor a save   *)
(* of the row fails, whenever none runs the row has the cases of the       *)
(* directory, also after crashes and the boots that follow them.           *)
THEOREM RowFollowsDirectory == StoreSpec => []RowDescribesDirectory
<1>1. Serial => RowDescribesDirectory
  BY DEF Serial, Repaired, Match, RowDescribesDirectory
<1> QED
  BY <1>1, StoreInitTidy, TidyStep, StoreInitSerial, SerialStep, PTL DEF StoreSpec

(* Before the first crash, and while nothing went amiss, the download is   *)
(* the package of the directory too, unless its copying failed.            *)
THEOREM PlacesAgree == StoreSpec => []SerialPutsAgree
<1>1. Tidy /\ Serial => SerialPutsAgree
  BY DEF Tidy, Serial, Repaired, Match, Calm, CopyLost, SerialPutsAgree
<1> QED
  BY <1>1, StoreInitTidy, TidyStep, StoreInitSerial, SerialStep, PTL DEF StoreSpec

(* A judging that no request ran beside, and before which nothing went     *)
(* amiss, saw one version in every container.                              *)
THEOREM JudgingSeesOneVersion == StoreSpec => []UndisturbedJobSeesOneVersion
<1>1. Undisturbed => UndisturbedJobSeesOneVersion
  BY DEF Undisturbed, UndisturbedJobSeesOneVersion
<1> QED
  BY <1>1, StoreInitTidy, TidyStep, StoreInitSerial, SerialStep, StoreInitUndisturbed,
     UndisturbedStep, PTL DEF StoreSpec
=============================================================================
