----------------------------- MODULE ProblemStore -----------------------------
(***************************************************************************)
(* One problem between its directory under PROBLEMS_ROOT and its row in    *)
(* the database: the admin's requests that replace or delete it            *)
(* (internal/api/handler/problems.go), the seeding at boot                 *)
(* (internal/store/store.go) and a judging that reads the row once and     *)
(* binds the directory container by container (internal/judge).            *)
(*                                                                         *)
(* A version stands for the content of a package, its cases included.      *)
(* Requests run concurrently, a step of one is one call to the file system *)
(* or the database, any of which may fail, and the process may crash       *)
(* between any two.  The handler drops the errors of six of these calls    *)
(* and main only logs the seeding's: put[r].dropped and amiss keep which,  *)
(* for the properties to say what each of them costs.                      *)
(***************************************************************************)
EXTENDS Naturals

CONSTANTS Puts,       \* the PUT requests made, each with its own nonce
          Versions,   \* the packages that pass the validation
          MaxCrashes  \* bound on the crashes

ASSUME StoreAssumption == MaxCrashes \in Nat

(* Beside the versions: no directory, a directory with nothing in it, an   *)
(* extraction that has not ended; no package, and one that is refused.     *)
Absent == "absent"
Empty == "empty"
Partial == "partial"
NoPackage == "no package"
Refused == "refused"

(* CaseNames is "" in a row made without a package.                        *)
NoCases == "no cases"
NoRow == "no row"

ASSUME VersionAssumption ==
  Versions \cap {Absent, Empty, Partial, NoPackage, Refused, NoCases, NoRow} = {}

VARIABLES dst,      \* PROBLEMS_ROOT/id
          staging,  \* PROBLEMS_ROOT/.staging-id-nonce of each request
          backup,   \* PROBLEMS_ROOT/.bak-id-nonce of each request
          package,  \* PROBLEMS_ROOT/id-package, the admin's download
          row,      \* CaseNames of the problem's row, or NoRow
          ghosts,   \* the .staging and .bak directories with rows of their own
          put,      \* where each request is, and what it dropped
          job,      \* a judging of the problem
          up,       \* the server is running
          crashes,  \* how often it crashed
          amiss     \* what may part the places since the last boot

storeVars == <<dst, staging, backup, package, row, ghosts, put, job, up, crashes, amiss>>

Stages == {"unsent", "extract", "stat", "swap out", "install", "roll back",
           "clean", "copy", "save", "done", "failed", "cut off"}

Running(r) == put[r].at \notin {"unsent", "done", "failed", "cut off"}
Idle == \A r \in Puts : ~Running(r)

(* Two requests at once; a read of the row that failed and was taken for a *)
(* new problem; a save that failed and was answered with 200; a rename     *)
(* back that failed; a seeding that ended or passed over a directory.      *)
Mishaps == {"mixed", "first", "save", "roll back", "seed"}

(* What a request left of its directories, and of the download.            *)
Drops == {"roll back", "backup", "staging", "copy"}

(* os.Rename refuses a target that is a directory, an empty one too.       *)
Free == dst = Absent

(* A bug: the cases stay those that the row had.                           *)
SavedAsRead(r) == IF put[r].read = NoRow THEN put[r].body ELSE put[r].read

(* The version whose cases a request saves: those of its package, or those *)
(* it read from the row.                                                   *)
Saved(r) == IF put[r].body = NoPackage THEN put[r].read ELSE put[r].body

-----------------------------------------------------------------------------
StoreInit ==
  /\ \E v \in Versions \cup {Absent} :
       /\ dst = v
       /\ row = IF v = Absent THEN NoRow ELSE v
  /\ staging = [r \in Puts |-> Absent]
  /\ backup = [r \in Puts |-> Absent]
  /\ package = Absent
  /\ ghosts = {}
  /\ put = [r \in Puts |-> [at |-> "unsent", body |-> NoPackage, read |-> NoRow, dropped |-> {}]]
  /\ job = [cases |-> NoRow, bound |-> {}, disturbed |-> FALSE]
  /\ up = TRUE /\ crashes = 0 /\ amiss = {}

(* A request goes on, and drops these errors.                              *)
Proceed(r, stage, errors) ==
  put' = [put EXCEPT ![r].at = stage, ![r].dropped = @ \cup errors]

(* It ends with an error, and the deferred RemoveAll of staging runs: what *)
(* it cannot remove stays.                                                 *)
Abandon(r, errors) ==
  \E rest \in {Absent, Partial, staging[r]} :
    /\ staging' = [staging EXCEPT ![r] = rest]
    /\ Proceed(r, "failed", errors \cup IF rest = Absent THEN {} ELSE {"staging"})

(* A judging that runs while a request does may see anything.              *)
Disturb == job' = [job EXCEPT !.disturbed = TRUE]

(* PutProblem to its MkdirAll: the row is read, where any error means that *)
(* there is none, and a request without a package goes on to save it.      *)
BeginPut(r) ==
  /\ up /\ put[r].at = "unsent"
  /\ \E body \in Versions \cup {NoPackage, Refused}, read \in {row, NoRow} :
       /\ put' = [put EXCEPT ![r] =
                    [at |-> IF body = NoPackage THEN "save" ELSE "extract",
                     body |-> body, read |-> read, dropped |-> {}]]
       /\ staging' = [staging EXCEPT ![r] = IF body = NoPackage THEN Absent ELSE Partial]
       /\ amiss' = amiss \cup (IF Idle THEN {} ELSE {"mixed"})
                         \cup (IF read = row THEN {} ELSE {"first"})
  /\ Disturb
  /\ UNCHANGED <<dst, backup, package, row, ghosts, up, crashes>>

(* The package is extracted into staging and validated; a bad one is       *)
(* answered with 400.                                                      *)
Extract(r) ==
  /\ up /\ put[r].at = "extract"
  /\ \/ Abandon(r, {})
     \/ /\ put[r].body # Refused
        /\ Proceed(r, "stat", {})
        /\ staging' = [staging EXCEPT ![r] = put[r].body]
  /\ Disturb
  /\ UNCHANGED <<dst, backup, package, row, ghosts, up, crashes, amiss>>

(* A Stat that fails counts as a directory that is not there.              *)
StatDst(r) ==
  /\ up /\ put[r].at = "stat"
  /\ \/ Proceed(r, "install", {})
     \/ ~Free /\ Proceed(r, "swap out", {})
  /\ Disturb
  /\ UNCHANGED <<dst, staging, backup, package, row, ghosts, up, crashes, amiss>>

(* A bug: the old directory is removed to make room.                       *)
SwapOutRemoves(r) ==
  /\ up /\ put[r].at = "swap out"
  /\ Proceed(r, "install", {})
  /\ dst' = Absent
  /\ Disturb
  /\ UNCHANGED <<staging, backup, package, row, ghosts, up, crashes, amiss>>

(* The old directory moves to backup.  The rename fails when another       *)
(* request moved it, and may fail of itself.                               *)
SwapOut(r) ==
  /\ up /\ put[r].at = "swap out"
  /\ \/ Abandon(r, {}) /\ UNCHANGED <<dst, backup>>
     \/ /\ ~Free
        /\ Proceed(r, "install", {})
        /\ backup' = [backup EXCEPT ![r] = dst]
        /\ dst' = Absent
        /\ UNCHANGED staging
  /\ Disturb
  /\ UNCHANGED <<package, row, ghosts, up, crashes, amiss>>

(* The new directory takes its place.  The rename fails on a directory     *)
(* that another request or a container's bind put there.                   *)
Install(r) ==
  /\ up /\ put[r].at = "install"
  /\ \/ /\ Free
        /\ dst' = staging[r]
        /\ staging' = [staging EXCEPT ![r] = Absent]
        /\ Proceed(r, "clean", {})
     \/ Proceed(r, "roll back", {}) /\ UNCHANGED <<dst, staging>>
  /\ Disturb
  /\ UNCHANGED <<backup, package, row, ghosts, up, crashes, amiss>>

(* The rename back can fail as that rename did, and its error is dropped;  *)
(* without a backup there is nothing to rename.                            *)
RollBack(r) ==
  /\ up /\ put[r].at = "roll back"
  /\ \/ /\ Free /\ backup[r] # Absent
        /\ dst' = backup[r]
        /\ backup' = [backup EXCEPT ![r] = Absent]
        /\ Abandon(r, {})
        /\ UNCHANGED amiss
     \/ /\ backup[r] # Absent
        /\ Abandon(r, {"roll back"})
        /\ amiss' = amiss \cup {"roll back"}
        /\ UNCHANGED <<dst, backup>>
     \/ /\ backup[r] = Absent
        /\ Abandon(r, {})
        /\ UNCHANGED <<dst, backup, amiss>>
  /\ Disturb
  /\ UNCHANGED <<package, row, ghosts, up, crashes>>

(* A bug: the backup stays.                                                *)
RemoveNothing(r) ==
  /\ up /\ put[r].at = "clean"
  /\ Proceed(r, "copy", {})
  /\ Disturb
  /\ UNCHANGED <<dst, staging, backup, package, row, ghosts, up, crashes, amiss>>

(* The backup goes, or what RemoveAll could not remove of it stays.        *)
RemoveBackup(r) ==
  /\ up /\ put[r].at = "clean"
  /\ \E rest \in {Absent, backup[r]} \cup (IF backup[r] = Absent THEN {} ELSE {Partial}) :
       /\ backup' = [backup EXCEPT ![r] = rest]
       /\ Proceed(r, "copy", IF rest = Absent THEN {} ELSE {"backup"})
  /\ Disturb
  /\ UNCHANGED <<dst, staging, package, row, ghosts, up, crashes, amiss>>

(* The download is copied; after an error it is the old one or a part.     *)
CopyPackage(r) ==
  /\ up /\ put[r].at = "copy"
  /\ \/ package' = put[r].body /\ Proceed(r, "save", {})
     \/ package' \in {package, Partial} /\ Proceed(r, "save", {"copy"})
  /\ Disturb
  /\ UNCHANGED <<dst, staging, backup, row, ghosts, up, crashes, amiss>>

(* A request that found no row creates one, which fails when there is one; *)
(* one that found a row saves every column, inserts the row again when it  *)
(* was deleted, and answers 200 when the save fails.                       *)
SaveRow(r) ==
  /\ up /\ put[r].at = "save"
  /\ IF put[r].read = NoRow
     THEN /\ UNCHANGED amiss
          /\ \/ Proceed(r, "failed", {}) /\ UNCHANGED row
             \/ /\ row = NoRow
                /\ Proceed(r, "done", {})
                /\ row' = IF put[r].body = NoPackage THEN NoCases ELSE put[r].body
     ELSE /\ Proceed(r, "done", {})
          /\ \/ row' = Saved(r) /\ UNCHANGED amiss
             \/ UNCHANGED row /\ amiss' = amiss \cup {"save"}
  /\ Disturb
  /\ UNCHANGED <<dst, staging, backup, package, ghosts, up, crashes>>

(* DeleteProblem deletes the row and leaves the directory.                 *)
Delete ==
  /\ up /\ row # NoRow
  /\ row' = NoRow
  /\ UNCHANGED <<dst, staging, backup, package, ghosts, put, job, up, crashes, amiss>>

-----------------------------------------------------------------------------
(* process reads the row; every container of the judging binds dst, which  *)
(* the docker daemon creates when it is missing.                           *)
StartJob ==
  /\ up /\ row \in Versions
  /\ job' = [cases |-> row, bound |-> {}, disturbed |-> amiss # {} \/ ~Idle]
  /\ UNCHANGED <<dst, staging, backup, package, row, ghosts, put, up, crashes, amiss>>

BindProblem ==
  /\ up /\ job.cases # NoRow
  /\ LET found == IF dst = Absent THEN Empty ELSE dst
     IN  /\ job' = [job EXCEPT !.bound = @ \cup {found}]
         /\ dst' = found
  /\ UNCHANGED <<staging, backup, package, row, ghosts, put, up, crashes, amiss>>

(* The running requests end where they are, and so does the judging.       *)
Crash ==
  /\ up /\ crashes < MaxCrashes
  /\ up' = FALSE /\ crashes' = crashes + 1
  /\ put' = [r \in Puts |-> IF Running(r) THEN [put[r] EXCEPT !.at = "cut off"] ELSE put[r]]
  /\ job' = [cases |-> NoRow, bound |-> {}, disturbed |-> FALSE]
  /\ UNCHANGED <<dst, staging, backup, package, row, ghosts, amiss>>

(* SeedProblems registers every directory with CMakeLists.txt and spec/,   *)
(* the ones of cut-off requests too; a half-extracted one may have both.   *)
Leftovers(contents) ==
  {d \in {"staging", "backup"} \X Puts :
     (IF d[1] = "staging" THEN staging[d[2]] ELSE backup[d[2]]) \in contents}

(* A bug: a problem that has a row is passed over.                         *)
SeedMissing ==
  /\ row' = IF dst \in Versions /\ row = NoRow THEN dst ELSE row
  /\ amiss' = {}
  /\ \E some \in SUBSET Leftovers({Partial}) :
       ghosts' = ghosts \cup Leftovers(Versions) \cup some

(* A statement that fails ends the seeding, and a Stat or ReadDir that     *)
(* fails passes over its directory.                                        *)
SeedProblems ==
  \/ /\ row' = IF dst \in Versions THEN dst ELSE row
     /\ amiss' = {}
     /\ \E some \in SUBSET Leftovers({Partial}) :
          ghosts' = ghosts \cup Leftovers(Versions) \cup some
  \/ /\ row' \in IF dst \in Versions THEN {row, dst} ELSE {row}
     /\ amiss' = {"seed"}
     /\ \E some \in SUBSET Leftovers(Versions \cup {Partial}) :
          ghosts' = ghosts \cup some

Boot ==
  /\ ~up
  /\ up' = TRUE
  /\ SeedProblems
  /\ UNCHANGED <<dst, staging, backup, package, put, job, crashes>>

PutStep(r) ==
  \/ BeginPut(r) \/ Extract(r) \/ StatDst(r) \/ SwapOut(r) \/ Install(r)
  \/ RollBack(r) \/ RemoveBackup(r) \/ CopyPackage(r) \/ SaveRow(r)

StoreNext ==
  (\E r \in Puts : PutStep(r)) \/ Delete \/ StartJob \/ BindProblem \/ Crash \/ Boot

StoreSpec == StoreInit /\ [][StoreNext]_storeVars

-----------------------------------------------------------------------------
StoreTypeOK ==
  /\ dst \in Versions \cup {Absent, Empty}
  /\ staging \in [Puts -> Versions \cup {Absent, Partial}]
  /\ backup \in [Puts -> Versions \cup {Absent, Empty, Partial}]
  /\ package \in Versions \cup {Absent, Partial}
  /\ row \in Versions \cup {NoRow, NoCases}
  /\ ghosts \subseteq {"staging", "backup"} \X Puts
  /\ put \in [Puts -> [at : Stages, body : Versions \cup {NoPackage, Refused},
                       read : Versions \cup {NoRow, NoCases}, dropped : SUBSET Drops]]
  /\ job \in [cases : Versions \cup {NoRow}, bound : SUBSET (Versions \cup {Empty}),
              disturbed : BOOLEAN]
  /\ up \in BOOLEAN /\ amiss \subseteq Mishaps
  /\ crashes \in 0..MaxCrashes

(* Replacing a problem never loses it: from the first package on there is  *)
(* a whole version on the disk, in place or as a backup, at every moment   *)
(* of every interleaving, whichever calls fail, and after every crash.     *)
SomeCopySurvives ==
  row \in Versions => dst \in Versions \/ \E r \in Puts : backup[r] \in Versions

(* What remains of a request that is over, its staging or backup directory *)
(* or a problem that a boot made of one, is the work of a crash that cut   *)
(* the request off or of an error that it dropped.                         *)
LeftoversHaveACause ==
  \A r \in Puts :
    ~Running(r) /\ (staging[r] # Absent \/ backup[r] # Absent \/ <<"staging", r>> \in ghosts
                    \/ <<"backup", r>> \in ghosts)
      => put[r].at = "cut off" \/ put[r].dropped \cap {"roll back", "backup", "staging"} # {}

(* Before the first crash, requests made one after the other whose dropped *)
(* calls succeed leave the places in agreement, also when they end with an *)
(* error: the row has the cases of the directory, and the download is its  *)
(* package unless the copy failed.                                         *)
SerialPutsAgree ==
  Idle /\ amiss = {} /\ crashes = 0 =>
    /\ row \in Versions => row = dst
    /\ package \in {Absent, dst} \/ \E r \in Puts : "copy" \in put[r].dropped

(* A boot that can seed repairs what a crash, two requests at once or a    *)
(* dropped error left apart: from then on, while no request runs and until *)
(* two do or the database fails one, the row has the cases of the          *)
(* directory.                                                              *)
RowDescribesDirectory ==
  up /\ Idle /\ amiss \subseteq {"roll back"} /\ dst \in Versions /\ row \in Versions => row = dst

(* A judging during which no request ran, and before which nothing went    *)
(* amiss, saw one version in all its containers, the one whose cases it    *)
(* runs: a PUT is the only way to judge a submission against two versions. *)
UndisturbedJobSeesOneVersion ==
  job.cases # NoRow /\ ~job.disturbed /\ (crashes = 0 \/ dst \in Versions) => job.bound \subseteq {job.cases}
=============================================================================
