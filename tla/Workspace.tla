------------------------------ MODULE Workspace ------------------------------
(***************************************************************************)
(* The source directory of a submission: how internal/archive fills it     *)
(* from the uploaded archive, and how the pipeline does so again, into the *)
(* directory the last judging left, on a rerun or after a crash.           *)
(*                                                                         *)
(* A path is a sequence of names.  A step is one call to the file system.  *)
(***************************************************************************)
EXTENDS Integers, Sequences, FiniteSets

CONSTANTS Archives,      \* the archives uploaded: sequences of entries
          Junk,          \* __MACOSX and .DS_Store
          Outside,       \* the name ..
          maxFileSize, maxTotalSize, maxEntries,   \* the limits of the guard
          MaxJudgings,   \* bound on the judgings of the submission
          MaxKills       \* bound on the crashes of the server

Directory == -1   \* the size of a directory's entry

Paths == {p \in Seq(STRING) : Len(p) > 0}

(* An entry for the directory itself makes nothing and is left out.        *)
ASSUME WorkspaceAssumption ==
  /\ {maxFileSize, maxTotalSize, maxEntries, MaxJudgings, MaxKills} \subseteq Nat
  /\ \A a \in Archives : /\ Len(a) \in Nat /\ DOMAIN a = 1..Len(a)
                         /\ \A i \in DOMAIN a : /\ a[i].size \in Nat \cup {Directory}
                                                /\ a[i].path \in Paths

VARIABLES archive,   \* the submission's archive
          files,     \* the files below src/
          folders,   \* the directories below src/
          at,        \* the step of the extraction
          entries,   \* guard.entries: the entries counted
          written,   \* guard.totalBytes, and what was written beyond it
          moving,    \* the names flattenSingleRoot has yet to move up
          root,      \* the single directory, or the empty path
          judgings, kills,
          torn       \* a crash or a failed rename cut a flattening short

workspaceVars ==
  <<archive, files, folders, at, entries, written, moving, root, judgings, kills, torn>>

Below(dir, p) == Len(p) > Len(dir) /\ SubSeq(p, 1, Len(dir)) = dir

Parents(p) == {SubSeq(p, 1, n) : n \in 1..(Len(p) - 1)}

Names(dir, paths) == {p[Len(dir) + 1] : p \in {q \in paths : Below(dir, q)}}

(* Without the junk beside the directories.                                *)
Kept(paths) == {p \in paths : p[1] \notin Junk}

(* What an archive has, the directories it only implies included.          *)
FilesOf(a) == {a[i].path : i \in {j \in DOMAIN a : a[j].size # Directory}}
FoldersOf(a) == {a[i].path : i \in {j \in DOMAIN a : a[j].size = Directory}}
                  \cup UNION {Parents(a[i].path) : i \in DOMAIN a}

(* Without its junk the archive is a single directory.                     *)
SingleRoot(a) ==
  \E name \in Names(<<>>, Kept(FilesOf(a) \cup FoldersOf(a))) :
    /\ Names(<<>>, Kept(FilesOf(a) \cup FoldersOf(a))) = {name}
    /\ <<name>> \notin FilesOf(a)

(* Paths without their first directory.                                    *)
Raised(paths) == {Tail(p) : p \in {q \in paths : Len(q) > 1}}

(* The source tree an archive stands for: its files without the junk and,  *)
(* if that leaves a single directory, without that directory.              *)
Tree(a) == IF SingleRoot(a) THEN Kept(Raised(Kept(FilesOf(a)))) ELSE Kept(FilesOf(a))

-----------------------------------------------------------------------------
WorkspaceInit ==
  /\ archive \in Archives
  /\ files = {} /\ folders = {}
  /\ at = "waiting" /\ entries = 0 /\ written = 0
  /\ moving = {} /\ root = <<>>
  /\ judgings = 0 /\ kills = 0 /\ torn = FALSE

(* A judging makes src/ if need be and extracts, whatever is in there.     *)
Judge ==
  /\ at \in {"waiting", "done", "failed"} /\ judgings < MaxJudgings
  /\ judgings' = judgings + 1
  /\ at' = "extract" /\ entries' = 0 /\ written' = 0
  /\ UNCHANGED <<archive, files, folders, moving, root, kills, torn>>

Fail == at' = "failed" /\ UNCHANGED <<files, folders, written>>

(* A bug: a file that is there already is not overwritten.                 *)
BlockedByItself(e) ==
  \/ e.path[1] = Outside
  \/ Parents(e.path) \cap files # {}
  \/ e.path \in files \cup folders

Blocked(e) ==
  \/ e.path[1] = Outside
  \/ Parents(e.path) \cap files # {}
  \/ e.size = Directory /\ e.path \in files
  \/ e.size # Directory /\ e.path \in folders

(* A bug: the size in the archive is believed.                             *)
CopiedWhole(e) == e.size

Copied(e) == IF e.size > maxFileSize THEN maxFileSize + 1 ELSE e.size

(* The next entry: count it, join its path, make the directories it needs  *)
(* and write it, one byte beyond the limit of a file at most.  The total   *)
(* is checked when the file is written.                                    *)
ExtractEntry ==
  /\ at = "extract" /\ entries < Len(archive)
  /\ entries' = entries + 1
  /\ LET e == archive[entries + 1]
     IN  IF entries + 1 > maxEntries \/ Blocked(e) THEN Fail
         ELSE IF e.size = Directory
         THEN folders' = folders \cup Parents(e.path) \cup {e.path} /\ UNCHANGED <<at, files, written>>
         ELSE /\ folders' = folders \cup Parents(e.path)
              /\ files' = files \cup {e.path}
              /\ written' = written + Copied(e)
              /\ at' = IF Copied(e) > maxFileSize \/ written' > maxTotalSize
                       THEN "failed" ELSE "extract"
  /\ UNCHANGED <<archive, moving, root, judgings, kills, torn>>

(* flattenSingleRoot removes the junk and reads the single directory.      *)
Flatten ==
  /\ at = "extract" /\ entries = Len(archive)
  /\ files' = Kept(files)
  /\ folders' = Kept(folders)
  /\ LET real == Names(<<>>, files' \cup folders')
     IN  IF \E name \in real : real = {name} /\ <<name>> \in folders'
         THEN /\ root' = <<CHOOSE name \in real : TRUE>>
              /\ moving' = Names(root', files' \cup folders')
              /\ at' = "moving"
         ELSE at' = "done" /\ UNCHANGED <<root, moving>>
  /\ UNCHANGED <<archive, entries, written, judgings, kills, torn>>

(* os.Rename replaces a file by a file and refuses everything else.        *)
Renames(from, to) == to \notin folders /\ (from \in folders => to \notin files)

Moved(paths, from, to) ==
  {IF p = from \/ Below(from, p) THEN to \o SubSeq(p, Len(from) + 1, Len(p)) ELSE p : p \in paths}

(* The entries go up in the order of their names; here in any order.       *)
MoveUp ==
  /\ at = "moving" /\ moving # {}
  /\ \E name \in moving :
       LET from == Append(root, name)
           to   == <<name>>
       IN  IF Renames(from, to)
           THEN /\ files' = Moved(files, from, to)
                /\ folders' = Moved(folders, from, to)
                /\ moving' = moving \ {name}
                /\ UNCHANGED <<at, root, torn>>
           ELSE /\ at' = "failed" /\ moving' = {} /\ root' = <<>> /\ torn' = TRUE
                /\ UNCHANGED <<files, folders>>
  /\ UNCHANGED <<archive, entries, written, judgings, kills>>

(* A bug: the single directory goes before all of it has moved.            *)
RemoveRootEarly ==
  /\ at = "moving"
  /\ folders' = folders \ {root}
  /\ at' = "done" /\ root' = <<>> /\ moving' = {}
  /\ UNCHANGED <<archive, files, entries, written, judgings, kills, torn>>

RemoveRoot ==
  /\ at = "moving" /\ moving = {}
  /\ folders' = folders \ {root}
  /\ at' = "done" /\ root' = <<>>
  /\ UNCHANGED <<archive, files, entries, written, moving, judgings, kills, torn>>

(* The server dies; recovery enqueues the submission for another judging.  *)
Kill ==
  /\ at \in {"extract", "moving"} /\ kills < MaxKills
  /\ kills' = kills + 1
  /\ torn' = (torn \/ at = "moving")
  /\ at' = "waiting" /\ moving' = {} /\ root' = <<>>
  /\ UNCHANGED <<archive, files, folders, entries, written, judgings>>

WorkspaceNext == Judge \/ ExtractEntry \/ Flatten \/ MoveUp \/ RemoveRoot \/ Kill

WorkspaceSpec == WorkspaceInit /\ [][WorkspaceNext]_workspaceVars

-----------------------------------------------------------------------------
(* The directories of every path exist, no path is both a file and a       *)
(* directory, and what is to move is there.                                *)
WorkspaceTypeOK ==
  /\ \A p \in files \cup folders : Parents(p) \subseteq folders
  /\ files \cap folders = {}
  /\ \A name \in moving : Append(root, name) \in files \cup folders
  /\ at \in {"waiting", "extract", "moving", "done", "failed"}
  /\ entries \in 0..Len(archive)

(* What Extract promises, "destDir must exist and be empty; a single       *)
(* directory is flattened": when it succeeds, each file of the source tree *)
(* is where CMake will look for it.                                        *)
SourceComplete == at = "done" => Tree(archive) \subseteq files

(* The sizes of the first entries together.                                *)
Totals(a) ==
  LET total[i \in 0..Len(a)] ==
        IF i = 0 THEN 0
        ELSE total[i - 1] + (IF a[i].size = Directory THEN 0 ELSE a[i].size)
  IN  total

(* The paths a judging may find: the archive's, and what a flattening left. *)
Left(a, paths) == IF SingleRoot(a) THEN paths \cup Raised(Kept(paths)) ELSE paths

(* What can be wrong with an archive: a path outside, a limit, a path that *)
(* is a file and a directory (junk in the single directory may be that     *)
(* only once it is raised), or an entry of the name of the single          *)
(* directory in it.                                                        *)
Refusable ==
  \/ \E i \in DOMAIN archive : archive[i].path[1] = Outside \/ archive[i].size > maxFileSize
  \/ Len(archive) > maxEntries
  \/ Totals(archive)[Len(archive)] > maxTotalSize
  \/ Left(archive, FilesOf(archive)) \cap Left(archive, FoldersOf(archive)) # {}
  \/ /\ SingleRoot(archive)
     /\ \E p \in Kept(FilesOf(archive) \cup FoldersOf(archive)) : Len(p) > 1 /\ p[1] = p[2]

(* The promise outlives a directory that is not empty.  A rerun, and a     *)
(* judging after a crash, end with the whole tree unless an earlier        *)
(* flattening was cut short, by the crash or by a rename that failed; and  *)
(* they fail only for what is in the archive, never for what an earlier    *)
(* judging left in the directory.                                          *)
RejudgingExtractsTheSame ==
  /\ ~torn => SourceComplete
  /\ at = "failed" => Refusable

(* The limits hold for an archive whose sizes lie: it puts no more on the  *)
(* disk than the total and one file, which is cut one byte past its limit. *)
DiskWithinLimits == written <= maxTotalSize + maxFileSize + 1
=============================================================================
