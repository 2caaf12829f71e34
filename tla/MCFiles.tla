------------------------------- MODULE MCFiles -------------------------------
(***************************************************************************)
(* The directories that outlive a request, of a problem and of a           *)
(* submission, for TLC.  They share nothing: a behaviour has steps of one  *)
(* of the two, and the other stays as it was.                              *)
(***************************************************************************)
EXTENDS ProblemStore, Workspace, TLC

StoreSymmetry == Permutations(Puts) \cup Permutations(Versions)

File(path) == [path |-> path, size |-> 1]
Folder(path) == [path |-> path, size |-> Directory]
Sized(name, n) == [path |-> <<name>>, size |-> n]

(* Flat, with one directory, with junk, with an entry named like its       *)
(* directory, with a single directory inside, with a path outside, beyond  *)
(* each limit, and without files.                                          *)
MCArchives ==
  {<<File(<<"main">>), File(<<"lib", "x">>)>>,
   <<Folder(<<"hw">>), File(<<"hw", "main">>), File(<<"hw", "lib", "x">>)>>,
   <<File(<<"mac", "main">>), File(<<"hw", "main">>), File(<<"hw", "lib", "x">>)>>,
   <<File(<<"hw", "main">>), File(<<"hw", "hw">>)>>,
   <<File(<<"hw", "lib", "x">>), File(<<"hw", "lib", "y">>)>>,
   <<File(<<"lib", "x">>)>>,
   <<File(<<"main">>), File(<<"..", "x">>)>>,
   <<File(<<"main">>), Sized("big", 9)>>,
   <<Sized("a", 3), Sized("b", 2), Sized("c", 3), File(<<"d">>)>>,
   <<File(<<"a">>), File(<<"b">>), File(<<"c">>), File(<<"d">>), File(<<"e">>)>>,
   <<Folder(<<"hw">>)>>,
   <<Folder(<<"doc">>), File(<<"hw", "main">>)>>,
   <<File(<<"hw", "mac">>), File(<<"hw", "main">>)>>,
   <<File(<<"hw">>), File(<<"hw", "main">>)>>,
   <<Folder(<<"hw", "hw">>)>>,
   <<File(<<"mac", "x">>), File(<<"hw", "mac">>)>>,
   <<>>}

(* The plain case of an archive with one directory.                        *)
MCSingleRoot == {<<Folder(<<"hw">>), File(<<"hw", "main">>), File(<<"hw", "lib", "x">>)>>}

VARIABLE system   \* whose steps the behaviour has

FilesInit ==
  /\ system \in {"problem", "submission"}
  /\ StoreInit /\ (system = "submission" => dst = Absent)
  /\ WorkspaceInit /\ (system = "problem" => archive = <<>>)

FilesNext ==
  /\ UNCHANGED system
  /\ \/ system = "problem" /\ StoreNext /\ UNCHANGED workspaceVars
     \/ system = "submission" /\ WorkspaceNext /\ UNCHANGED storeVars

FilesSpec == FilesInit /\ [][FilesNext]_<<system, storeVars, workspaceVars>>

(* The type invariants of the two.                                         *)
FilesTypeOK == StoreTypeOK /\ WorkspaceTypeOK
=============================================================================
