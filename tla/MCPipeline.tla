------------------------------ MODULE MCPipeline ------------------------------
(* Instances of Pipeline for TLC. *)
EXTENDS Pipeline, TLC

Symmetry == Permutations(Ids)

MCFileOrder == <<"p-a", "p-b">>
MCEndsWith == {<<"p-a", "a">>, <<"p-b", "b">>}

\* The problem gains and loses a case, names one that its CMakeLists has never
\* built or no longer builds, and has no case names.
TwoCases == [cases |-> <<"a", "b">>, target |-> "a" :> "p-a" @@ "b" :> "p-b"]
NotBuilt == [cases |-> <<"c", "a">>, target |-> "a" :> "p-a"]
Unbuilt == [cases |-> <<"a", "b">>, target |-> "a" :> "p-a"]
Nameless == [cases |-> <<>>, target |-> "a" :> "p-a"]
MCProblems == {TwoCases, NotBuilt, Unbuilt, Nameless}
MCTwoCases == {TwoCases}

\* Right, crashing, flaky and endless programs.
MCPrograms ==
  {"a" :> {0, 1} @@ "b" :> b @@ "c" :> {0} : b \in {{0}, {139}, {}}}

MCEndless == {"a" :> {0, 1} @@ "b" :> {} @@ "c" :> {}}

\* Daemons: perfect, failing, silent, both. The last does whatever one of the others
\* may do.
AnyDaemon == SUBSET {"fail", "hang"}
Failing == {{"fail"}}
BestOrWorst == {{}, {"fail", "hang"}}
Silent == {{"hang"}}
==============================================================================
