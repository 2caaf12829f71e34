---------------------------- MODULE MCJudgeEngine ----------------------------
(* Instances of JudgeEngine for TLC. *)
EXTENDS JudgeEngine, TLC

\* Submissions, handlers and worker names are interchangeable. Used in runs
\* of safety properties only.
Symmetry ==
  Permutations(Subs) \cup Permutations(Handlers) \cup Permutations(Workers)
==============================================================================
