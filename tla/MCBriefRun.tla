----------------------------- MODULE MCBriefRun -----------------------------
(* Instances of BriefRun for TLC. *)
EXTENDS BriefRun, TLC

\* Runs are interchangeable; briefs are not, since depth and consent differ.
RunSymmetry == Permutations(Runs)

\* With every brief of one kind, briefs and calls are interchangeable too.
ReviewSymmetry ==
  Permutations(Briefs) \cup Permutations(Runs) \cup Permutations(Requests)

=============================================================================
