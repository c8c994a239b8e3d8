--------------------------- MODULE ReviewContract ---------------------------
(***************************************************************************)
(* What one execution of a brief promises its reviewer: nothing is         *)
(* published before it was drafted, no reviewed depth before the reviewer  *)
(* (or the deadline) accepted the current draft, and a revision leads to a *)
(* new draft before anybody is asked again.  ResearchGraph implements it,  *)
(* and so does every run of BriefRun: the two views of the pipeline agree. *)
(***************************************************************************)

VARIABLES phase, quick

Phases == {"drafting", "drafted", "reviewing", "accepted", "finished", "failed"}

Init == phase = "drafting"

Draft == phase = "drafting" /\ phase' = "drafted"
Ask == phase = "drafted" /\ ~quick /\ phase' = "reviewing"
Decide == phase = "reviewing" /\ phase' \in {"drafting", "accepted"}
Publish == /\ phase = "accepted" \/ (phase = "drafted" /\ quick)
           /\ phase' = "finished"
Fail == phase \notin {"finished", "failed"} /\ phase' = "failed"

Next == Draft \/ Ask \/ Decide \/ Publish \/ Fail

Spec == Init /\ [][Next]_phase

=============================================================================
