---------------------------- MODULE ResearchGraph ----------------------------
(***************************************************************************)
(* One execution of the LangGraph pipeline build_graph(depth) compiles,    *)
(* with the caller's interrupt/resume loop.  LangGraph runs supersteps:    *)
(* every node of the frontier runs, each with its own database session; at *)
(* the barrier their writes enter the state (lists declared operator.add   *)
(* grow, the others are overwritten) and the edges give the next frontier. *)
(* A node that raises ends the execution: what the superstep wrote to the  *)
(* state is lost, what it committed to the database is not.                *)
(*                                                                         *)
(* What the language models and searches answer is a nondeterministic      *)
(* choice.  A claim's confidence is kept to what check_completion compares *)
(* (below 0.4 or not), a verdict to the list it puts the claim in.         *)
(***************************************************************************)
EXTENDS Integers, FiniteSets

CONSTANTS
  ClaimIds,      \* claims one researcher can extract in one pass
  MaxRevisions   \* bound on "revise" decisions of the reviewer

ASSUME ClaimIdsAssumption == IsFiniteSet(ClaimIds)
ASSUME MaxRevisionsAssumption == MaxRevisions \in Nat

MAX_ITERATIONS == 2
MAX_REPLANS == 2   \* planner.py; nothing reads it

Agents == {"web_search", "domain_knowledge", "data_analyst"}
Nodes == Agents \cup {"supervisor_plan", "fact_check", "replan", "synthesize",
                      "write", "human_review", "complete"}
\* The state's iteration_count identifies the pass a claim was found in.
Claims == [agent : Agents, pass : 0..MAX_ITERATIONS - 1, id : ClaimIds,
           low : BOOLEAN]
ReviewActions == {"approve", "revise", "expand"}
NoAction == "none"

VARIABLES
  depth,             \* of the brief; "deep" is built like "standard"
  frontier,          \* nodes of the current superstep
  done,              \* those that have returned
  pending,           \* claims they return, applied at the barrier
  \* ResearchState
  research_tasks,    \* the agents that have a task
  all_claims,        \* operator.add
  verified_claims, disputed_claims, iteration_count,
  draft_report,      \* [version, verified, disputed]: what it was written from
  human_feedback, final_report,
  \* locals of fact_checker.check
  unchecked, judged,
  \* committed rows
  traces,            \* agent_traces: [agent, pass]
  claim_rows,        \* claims: [claim, check], check the fact-check it came from
  \* the caller
  status,            \* "running", "interrupted", "ended", "failed"
  resume,            \* value of Command(resume=...), or NoAction
  revisions

stateVars == <<research_tasks, all_claims, verified_claims, disputed_claims,
               iteration_count, draft_report, human_feedback, final_report>>
checkVars == <<unchecked, judged>>
dbVars == <<traces, claim_rows>>
callerVars == <<status, resume, revisions>>
vars == <<depth, frontier, done, pending, stateVars, checkVars, dbVars, callerVars>>

NoReport == [version |-> 0, verified |-> {}, disputed |-> {}]

\* initial_state, at the START edge.
Init ==
  /\ depth \in {"quick", "standard"}
  /\ frontier = {"supervisor_plan"}
  /\ done = {}
  /\ pending = {}
  /\ research_tasks = {}
  /\ all_claims = {}
  /\ verified_claims = {}
  /\ disputed_claims = {}
  /\ iteration_count = 0
  /\ draft_report = NoReport
  /\ human_feedback = NoAction
  /\ final_report = NoReport
  /\ unchecked = {}
  /\ judged = {}
  /\ traces = {}
  /\ claim_rows = {}
  /\ status = "running"
  /\ resume = NoAction
  /\ revisions = 0

-----------------------------------------------------------------------------
(* Supersteps *)

\* Node n is alone in its superstep.
Running(n) == status = "running" /\ frontier = {n}
Goto(nodes) == frontier' = nodes /\ done' = {}
Trace(agent) ==
  traces' = traces \cup {[agent |-> agent, pass |-> iteration_count]}

\* Mutant: one graph for every depth.
ResearchNodesAll == Agents
ResearchNodes == IF depth = "quick" THEN Agents \ {"data_analyst"} ELSE Agents

\* supervisor.plan: the parsed plan, or the fallback that tasks web_search.
Plan ==
  /\ Running("supervisor_plan")
  /\ research_tasks' \in SUBSET Agents
  /\ Trace("supervisor")
  /\ Goto(ResearchNodes)
  /\ UNCHANGED <<pending, all_claims, verified_claims, disputed_claims,
                 iteration_count, draft_report, human_feedback, final_report,
                 checkVars, claim_rows, callerVars>>

\* web_search falls back to the topic when it has no task; the others return
\* at once.
Works(a) == a = "web_search" \/ a \in research_tasks

Traced(a) == [agent |-> a, pass |-> iteration_count] \in traces

\* record_trace for one task of agent a, a commit of its own; the agent can
\* still fail at its next task.
TraceTask(a) ==
  /\ status = "running"
  /\ a \in frontier \ done
  /\ Works(a)
  /\ Trace(a)
  /\ UNCHANGED <<frontier, done, pending, stateVars, checkVars, claim_rows,
                 callerVars>>

\* The research coroutine of agent a returns, with its tasks traced: any
\* claims, each below 0.4 or not, for the barrier.
Research(a) ==
  /\ status = "running"
  /\ a \in frontier \ done
  /\ IF Works(a)
     THEN /\ Traced(a)
          /\ \E ids \in SUBSET ClaimIds : \E weak \in SUBSET ids :
               pending' = pending \cup
                 {[agent |-> a, pass |-> iteration_count, id |-> i,
                   low |-> i \in weak] : i \in ids}
     ELSE UNCHANGED pending
  /\ done' = done \cup {a}
  /\ UNCHANGED <<frontier, stateVars, checkVars, dbVars, callerVars>>

\* The barrier: all_claims is an operator.add list.
EndResearch ==
  /\ status = "running"
  /\ frontier # {} /\ frontier \subseteq Agents
  /\ done = frontier
  /\ all_claims' = all_claims \cup pending
  /\ pending' = {}
  /\ Goto({"fact_check"})
  /\ UNCHANGED <<research_tasks, verified_claims, disputed_claims,
                 iteration_count, draft_report, human_feedback, final_report,
                 checkVars, dbVars, callerVars>>

-----------------------------------------------------------------------------
(* fact_checker.check and the conditional edge after it *)

\* Mutant: the bound is off by one.
CheckCompletionLate(iteration, claims) ==
  IF /\ iteration <= MAX_ITERATIONS
     /\ 2 * Cardinality({c \in claims : c.low}) > Cardinality(claims)
  THEN "replan" ELSE "synthesize"
\* check_completion, on the state the node has just updated.
CheckCompletion(iteration, claims) ==
  IF /\ iteration < MAX_ITERATIONS
     /\ 2 * Cardinality({c \in claims : c.low}) > Cardinality(claims)
  THEN "replan" ELSE "synthesize"

\* Mutant: only what the last pass found is judged.
ToCheckNew == {c \in all_claims : c.pass = iteration_count}
\* The gather over state["all_claims"].
ToCheck == all_claims

BeginCheck ==
  /\ Running("fact_check")
  /\ done = {}
  /\ done' = frontier
  /\ unchecked' = ToCheck
  /\ judged' = {}
  /\ UNCHANGED <<frontier, pending, stateVars, dbVars, callerVars>>

\* Mutant: a claim that already has a row is not stored again.
StoreClaimOnce(c) ==
  claim_rows' = IF \E row \in claim_rows : row.claim = c THEN claim_rows
                ELSE claim_rows \cup {[claim |-> c, check |-> iteration_count + 1]}
\* db.add(Claim(...)): a new row at every fact-check.
StoreClaim(c) ==
  claim_rows' = claim_rows \cup {[claim |-> c, check |-> iteration_count + 1]}

\* One turn of the loop: the row, the list, then record_trace, whose commit
\* also commits the row.
JudgeClaim(c) ==
  /\ Running("fact_check")
  /\ c \in unchecked
  /\ unchecked' = unchecked \ {c}
  /\ \E ok \in BOOLEAN : judged' = judged \cup {[claim |-> c, verified |-> ok]}
  /\ StoreClaim(c)
  /\ Trace("fact_checker")
  /\ UNCHANGED <<frontier, done, pending, stateVars, callerVars>>

\* Mutant: the lists grow like all_claims.
UpdateListsByAdding ==
  /\ verified_claims' = verified_claims \cup {j.claim : j \in {k \in judged : k.verified}}
  /\ disputed_claims' = disputed_claims \cup {j.claim : j \in {k \in judged : ~k.verified}}
\* The lists are overwritten, except when there was nothing to check.
UpdateLists ==
  IF all_claims = {} THEN UNCHANGED <<verified_claims, disputed_claims>>
  ELSE /\ verified_claims' = {j.claim : j \in {k \in judged : k.verified}}
       /\ disputed_claims' = {j.claim : j \in {k \in judged : ~k.verified}}

\* Mutant: the count is forgotten.
CountNothing == iteration_count
CountIteration == iteration_count + 1

EndCheck ==
  /\ Running("fact_check")
  /\ done = frontier
  /\ unchecked = {}
  /\ UpdateLists
  /\ iteration_count' = CountIteration
  /\ judged' = {}
  /\ Goto({CheckCompletion(iteration_count', all_claims)})
  /\ UNCHANGED <<pending, research_tasks, all_claims, draft_report,
                 human_feedback, final_report, unchecked, dbVars, callerVars>>

\* _replan: new tasks for any agents, but the only edge leads to web_search.
Replan ==
  /\ Running("replan")
  /\ research_tasks' \in SUBSET Agents
  /\ Trace("supervisor")
  /\ Goto({"web_search"})
  /\ UNCHANGED <<pending, all_claims, verified_claims, disputed_claims,
                 iteration_count, draft_report, human_feedback, final_report,
                 checkVars, claim_rows, callerVars>>

-----------------------------------------------------------------------------
(* Writing and review *)

Synthesize ==
  /\ Running("synthesize")
  /\ Trace("synthesis")
  /\ Goto({"write"})
  /\ UNCHANGED <<pending, stateVars, checkVars, claim_rows, callerVars>>

\* Mutant: the short route for every depth.
AfterWriteShort == "complete"
\* A quick graph has no human_review node.
AfterWrite == IF depth = "quick" THEN "complete" ELSE "human_review"

Write ==
  /\ Running("write")
  /\ draft_report' = [version |-> draft_report.version + 1,
                      verified |-> verified_claims, disputed |-> disputed_claims]
  /\ Trace("writer")
  /\ Goto({AfterWrite})
  /\ UNCHANGED <<pending, research_tasks, all_claims, verified_claims,
                 disputed_claims, iteration_count, human_feedback, final_report,
                 checkVars, claim_rows, callerVars>>

\* _human_review without a resume value: interrupt() stops the execution.
Interrupt ==
  /\ Running("human_review")
  /\ resume = NoAction
  /\ status' = "interrupted"
  /\ UNCHANGED <<frontier, done, pending, stateVars, checkVars, dbVars, resume,
                 revisions>>

\* _execute_graph hands over the reviewer's decision (or the timeout's).
Resume(action) ==
  /\ status = "interrupted"
  /\ action = "revise" => revisions < MaxRevisions
  /\ revisions' = revisions + (IF action = "revise" THEN 1 ELSE 0)
  /\ resume' = action
  /\ status' = "running"
  /\ UNCHANGED <<frontier, done, pending, stateVars, checkVars, dbVars>>

\* Mutant: a revision that is not written again.
ReviewDecisionStale(action) == "complete"
\* _review_decision.
ReviewDecision(action) == IF action = "revise" THEN "synthesize" ELSE "complete"

\* _human_review runs again from its start; interrupt() now returns the value.
Reviewed ==
  /\ Running("human_review")
  /\ resume # NoAction
  /\ human_feedback' = resume
  /\ resume' = NoAction
  /\ Goto({ReviewDecision(resume)})
  /\ UNCHANGED <<pending, research_tasks, all_claims, verified_claims,
                 disputed_claims, iteration_count, draft_report, final_report,
                 checkVars, dbVars, status, revisions>>

Complete ==
  /\ Running("complete")
  /\ final_report' = draft_report
  /\ status' = "ended"
  /\ Goto({})
  /\ UNCHANGED <<pending, research_tasks, all_claims, verified_claims,
                 disputed_claims, iteration_count, draft_report, human_feedback,
                 checkVars, dbVars, resume, revisions>>

\* A node raises: ainvoke raises, and no checkpoint outlives the task.
NodeFails ==
  /\ status = "running"
  /\ status' = "failed"
  /\ UNCHANGED <<frontier, done, pending, stateVars, checkVars, dbVars, resume,
                 revisions>>

-----------------------------------------------------------------------------
Step == \/ Plan \/ (\E a \in Agents : TraceTask(a) \/ Research(a)) \/ EndResearch
        \/ BeginCheck \/ (\E c \in unchecked : JudgeClaim(c)) \/ EndCheck
        \/ Replan \/ Synthesize \/ Write \/ Interrupt \/ Reviewed \/ Complete

Next == /\ Step \/ (\E action \in ReviewActions : Resume(action)) \/ NodeFails
        /\ UNCHANGED depth

Spec == Init /\ [][Next]_vars
\* The executor runs every node of the frontier; the reviewer owes nothing
\* here (BriefRun shows that the wait for one is bounded).
FairSpec == Spec /\ WF_vars(Step /\ UNCHANGED depth)

-----------------------------------------------------------------------------
(* Properties *)

Reports == [version : Nat, verified : SUBSET Claims, disputed : SUBSET Claims]

\* Every variable keeps its type; iteration_count never exceeds its bound.
TypeOK ==
  /\ depth \in {"quick", "standard"}
  /\ frontier \in SUBSET Nodes /\ done \in SUBSET frontier
  /\ pending \in SUBSET Claims
  /\ research_tasks \in SUBSET Agents
  /\ all_claims \in SUBSET Claims
  /\ verified_claims \in SUBSET Claims /\ disputed_claims \in SUBSET Claims
  /\ iteration_count \in 0..MAX_ITERATIONS
  /\ draft_report \in Reports /\ final_report \in Reports
  /\ human_feedback \in ReviewActions \cup {NoAction}
  /\ unchecked \in SUBSET Claims
  /\ judged \in SUBSET [claim : Claims, verified : BOOLEAN]
  /\ traces \in SUBSET [agent : Agents \cup {"supervisor", "fact_checker",
                                            "synthesis", "writer"},
                        pass : 0..MAX_ITERATIONS]
  /\ claim_rows \in SUBSET [claim : Claims, check : 1..MAX_ITERATIONS]
  /\ status \in {"running", "interrupted", "ended", "failed"}
  /\ resume \in ReviewActions \cup {NoAction}
  /\ revisions \in 0..MaxRevisions

\* Nodes that run on the outcome of a fact-check.
Downstream == {"replan", "synthesize", "write", "human_review", "complete"}

\* No finding falls between the lists: after a fact-check every accumulated
\* claim is in the verified or the disputed list, and a draft was written from
\* all of them, although all_claims grows over the passes while the two lists
\* are overwritten by each.
NoClaimLost ==
  /\ frontier \cap Downstream # {} =>
       verified_claims \cup disputed_claims = all_claims
  /\ draft_report.version > 0 =>
       draft_report.verified \cup draft_report.disputed = all_claims

\* A claim re-checked after a replan has one verdict, the last.
OneVerdictPerClaim ==
  /\ verified_claims \cap disputed_claims = {}
  /\ draft_report.verified \cap draft_report.disputed = {}

\* The fact-checks that judged c: all that are over since it was found, and the
\* one under way, or stopped by a failure, once it has reached c.
JudgedBy(c) == (c.pass + 1)..iteration_count
                 \cup {iteration_count + 1 : j \in {k \in judged : k.claim = c}}

\* The claims table holds one row for each claim and fact-check that judged it,
\* in the middle of a check and wherever the execution failed too: a claim of
\* the first pass has two rows after a replan (readers that count rows count
\* checks), and what researchers had found when their superstep failed has
\* none, whatever they had traced.
RowsMatchChecks ==
  /\ \A row \in claim_rows : row.claim \in all_claims
  /\ \A c \in all_claims :
       {row.check : row \in {x \in claim_rows : x.claim = c}} = JudgedBy(c)

\* What is published is the draft the last decision was about, and that
\* decision was not "revise"; every revision produced a draft of its own.
PublishedAsReviewed ==
  status = "ended" =>
    /\ final_report = draft_report
    /\ depth # "quick" => /\ human_feedback \in {"approve", "expand"}
                          /\ final_report.version = revisions + 1

\* "depth=quick skips data_analyst and human_review entirely."
QuickSkips ==
  depth = "quick" =>
    /\ status # "interrupted" /\ revisions = 0
    /\ \A t \in traces : t.agent # "data_analyst"
    /\ \A c \in all_claims : c.agent # "data_analyst"

\* What the frontier says about the rest of the state: the facts that make the
\* invariants above inductive.  Nodes before the second fact-check's verdict
\* run below the bound ...
BudgetKept ==
  /\ frontier \cap (Agents \cup {"supervisor_plan", "fact_check"}) # {} =>
       iteration_count < MAX_ITERATIONS
  /\ frontier = {"replan"} => iteration_count = 1

\* ... a fact-check in progress has each claim either judged, once, or still to
\* judge, and nobody researches once there is a draft ...
ChecksAgree ==
  /\ verified_claims \cup disputed_claims \subseteq all_claims
  /\ frontier = {"fact_check"} /\ done = frontier =>
       unchecked \cup {j.claim : j \in judged} = all_claims
  /\ \A j \in judged : j.claim \notin unchecked
  /\ \A j, k \in judged : j.claim = k.claim => j = k
  /\ draft_report.version > 0 =>
       frontier \subseteq {"synthesize", "write", "human_review", "complete"}

\* ... and only the review node waits for, or holds, a decision, on the draft
\* that follows the last revision.
ReviewAgrees ==
  /\ status = "ended" <=> frontier = {}
  /\ status = "interrupted" => frontier = {"human_review"} /\ resume = NoAction
  /\ resume # NoAction => frontier = {"human_review"}
  /\ depth = "quick" => frontier # {"human_review"} /\ revisions = 0
  /\ draft_report.version =
       revisions + (IF /\ frontier \in {{"human_review"}, {"complete"}, {}}
                       /\ resume # "revise"
                    THEN 1 ELSE 0)
  /\ frontier \in {{"complete"}, {}} /\ depth # "quick" =>
       human_feedback \in {"approve", "expand"}

StateConsistent == BudgetKept /\ ChecksAgree /\ ReviewAgrees

\* The pipeline never runs for ever: it ends, fails or asks the reviewer.
GraphStops == []<>(status # "running")

\* What the review page tells its user: "Expansion requested - resuming
\* research...".
ExpansionResumesResearch ==
  human_feedback = "expand" => frontier # {"complete"}

\* What planner.py ("Bounded by MAX_REPLANS") and the README's graph ("loop, max
\* 2x") say of replanning: the first draft is written in spite of a majority
\* of weak claims only when MAX_REPLANS passes have followed the first.
ReplansUntilBudget ==
  frontier = {"synthesize"} /\ draft_report.version = 0 =>
    \/ 2 * Cardinality({c \in all_claims : c.low}) <= Cardinality(all_claims)
    \/ iteration_count - 1 >= MAX_REPLANS

-----------------------------------------------------------------------------
(* Refinement *)

Phase ==
  CASE status = "failed" -> "failed"
    [] status = "ended" -> "finished"
    [] status = "interrupted" -> "reviewing"
    [] status = "running" /\ resume # NoAction ->
         IF ReviewDecision(resume) = "synthesize" THEN "drafting" ELSE "accepted"
    [] status = "running" /\ resume = NoAction ->
         IF frontier = {"human_review"} THEN "drafted"
         ELSE IF frontier # {"complete"} THEN "drafting"
         ELSE IF depth = "quick" THEN "drafted" ELSE "accepted"

Contract == INSTANCE ReviewContract WITH phase <- Phase, quick <- depth = "quick"

\* The compiled graph, superstep by superstep, keeps the promise made to the
\* reviewer.
ImplementsContract == Contract!Spec

=============================================================================
