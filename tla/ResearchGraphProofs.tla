------------------------ MODULE ResearchGraphProofs ------------------------
(***************************************************************************)
(* What ResearchGraph promises for any claims a researcher can extract and *)
(* any number of revisions: types and the bound on passes, then the claim  *)
(* lists, then the review, then the contract every execution keeps.        *)
(***************************************************************************)
EXTENDS ResearchGraph, TLAPS

\* The inductive invariant of the type proof: a pass is numbered below
\* MAX_ITERATIONS only because research runs only below the bound.
TypeInv == TypeOK /\ BudgetKept

\* The initial state of an execution (state.py, initial_state) is typed.
LEMMA TypeInit == Init => TypeInv
<1> SUFFICES ASSUME Init PROVE TypeInv
  OBVIOUS
<1>1. TypeOK
  BY MaxRevisionsAssumption
  DEF Init, TypeOK, Nodes, Reports, NoReport, ReviewActions, NoAction, MAX_ITERATIONS
<1>2. BudgetKept
  BY DEF Init, BudgetKept, MAX_ITERATIONS
<1> QED BY <1>1, <1>2 DEF TypeInv

\* Every node's writes to the state, to the rows and to the next frontier keep
\* the types and the bound.
LEMMA TypeStep == TypeInv /\ [Next]_vars => TypeInv'
<1> SUFFICES ASSUME TypeInv, [Next]_vars PROVE TypeInv'
  OBVIOUS
<1> USE MaxRevisionsAssumption
    DEF TypeInv, TypeOK, BudgetKept, MAX_ITERATIONS, Nodes,
        Agents
<1>1. ASSUME Plan, UNCHANGED depth PROVE TypeInv'
  BY <1>1 DEF Plan, Running, Goto, Trace, ResearchNodes, checkVars, callerVars
<1>2. ASSUME NEW a \in Agents, Research(a), UNCHANGED depth PROVE TypeInv'
  <2>1. CASE Works(a)
    <3>0. \E ids \in SUBSET ClaimIds : \E weak \in SUBSET ids :
            pending' = pending \cup
                 {[agent |-> a, pass |-> iteration_count, id |-> i,
                   low |-> i \in weak] : i \in ids}
      BY Zenon, <1>2, <2>1 DEF Research
    <3>1. PICK ids \in SUBSET ClaimIds, weak \in SUBSET ClaimIds :
            pending' = pending \cup
                 {[agent |-> a, pass |-> iteration_count, id |-> i,
                   low |-> i \in weak] : i \in ids}
      BY <3>0
    <3>2. iteration_count \in 0..MAX_ITERATIONS - 1
      BY <1>2 DEF Research
    <3>3. \A i \in ids : [agent |-> a, pass |-> iteration_count, id |-> i,
                           low |-> i \in weak] \in Claims
      BY <3>2 DEF Claims
    <3>4. pending' \in SUBSET Claims
      BY <3>1, <3>3
    <3> QED
      BY <1>2, <3>4
      DEF Research, stateVars, checkVars, dbVars, callerVars
  <2>2. CASE ~Works(a)
    BY <1>2, <2>2 DEF Research, stateVars, checkVars, dbVars, callerVars
  <2> QED BY <2>1, <2>2
<1>3. ASSUME EndResearch, UNCHANGED depth PROVE TypeInv'
  BY <1>3 DEF EndResearch, Goto, checkVars, dbVars, callerVars
<1>4. ASSUME BeginCheck, UNCHANGED depth PROVE TypeInv'
  BY <1>4 DEF BeginCheck, Running, ToCheck, stateVars, dbVars, callerVars
<1>5. ASSUME NEW c \in unchecked, JudgeClaim(c), UNCHANGED depth PROVE TypeInv'
  <2>1. iteration_count \in 0..MAX_ITERATIONS - 1
    BY <1>5 DEF JudgeClaim, Running
  <2>2. claim_rows' \in SUBSET [claim : Claims, check : 1..MAX_ITERATIONS]
    BY <1>5, <2>1 DEF JudgeClaim, StoreClaim
  <2>3. judged' \in SUBSET [claim : Claims, verified : BOOLEAN]
    BY <1>5 DEF JudgeClaim
  <2>4. traces' \in SUBSET [agent : Agents \cup {"supervisor", "fact_checker",
                                                "synthesis", "writer"},
                           pass : 0..MAX_ITERATIONS]
    BY <1>5 DEF JudgeClaim, Trace
  <2> QED
    BY <1>5, <2>2, <2>3, <2>4
    DEF JudgeClaim, Running, stateVars, callerVars
<1>6. ASSUME EndCheck, UNCHANGED depth PROVE TypeInv'
  <2>1. iteration_count' = iteration_count + 1 /\ iteration_count < MAX_ITERATIONS
    BY <1>6 DEF EndCheck, Running, CountIteration
  <2>2. \/ frontier' = {"replan"} /\ iteration_count' = 1
        \/ frontier' = {"synthesize"}
    BY <1>6, <2>1 DEF EndCheck, Goto, CheckCompletion
  <2>3. verified_claims' \in SUBSET Claims /\ disputed_claims' \in SUBSET Claims
    BY <1>6 DEF EndCheck, UpdateLists
  <2> QED
    BY <1>6, <2>1, <2>2, <2>3 DEF EndCheck, Goto, dbVars, callerVars
<1>7. ASSUME Replan, UNCHANGED depth PROVE TypeInv'
  BY <1>7 DEF Replan, Running, Goto, Trace, checkVars, callerVars
<1>8. ASSUME Synthesize, UNCHANGED depth PROVE TypeInv'
  BY <1>8 DEF Synthesize, Goto, Trace, stateVars, checkVars, callerVars
<1>9. ASSUME Write, UNCHANGED depth PROVE TypeInv'
  <2>1. draft_report' \in Reports
    BY <1>9 DEF Write, Reports
  <2> QED
    BY <1>9, <2>1 DEF Write, AfterWrite, Goto, Trace, checkVars, callerVars
<1>10. ASSUME Interrupt, UNCHANGED depth PROVE TypeInv'
  BY <1>10 DEF Interrupt, stateVars, checkVars, dbVars
<1>11. ASSUME NEW action \in ReviewActions, Resume(action), UNCHANGED depth
       PROVE TypeInv'
  BY <1>11 DEF Resume, stateVars, checkVars, dbVars
<1>12. ASSUME Reviewed, UNCHANGED depth PROVE TypeInv'
  BY <1>12 DEF Reviewed, ReviewDecision, Goto, checkVars, dbVars, NoAction
<1>13. ASSUME Complete, UNCHANGED depth PROVE TypeInv'
  BY <1>13 DEF Complete, Goto, checkVars, dbVars
<1>14. ASSUME NodeFails, UNCHANGED depth PROVE TypeInv'
  BY <1>14 DEF NodeFails, stateVars, checkVars, dbVars
<1>15. ASSUME UNCHANGED vars PROVE TypeInv'
  BY <1>15 DEF vars, stateVars, checkVars, dbVars, callerVars
<1>16. ASSUME NEW a \in Agents, TraceTask(a), UNCHANGED depth PROVE TypeInv'
  BY <1>16 DEF TraceTask, Trace, stateVars, checkVars, callerVars
<1> QED
  BY <1>1, <1>2, <1>3, <1>4, <1>5, <1>6, <1>7, <1>8, <1>9, <1>10, <1>11,
     <1>12, <1>13, <1>14, <1>15, <1>16
  DEF Next, Step

\* Types hold always; in particular iteration_count never passes
\* MAX_ITERATIONS, so the pass numbers and fact-check numbers of the rows stay
\* within the bound check_completion sets.
THEOREM TypeCorrect == Spec => []TypeOK
<1>1. Spec => []TypeInv
  BY TypeInit, TypeStep, PTL DEF Spec
<1>2. TypeInv => TypeOK
  BY DEF TypeInv
<1> QED BY <1>1, <1>2, PTL

-----------------------------------------------------------------------------
(* The claim lists *)

\* Nothing has been checked or drafted at the start.
LEMMA ChecksInit == Init => ChecksAgree
BY DEF Init, ChecksAgree, NoReport

\* One turn of the fact-check loop moves a claim from unchecked to judged, with
\* one verdict.
LEMMA JudgeStep ==
  ASSUME TypeInv, ChecksAgree, NEW c \in unchecked, JudgeClaim(c)
  PROVE  ChecksAgree'
<1>1. PICK ok \in BOOLEAN : judged' = judged \cup {[claim |-> c, verified |-> ok]}
  BY DEF JudgeClaim
<1>2. /\ unchecked' = unchecked \ {c}
      /\ UNCHANGED <<frontier, done, all_claims, verified_claims,
                     disputed_claims, draft_report>>
  BY DEF JudgeClaim, stateVars
<1>3. (unchecked \cup {j.claim : j \in judged})' =
        unchecked \cup {j.claim : j \in judged}
  <2> DEFINE new == [claim |-> c, verified |-> ok]
  <2>1. new.claim = c
    OBVIOUS
  <2>2. judged' = judged \cup {new}
    BY <1>1
  <2> HIDE DEF new
  <2>3. {j.claim : j \in judged'} = {j.claim : j \in judged} \cup {c}
    BY <2>1, <2>2
  <2> QED BY <1>2, <2>3
<1>4. \A j \in judged' : j.claim \notin unchecked'
  BY <1>1, <1>2 DEF ChecksAgree
<1>5. \A j, k \in judged' : j.claim = k.claim => j = k
  BY <1>1, <1>2 DEF ChecksAgree
<1> QED BY <1>2, <1>3, <1>4, <1>5 DEF ChecksAgree

\* Every step of the pipeline keeps the lists in agreement with all_claims.
LEMMA ChecksStep == TypeInv /\ ChecksAgree /\ [Next]_vars => ChecksAgree'
<1> SUFFICES ASSUME TypeInv, ChecksAgree, [Next]_vars PROVE ChecksAgree'
  OBVIOUS
<1> USE DEF TypeInv, TypeOK, Agents, Nodes
<1>1. ASSUME Plan, UNCHANGED depth PROVE ChecksAgree'
  BY <1>1 DEF Plan, ChecksAgree, Running, Goto, ResearchNodes, checkVars, Reports
<1>2. ASSUME NEW a \in Agents, Research(a), UNCHANGED depth PROVE ChecksAgree'
  BY <1>2 DEF Research, ChecksAgree, stateVars, checkVars
<1>3. ASSUME EndResearch, UNCHANGED depth PROVE ChecksAgree'
  <2>1. ~(draft_report.version > 0)
    BY <1>3 DEF EndResearch, ChecksAgree
  <2> QED BY <1>3, <2>1 DEF EndResearch, ChecksAgree, Goto, checkVars
<1>4. ASSUME BeginCheck, UNCHANGED depth PROVE ChecksAgree'
  BY <1>4 DEF BeginCheck, ChecksAgree, ToCheck, stateVars
<1>5. ASSUME NEW c \in unchecked, JudgeClaim(c), UNCHANGED depth
      PROVE ChecksAgree'
  BY <1>5, JudgeStep
<1>6. ASSUME EndCheck, UNCHANGED depth PROVE ChecksAgree'
  <2>1. ~(draft_report.version > 0)
    BY <1>6 DEF EndCheck, Running, ChecksAgree
  <2>2. (verified_claims \cup disputed_claims \subseteq all_claims)'
    BY <1>6 DEF EndCheck, Running, UpdateLists, ChecksAgree
  <2> QED
    BY <1>6, <2>1, <2>2 DEF EndCheck, ChecksAgree, Goto
<1>7. ASSUME Replan, UNCHANGED depth PROVE ChecksAgree'
  BY <1>7 DEF Replan, Running, ChecksAgree, Goto, checkVars
<1>8. ASSUME Synthesize, UNCHANGED depth PROVE ChecksAgree'
  BY <1>8 DEF Synthesize, Running, ChecksAgree, Goto, stateVars, checkVars
<1>9. ASSUME Write, UNCHANGED depth PROVE ChecksAgree'
  BY <1>9 DEF Write, Running, AfterWrite, ChecksAgree, Goto, checkVars
<1>10. ASSUME Interrupt, UNCHANGED depth PROVE ChecksAgree'
  BY <1>10 DEF Interrupt, ChecksAgree, stateVars, checkVars
<1>11. ASSUME NEW action \in ReviewActions, Resume(action), UNCHANGED depth
       PROVE ChecksAgree'
  BY <1>11 DEF Resume, ChecksAgree, stateVars, checkVars
<1>12. ASSUME Reviewed, UNCHANGED depth PROVE ChecksAgree'
  BY <1>12 DEF Reviewed, Running, ReviewDecision, ChecksAgree, Goto, checkVars
<1>13. ASSUME Complete, UNCHANGED depth PROVE ChecksAgree'
  BY <1>13 DEF Complete, Running, ChecksAgree, Goto, checkVars
<1>14. ASSUME NodeFails, UNCHANGED depth PROVE ChecksAgree'
  BY <1>14 DEF NodeFails, ChecksAgree, stateVars, checkVars
<1>15. ASSUME UNCHANGED vars PROVE ChecksAgree'
  BY <1>15 DEF vars, ChecksAgree, stateVars, checkVars
<1>16. ASSUME NEW a \in Agents, TraceTask(a), UNCHANGED depth PROVE ChecksAgree'
  BY <1>16 DEF TraceTask, ChecksAgree, stateVars, checkVars
<1> QED
  BY <1>1, <1>2, <1>3, <1>4, <1>5, <1>6, <1>7, <1>8, <1>9, <1>10, <1>11,
     <1>12, <1>13, <1>14, <1>15, <1>16
  DEF Next, Step

\* NoClaimLost and OneVerdictPerClaim are inductive together with the facts
\* above: the lists are rewritten only by EndCheck, and the draft only by Write.
LEMMA CoverStep ==
  ASSUME TypeInv, ChecksAgree, NoClaimLost, OneVerdictPerClaim, [Next]_vars
  PROVE  NoClaimLost' /\ OneVerdictPerClaim'
<1> DEFINE Goal == NoClaimLost' /\ OneVerdictPerClaim'
<1> USE DEF TypeInv, TypeOK, Agents, Nodes, Downstream
<1>1. ASSUME Plan, UNCHANGED depth PROVE Goal
  BY <1>1 DEF Plan, Running, Goto, ResearchNodes, NoClaimLost, OneVerdictPerClaim
<1>2. ASSUME NEW a \in Agents, Research(a), UNCHANGED depth PROVE Goal
  BY <1>2 DEF Research, stateVars, NoClaimLost, OneVerdictPerClaim
<1>3. ASSUME EndResearch, UNCHANGED depth PROVE Goal
  <2>1. ~(draft_report.version > 0)
    BY <1>3 DEF EndResearch, ChecksAgree
  <2> QED
    BY <1>3, <2>1 DEF EndResearch, Goto, NoClaimLost, OneVerdictPerClaim
<1>4. ASSUME BeginCheck, UNCHANGED depth PROVE Goal
  BY <1>4 DEF BeginCheck, Running, stateVars, NoClaimLost, OneVerdictPerClaim
<1>5. ASSUME NEW c \in unchecked, JudgeClaim(c), UNCHANGED depth PROVE Goal
  BY <1>5 DEF JudgeClaim, Running, stateVars, NoClaimLost, OneVerdictPerClaim
<1>6. ASSUME EndCheck, UNCHANGED depth PROVE Goal
  <2>1. UNCHANGED draft_report /\ UNCHANGED all_claims /\ ~(draft_report.version > 0)
    BY <1>6 DEF EndCheck, Running, ChecksAgree
  <2>2. {j.claim : j \in judged} = all_claims
    BY <1>6 DEF EndCheck, Running, ChecksAgree
  <2>3. /\ (verified_claims \cup disputed_claims)' = all_claims
        /\ (verified_claims \cap disputed_claims)' = {}
    <3>1. CASE all_claims = {}
      BY <1>6, <3>1 DEF EndCheck, UpdateLists, ChecksAgree
    <3>2. CASE all_claims # {}
      BY <1>6, <2>2, <3>2 DEF EndCheck, UpdateLists, ChecksAgree
    <3> QED BY <3>1, <3>2
  <2> QED BY <2>1, <2>3 DEF NoClaimLost, OneVerdictPerClaim
<1>7. ASSUME Replan, UNCHANGED depth PROVE Goal
  BY <1>7 DEF Replan, Running, Goto, NoClaimLost, OneVerdictPerClaim
<1>8. ASSUME Synthesize, UNCHANGED depth PROVE Goal
  BY <1>8 DEF Synthesize, Running, Goto, stateVars, NoClaimLost, OneVerdictPerClaim
<1>9. ASSUME Write, UNCHANGED depth PROVE Goal
  BY <1>9 DEF Write, Running, Goto, AfterWrite, NoClaimLost, OneVerdictPerClaim
<1>10. ASSUME Interrupt, UNCHANGED depth PROVE Goal
  BY <1>10 DEF Interrupt, stateVars, NoClaimLost, OneVerdictPerClaim
<1>11. ASSUME NEW action \in ReviewActions, Resume(action), UNCHANGED depth
       PROVE Goal
  BY <1>11 DEF Resume, stateVars, NoClaimLost, OneVerdictPerClaim
<1>12. ASSUME Reviewed, UNCHANGED depth PROVE Goal
  BY <1>12 DEF Reviewed, Running, Goto, NoClaimLost, OneVerdictPerClaim
<1>13. ASSUME Complete, UNCHANGED depth PROVE Goal
  BY <1>13 DEF Complete, Goto, NoClaimLost, OneVerdictPerClaim
<1>14. ASSUME NodeFails, UNCHANGED depth PROVE Goal
  BY <1>14 DEF NodeFails, stateVars, NoClaimLost, OneVerdictPerClaim
<1>15. ASSUME UNCHANGED vars PROVE Goal
  BY <1>15 DEF vars, stateVars, NoClaimLost, OneVerdictPerClaim
<1>16. ASSUME NEW a \in Agents, TraceTask(a), UNCHANGED depth PROVE Goal
  BY <1>16 DEF TraceTask, stateVars, NoClaimLost, OneVerdictPerClaim
<1> QED
  BY <1>1, <1>2, <1>3, <1>4, <1>5, <1>6, <1>7, <1>8, <1>9, <1>10, <1>11,
     <1>12, <1>13, <1>14, <1>15, <1>16
  DEF Next, Step

\* However many passes, re-checks, revisions and failures there are, no finding
\* is dropped between the lists or carries two verdicts when a report is
\* drafted from them (fact_checker.check, synthesis.synthesize, writer.write).
THEOREM ClaimsAccounted == Spec => [](NoClaimLost /\ OneVerdictPerClaim)
<1> DEFINE Inv == TypeInv /\ ChecksAgree /\ NoClaimLost /\ OneVerdictPerClaim
<1>1. Init => Inv
  <2>1. Init => NoClaimLost /\ OneVerdictPerClaim
    BY DEF Init, NoClaimLost, OneVerdictPerClaim, Downstream, NoReport
  <2> QED BY <2>1, TypeInit, ChecksInit
<1>2. Inv /\ [Next]_vars => Inv'
  BY TypeStep, ChecksStep, CoverStep
<1>3. Inv => NoClaimLost /\ OneVerdictPerClaim
  OBVIOUS
<1> QED BY <1>1, <1>2, <1>3, PTL DEF Spec

\* No claim ends with two verdicts, in the lists or in a draft, although every
\* claim of the first pass is judged again after a replan.
THEOREM OneVerdict == Spec => []OneVerdictPerClaim
<1>1. NoClaimLost /\ OneVerdictPerClaim => OneVerdictPerClaim
  OBVIOUS
<1> QED BY <1>1, ClaimsAccounted, PTL

-----------------------------------------------------------------------------
(* The rows of the claims table *)

\* The pass of a finding against the count of the state it is in: pending ones
\* are of the pass under way, accumulated ones of a pass whose fact-check is
\* over or, at fact_check, at hand; and only a fact-check under way has
\* something to judge or judged.
FindingsAgree ==
  /\ \A c \in pending : c.pass = iteration_count
  /\ pending # {} => frontier \cap Agents # {}
  /\ \A c \in all_claims :
       c.pass < iteration_count + (IF frontier = {"fact_check"} THEN 1 ELSE 0)
  /\ unchecked # {} \/ judged # {} => frontier = {"fact_check"} /\ done = frontier

HasRow(c, k) == [claim |-> c, check |-> k] \in claim_rows
\* Fact-check k saw claim c: it is over, or it is at hand and has judged c.
CheckSaw(c, k) == \/ k \in (c.pass + 1)..iteration_count
                  \/ k = iteration_count + 1 /\ \E j \in judged : j.claim = c
\* RowsMatchChecks, row by row.
RowsCount ==
  /\ \A row \in claim_rows : row.claim \in all_claims
  /\ \A c \in all_claims, k \in 1..MAX_ITERATIONS : HasRow(c, k) <=> CheckSaw(c, k)

\* A node other than the researchers and the fact-checker touches neither the
\* findings nor their rows.
LEMMA QuietStep ==
  ASSUME FindingsAgree, RowsCount,
         frontier # {"fact_check"}, frontier' # {"fact_check"},
         frontier' = frontier \/ frontier \cap Agents = {},
         UNCHANGED <<pending, all_claims, claim_rows, unchecked, judged,
                     iteration_count>>
  PROVE  FindingsAgree' /\ RowsCount'
<1>1. FindingsAgree'
  BY DEF FindingsAgree
<1>2. RowsCount'
  BY DEF RowsCount, HasRow, CheckSaw
<1> QED BY <1>1, <1>2

\* The barrier adds findings of the pass under way; no fact-check has seen
\* them, and no row is about them.
LEMMA BarrierStep ==
  ASSUME TypeInv, FindingsAgree, RowsCount, EndResearch
  PROVE  FindingsAgree' /\ RowsCount'
<1>1. /\ all_claims' = all_claims \cup pending
      /\ pending' = {}
      /\ frontier' = {"fact_check"}
      /\ UNCHANGED <<iteration_count, unchecked, judged, claim_rows>>
  BY DEF EndResearch, Goto, checkVars, dbVars
<1>2. frontier # {"fact_check"} /\ unchecked = {} /\ judged = {}
  BY DEF EndResearch, Agents, FindingsAgree
<1>3. iteration_count \in Nat /\ \A c \in all_claims \cup pending : c.pass \in Nat
  BY DEF TypeInv, TypeOK, Claims, MAX_ITERATIONS
<1>4. FindingsAgree'
  BY <1>1, <1>2, <1>3 DEF FindingsAgree
<1>5. \A c \in pending, k \in 1..MAX_ITERATIONS : ~HasRow(c, k) /\ ~CheckSaw(c, k)
  <2> SUFFICES ASSUME NEW c \in pending, NEW k \in 1..MAX_ITERATIONS
               PROVE  ~HasRow(c, k) /\ ~CheckSaw(c, k)
    OBVIOUS
  <2>1. c.pass = iteration_count
    BY DEF FindingsAgree
  <2>2. c \notin all_claims
    BY <1>2, <1>3, <2>1 DEF FindingsAgree
  <2>3. ~HasRow(c, k)
    BY <2>2 DEF RowsCount, HasRow
  <2>4. ~CheckSaw(c, k)
    BY <1>2, <1>3, <2>1 DEF CheckSaw
  <2> QED BY <2>3, <2>4
<1>6. \A c, k : (HasRow(c, k)' <=> HasRow(c, k)) /\ (CheckSaw(c, k)' <=> CheckSaw(c, k))
  BY <1>1 DEF HasRow, CheckSaw
<1>7. RowsCount'
  BY <1>1, <1>5, <1>6 DEF RowsCount
<1> QED BY <1>4, <1>7

\* One turn of the loop stores one row, that of the claim it has judged.
LEMMA RowStep ==
  ASSUME TypeInv, ChecksAgree, FindingsAgree, RowsCount,
         NEW c \in unchecked, JudgeClaim(c)
  PROVE  FindingsAgree' /\ RowsCount'
<1>1. PICK ok \in BOOLEAN : judged' = judged \cup {[claim |-> c, verified |-> ok]}
  BY DEF JudgeClaim
<1>2. /\ claim_rows' = claim_rows \cup {[claim |-> c, check |-> iteration_count + 1]}
      /\ unchecked' = unchecked \ {c}
      /\ UNCHANGED <<frontier, done, pending, all_claims, iteration_count>>
  BY DEF JudgeClaim, StoreClaim, stateVars
<1>3. frontier = {"fact_check"} /\ done = frontier
  BY DEF FindingsAgree
<1>4. c \in all_claims
  BY <1>3 DEF ChecksAgree
<1>5. FindingsAgree'
  BY <1>1, <1>2, <1>3 DEF FindingsAgree
<1>6. \A row \in claim_rows' : row.claim \in all_claims'
  BY <1>2, <1>4 DEF RowsCount
<1>7. ASSUME NEW d \in all_claims, NEW k \in 1..MAX_ITERATIONS
      PROVE  HasRow(d, k)' <=> CheckSaw(d, k)'
  <2>1. HasRow(d, k)' <=> HasRow(d, k) \/ (d = c /\ k = iteration_count + 1)
    BY <1>2 DEF HasRow
  <2>2. (\E j \in judged' : j.claim = d) <=> d = c \/ \E j \in judged : j.claim = d
    <3> DEFINE new == [claim |-> c, verified |-> ok]
    <3>1. new.claim = c
      OBVIOUS
    <3>2. judged' = judged \cup {new}
      BY <1>1
    <3> HIDE DEF new
    <3> QED BY <3>1, <3>2
  <2>3. CheckSaw(d, k)' <=> CheckSaw(d, k) \/ (d = c /\ k = iteration_count + 1)
    BY <1>2, <2>2 DEF CheckSaw
  <2>4. HasRow(d, k) <=> CheckSaw(d, k)
    BY DEF RowsCount
  <2> QED BY <2>1, <2>3, <2>4
<1>8. RowsCount'
  BY <1>2, <1>6, <1>7 DEF RowsCount
<1> QED BY <1>5, <1>8

\* The fact-check at hand, which has judged every claim, becomes one that is
\* over.
LEMMA CountStep ==
  ASSUME TypeInv, ChecksAgree, FindingsAgree, RowsCount, EndCheck
  PROVE  FindingsAgree' /\ RowsCount'
<1>1. /\ frontier = {"fact_check"} /\ done = frontier /\ unchecked = {}
      /\ iteration_count' = iteration_count + 1
      /\ judged' = {}
      /\ UNCHANGED <<pending, all_claims, unchecked, claim_rows>>
  BY DEF EndCheck, Running, CountIteration, dbVars
<1>2. frontier' # {"fact_check"}
  BY DEF EndCheck, Goto, CheckCompletion
<1>3. iteration_count \in Nat /\ \A c \in all_claims : c.pass \in Nat
  BY DEF TypeInv, TypeOK, Claims, MAX_ITERATIONS
<1>4. pending = {}
  BY <1>1 DEF FindingsAgree, Agents
<1>5. \A c \in all_claims : c.pass <= iteration_count
  BY <1>1, <1>3 DEF FindingsAgree
<1>6. FindingsAgree'
  BY <1>1, <1>2, <1>3, <1>4, <1>5 DEF FindingsAgree
<1>7. ASSUME NEW c \in all_claims, NEW k \in 1..MAX_ITERATIONS
      PROVE  HasRow(c, k)' <=> CheckSaw(c, k)'
  <2>1. \E j \in judged : j.claim = c
    BY <1>1 DEF ChecksAgree
  <2>2. HasRow(c, k) <=> k \in (c.pass + 1)..iteration_count \/ k = iteration_count + 1
    BY <2>1 DEF RowsCount, CheckSaw
  <2>3. CheckSaw(c, k)' <=> k \in (c.pass + 1)..(iteration_count + 1)
    BY <1>1 DEF CheckSaw
  <2>4. c.pass \in Nat /\ c.pass <= iteration_count /\ k \in Nat
    BY <1>3, <1>5 DEF MAX_ITERATIONS
  <2> QED BY <1>1, <1>3, <2>2, <2>3, <2>4 DEF HasRow
<1>8. RowsCount'
  BY <1>1, <1>7 DEF RowsCount
<1> QED BY <1>6, <1>8

\* Every step of the pipeline keeps findings and rows in agreement with the
\* count of fact-checks.
LEMMA RowsStep ==
  ASSUME TypeInv, ChecksAgree, FindingsAgree, RowsCount, [Next]_vars
  PROVE  FindingsAgree' /\ RowsCount'
<1> DEFINE Goal == FindingsAgree' /\ RowsCount'
<1>1. ASSUME NEW a \in Agents, Research(a) PROVE Goal
  <2>1. a \in frontier /\ UNCHANGED <<frontier, all_claims, iteration_count,
                                      unchecked, judged, claim_rows>>
    BY <1>1 DEF Research, stateVars, checkVars, dbVars
  <2>2. frontier # {"fact_check"} /\ unchecked = {} /\ judged = {}
    BY <2>1 DEF FindingsAgree, Agents
  <2>3. \A c \in pending' : c.pass = iteration_count
    <3>1. CASE Works(a)
      BY <1>1, <3>1 DEF Research, FindingsAgree
    <3>2. CASE ~Works(a)
      BY <1>1, <3>2 DEF Research, FindingsAgree
    <3> QED BY <3>1, <3>2
  <2>4. frontier \cap Agents # {}
    BY <2>1
  <2>5. FindingsAgree'
    BY <2>1, <2>2, <2>3, <2>4 DEF FindingsAgree
  <2>6. RowsCount'
    BY <2>1 DEF RowsCount, HasRow, CheckSaw
  <2> QED BY <2>5, <2>6
<1>2. CASE EndResearch
  BY <1>2, BarrierStep
<1>3. CASE BeginCheck
  <2>1. /\ frontier = {"fact_check"} /\ done = {} /\ done' = frontier
        /\ judged' = {}
        /\ UNCHANGED <<frontier, pending, all_claims, iteration_count, claim_rows>>
    BY <1>3 DEF BeginCheck, Running, stateVars, dbVars
  <2>2. judged = {}
    BY <2>1 DEF FindingsAgree
  <2>3. FindingsAgree'
    BY <2>1 DEF FindingsAgree
  <2>4. RowsCount'
    BY <2>1, <2>2 DEF RowsCount, HasRow, CheckSaw
  <2> QED BY <2>3, <2>4
<1>4. ASSUME NEW c \in unchecked, JudgeClaim(c) PROVE Goal
  BY <1>4, RowStep
<1>5. CASE EndCheck
  BY <1>5, CountStep
<1>6. CASE Plan \/ Replan \/ Synthesize \/ Write \/ Reviewed \/ Complete
  <2>1. /\ frontier # {"fact_check"} /\ frontier' # {"fact_check"}
        /\ frontier \cap Agents = {}
    BY <1>6 DEF Plan, Replan, Synthesize, Write, Reviewed, Complete, Running,
                Goto, ResearchNodes, AfterWrite, ReviewDecision, Agents
  <2>2. UNCHANGED <<pending, all_claims, claim_rows, unchecked, judged,
                    iteration_count>>
    BY <1>6 DEF Plan, Replan, Synthesize, Write, Reviewed, Complete,
                stateVars, checkVars, dbVars
  <2> QED BY <2>1, <2>2, QuietStep
<1>7. CASE \/ Interrupt \/ NodeFails \/ UNCHANGED vars
           \/ \E action \in ReviewActions : Resume(action)
           \/ \E a \in Agents : TraceTask(a)
  <2>1. UNCHANGED <<frontier, done, pending, all_claims, claim_rows, unchecked,
                    judged, iteration_count>>
    BY <1>7 DEF Interrupt, NodeFails, vars, Resume, TraceTask, stateVars,
                checkVars, dbVars
  <2>2. FindingsAgree'
    BY <2>1 DEF FindingsAgree
  <2>3. RowsCount'
    BY <2>1 DEF RowsCount, HasRow, CheckSaw
  <2> QED BY <2>2, <2>3
<1> QED
  BY <1>1, <1>2, <1>3, <1>4, <1>5, <1>6, <1>7 DEF Next, Step

\* Whatever the researchers find and wherever an execution fails, the claims
\* table holds exactly one row for each claim and each fact-check that judged it
\* (fact_checker.check, its db.add of every turn), and none for a claim that
\* never came to the barrier.
THEOREM RowsMatch == Spec => []RowsMatchChecks
<1> DEFINE Inv == TypeInv /\ ChecksAgree /\ FindingsAgree /\ RowsCount
<1>1. Init => Inv
  <2>1. Init => FindingsAgree /\ RowsCount
    BY DEF Init, FindingsAgree, RowsCount
  <2> QED BY <2>1, TypeInit, ChecksInit
<1>2. Inv /\ [Next]_vars => Inv'
  BY TypeStep, ChecksStep, RowsStep
<1>3. Inv => RowsMatchChecks
  <2> SUFFICES ASSUME Inv, NEW c \in all_claims
               PROVE  {row.check : row \in {x \in claim_rows : x.claim = c}} =
                        JudgedBy(c)
    BY DEF RowsMatchChecks, RowsCount
  <2> DEFINE checks == {row.check : row \in {x \in claim_rows : x.claim = c}}
  <2>1. /\ iteration_count \in 0..MAX_ITERATIONS /\ c.pass \in Nat
        /\ \A row \in claim_rows : /\ row.check \in 1..MAX_ITERATIONS
                                   /\ row = [claim |-> row.claim, check |-> row.check]
    BY DEF TypeInv, TypeOK, Claims
  <2>2. \A k \in 1..MAX_ITERATIONS : HasRow(c, k) <=> CheckSaw(c, k)
    BY DEF RowsCount
  <2>3. \A k : CheckSaw(c, k) <=> k \in JudgedBy(c)
    BY DEF CheckSaw, JudgedBy
  <2>4. \A k \in JudgedBy(c) : k \in 1..MAX_ITERATIONS
    <3>1. judged # {} => iteration_count < MAX_ITERATIONS
      BY DEF FindingsAgree, TypeInv, BudgetKept
    <3>2. \A k \in JudgedBy(c) :
            \/ k \in (c.pass + 1)..iteration_count
            \/ k = iteration_count + 1 /\ judged # {}
      BY DEF JudgedBy
    <3> QED BY <2>1, <3>1, <3>2 DEF MAX_ITERATIONS
  <2>5. ASSUME NEW k \in checks PROVE k \in JudgedBy(c)
    <3>1. PICK row \in claim_rows : row.claim = c /\ row.check = k
      BY <2>5
    <3> QED BY <2>1, <2>2, <2>3, <3>1 DEF HasRow
  <2>6. ASSUME NEW k \in JudgedBy(c) PROVE k \in checks
    <3>1. HasRow(c, k)
      BY <2>2, <2>3, <2>4, <2>6
    <3>2. [claim |-> c, check |-> k].claim = c /\ [claim |-> c, check |-> k].check = k
      OBVIOUS
    <3> QED BY <3>1, <3>2 DEF HasRow
  <2> QED BY <2>5, <2>6
<1> QED BY <1>1, <1>2, <1>3, PTL DEF Spec

-----------------------------------------------------------------------------
(* The review *)

\* Nobody is asked at the start.
LEMMA ReviewInit == Init => ReviewAgrees
BY DEF Init, ReviewAgrees, NoReport, NoAction

\* Every step keeps frontier, status, the pending decision and the count of
\* drafts in agreement.
LEMMA ReviewStep == TypeInv /\ ReviewAgrees /\ [Next]_vars => ReviewAgrees'
<1> SUFFICES ASSUME TypeInv, ReviewAgrees, [Next]_vars PROVE ReviewAgrees'
  OBVIOUS
<1> USE MaxRevisionsAssumption
    DEF TypeInv, TypeOK, Agents, Nodes, Reports, ReviewActions, NoAction
<1>1. ASSUME Plan, UNCHANGED depth PROVE ReviewAgrees'
  <2>1. frontier' # {} /\ frontier' # {"human_review"} /\ frontier' # {"complete"}
    <3>1. "web_search" \in frontier'
      BY <1>1 DEF Plan, Goto, ResearchNodes
    <3> QED BY <3>1
  <2>2. /\ frontier = {"supervisor_plan"} /\ status = "running"
        /\ UNCHANGED <<draft_report, human_feedback, status, resume, revisions,
                       depth>>
    BY <1>1 DEF Plan, Running, callerVars
  <2>3. draft_report.version = revisions
    BY <2>2 DEF ReviewAgrees
  <2> QED BY <2>1, <2>2, <2>3 DEF ReviewAgrees
<1>2. ASSUME NEW a \in Agents, Research(a), UNCHANGED depth PROVE ReviewAgrees'
  BY <1>2 DEF Research, ReviewAgrees, stateVars, callerVars
<1>3. ASSUME EndResearch, UNCHANGED depth PROVE ReviewAgrees'
  BY <1>3 DEF EndResearch, Goto, ReviewAgrees, callerVars
<1>4. ASSUME BeginCheck, UNCHANGED depth PROVE ReviewAgrees'
  BY <1>4 DEF BeginCheck, ReviewAgrees, stateVars, callerVars
<1>5. ASSUME NEW c \in unchecked, JudgeClaim(c), UNCHANGED depth
      PROVE ReviewAgrees'
  BY <1>5 DEF JudgeClaim, ReviewAgrees, stateVars, callerVars
<1>6. ASSUME EndCheck, UNCHANGED depth PROVE ReviewAgrees'
  BY <1>6 DEF EndCheck, Running, Goto, CheckCompletion, ReviewAgrees, callerVars
<1>7. ASSUME Replan, UNCHANGED depth PROVE ReviewAgrees'
  BY <1>7 DEF Replan, Running, Goto, ReviewAgrees, callerVars
<1>8. ASSUME Synthesize, UNCHANGED depth PROVE ReviewAgrees'
  BY <1>8 DEF Synthesize, Running, Goto, ReviewAgrees, stateVars, callerVars
<1>9. ASSUME Write, UNCHANGED depth PROVE ReviewAgrees'
  BY SMTT(30), <1>9 DEF Write, Running, Goto, AfterWrite, ReviewAgrees, callerVars
<1>10. ASSUME Interrupt, UNCHANGED depth PROVE ReviewAgrees'
  BY <1>10 DEF Interrupt, Running, ReviewAgrees, stateVars
<1>11. ASSUME NEW action \in ReviewActions, Resume(action), UNCHANGED depth
       PROVE ReviewAgrees'
  BY <1>11 DEF Resume, ReviewAgrees, stateVars
<1>12. ASSUME Reviewed, UNCHANGED depth PROVE ReviewAgrees'
  BY <1>12 DEF Reviewed, Running, Goto, ReviewDecision, ReviewAgrees
<1>13. ASSUME Complete, UNCHANGED depth PROVE ReviewAgrees'
  BY <1>13 DEF Complete, Running, Goto, ReviewAgrees
<1>14. ASSUME NodeFails, UNCHANGED depth PROVE ReviewAgrees'
  BY <1>14 DEF NodeFails, ReviewAgrees, stateVars
<1>15. ASSUME UNCHANGED vars PROVE ReviewAgrees'
  BY <1>15 DEF vars, ReviewAgrees, stateVars, callerVars
<1>16. ASSUME NEW a \in Agents, TraceTask(a), UNCHANGED depth PROVE ReviewAgrees'
  BY <1>16 DEF TraceTask, ReviewAgrees, stateVars, callerVars
<1> QED
  BY <1>1, <1>2, <1>3, <1>4, <1>5, <1>6, <1>7, <1>8, <1>9, <1>10, <1>11,
     <1>12, <1>13, <1>14, <1>15, <1>16
  DEF Next, Step

\* The strengthened invariant the run checks holds in general.
THEOREM StateStaysConsistent == Spec => []StateConsistent
<1> DEFINE Inv == TypeInv /\ ChecksAgree /\ ReviewAgrees
<1>1. Init => Inv
  BY TypeInit, ChecksInit, ReviewInit
<1>2. Inv /\ [Next]_vars => Inv'
  BY TypeStep, ChecksStep, ReviewStep
<1>3. Inv => StateConsistent
  BY DEF TypeInv, StateConsistent
<1> QED BY <1>1, <1>2, <1>3, PTL DEF Spec

\* Whatever the reviewer decides and however often, what ends up as the final
\* report is the draft of the last decision, that decision was not "revise" and
\* every revision was written again (graph.py, tasks._execute_graph).
THEOREM PublicationFollowsReview == Spec => []PublishedAsReviewed
<1> DEFINE Final == status = "ended" => final_report = draft_report
           Inv == TypeInv /\ ReviewAgrees /\ Final
<1>1. Init => Inv
  <2>1. Init => Final
    BY DEF Init
  <2> QED BY <2>1, TypeInit, ReviewInit
<1>2. ASSUME Inv, [Next]_vars PROVE Inv'
  <2>1. ASSUME status = "ended", UNCHANGED depth, Step PROVE FALSE
    BY <1>2, <2>1
    DEF Step, Plan, TraceTask, Research, EndResearch, BeginCheck, JudgeClaim, EndCheck,
        Replan, Synthesize, Write, Interrupt, Reviewed, Complete, Running
  <2>2. ASSUME Complete PROVE Final'
    BY <2>2 DEF Complete
  <2>3. ASSUME status # "ended", status' = "ended", Next PROVE Complete
    BY <2>3
    DEF Next, Step, Plan, TraceTask, Research, EndResearch, BeginCheck, JudgeClaim,
        EndCheck, Replan, Synthesize, Write, Interrupt, Reviewed, Resume,
        NodeFails, callerVars
  <2>4. ASSUME status = "ended", Next PROVE FALSE
    BY <2>1, <2>4 DEF Next, Resume, NodeFails
  <2>5. Final'
    BY <1>2, <2>2, <2>3, <2>4 DEF vars, stateVars, callerVars
  <2> QED BY <1>2, <2>5, TypeStep, ReviewStep
<1>3. Inv => PublishedAsReviewed
  BY DEF ReviewAgrees, PublishedAsReviewed, NoAction
<1> QED BY <1>1, <1>2, <1>3, PTL DEF Spec

\* The data analyst is in no frontier of a quick graph.
QuickAgrees ==
  depth = "quick" =>
    /\ "data_analyst" \notin frontier
    /\ \A t \in traces : t.agent # "data_analyst"
    /\ \A c \in pending \cup all_claims : c.agent # "data_analyst"

\* A quick execution stays on its own nodes and agents.
LEMMA QuickStep ==
  ASSUME TypeInv, QuickAgrees, [Next]_vars, depth = "quick"
  PROVE  QuickAgrees'
<1> USE DEF QuickAgrees, Agents
<1>1. ASSUME NEW a \in Agents, Research(a) PROVE QuickAgrees'
  <2>1. a # "data_analyst"
    BY <1>1 DEF Research
  <2>2. CASE Works(a)
    <3>1. PICK ids \in SUBSET ClaimIds, weak \in SUBSET ClaimIds :
            pending' = pending \cup
                 {[agent |-> a, pass |-> iteration_count, id |-> i,
                   low |-> i \in weak] : i \in ids}
      BY <1>1, <2>2 DEF Research
    <3>2. \A c \in pending' : c \in pending \/ c.agent = a
      BY <3>1
    <3>3. UNCHANGED <<all_claims, frontier, traces>>
      BY <1>1 DEF Research, stateVars, dbVars
    <3> QED BY <2>1, <3>2, <3>3
  <2>3. CASE ~Works(a)
    BY <1>1, <2>3 DEF Research, stateVars, dbVars
  <2> QED BY <2>2, <2>3
<1>2. CASE EndResearch
  BY <1>2 DEF EndResearch, Goto, dbVars
<1>3. ASSUME NEW c \in unchecked, JudgeClaim(c) PROVE QuickAgrees'
  BY <1>3 DEF JudgeClaim, Trace, stateVars
<1>4. CASE Plan
  BY <1>4 DEF Plan, ResearchNodes, Goto, Trace
<1>5. CASE Replan
  BY <1>5 DEF Replan, Goto, Trace
<1>6. CASE Synthesize
  BY <1>6 DEF Synthesize, Goto, Trace, stateVars
<1>7. CASE Write
  BY <1>7 DEF Write, AfterWrite, Goto, Trace
<1>8. CASE EndCheck
  BY <1>8 DEF EndCheck, CheckCompletion, Goto, dbVars
<1>9. CASE Reviewed
  BY <1>9 DEF Reviewed, ReviewDecision, Goto, dbVars
<1>10. CASE Complete
  BY <1>10 DEF Complete, Goto, dbVars
<1>11. CASE BeginCheck \/ Interrupt \/ NodeFails
            \/ \E action \in ReviewActions : Resume(action)
  BY <1>11 DEF BeginCheck, Interrupt, NodeFails, Resume, stateVars, dbVars
<1>12. CASE UNCHANGED vars
  BY <1>12 DEF vars, stateVars, dbVars
<1>13. ASSUME NEW a \in Agents, TraceTask(a) PROVE QuickAgrees'
  BY <1>13 DEF TraceTask, Trace, stateVars
<1> QED BY <1>1, <1>2, <1>3, <1>4, <1>5, <1>6, <1>7, <1>8, <1>9, <1>10, <1>11,
           <1>12, <1>13 DEF Next, Step

\* A quick execution never asks the reviewer and never runs the data analyst
\* (graph.py, build_graph; supervisor.plan).
THEOREM QuickLeavesOut == Spec => []QuickSkips
<1> DEFINE Inv == TypeInv /\ ReviewAgrees /\ QuickAgrees
<1>1. Init => Inv
  <2>1. Init => QuickAgrees
    BY DEF Init, QuickAgrees
  <2> QED BY <2>1, TypeInit, ReviewInit
<1>2. ASSUME Inv, [Next]_vars PROVE Inv'
  <2>1. UNCHANGED depth
    BY <1>2 DEF Next, vars, Resume, NodeFails, callerVars
  <2>2. QuickAgrees'
    BY <1>2, <2>1, QuickStep DEF QuickAgrees
  <2> QED BY <1>2, <2>2, TypeStep, ReviewStep
<1>3. Inv => QuickSkips
  BY DEF ReviewAgrees, QuickAgrees, QuickSkips
<1> QED BY <1>1, <1>2, <1>3, PTL DEF Spec

-----------------------------------------------------------------------------
(* The contract *)

\* The phase of a running execution that holds no decision.
LEMMA PhaseWithoutDecision ==
  ASSUME status = "running", resume = NoAction
  PROVE  Phase = IF frontier = {"human_review"} THEN "drafted"
                 ELSE IF frontier # {"complete"} THEN "drafting"
                 ELSE IF depth = "quick" THEN "drafted" ELSE "accepted"
BY DEF Phase, NoAction

\* ... and after the step.
LEMMA NextPhaseWithoutDecision ==
  ASSUME status' = "running", resume' = NoAction
  PROVE  Phase' = IF frontier' = {"human_review"} THEN "drafted"
                  ELSE IF frontier' # {"complete"} THEN "drafting"
                  ELSE IF depth' = "quick" THEN "drafted" ELSE "accepted"
BY DEF Phase, NoAction

\* Steps that neither write nor complete nor ask stay in phase "drafting".
LEMMA DraftingStep ==
  ASSUME status = "running", resume = NoAction, UNCHANGED <<status, resume>>,
         frontier # {"human_review"}, frontier # {"complete"},
         frontier' # {"human_review"}, frontier' # {"complete"}
  PROVE  UNCHANGED Phase
BY PhaseWithoutDecision, NextPhaseWithoutDecision

\* Every step of the graph or of its caller is a step of the contract or none.
LEMMA ContractStep ==
  ASSUME TypeInv, ReviewAgrees, [Next]_vars
  PROVE  [Contract!Next]_Phase
<1> DEFINE Goal == [Contract!Next]_Phase
<1> USE DEF TypeInv, TypeOK, Agents, Nodes
<1>0. ASSUME status = "running", frontier # {"human_review"} PROVE resume = NoAction
  BY <1>0 DEF ReviewAgrees
<1>1. ASSUME Plan, UNCHANGED depth PROVE Goal
  <2>1. frontier' # {"human_review"} /\ frontier' # {"complete"}
    <3>1. "web_search" \in frontier'
      BY <1>1 DEF Plan, Goto, ResearchNodes
    <3> QED BY <3>1
  <2> QED BY <1>0, <1>1, <2>1, DraftingStep DEF Plan, Running, callerVars
<1>2. ASSUME NEW a \in Agents, Research(a), UNCHANGED depth PROVE Goal
  BY <1>0, <1>2, DraftingStep DEF Research, callerVars
<1>3. ASSUME EndResearch, UNCHANGED depth PROVE Goal
  BY <1>0, <1>3, DraftingStep DEF EndResearch, Goto, callerVars
<1>4. ASSUME BeginCheck, UNCHANGED depth PROVE Goal
  BY <1>0, <1>4, DraftingStep DEF BeginCheck, Running, callerVars
<1>5. ASSUME NEW c \in unchecked, JudgeClaim(c), UNCHANGED depth PROVE Goal
  BY <1>0, <1>5, DraftingStep DEF JudgeClaim, Running, callerVars
<1>6. ASSUME EndCheck, UNCHANGED depth PROVE Goal
  BY <1>0, <1>6, DraftingStep
  DEF EndCheck, Running, Goto, CheckCompletion, callerVars
<1>7. ASSUME Replan, UNCHANGED depth PROVE Goal
  BY <1>0, <1>7, DraftingStep DEF Replan, Running, Goto, callerVars
<1>8. ASSUME Synthesize, UNCHANGED depth PROVE Goal
  BY <1>0, <1>8, DraftingStep DEF Synthesize, Running, Goto, callerVars
<1>9. ASSUME Write, UNCHANGED depth PROVE Goal
  <2>1. Phase = "drafting"
    BY <1>0, <1>9, PhaseWithoutDecision DEF Write, Running
  <2>2. Phase' = "drafted"
    BY <1>0, <1>9, NextPhaseWithoutDecision
    DEF Write, Running, AfterWrite, Goto, callerVars
  <2> QED BY <2>1, <2>2 DEF Contract!Next, Contract!Draft
<1>10. ASSUME Interrupt, UNCHANGED depth PROVE Goal
  <2>1. Phase = "drafted"
    BY <1>10, PhaseWithoutDecision DEF Interrupt, Running
  <2>2. Phase' = "reviewing"
    BY <1>10 DEF Interrupt, Phase
  <2>3. depth # "quick"
    BY <1>10 DEF Interrupt, Running, ReviewAgrees
  <2> QED BY <2>1, <2>2, <2>3 DEF Contract!Next, Contract!Ask
<1>11. ASSUME NEW action \in ReviewActions, Resume(action), UNCHANGED depth
       PROVE Goal
  <2>1. Phase = "reviewing"
    BY <1>11 DEF Resume, Phase
  <2>2. Phase' \in {"drafting", "accepted"}
    <3>1. status' = "running" /\ resume' # NoAction
      BY <1>11 DEF Resume, ReviewActions, NoAction
    <3> QED BY <3>1 DEF Phase
  <2> QED BY <2>1, <2>2 DEF Contract!Next, Contract!Decide
<1>12. ASSUME Reviewed, UNCHANGED depth PROVE Goal
  <2>1. Phase = IF ReviewDecision(resume) = "synthesize" THEN "drafting" ELSE "accepted"
    BY <1>12 DEF Reviewed, Running, Phase
  <2>2. frontier' = {ReviewDecision(resume)} /\ depth' # "quick"
    BY <1>12 DEF Reviewed, Running, Goto, ReviewAgrees
  <2>3. Phase' = IF frontier' = {"human_review"} THEN "drafted"
                 ELSE IF frontier' # {"complete"} THEN "drafting"
                 ELSE "accepted"
    BY <1>12, <2>2, NextPhaseWithoutDecision DEF Reviewed, Running
  <2>4. UNCHANGED Phase
    BY <2>1, <2>2, <2>3 DEF ReviewDecision
  <2> QED BY <2>4
<1>13. ASSUME Complete, UNCHANGED depth PROVE Goal
  <2>1. Phase = IF depth = "quick" THEN "drafted" ELSE "accepted"
    BY <1>0, <1>13, PhaseWithoutDecision DEF Complete, Running
  <2>2. Phase' = "finished"
    BY <1>13 DEF Complete, Phase
  <2> QED BY <2>1, <2>2 DEF Contract!Next, Contract!Publish
<1>14. ASSUME NodeFails, UNCHANGED depth PROVE Goal
  <2>1. Phase \notin {"finished", "failed"}
    BY <1>14 DEF NodeFails, Phase
  <2>2. Phase' = "failed"
    BY <1>14 DEF NodeFails, Phase
  <2> QED BY <2>1, <2>2 DEF Contract!Next, Contract!Fail
<1>15. ASSUME UNCHANGED vars PROVE Goal
  BY <1>15 DEF vars, Phase, callerVars
<1>16. ASSUME NEW a \in Agents, TraceTask(a), UNCHANGED depth PROVE Goal
  BY <1>0, <1>16, DraftingStep DEF TraceTask, callerVars
<1> QED
  BY <1>1, <1>2, <1>3, <1>4, <1>5, <1>6, <1>7, <1>8, <1>9, <1>10, <1>11,
     <1>12, <1>13, <1>14, <1>15, <1>16
  DEF Next, Step

\* The compiled graph with its interrupts, re-executions and failures
\* implements the reviewer's contract.
THEOREM KeepsContract == Spec => ImplementsContract
<1> DEFINE Inv == TypeInv /\ ReviewAgrees
<1>1. Init => Inv
  BY TypeInit, ReviewInit
<1>2. Inv /\ [Next]_vars => Inv'
  BY TypeStep, ReviewStep
<1>3. Init => Contract!Init
  BY DEF Init, Contract!Init, Phase, NoAction
<1>4. Inv /\ [Next]_vars => [Contract!Next]_Phase
  BY ContractStep
<1> QED
  BY <1>1, <1>2, <1>3, <1>4, PTL DEF Spec, ImplementsContract, Contract!Spec

=============================================================================
