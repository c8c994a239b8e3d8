----------------------- MODULE BriefRunContractProofs -----------------------
(***************************************************************************)
(* Every run of BriefRun keeps the reviewer's contract, whatever the other *)
(* runs, the API, the broker and the failures do around it.                *)
(***************************************************************************)
EXTENDS BriefRunProofs

Early == {"free", "set_planning", "load", "plan", "trace", "traced", "research",
          "researched"}
Stopping == {"mark_failed", "announce_failed", "ended", "crashed"}

\* The phase at each label, in the old state ...
LEMMA PhaseNow ==
  ASSUME NEW r \in Runs
  PROVE  /\ report[r] # "none" => Phase(r) = "finished"
         /\ report[r] = "none" =>
              /\ pc[r] \in Stopping => Phase(r) = "failed"
              /\ pc[r] \in Early => Phase(r) = "drafting"
              /\ pc[r] = "review" => Phase(r) = "drafted"
              /\ pc[r] \in {"paused", "subscribe", "wait"} => Phase(r) = "reviewing"
              /\ pc[r] \in {"resumed", "rerun"} =>
                   Phase(r) = IF Decision(r) = "research" THEN "drafting"
                                                            ELSE "accepted"
              /\ pc[r] = "persist" =>
                   Phase(r) = IF job[r] \in Quick THEN "drafted" ELSE "accepted"
BY DEF Phase, Early, Stopping

\* ... and in the new one.
LEMMA PhaseNext ==
  ASSUME NEW r \in Runs
  PROVE  /\ report'[r] # "none" => Phase(r)' = "finished"
         /\ report'[r] = "none" =>
              /\ pc'[r] \in Stopping => Phase(r)' = "failed"
              /\ pc'[r] \in Early => Phase(r)' = "drafting"
              /\ pc'[r] = "review" => Phase(r)' = "drafted"
              /\ pc'[r] \in {"paused", "subscribe", "wait"} => Phase(r)' = "reviewing"
              /\ pc'[r] \in {"resumed", "rerun"} =>
                   Phase(r)' = IF Decision(r)' = "research" THEN "drafting"
                                                            ELSE "accepted"
              /\ pc'[r] = "persist" =>
                   Phase(r)' = IF job'[r] \in Quick THEN "drafted" ELSE "accepted"
BY DEF Phase, Early, Stopping

\* The contract's steps, as pairs of phases.
LEMMA ContractMoves ==
  ASSUME NEW r \in Runs,
         \/ Phase(r)' = Phase(r)
         \/ Phase(r) = "drafting" /\ Phase(r)' = "drafted"
         \/ Phase(r) = "drafted" /\ job[r] \notin Quick /\ Phase(r)' = "reviewing"
         \/ Phase(r) = "reviewing" /\ Phase(r)' \in {"drafting", "accepted"}
         \/ Phase(r) = "accepted" /\ Phase(r)' = "finished"
         \/ Phase(r) = "drafted" /\ job[r] \in Quick /\ Phase(r)' = "finished"
         \/ Phase(r) \notin {"finished", "failed"} /\ Phase(r)' = "failed"
  PROVE  [Contract(r)!Next]_(Phase(r))
BY DEF Contract!Next, Contract!Draft, Contract!Ask, Contract!Decide,
       Contract!Publish, Contract!Fail
-----------------------------------------------------------------------------
(* Inductive invariant: the rows and decisions of BriefRunProofs, and where a
   run can be: only reviewed depths ask for a review, and a run that delivers
   has stored its report. *)

RouteInv == /\ TypeOK
            /\ \A r \in Runs : RowsAgree(r) /\ DecisionsAgree(r)
            /\ DecisionWasSentHere
            /\ \A r \in Runs : RouteAgrees(r)

\* A decision in hand outlives whatever happens to other calls.
LEMMA DecisionStands ==
  ASSUME RouteInv, NEW r \in Runs, feedback'[r] = feedback[r],
         \A q \in Requests : request[q].at = "acked" => request'[q] = request[q]
  PROVE  Decision(r)' = Decision(r)
<1>1. CASE \E q \in Requests : feedback[r] = From(q)
  <2>1. PICK q \in Requests : feedback[r] = From(q)
    BY <1>1
  <2>2. feedback[r].id = q
    BY <2>1 DEF From
  <2>3. request'[q] = request[q]
    BY <2>1 DEF RouteInv, DecisionWasSentHere, SentTo
  <2> QED BY <2>2, <2>3 DEF Decision
<1>2. CASE ~\E q \in Requests : feedback[r] = From(q)
  <2>1. feedback[r] = NoFeedback \/ feedback[r] = TimedOut
    BY <1>2 DEF RouteInv, TypeOK, Feedbacks
  <2>2. feedback[r].by # "request"
    BY <2>1 DEF NoFeedback, TimedOut
  <2> QED BY <2>2 DEF Decision
<1> QED BY <1>1, <1>2

\* A run that does not move keeps its phase.
LEMMA StandingPhase ==
  ASSUME RouteInv, NEW r \in Runs,
         pc'[r] = pc[r], job'[r] = job[r], feedback'[r] = feedback[r],
         report'[r] # "none" <=> report[r] # "none",
         \A q \in Requests : request[q].at = "acked" => request'[q] = request[q]
  PROVE  RouteAgrees(r)' /\ Phase(r)' = Phase(r)
<1>1. Decision(r)' = Decision(r)
  BY DecisionStands
<1>2. Phase(r)' = Phase(r)
  BY <1>1 DEF Phase
<1> QED BY <1>2 DEF RouteInv, RouteAgrees

\* The step of one run r from its label to next, without a report in between.
LEMMA LabelStep ==
  ASSUME RouteInv, NEW r \in Runs, NEW next \in Active \cup Idle, Goto(r, next),
         UNCHANGED <<job, feedback, request>>, report'[r] = report[r],
         next \in Reviewing => job[r] \notin Quick,
         next \in Delivering => report[r] # "none",
         \/ report[r] # "none"
         \/ {pc[r], next} \subseteq Early
         \/ {pc[r], next} \subseteq Stopping
         \/ pc[r] \notin Stopping /\ next \in Stopping
         \/ pc[r] \in Early /\ next = (IF job[r] \in Quick THEN "persist" ELSE "review")
         \/ pc[r] = "review" /\ next = "paused"
         \/ {pc[r], next} \subseteq {"paused", "subscribe", "wait"}
         \/ pc[r] = "resumed" /\ next = "rerun"
         \/ pc[r] = "rerun" /\ next = Decision(r)
  PROVE  RouteAgrees(r)' /\ [Contract(r)!Next]_(Phase(r))
<1>1. pc'[r] = next /\ pc[r] \in Active \cup Idle
  BY DEF Goto, RouteInv, TypeOK
<1>2. Decision(r)' = Decision(r) /\ Decision(r) \in {"research", "persist"}
  BY DecisionStands DEF Decision
<1>3. RouteAgrees(r)'
  BY <1>1 DEF RouteAgrees
<1> SUFFICES [Contract(r)!Next]_(Phase(r))
  BY <1>3
<1>4. CASE report[r] # "none"
  BY <1>4, PhaseNow, PhaseNext, ContractMoves
<1>5. CASE report[r] = "none"
  <2>1. CASE {pc[r], next} \subseteq Early
    BY <1>1, <1>5, <2>1, PhaseNow, PhaseNext, ContractMoves
  <2>2. CASE {pc[r], next} \subseteq Stopping
    BY <1>1, <1>5, <2>2, PhaseNow, PhaseNext, ContractMoves
  <2>3. CASE pc[r] \notin Stopping /\ next \in Stopping
    <3>1. Phase(r)' = "failed"
      BY <1>1, <1>5, <2>3, PhaseNext
    <3>2. pc[r] \notin Delivering
      BY <1>5 DEF RouteInv, RouteAgrees
    <3>3. Phase(r) \notin {"finished", "failed"}
      BY <1>1, <1>5, <2>3, <3>2, PhaseNow
      DEF Active, Guarded, Idle, Early, Stopping, Delivering
    <3> QED BY <3>1, <3>3, ContractMoves
  <2>4. CASE pc[r] \in Early /\ next = (IF job[r] \in Quick THEN "persist" ELSE "review")
    BY <1>1, <1>5, <2>4, PhaseNow, PhaseNext, ContractMoves
  <2>5. CASE pc[r] = "review" /\ next = "paused"
    <3>1. job[r] \notin Quick
      BY <2>5 DEF Reviewing
    <3> QED BY <1>1, <1>5, <2>5, <3>1, PhaseNow, PhaseNext, ContractMoves
  <2>6. CASE {pc[r], next} \subseteq {"paused", "subscribe", "wait"}
    BY <1>1, <1>5, <2>6, PhaseNow, PhaseNext, ContractMoves
  <2>7. CASE pc[r] = "resumed" /\ next = "rerun"
    BY <1>1, <1>2, <1>5, <2>7, PhaseNow, PhaseNext, ContractMoves
  <2>8. CASE pc[r] = "rerun" /\ next = Decision(r)
    <3>1. job[r] \notin Quick
      BY <2>8 DEF RouteInv, RouteAgrees, Reviewing
    <3>2. Phase(r) = IF next = "research" THEN "drafting" ELSE "accepted"
      BY <1>5, <2>8, PhaseNow
    <3>3. Phase(r)' = IF next = "research" THEN "drafting" ELSE "accepted"
      BY <1>1, <1>2, <1>5, <2>8, <3>1, PhaseNext DEF Early
    <3> QED BY <3>2, <3>3, ContractMoves
  <2> QED BY <1>5, <2>1, <2>2, <2>3, <2>4, <2>5, <2>6, <2>7, <2>8
<1> QED BY <1>4, <1>5

\* What a step has to preserve of run x.
Kept(x) == RouteAgrees(x)' /\ [Contract(x)!Next]_(Phase(x))

\* Only the run that moves has to be looked at.
LEMMA OthersStand ==
  ASSUME RouteInv, NEW r \in Runs, NEW next, Goto(r, next),
         UNCHANGED <<job, request>>,
         \A x \in Runs \ {r} : /\ feedback'[x] = feedback[x]
                               /\ report'[x] # "none" <=> report[x] # "none",
         Kept(r)
  PROVE  \A x \in Runs : Kept(x)
<1> SUFFICES ASSUME NEW x \in Runs, x # r PROVE Kept(x)
  OBVIOUS
<1>1. pc'[x] = pc[x] /\ job'[x] = job[x]
  BY DEF Goto, RouteInv, TypeOK
<1>2. RouteAgrees(x)' /\ Phase(x)' = Phase(x)
  BY <1>1, StandingPhase
<1> QED BY <1>2, ContractMoves DEF Kept

\* A step that only moves run r and leaves the reports alone.
LEMMA QuietRouteStep ==
  ASSUME RouteInv, NEW r \in Runs, NEW next \in Active \cup Idle, Goto(r, next),
         UNCHANGED <<job, feedback, request, report>>,
         next \in Reviewing => job[r] \notin Quick,
         next \in Delivering => report[r] # "none",
         \/ report[r] # "none"
         \/ {pc[r], next} \subseteq Early
         \/ {pc[r], next} \subseteq Stopping
         \/ pc[r] \notin Stopping /\ next \in Stopping
         \/ pc[r] \in Early /\ next = (IF job[r] \in Quick THEN "persist" ELSE "review")
         \/ pc[r] = "review" /\ next = "paused"
         \/ {pc[r], next} \subseteq {"paused", "subscribe", "wait"}
         \/ pc[r] = "resumed" /\ next = "rerun"
         \/ pc[r] = "rerun" /\ next = Decision(r)
  PROVE  \A x \in Runs : Kept(x)
<1>1. Kept(r)
  BY LabelStep DEF Kept
<1> QED BY <1>1, OthersStand

\* A step that leaves every run where it is, as those of the API and of the
\* broker do: a call that was acknowledged stays as it is.
LEMMA NobodyMoves ==
  ASSUME RouteInv, UNCHANGED <<pc, job, feedback, report>>,
         \A q \in Requests : request[q].at = "acked" => request'[q] = request[q]
  PROVE  \A x \in Runs : Kept(x)
BY StandingPhase, ContractMoves DEF Kept

\* Accepting a message starts a draft.
LEMMA AcceptKeeps ==
  ASSUME RouteInv, NEW r \in Runs, NEW b \in Briefs, Accept(r, b)
  PROVE  \A x \in Runs : Kept(x)
<1> USE DEF dbVars, apiVars
<1>1. report[r] = "none" /\ report' = report
  BY DEF Accept, RouteInv, RowsAgree, AfterReport
<1>2. pc[r] = "free" /\ pc'[r] = "set_planning"
  BY DEF Accept, Goto, RouteInv, TypeOK
<1>3. Kept(r)
  BY <1>1, <1>2, PhaseNow, PhaseNext, ContractMoves
  DEF Kept, Early, RouteAgrees, Reviewing, Delivering
<1>4. ASSUME NEW x \in Runs, x # r PROVE Kept(x)
  <2>1. /\ pc'[x] = pc[x] /\ job'[x] = job[x] /\ feedback'[x] = feedback[x]
        /\ request' = request
    BY <1>4 DEF Accept, Goto, RouteInv, TypeOK
  <2> QED BY <1>1, <1>4, <2>1, StandingPhase, ContractMoves DEF Kept
<1> QED BY <1>3, <1>4

\* The wait ends with a decision of any kind.
LEMMA WaitKeeps ==
  ASSUME RouteInv, NEW r \in Runs, NEW decision, WaitReturns(r, decision)
  PROVE  \A x \in Runs : Kept(x)
<1> USE DEF dbVars, apiVars
<1>1. pc[r] = "wait" /\ pc'[r] = "resumed"
  BY DEF WaitReturns, Goto, RouteInv, TypeOK
<1>2. report[r] = "none" /\ report' = report /\ job' = job /\ request' = request
  BY <1>1 DEF WaitReturns, RouteInv, RowsAgree, AfterReport
<1>3. job[r] \notin Quick
  BY <1>1 DEF RouteInv, RouteAgrees, Reviewing
<1>4. RouteAgrees(r)'
  BY <1>1, <1>2, <1>3 DEF RouteAgrees, Delivering
<1>5. Phase(r) = "reviewing" /\ Phase(r)' \in {"drafting", "accepted"}
  BY <1>1, <1>2, PhaseNow, PhaseNext
<1>6. \A x \in Runs \ {r} : feedback'[x] = feedback[x]
  BY DEF WaitReturns, RouteInv, TypeOK
<1>7. Kept(r)
  BY <1>4, <1>5, ContractMoves DEF Kept
<1> QED BY <1>2, <1>6, <1>7, OthersStand DEF WaitReturns

\* Storing the report publishes it.
LEMMA PersistKeeps ==
  ASSUME RouteInv, NEW r \in Runs, PersistReport(r)
  PROVE  \A x \in Runs : Kept(x)
<1> USE DEF dbVars, apiVars
<1>1. pc[r] = "persist" /\ report[r] = "none"
  BY DEF PersistReport, RouteInv, RowsAgree, AfterReport
<1>2. CASE Exists(job[r])
  <2>1. /\ pc'[r] = "finish" /\ report'[r] = "row" /\ Goto(r, "finish")
        /\ \A x \in Runs \ {r} : report'[x] = report[x]
        /\ UNCHANGED <<job, request, feedback>>
    BY <1>2 DEF PersistReport, ReportStep, Goto, RouteInv, TypeOK
  <2>2. RouteAgrees(r)'
    BY <2>1 DEF RouteAgrees, Reviewing
  <2>3. Kept(r)
    BY <1>1, <2>1, <2>2, PhaseNow, PhaseNext, ContractMoves DEF Kept
  <2> QED BY <2>1, <2>3, OthersStand
<1>3. CASE ~Exists(job[r])
  <2>1. Goto(r, "mark_failed") /\ UNCHANGED <<job, feedback, request, report>>
    BY <1>3 DEF PersistReport, ControlStep
  <2> QED
    BY <1>1, <2>1, QuietRouteStep DEF Active, Stopping, Reviewing, Delivering
<1> QED BY <1>2, <1>3

\* Updates of a stored report leave it stored.
LEMMA DeliverKeeps ==
  ASSUME RouteInv, NEW r \in Runs, NEW at \in {"write", "email"}, NEW state,
         NEW next \in {"email", "announce"},
         state # "none", ReportStep(r, at, target[r], state, next)
  PROVE  \A x \in Runs : Kept(x)
<1> USE DEF apiVars
<1>1. target[r] \in Runs /\ report[target[r]] # "none" /\ pc[r] \in Delivering
  BY DEF ReportStep, RouteInv, RowsAgree, ReportsOf, Delivering
<1>2. \A x \in Runs : report'[x] # "none" <=> report[x] # "none"
  BY <1>1 DEF ReportStep, RouteInv, TypeOK
<1>3. report[r] # "none"
  BY <1>1 DEF RouteInv, RouteAgrees
<1>4. Goto(r, next) /\ pc'[r] = next /\ UNCHANGED <<job, request, feedback>>
  BY DEF ReportStep, Goto, RouteInv, TypeOK
<1>5. Kept(r)
  BY <1>2, <1>3, <1>4, PhaseNow, PhaseNext, ContractMoves
  DEF Kept, RouteAgrees, Reviewing
<1> QED BY <1>2, <1>4, <1>5, OthersStand

\* A worker's statement, an exception or a crash.
LEMMA WorkerKeeps ==
  ASSUME RouteInv, NEW r \in Runs, Progress(r) \/ Raise(r) \/ Crash(r)
  PROVE  \A x \in Runs : Kept(x)
<1> DEFINE Quiet(next) == Goto(r, next) /\ UNCHANGED <<job, feedback, request, report>>
<1> USE DEF dbVars, apiVars
<1>1. report[r] # "none" \/ pc[r] \notin Delivering
  BY DEF RouteInv, RouteAgrees
<1>2. CASE SetPlanning(r) \/ LoadBrief(r) \/ Plan(r) \/ TracePlan(r)
           \/ PublishPlan(r) \/ Research(r)
  <2>1. PICK next \in (Early \ {"free"}) \cup {"ended", "mark_failed"} :
          Quiet(next) /\ pc[r] \in Early
    BY <1>2
    DEF SetPlanning, LoadBrief, Plan, TracePlan, PublishPlan, Research,
        StatusStep, ControlStep, TraceStep, EventStep, Early
  <2> QED
    BY <2>1, QuietRouteStep
    DEF Early, Stopping, Active, Guarded, Idle, Reviewing, Delivering
<1>3. CASE PublishResearch(r)
  <2>1. /\ pc[r] = "researched"
        /\ Quiet(IF job[r] \in Quick THEN "persist" ELSE "review")
    BY <1>3 DEF PublishResearch, EventStep
  <2> QED
    BY <2>1, QuietRouteStep
    DEF Early, Stopping, Active, Guarded, Idle, Reviewing, Delivering
<1>4. CASE HumanReview(r) \/ SetAwaitingReview(r) \/ Subscribe(r) \/ PublishResumed(r)
  <2>1. /\ pc[r] \in Reviewing
        /\ \/ pc[r] = "review" /\ Quiet("paused")
           \/ pc[r] = "paused" /\ Quiet("subscribe")
           \/ pc[r] = "subscribe" /\ Quiet("wait")
           \/ pc[r] = "resumed" /\ Quiet("rerun")
    BY <1>4
    DEF HumanReview, SetAwaitingReview, Subscribe, PublishResumed, EventStep,
        StatusStep, ControlStep, Reviewing
  <2>2. job[r] \notin Quick
    BY <2>1 DEF RouteInv, RouteAgrees
  <2> QED
    BY <2>1, <2>2, QuietRouteStep DEF Active, Guarded, Delivering
<1>5. CASE ReceiveResume(r) \/ ReviewTimeout(r)
  BY <1>5, WaitKeeps DEF ReceiveResume, ReviewTimeout
<1>6. CASE RerunHumanReview(r)
  <2>1. pc[r] = "rerun" /\ Quiet(Decision(r))
    BY <1>6 DEF RerunHumanReview, EventStep
  <2>2. Decision(r) \in {"research", "persist"}
    BY DEF Decision
  <2> QED
    BY <2>1, <2>2, QuietRouteStep DEF Active, Guarded, Reviewing, Delivering
<1>7. CASE PersistReport(r)
  BY <1>7, PersistKeeps
<1>8. CASE SetComplete(r) \/ IndexBrief(r) \/ LoadReport(r)
           \/ PublishReportReady(r) \/ PublishComplete(r) \/ CloseConnection(r)
  <2>1. PICK next \in {"index", "load_report", "write", "close", "closed", "ended"} :
          Quiet(next) /\ pc[r] \in Delivering
    BY <1>8
    DEF SetComplete, IndexBrief, LoadReport, PublishReportReady,
        PublishComplete, CloseConnection, StatusStep, EventStep, ControlStep,
        Delivering
  <2> QED
    BY <1>1, <2>1, QuietRouteStep DEF Active, Guarded, Idle, Reviewing
<1>9. CASE WritePdf(r)
  <2>1. report[target[r]] # "none"
    BY <1>9 DEF WritePdf, ReportStep, RouteInv, RowsAgree, ReportsOf
  <2> DEFINE state == IF report[target[r]] = "row" THEN "pdf" ELSE report[target[r]]
  <2>2. state # "none" /\ ReportStep(r, "write", target[r], state, "email")
    BY <1>9, <2>1 DEF WritePdf
  <2> HIDE DEF state
  <2> QED BY <2>2, DeliverKeeps
<1>10. CASE EmailReport(r)
  BY <1>10, DeliverKeeps DEF EmailReport
<1>11. CASE MarkFailed(r) \/ PublishFailed(r)
  <2>1. PICK next \in {"announce_failed", "ended"} :
          Quiet(next) /\ pc[r] \in Stopping
    BY <1>11 DEF MarkFailed, PublishFailed, StatusStep, EventStep, Stopping
  <2> QED
    BY <2>1, QuietRouteStep
    DEF Stopping, Active, Idle, Reviewing, Delivering
<1>12. CASE Raise(r) \/ Crash(r)
  <2>1. PICK next \in {"mark_failed", "crashed"} : Quiet(next)
    BY <1>12 DEF Raise, Crash, Leave
  <2> QED
    BY <2>1, QuietRouteStep
    DEF Stopping, Active, Idle, Reviewing, Delivering
<1> QED
  BY <1>2, <1>3, <1>4, <1>5, <1>6, <1>7, <1>8, <1>9, <1>10, <1>11, <1>12
  DEF Progress

\* Every step of the system.
LEMMA StepKeeps ==
  ASSUME RouteInv, [Next]_vars
  PROVE  \A x \in Runs : Kept(x)
<1> USE DEF dbVars, apiVars, brokerVars, runVars
<1>1. ASSUME NEW b \in Briefs,
             \/ CreateBrief(b) \/ EnqueueBrief(b) \/ EnqueueFails(b)
             \/ DeleteBrief(b) \/ Redeliver(b)
      PROVE  \A x \in Runs : Kept(x)
  BY <1>1, NobodyMoves
  DEF CreateBrief, EnqueueBrief, EnqueueFails, DeleteBrief, Redeliver
<1>2. ASSUME NEW q \in Requests, NEW b \in Briefs, NEW action \in ReviewActions,
             CheckResume(q, b, action)
      PROVE  \A x \in Runs : Kept(x)
  BY <1>2, NobodyMoves DEF CheckResume, RouteInv, TypeOK
<1>3. ASSUME NEW q \in Requests, PublishResume(q)
      PROVE  \A x \in Runs : Kept(x)
  BY <1>3, NobodyMoves DEF PublishResume, RouteInv, TypeOK
<1>4. ASSUME NEW r \in Runs, NEW b \in Briefs, Accept(r, b)
      PROVE  \A x \in Runs : Kept(x)
  BY <1>4, AcceptKeeps
<1>5. ASSUME NEW r \in Runs, Progress(r) \/ Raise(r) \/ Crash(r)
      PROVE  \A x \in Runs : Kept(x)
  BY <1>5, WorkerKeeps
<1>6. CASE UNCHANGED vars
  BY <1>6, NobodyMoves DEF vars
<1> QED
  BY <1>1, <1>2, <1>3, <1>4, <1>5, <1>6 DEF Next, Api, Broker, Worker

\* The invariant behind the contract holds.
LEMMA RouteInvariant == Spec => []RouteInv
<1> DEFINE Rows == RowInv
           Decisions == /\ \A x \in Runs : DecisionsAgree(x)
                        /\ DecidedBeforeReport /\ DecisionWasSentHere
           Routes == \A r \in Runs : RouteAgrees(r)
<1>1. Init => Routes
  BY DEF Init, RouteAgrees, Reviewing, Delivering
<1>2. Rows /\ Decisions /\ Routes => RouteInv
  BY DEF RowInv, RouteInv
<1>3. RouteInv /\ [Next]_vars => Routes'
  BY StepKeeps DEF Kept
<1> HIDE DEF Rows, Decisions, Routes
<1>4. Spec => []Rows
  BY RowInvariant DEF Rows
<1>5. Spec => []Decisions
  BY DecisionInvariant DEF Decisions
<1> QED BY <1>1, <1>2, <1>3, <1>4, <1>5, PTL DEF Spec

\* Rows, decisions and positions of the runs agree in every reachable state.
THEOREM RunsStayConsistent == Spec => []RunsConsistent
<1>1. RouteInv => RunsConsistent
  BY DEF RouteInv, RunsConsistent
<1> QED BY <1>1, RouteInvariant, PTL

\* Every run keeps the promise made to the reviewer: nothing of a reviewed
\* depth is stored before the current draft was accepted, and a revision leads
\* to a new draft before anybody is asked again.
THEOREM ContractKept == Spec => RunsKeepContract
<1>1. Init => \A r \in Runs : Contract(r)!Init
  BY DEF Init, Contract!Init, Phase
<1>2. RouteInv /\ [Next]_vars => [\A r \in Runs : [Contract(r)!Next]_(Phase(r))]_vars
  BY StepKeeps DEF Kept
<1> QED BY <1>1, <1>2, RouteInvariant, PTL DEF Spec, RunsKeepContract

=============================================================================
