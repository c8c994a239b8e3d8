--------------------------- MODULE BriefRunProofs ---------------------------
(* Proofs about BriefRun, for every set of briefs, runs and resume calls. *)
EXTENDS BriefRun, TLAPS

USE BriefsAssumption, RunsAssumption, BoundsAssumption

\* The initial database, broker and pool are typed.
LEMMA TypeInit == Init => TypeOK
BY DEF Init, TypeOK, Statuses, ReportStates, Events, Active, Guarded, Idle,
       Feedbacks, RequestStates, ReviewActions

\* The variables keep their types: no run ever leaves its program, no counter
\* its bound, and the broker never hands out a message it does not hold.
THEOREM TypeCorrect == Spec => []TypeOK
<1>1. Init => TypeOK
  BY TypeInit
<1>2. TypeOK /\ [Next]_vars => TypeOK'
  <2> SUFFICES ASSUME TypeOK, [Next]_vars PROVE TypeOK'
    OBVIOUS
  <2> USE DEF TypeOK, dbVars, apiVars, brokerVars, runVars
  <2>1. ASSUME NEW b \in Briefs, CreateBrief(b) PROVE TypeOK'
    BY <2>1 DEF CreateBrief, Statuses
  <2>2. ASSUME NEW b \in Briefs, EnqueueBrief(b) PROVE TypeOK'
    BY <2>2 DEF EnqueueBrief
  <2>3. ASSUME NEW b \in Briefs, EnqueueFails(b) PROVE TypeOK'
    BY <2>3 DEF EnqueueFails
  <2>4. ASSUME NEW b \in Briefs, DeleteBrief(b) PROVE TypeOK'
    BY <2>4 DEF DeleteBrief, Statuses
  <2>5. ASSUME NEW q \in Requests, NEW b \in Briefs,
               NEW action \in ReviewActions, CheckResume(q, b, action)
        PROVE TypeOK'
    <3>1. request' \in [Requests -> RequestStates]
      BY <2>5 DEF CheckResume, RequestStates
    <3> QED BY <2>5, <3>1 DEF CheckResume
  <2>6. ASSUME NEW q \in Requests, PublishResume(q) PROVE TypeOK'
    <3>1. request' \in [Requests -> RequestStates]
      <4>1. Listeners(q) \in SUBSET Runs
        BY DEF Listeners
      <4> DEFINE answered == [request[q] EXCEPT !.at = "acked",
                                               !.reached = Listeners(q)]
      <4>2. answered \in RequestStates
        <5>1. request[q] \in RequestStates
          OBVIOUS
        <5> QED BY ONLY <4>1, <5>1 DEF RequestStates
      <4>3. request' = [request EXCEPT ![q] = answered]
        BY <2>6 DEF PublishResume
      <4> QED BY <4>2, <4>3
    <3>2. inbox' \in [Runs -> Seq(Requests)]
      BY <2>6 DEF PublishResume
    <3> QED BY <2>6, <3>1, <3>2 DEF PublishResume
  <2>7. ASSUME NEW b \in Briefs, Redeliver(b) PROVE TypeOK'
    BY <2>7 DEF Redeliver
  <2>8. ASSUME NEW b \in Briefs, NEW r \in Runs, Accept(r, b) PROVE TypeOK'
    BY <2>8 DEF Accept, Dequeue, Goto, Active, Guarded
  <2>9. ASSUME NEW r \in Runs, NEW next \in Active \cup Idle, NEW at,
               ControlStep(r, at, next)
        PROVE TypeOK'
    BY <2>9 DEF ControlStep, Goto
  <2>10. ASSUME NEW r \in Runs, NEW next \in Active \cup Idle, NEW at,
                NEW s \in Statuses, StatusStep(r, at, s, next)
         PROVE TypeOK'
    BY <2>10 DEF StatusStep, Goto, SetStatus
  <2>11. ASSUME NEW r \in Runs, NEW next \in Active \cup Idle, NEW at,
                NEW e \in Events, EventStep(r, at, e, next)
         PROVE TypeOK'
    BY <2>11 DEF EventStep, Goto
  <2>12. ASSUME NEW r \in Runs, NEW next \in Active \cup Idle, NEW at,
                TraceStep(r, at, next)
         PROVE TypeOK'
    <3>1. CASE Exists(job[r])
      <4>1. pc' \in [Runs -> Active \cup Idle]
        BY <2>12, <3>1 DEF TraceStep, Goto
      <4>2. hasChildren' \in [Briefs -> BOOLEAN]
        BY <2>12, <3>1 DEF TraceStep
      <4> QED BY <2>12, <4>1, <4>2 DEF TraceStep
    <3>2. CASE ~Exists(job[r])
      BY <2>12, <3>2 DEF TraceStep, Goto, Active
    <3> QED BY <3>1, <3>2
  <2>13. ASSUME NEW r \in Runs, NEW next \in Active \cup Idle, NEW at, NEW x,
                NEW state \in ReportStates, ReportStep(r, at, x, state, next)
         PROVE TypeOK'
    BY <2>13 DEF ReportStep, Goto
  <2>14. ASSUME NEW r \in Runs, NEW decision \in Feedbacks,
                WaitReturns(r, decision)
         PROVE TypeOK'
    BY <2>14 DEF WaitReturns, Goto, Active, Guarded
  <2>15. ASSUME NEW r \in Runs, Progress(r) PROVE TypeOK'
    <3> USE <2>9, <2>10, <2>11, <2>12, <2>13, <2>14
    <3>1. CASE SetPlanning(r) \/ Plan(r) \/ SetAwaitingReview(r) \/ MarkFailed(r)
      BY <3>1 DEF SetPlanning, Plan, SetAwaitingReview, MarkFailed, Statuses,
                  Active, Guarded
    <3>2. CASE SetComplete(r)
      BY <3>2 DEF SetComplete, Statuses, Active, Guarded
    <3>3. CASE LoadBrief(r) \/ Subscribe(r) \/ CloseConnection(r)
      BY <3>3 DEF LoadBrief, Subscribe, CloseConnection, Active, Guarded, Idle
    <3>4. CASE TracePlan(r) \/ Research(r)
      BY <3>4 DEF TracePlan, Research, Active, Guarded
    <3>5. CASE \/ HumanReview(r) \/ PublishResumed(r) \/ PublishReportReady(r)
               \/ PublishComplete(r) \/ PublishFailed(r) \/ PublishPlan(r)
               \/ PublishResearch(r)
      BY <3>5 DEF HumanReview, PublishResumed, PublishReportReady,
                  PublishComplete, PublishFailed, PublishPlan, PublishResearch,
                  Events, Active, Guarded, Idle
    <3>6. CASE RerunHumanReview(r)
      BY <3>6 DEF RerunHumanReview, Decision, Events, Active, Guarded
    <3>7. CASE ReceiveResume(r)
      <4>1. Head(inbox[r]) \in Requests
        BY <3>7 DEF ReceiveResume
      <4> QED BY <3>7, <4>1 DEF ReceiveResume, Feedbacks
    <3>8. CASE ReviewTimeout(r)
      BY <3>8 DEF ReviewTimeout, Feedbacks
    <3>9. CASE PersistReport(r)
      BY <3>9 DEF PersistReport, ReportStates, Active, Guarded
    <3>10. CASE WritePdf(r)
      <4> DEFINE state == IF report[target[r]] = "row" THEN "pdf"
                                                       ELSE report[target[r]]
      <4>1. pc' \in [Runs -> Active \cup Idle]
        BY <3>10 DEF WritePdf, ReportStep, Goto, Active, Guarded
      <4>2. report' = [report EXCEPT ![target[r]] = state]
        BY <3>10 DEF WritePdf, ReportStep
      <4>3. target[r] \in Runs => state \in ReportStates
        BY DEF ReportStates
      <4>4. report' \in [Runs -> ReportStates]
        BY <4>2, <4>3
      <4>5. UNCHANGED <<status, completedAt, hasChildren, apiVars, brokerVars,
                        inbox, lastEvent, job, feedback, target, crashes>>
        BY <3>10 DEF WritePdf, ReportStep
      <4> QED BY <4>1, <4>4, <4>5
    <3>11. CASE EmailReport(r)
      BY <3>11 DEF EmailReport, ReportStates, Active, Guarded
    <3>12. CASE IndexBrief(r)
      BY <3>12 DEF IndexBrief, Goto, Active, Guarded
    <3>13. CASE LoadReport(r)
      <4>1. pc' \in [Runs -> Active \cup Idle]
        <5>1. Goto(r, "write") \/ Goto(r, "close")
          BY <3>13 DEF LoadReport
        <5> QED BY <5>1 DEF Goto, Active, Guarded
      <4>2. target' \in [Runs -> Runs \cup {NoRun}]
        BY <3>13 DEF LoadReport, ReportsOf
      <4> QED BY <3>13, <4>1, <4>2 DEF LoadReport
    <3> QED BY <2>15, <3>1, <3>2, <3>3, <3>4, <3>5, <3>6, <3>7, <3>8, <3>9,
               <3>10, <3>11, <3>12, <3>13 DEF Progress
  <2>16. ASSUME NEW r \in Runs, Raise(r) PROVE TypeOK'
    BY <2>16 DEF Raise, Leave, Goto, Active
  <2>17. ASSUME NEW r \in Runs, Crash(r) PROVE TypeOK'
    BY <2>17 DEF Crash, Leave, Goto, Idle
  <2>18. CASE UNCHANGED vars
    BY <2>18 DEF vars
  <2> QED
    BY <2>1, <2>2, <2>3, <2>4, <2>5, <2>6, <2>7, <2>8, <2>15, <2>16, <2>17,
       <2>18 DEF Next, Api, Broker, Worker
<1> QED BY <1>1, <1>2, PTL DEF Spec

-----------------------------------------------------------------------------
(* Completed briefs have their report.                                     *)
(* Inductive invariant: the report of a run is in the table before the run *)
(* sets "complete", no run takes a row away, and delete_brief cannot.      *)

RowInv == TypeOK /\ (\A r \in Runs : RowsAgree(r)) /\ CompletedHasReport

\* A step that moves run r, adds no report and completes nothing keeps RowInv.
LEMMA QuietRowStep ==
  ASSUME RowInv, NEW r \in Runs, NEW next \in Active \cup Idle,
         pc[r] \notin {"free"}, next \notin {"free", "finish", "write", "email"},
         pc[r] \in AfterReport => next \in AfterReport,
         Goto(r, next), UNCHANGED <<report, job, completedAt>>,
         \A b \in Briefs : /\ Exists(b) => Exists(b)'
                           /\ status'[b] = "complete" => status[b] = "complete",
         \A x \in Runs : x # r => target'[x] = target[x]
  PROVE  (\A x \in Runs : RowsAgree(x))' /\ CompletedHasReport'
<1>1. ASSUME NEW b PROVE ReportsOf(b)' = ReportsOf(b)
  BY DEF ReportsOf
<1>2. ASSUME NEW x \in Runs PROVE RowsAgree(x)'
  <2>1. CASE x = r
    BY <2>1 DEF RowInv, TypeOK, RowsAgree, Goto
  <2>2. CASE x # r
    <3>1. pc'[x] = pc[x]
      BY <2>2 DEF Goto, RowInv, TypeOK
    <3> QED BY <1>1, <2>2, <3>1 DEF RowInv, RowsAgree
  <2> QED BY <2>1, <2>2
<1>3. CompletedHasReport'
  BY <1>1 DEF RowInv, CompletedHasReport
<1> QED BY <1>2, <1>3

\* A step that moves no run and removes no completed brief keeps RowInv.
LEMMA FrozenRowStep ==
  ASSUME RowInv, UNCHANGED <<pc, job, report, target, completedAt>>,
         \A b \in Briefs :
           /\ Exists(b) /\ ReportsOf(b) # {} => Exists(b)'
           /\ status'[b] = "complete" => status[b] = "complete"
  PROVE  (\A x \in Runs : RowsAgree(x))' /\ CompletedHasReport'
<1>1. ASSUME NEW b PROVE ReportsOf(b)' = ReportsOf(b)
  BY DEF ReportsOf
<1>2. ASSUME NEW x \in Runs PROVE RowsAgree(x)'
  BY <1>1 DEF RowInv, RowsAgree
<1>3. CompletedHasReport'
  BY <1>1 DEF RowInv, CompletedHasReport
<1> QED BY <1>2, <1>3

\* A commit on a reports row keeps every row and adds at most the run's own.
LEMMA ReportRowStep ==
  ASSUME RowInv, NEW r \in Runs, NEW x \in Runs, NEW state \in ReportStates,
         NEW next \in AfterReport, next \notin {"write", "email"} \/ target[r] \in ReportsOf(job[r]),
         NEW at, at # "free",
         state # "none", x = r \/ report[x] # "none",
         x = r \/ next # "finish", ReportStep(r, at, x, state, next)
  PROVE  (\A y \in Runs : RowsAgree(y))' /\ CompletedHasReport'
<1>1. report' = [report EXCEPT ![x] = state] /\ pc' = [pc EXCEPT ![r] = next]
  BY DEF ReportStep, Goto
<1>2. UNCHANGED <<status, completedAt, job, target>> /\ pc[r] = at
  BY DEF ReportStep
<1>3. ASSUME NEW y \in Runs, report[y] # "none" PROVE report'[y] # "none"
  BY <1>1, <1>3 DEF RowInv, TypeOK
<1>4. ASSUME NEW b PROVE ReportsOf(b) \subseteq ReportsOf(b)'
  BY <1>2, <1>3 DEF ReportsOf
<1>5. ASSUME NEW y \in Runs PROVE RowsAgree(y)'
  <2>1. pc'[y] = IF y = r THEN next ELSE pc[y]
    BY <1>1 DEF RowInv, TypeOK
  <2>2. report'[y] = IF y = x THEN state ELSE report[y]
    BY <1>1 DEF RowInv, TypeOK
  <2>3. CASE y = r
    <3>1. job'[y] \in Briefs
      BY <1>2, <2>3 DEF RowInv, RowsAgree
    <3>2. pc'[y] = "finish" => report'[y] # "none"
      BY <2>1, <2>2, <2>3
    <3>3. pc'[y] \in {"write", "email"} => target'[y] \in ReportsOf(job[y])'
      BY <1>2, <1>4, <2>1, <2>3
    <3> QED BY <1>2, <2>1, <2>3, <3>1, <3>2, <3>3 DEF RowsAgree
  <2>4. CASE y # r
    <3>1. RowsAgree(y)
      BY DEF RowInv
    <3>2. report'[y] # "none" => report[y] # "none"
      BY <2>2, <2>4
    <3>3. target[y] \in ReportsOf(job[y]) => target'[y] \in ReportsOf(job[y])'
      BY <1>2, <1>4
    <3> QED BY <1>2, <1>3, <2>1, <2>4, <3>1, <3>2, <3>3 DEF RowsAgree
  <2> QED BY <2>3, <2>4
<1>6. CompletedHasReport'
  <2> SUFFICES ASSUME NEW b \in Briefs, completedAt'[b] \/ status'[b] = "complete"
               PROVE  Exists(b)' /\ ReportsOf(b)' # {}
    BY DEF CompletedHasReport
  <2>1. Exists(b) /\ ReportsOf(b) # {}
    BY <1>2 DEF RowInv, CompletedHasReport
  <2> QED BY <1>2, <1>4, <2>1 DEF Exists
<1> QED BY <1>5, <1>6

\* Every status update but the completion is quiet.
LEMMA StatusRowStep ==
  ASSUME RowInv, NEW r \in Runs, NEW at, NEW s \in Statuses,
         NEW next \in Active \cup Idle, at # "free",
         next \notin {"free", "finish", "write", "email"},
         at \in AfterReport => next \in AfterReport,
         s \notin {"absent", "deleted", "complete"},
         StatusStep(r, at, s, next)
  PROVE  (\A x \in Runs : RowsAgree(x))' /\ CompletedHasReport'
<1>1. /\ Goto(r, next) /\ pc[r] = at
      /\ UNCHANGED <<report, job, target>>
  BY DEF StatusStep
<1>2. completedAt' = completedAt
  BY DEF StatusStep, RowInv, TypeOK
<1>3. ASSUME NEW b \in Briefs
      PROVE  /\ Exists(b) => Exists(b)'
             /\ status'[b] = "complete" => status[b] = "complete"
  BY DEF StatusStep, SetStatus, RowInv, TypeOK, Exists
<1> QED BY <1>1, <1>2, <1>3, QuietRowStep

\* Rows and positions agree in every reachable state: delete_brief, late runs
\* and crashes included.
LEMMA RowInvariant == Spec => []RowInv
<1>1. Init => RowInv
  <2> SUFFICES ASSUME Init PROVE (\A r \in Runs : RowsAgree(r)) /\ CompletedHasReport
    BY TypeInit DEF RowInv
  <2> QED BY DEF Init, RowsAgree, CompletedHasReport
<1>2. RowInv /\ TypeOK' /\ [Next]_vars => RowInv'
  <2> SUFFICES ASSUME RowInv, TypeOK', [Next]_vars
               PROVE  (\A r \in Runs : RowsAgree(r))' /\ CompletedHasReport'
    BY DEF RowInv
  <2> DEFINE Goal == (\A r \in Runs : RowsAgree(r))' /\ CompletedHasReport'
  <2> USE DEF dbVars, apiVars, brokerVars, runVars
  <2>1. ASSUME NEW b \in Briefs, CreateBrief(b) PROVE Goal
    <3>1. \A x \in Briefs : /\ Exists(x) => Exists(x)'
                            /\ status'[x] = "complete" => status[x] = "complete"
      BY <2>1 DEF CreateBrief, Exists, RowInv, TypeOK
    <3> QED BY <2>1, <3>1, FrozenRowStep DEF CreateBrief
  <2>2. ASSUME NEW b \in Briefs, DeleteBrief(b) PROVE Goal
    <3>1. \A x \in Briefs : /\ Exists(x) /\ ReportsOf(x) # {} => Exists(x)'
                            /\ status'[x] = "complete" => status[x] = "complete"
      BY <2>2 DEF DeleteBrief, Deletable, Exists, RowInv, TypeOK
    <3> QED BY <2>2, <3>1, FrozenRowStep DEF DeleteBrief
  <2>3. ASSUME UNCHANGED <<status, pc, job, report, target, completedAt>> PROVE Goal
    BY <2>3, FrozenRowStep DEF Exists
  <2>4. ASSUME NEW b \in Briefs, EnqueueBrief(b) \/ EnqueueFails(b) \/ Redeliver(b)
        PROVE Goal
    BY <2>3, <2>4 DEF EnqueueBrief, EnqueueFails, Redeliver
  <2>5. ASSUME NEW q \in Requests, NEW b \in Briefs, NEW action \in ReviewActions,
               CheckResume(q, b, action)
        PROVE Goal
    BY <2>3, <2>5 DEF CheckResume
  <2>6. ASSUME NEW q \in Requests, PublishResume(q) PROVE Goal
    BY <2>3, <2>6 DEF PublishResume
  <2>7. ASSUME NEW b \in Briefs, NEW r \in Runs, Accept(r, b) PROVE Goal
    <3>1. /\ pc[r] = "free" /\ pc' = [pc EXCEPT ![r] = "set_planning"]
          /\ job' = [job EXCEPT ![r] = b]
          /\ UNCHANGED <<status, completedAt, report, target>>
      BY <2>7 DEF Accept, Goto
    <3>2. report[r] = "none"
      BY <3>1 DEF RowInv, RowsAgree, AfterReport
    <3>3. ASSUME NEW x PROVE ReportsOf(x)' = ReportsOf(x)
      BY <3>1, <3>2 DEF ReportsOf, RowInv, TypeOK
    <3>4. ASSUME NEW x \in Runs PROVE RowsAgree(x)'
      <4>1. CASE x = r
        BY <3>1, <3>2, <4>1 DEF RowInv, TypeOK, RowsAgree
      <4>2. CASE x # r
        <5>1. pc'[x] = pc[x] /\ job'[x] = job[x]
          BY <3>1, <4>2 DEF RowInv, TypeOK
        <5> QED BY <3>1, <3>3, <5>1 DEF RowInv, RowsAgree
      <4> QED BY <4>1, <4>2
    <3>5. CompletedHasReport'
      BY <3>1, <3>3 DEF RowInv, CompletedHasReport, Exists
    <3> QED BY <3>4, <3>5
  <2>8. ASSUME NEW r \in Runs, NEW at, NEW next \in Active \cup Idle, at # "free",
               next \notin {"free", "finish", "write", "email"},
               at \in AfterReport => next \in AfterReport,
               pc[r] = at, Goto(r, next),
               UNCHANGED <<status, report, job, target, completedAt>>
        PROVE Goal
    <3>1. \A b \in Briefs : /\ Exists(b) => Exists(b)'
                            /\ status'[b] = "complete" => status[b] = "complete"
      BY <2>8 DEF Exists
    <3> QED BY <2>8, <3>1, QuietRowStep
  <2>9. ASSUME NEW r \in Runs, Progress(r) PROVE Goal
    <3> USE DEF Active, Guarded, Idle
    <3>1. CASE SetPlanning(r) \/ Plan(r) \/ SetAwaitingReview(r) \/ MarkFailed(r)
      BY <3>1, StatusRowStep DEF SetPlanning, Plan, SetAwaitingReview, MarkFailed,
                                 Statuses, AfterReport
    <3>2. CASE SetComplete(r)
      <4> DEFINE next == IF job[r] \in Consenting THEN "index" ELSE "load_report"
      <4>1. /\ pc[r] = "finish" /\ pc' = [pc EXCEPT ![r] = next]
            /\ status' = [status EXCEPT ![job[r]] =
                            IF Exists(job[r]) THEN "complete" ELSE @]
            /\ completedAt' = [completedAt EXCEPT ![job[r]] =
                            @ \/ ("complete" = "complete" /\ Exists(job[r]))]
            /\ UNCHANGED <<report, job, target>>
        BY <3>2 DEF SetComplete, StatusStep, SetStatus, Goto
      <4>2. ASSUME NEW b PROVE ReportsOf(b)' = ReportsOf(b)
        BY <4>1 DEF ReportsOf
      <4>3. ASSUME NEW x \in Runs PROVE RowsAgree(x)'
        <5>1. CASE x = r
          BY <4>1, <5>1 DEF RowInv, TypeOK, RowsAgree, AfterReport
        <5>2. CASE x # r
          <6>1. pc'[x] = pc[x]
            BY <4>1, <5>2 DEF RowInv, TypeOK
          <6> QED BY <4>1, <4>2, <6>1 DEF RowInv, RowsAgree
        <5> QED BY <5>1, <5>2
      <4>4. ReportsOf(job[r]) # {}
        BY <4>1 DEF RowInv, RowsAgree, ReportsOf
      <4>5. CompletedHasReport'
        <5> SUFFICES ASSUME NEW b \in Briefs,
                            completedAt'[b] \/ status'[b] = "complete"
                     PROVE  Exists(b)' /\ ReportsOf(b)' # {}
          BY DEF CompletedHasReport
        <5>1. CASE b = job[r] /\ Exists(b)
          BY <4>1, <4>2, <4>4, <5>1 DEF RowInv, TypeOK, Exists
        <5>2. CASE ~(b = job[r] /\ Exists(b))
          <6>1. status'[b] = status[b] /\ completedAt'[b] = completedAt[b]
            BY <4>1, <5>2 DEF RowInv, TypeOK
          <6> QED BY <4>2, <6>1 DEF RowInv, CompletedHasReport, Exists
        <5> QED BY <5>1, <5>2
      <4> QED BY <4>3, <4>5
    <3>3. CASE LoadBrief(r) \/ Subscribe(r) \/ CloseConnection(r)
      BY <3>3, <2>8 DEF LoadBrief, Subscribe, CloseConnection, ControlStep,
                        AfterReport
    <3>4. CASE TracePlan(r) \/ Research(r)
      BY <3>4, <2>8 DEF TracePlan, Research, TraceStep, AfterReport
    <3>5. CASE \/ HumanReview(r) \/ PublishResumed(r) \/ PublishReportReady(r)
               \/ PublishComplete(r) \/ PublishFailed(r) \/ RerunHumanReview(r)
               \/ PublishPlan(r) \/ PublishResearch(r)
      BY <3>5, <2>8 DEF HumanReview, PublishResumed, PublishReportReady,
                        PublishComplete, PublishFailed, RerunHumanReview,
                        PublishPlan, PublishResearch, Decision, EventStep,
                        AfterReport
    <3>6. CASE ReceiveResume(r) \/ ReviewTimeout(r)
      BY <3>6, <2>8 DEF ReceiveResume, ReviewTimeout, WaitReturns, AfterReport
    <3>7. CASE PersistReport(r)
      <4>1. CASE Exists(job[r])
        BY <3>7, <4>1, ReportRowStep DEF PersistReport, ReportStates, AfterReport
      <4>2. CASE ~Exists(job[r])
        BY <3>7, <4>2, <2>8 DEF PersistReport, ControlStep, AfterReport
      <4> QED BY <4>1, <4>2
    <3>8. CASE WritePdf(r)
      <4> DEFINE state == IF report[target[r]] = "row" THEN "pdf"
                                                       ELSE report[target[r]]
      <4>1. target[r] \in ReportsOf(job[r])
        BY <3>8 DEF WritePdf, ReportStep, RowInv, RowsAgree
      <4>2. state \in ReportStates /\ state # "none"
        BY <4>1 DEF ReportsOf, RowInv, TypeOK, ReportStates
      <4>3. ReportStep(r, "write", target[r], state, "email")
        BY <3>8 DEF WritePdf
      <4> QED BY <4>1, <4>2, <4>3, ReportRowStep DEF ReportsOf, AfterReport
    <3>9. CASE EmailReport(r)
      <4>1. target[r] \in ReportsOf(job[r])
        BY <3>9 DEF EmailReport, ReportStep, RowInv, RowsAgree
      <4> QED BY <3>9, <4>1, ReportRowStep DEF EmailReport, ReportsOf,
                                               ReportStates, AfterReport
    <3>10. CASE IndexBrief(r)
      BY <3>10, <2>8 DEF IndexBrief, AfterReport
    <3>11. CASE LoadReport(r)
      <4>1. CASE Exists(job[r]) /\ ReportsOf(job[r]) # {}
        <5>1. PICK x \in ReportsOf(job[r]) : target' = [target EXCEPT ![r] = x]
          BY <3>11, <4>1 DEF LoadReport
        <5>2. /\ pc[r] = "load_report" /\ pc' = [pc EXCEPT ![r] = "write"]
              /\ UNCHANGED <<status, completedAt, report, job>>
          BY <3>11, <4>1 DEF LoadReport, Goto
        <5>3. ASSUME NEW b PROVE ReportsOf(b)' = ReportsOf(b)
          BY <5>2 DEF ReportsOf
        <5>4. ASSUME NEW y \in Runs PROVE RowsAgree(y)'
          <6>1. CASE y = r
            BY <5>1, <5>2, <5>3, <6>1 DEF RowInv, TypeOK, RowsAgree, AfterReport
          <6>2. CASE y # r
            <7>1. pc'[y] = pc[y] /\ target'[y] = target[y]
              BY <5>1, <5>2, <6>2 DEF RowInv, TypeOK
            <7> QED BY <5>2, <5>3, <7>1 DEF RowInv, RowsAgree
          <6> QED BY <6>1, <6>2
        <5>5. CompletedHasReport'
          BY <5>2, <5>3 DEF RowInv, CompletedHasReport, Exists
        <5> QED BY <5>4, <5>5
      <4>2. CASE ~(Exists(job[r]) /\ ReportsOf(job[r]) # {})
        BY <3>11, <4>2, <2>8 DEF LoadReport, AfterReport
      <4> QED BY <4>1, <4>2
    <3> QED BY <2>9, <3>1, <3>2, <3>3, <3>4, <3>5, <3>6, <3>7, <3>8, <3>9,
               <3>10, <3>11 DEF Progress
  <2>10. ASSUME NEW r \in Runs, Raise(r) \/ Crash(r) PROVE Goal
    BY <2>10, <2>8 DEF Raise, Crash, Leave, AfterReport, Active, Guarded, Idle
  <2>11. CASE UNCHANGED vars
    BY <2>3, <2>11 DEF vars
  <2> QED
    BY <2>1, <2>2, <2>4, <2>5, <2>6, <2>7, <2>9, <2>10, <2>11
       DEF Next, Api, Broker, Worker
<1> QED BY <1>1, <1>2, TypeCorrect, PTL DEF Spec

\* A brief that was ever complete exists and has a report row.
THEOREM CompletionIsBacked == Spec => []CompletedHasReport
<1>1. RowInv => CompletedHasReport
  BY DEF RowInv
<1> QED BY <1>1, RowInvariant, PTL

-----------------------------------------------------------------------------
(* Reports are stored, and runs resumed, only on decisions sent for them.  *)
(* Inductive invariant: what sits in a subscribed socket was published to  *)
(* that run for its brief, and a run carries its decision from the wait to *)
(* the insert; an acknowledged call never changes.                         *)

DecInv == /\ TypeOK
          /\ \A r \in Runs : RowsAgree(r) /\ DecisionsAgree(r)
          /\ DecidedBeforeReport
          /\ DecisionWasSentHere

\* The timeout's approval is no caller's, and two calls never look the same.
LEMMA FeedbackDistinct ==
  /\ NoFeedback # TimedOut
  /\ \A q \in Requests : From(q) # NoFeedback /\ From(q) # TimedOut
  /\ \A p, q \in Requests : From(p) = From(q) => p = q
<1>1. ASSUME NEW q \in Requests PROVE From(q).by = "request" /\ From(q).id = q
  BY DEF From
<1>2. NoFeedback.by = "nobody" /\ TimedOut.by = "timeout"
  BY DEF NoFeedback, TimedOut
<1> QED BY <1>1, <1>2

\* Runs that do not move keep what they know: acknowledged calls are frozen.
LEMMA StandingRun ==
  ASSUME DecInv, NEW r \in Runs,
         pc'[r] = pc[r], job'[r] = job[r], feedback'[r] = feedback[r],
         inbox'[r] = inbox[r],
         report'[r] # "none" => report[r] # "none",
         \A q \in Requests : request[q].at = "acked" => request'[q] = request[q]
  PROVE  /\ DecisionsAgree(r)'
         /\ report'[r] # "none" /\ job'[r] \notin Quick => Decided(r)'
         /\ \A q \in Requests : feedback'[r] = From(q) => SentTo(q, r)'
<1>1. ASSUME NEW q \in Requests, SentTo(q, r) PROVE SentTo(q, r)'
  BY <1>1 DEF SentTo
<1>2. \A q \in Requests : feedback[r] = From(q) => SentTo(q, r)
  BY DEF DecInv, DecisionWasSentHere
<1>3. Decided(r) => Decided(r)'
  <2>1. CASE feedback[r] = TimedOut
    BY <2>1 DEF Decided
  <2>2. ASSUME NEW q \in Requests, feedback[r] = From(q),
               request[q].action # "revise"
        PROVE  Decided(r)'
    <3>1. request'[q] = request[q]
      BY <1>2, <2>2 DEF SentTo
    <3> QED BY <2>2, <3>1 DEF Decided
  <2> QED BY <2>1, <2>2 DEF Decided
<1>4. DecisionsAgree(r)
  BY DEF DecInv
<1>5. ASSUME NEW i \in 1..Len(inbox[r]) PROVE SentTo(inbox[r][i], r)'
  <2>1. inbox[r][i] \in Requests
    BY DEF DecInv, TypeOK
  <2> QED BY <1>1, <1>4, <2>1 DEF DecisionsAgree
<1>6. DecisionsAgree(r)'
  BY <1>3, <1>4, <1>5 DEF DecisionsAgree
<1>7. report'[r] # "none" /\ job'[r] \notin Quick => Decided(r)'
  BY <1>3 DEF DecInv, DecidedBeforeReport
<1> QED BY <1>1, <1>2, <1>6, <1>7

\* A run that moves without waiting keeps its decision and an empty socket.
LEMMA MovingRun ==
  ASSUME DecInv, NEW r \in Runs, pc[r] # "free", pc'[r] # "free",
         inbox'[r] = <<>>,
         request' = request, job'[r] = job[r], feedback'[r] = feedback[r],
         pc'[r] = "persist" /\ job[r] \notin Quick => Decided(r),
         pc'[r] \in {"resumed", "rerun"} => feedback[r] # NoFeedback,
         report'[r] # "none" => report[r] # "none" \/ pc[r] = "persist"
  PROVE  /\ DecisionsAgree(r)'
         /\ report'[r] # "none" /\ job'[r] \notin Quick => Decided(r)'
         /\ \A q \in Requests : feedback'[r] = From(q) => SentTo(q, r)'
<1>1. Decided(r) => Decided(r)'
  BY DEF Decided
<1>2. DecisionsAgree(r)'
  BY <1>1 DEF DecisionsAgree
<1>3. report'[r] # "none" /\ job'[r] \notin Quick => Decided(r)'
  BY <1>1 DEF DecInv, DecidedBeforeReport, DecisionsAgree
<1>4. ASSUME NEW q \in Requests, feedback'[r] = From(q) PROVE SentTo(q, r)'
  BY <1>4 DEF DecInv, DecisionWasSentHere, SentTo
<1> QED BY <1>2, <1>3, <1>4

\* A step of run r that leaves requests, jobs and decisions alone.
LEMMA QuietDecisionStep ==
  ASSUME DecInv, NEW r \in Runs, NEW next \in Active \cup Idle,
         pc[r] # "free", next # "free", Goto(r, next),
         inbox' = [inbox EXCEPT ![r] = <<>>] \/ (inbox' = inbox /\ pc[r] # "wait"),
         UNCHANGED <<request, job, feedback>>,
         next = "persist" /\ job[r] \notin Quick => Decided(r),
         next \in {"resumed", "rerun"} => feedback[r] # NoFeedback,
         \A x \in Runs : report'[x] # "none" =>
                           report[x] # "none" \/ (x = r /\ pc[r] = "persist")
  PROVE  /\ (\A x \in Runs : DecisionsAgree(x))'
         /\ DecidedBeforeReport' /\ DecisionWasSentHere'
<1>1. ASSUME NEW x \in Runs
      PROVE  /\ DecisionsAgree(x)'
             /\ report'[x] # "none" /\ job'[x] \notin Quick => Decided(x)'
             /\ \A q \in Requests : feedback'[x] = From(q) => SentTo(q, x)'
  <2>1. CASE x = r
    <3>1. pc'[r] = next
      BY DEF Goto, DecInv, TypeOK
    <3>2. inbox'[r] = <<>>
      BY DEF DecInv, DecisionsAgree, TypeOK
    <3> QED BY <2>1, <3>1, <3>2, MovingRun
  <2>2. CASE x # r
    <3>1. pc'[x] = pc[x] /\ inbox'[x] = inbox[x]
      BY <2>2 DEF Goto, DecInv, TypeOK
    <3> QED BY <2>2, <3>1, StandingRun
  <2> QED BY <2>1, <2>2
<1>2. DecidedBeforeReport' /\ DecisionWasSentHere'
  BY <1>1 DEF DecidedBeforeReport, DecisionWasSentHere
<1> QED BY <1>1, <1>2

\* The wait of run r returns a decision it may act on.
LEMMA WaitStep ==
  ASSUME DecInv, NEW r \in Runs, NEW decision \in Feedbacks,
         decision # NoFeedback, WaitReturns(r, decision),
         \A q \in Requests : decision = From(q) => SentTo(q, r)
  PROVE  /\ (\A x \in Runs : DecisionsAgree(x))'
         /\ DecidedBeforeReport' /\ DecisionWasSentHere'
<1>1. /\ pc[r] = "wait" /\ pc' = [pc EXCEPT ![r] = "resumed"]
      /\ feedback' = [feedback EXCEPT ![r] = decision]
      /\ inbox' = [inbox EXCEPT ![r] = <<>>]
      /\ UNCHANGED <<request, job, report>>
  BY DEF WaitReturns, Goto, dbVars, apiVars
<1>2. report[r] = "none"
  BY <1>1 DEF DecInv, RowsAgree, AfterReport
<1>3. ASSUME NEW x \in Runs
      PROVE  /\ DecisionsAgree(x)'
             /\ report'[x] # "none" /\ job'[x] \notin Quick => Decided(x)'
             /\ \A q \in Requests : feedback'[x] = From(q) => SentTo(q, x)'
  <2>1. CASE x = r
    <3>1. pc'[r] = "resumed" /\ inbox'[r] = <<>> /\ feedback'[r] = decision
      BY <1>1 DEF DecInv, TypeOK
    <3>2. \A q \in Requests : SentTo(q, r) => SentTo(q, r)'
      BY <1>1 DEF SentTo
    <3> QED BY <1>1, <1>2, <2>1, <3>1, <3>2 DEF DecisionsAgree
  <2>2. CASE x # r
    <3>1. pc'[x] = pc[x] /\ inbox'[x] = inbox[x] /\ feedback'[x] = feedback[x]
      BY <1>1, <2>2 DEF DecInv, TypeOK
    <3> QED BY <1>1, <2>2, <3>1, StandingRun
  <2> QED BY <2>1, <2>2
<1> QED BY <1>3 DEF DecidedBeforeReport, DecisionWasSentHere

\* What a run holds, from the socket to the insert, is invariant.
LEMMA DecisionInvariant ==
  Spec => [](/\ \A x \in Runs : DecisionsAgree(x)
             /\ DecidedBeforeReport /\ DecisionWasSentHere)
<1> DEFINE Inv == /\ \A x \in Runs : DecisionsAgree(x)
                  /\ DecidedBeforeReport /\ DecisionWasSentHere
<1>1. Init => Inv
  BY FeedbackDistinct
     DEF Init, DecisionsAgree, DecidedBeforeReport, DecisionWasSentHere
<1>2. RowInv /\ Inv /\ [Next]_vars => Inv'
  <2> SUFFICES ASSUME DecInv, [Next]_vars PROVE Inv'
    BY DEF RowInv, DecInv
  <2> USE DEF dbVars, apiVars, brokerVars, runVars
  <2>1. ASSUME UNCHANGED <<pc, job, feedback, inbox, report>>,
               \A q \in Requests : request[q].at = "acked" => request'[q] = request[q]
        PROVE  Inv'
    <3>1. ASSUME NEW x \in Runs
          PROVE  /\ DecisionsAgree(x)'
                 /\ report'[x] # "none" /\ job'[x] \notin Quick => Decided(x)'
                 /\ \A q \in Requests : feedback'[x] = From(q) => SentTo(q, x)'
      BY <2>1, StandingRun
    <3> QED BY <3>1 DEF DecidedBeforeReport, DecisionWasSentHere
  <2>2. ASSUME NEW b \in Briefs, \/ CreateBrief(b) \/ EnqueueBrief(b)
                                 \/ EnqueueFails(b) \/ DeleteBrief(b) \/ Redeliver(b)
        PROVE  Inv'
    BY <2>1, <2>2 DEF CreateBrief, EnqueueBrief, EnqueueFails, DeleteBrief, Redeliver
  <2>3. ASSUME NEW p \in Requests, NEW b \in Briefs, NEW action \in ReviewActions,
               CheckResume(p, b, action)
        PROVE  Inv'
    <3>1. \A q \in Requests : request[q].at = "acked" => request'[q] = request[q]
      BY <2>3 DEF CheckResume, DecInv, TypeOK
    <3> QED BY <2>1, <2>3, <3>1 DEF CheckResume
  <2>4. ASSUME NEW p \in Requests, PublishResume(p) PROVE Inv'
    <3>1. \A q \in Requests : request[q].at = "acked" => request'[q] = request[q]
      BY <2>4 DEF PublishResume, DecInv, TypeOK
    <3>2. UNCHANGED <<pc, job, feedback, report>>
      BY <2>4 DEF PublishResume
    <3>3. /\ request'[p].at = "acked" /\ request'[p].brief = request[p].brief
          /\ request'[p].reached = Listeners(p)
      BY <2>4 DEF PublishResume, DecInv, TypeOK, RequestStates
    <3>4. ASSUME NEW x \in Runs
          PROVE  /\ DecisionsAgree(x)'
                 /\ report'[x] # "none" /\ job'[x] \notin Quick => Decided(x)'
                 /\ \A q \in Requests : feedback'[x] = From(q) => SentTo(q, x)'
      <4>1. CASE x \notin Listeners(p)
        <5>1. inbox'[x] = inbox[x]
          BY <2>4, <4>1 DEF PublishResume
        <5> QED BY <3>1, <3>2, <5>1, StandingRun
      <4>2. CASE x \in Listeners(p)
        <5>1. /\ pc[x] = "wait" /\ job[x] = request[p].brief
              /\ inbox'[x] = Append(inbox[x], p)
          BY <2>4, <4>2 DEF PublishResume, Listeners
        <5>2. SentTo(p, x)'
          BY <3>2, <3>3, <4>2, <5>1 DEF SentTo
        <5>3. ASSUME NEW q \in Requests, SentTo(q, x) PROVE SentTo(q, x)'
          BY <3>1, <3>2, <5>3 DEF SentTo
        <5>4. ASSUME NEW i \in 1..Len(inbox'[x]) PROVE SentTo(inbox[x][i], x)'
          <6>1. inbox[x] \in Seq(Requests)
            BY DEF DecInv, TypeOK
          <6>2. inbox'[x][i] = IF i <= Len(inbox[x]) THEN inbox[x][i] ELSE p
            BY <5>1, <6>1
          <6>3. i \in 1..Len(inbox[x]) => SentTo(inbox[x][i], x)
            BY DEF DecInv, DecisionsAgree
          <6>4. i \in 1..Len(inbox[x]) => inbox[x][i] \in Requests
            BY <6>1
          <6>5. CASE i <= Len(inbox[x])
            <7>1. i \in 1..Len(inbox[x])
              BY <6>1, <6>5
            <7> QED BY <5>3, <6>2, <6>3, <6>4, <6>5, <7>1 DEF SentTo
          <6>6. CASE ~(i <= Len(inbox[x]))
            BY <5>2, <6>2, <6>6 DEF SentTo
          <6> QED BY <6>5, <6>6
        <5>5. report[x] = "none"
          BY <5>1 DEF DecInv, RowsAgree, AfterReport
        <5>6. \A q \in Requests : feedback'[x] = From(q) => SentTo(q, x)'
          BY <3>2, <5>3 DEF DecInv, DecisionWasSentHere
        <5>7. DecisionsAgree(x)'
          BY <3>2, <5>1, <5>4 DEF DecisionsAgree
        <5> QED BY <3>2, <5>5, <5>6, <5>7
      <4> QED BY <4>1, <4>2
    <3> QED BY <3>4 DEF DecidedBeforeReport, DecisionWasSentHere
  <2>5. ASSUME NEW b \in Briefs, NEW r \in Runs, Accept(r, b) PROVE Inv'
    <3>1. /\ pc[r] = "free" /\ pc' = [pc EXCEPT ![r] = "set_planning"]
          /\ job' = [job EXCEPT ![r] = b]
          /\ UNCHANGED <<report, request, inbox, feedback>>
      BY <2>5 DEF Accept, Goto
    <3>2. /\ report[r] = "none" /\ feedback[r] = NoFeedback /\ inbox[r] = <<>>
      BY <3>1 DEF DecInv, RowsAgree, DecisionsAgree, AfterReport
    <3>3. ASSUME NEW x \in Runs
          PROVE  /\ DecisionsAgree(x)'
                 /\ report'[x] # "none" /\ job'[x] \notin Quick => Decided(x)'
                 /\ \A q \in Requests : feedback'[x] = From(q) => SentTo(q, x)'
      <4>1. CASE x = r
        <5>1. pc'[r] = "set_planning"
          BY <3>1 DEF DecInv, TypeOK
        <5> QED BY <3>1, <3>2, <4>1, <5>1, FeedbackDistinct DEF DecisionsAgree
      <4>2. CASE x # r
        <5>1. pc'[x] = pc[x] /\ job'[x] = job[x]
          BY <3>1, <4>2 DEF DecInv, TypeOK
        <5> QED BY <3>1, <5>1, StandingRun
      <4> QED BY <4>1, <4>2
    <3> QED BY <3>3 DEF DecidedBeforeReport, DecisionWasSentHere
  <2>6. ASSUME NEW r \in Runs, NEW next \in Active \cup Idle,
               pc[r] \notin {"free", "wait"},
               next \notin {"free", "persist", "resumed", "rerun"},
               Goto(r, next), UNCHANGED <<inbox, request, job, feedback>>,
               \A x \in Runs : report'[x] # "none" =>
                                 report[x] # "none" \/ (x = r /\ pc[r] = "persist")
        PROVE  Inv'
    BY <2>6, QuietDecisionStep
  <2>7. ASSUME NEW r \in Runs, Progress(r) PROVE Inv'
    <3> USE DEF Active, Guarded, Idle
    <3>1. CASE \/ SetPlanning(r) \/ Plan(r) \/ SetAwaitingReview(r)
               \/ MarkFailed(r) \/ SetComplete(r)
      BY <3>1, <2>6 DEF SetPlanning, Plan, SetAwaitingReview, MarkFailed,
                        SetComplete, StatusStep
    <3>2. CASE LoadBrief(r) \/ Subscribe(r) \/ CloseConnection(r)
      BY <3>2, <2>6 DEF LoadBrief, Subscribe, CloseConnection, ControlStep
    <3>3. CASE TracePlan(r) \/ Research(r)
      BY <3>3, <2>6 DEF TracePlan, Research, TraceStep
    <3>4. CASE PublishResearch(r)
      <4>1. PICK next \in {"persist", "review"} :
              /\ next = "persist" => job[r] \in Quick
              /\ Goto(r, next)
        BY <3>4 DEF PublishResearch, EventStep
      <4> QED BY <3>4, <4>1, QuietDecisionStep DEF PublishResearch, EventStep
    <3>5. CASE \/ HumanReview(r) \/ PublishReportReady(r) \/ PublishComplete(r)
               \/ PublishFailed(r) \/ PublishPlan(r)
      BY <3>5, <2>6 DEF HumanReview, PublishReportReady, PublishComplete,
                        PublishFailed, PublishPlan, EventStep
    <3>6. CASE PublishResumed(r)
      <4>1. feedback[r] # NoFeedback
        BY <3>6 DEF PublishResumed, EventStep, DecInv, DecisionsAgree
      <4> QED BY <3>6, <4>1, QuietDecisionStep DEF PublishResumed, EventStep
    <3>7. CASE RerunHumanReview(r)
      <4>1. feedback[r] # NoFeedback /\ feedback[r] \in Feedbacks
        BY <3>7 DEF RerunHumanReview, EventStep, DecInv, DecisionsAgree, TypeOK
      <4>2. Decision(r) = "persist" => Decided(r)
        <5>1. CASE feedback[r] = TimedOut
          BY <5>1 DEF Decided
        <5>2. ASSUME NEW q \in Requests, feedback[r] = From(q),
                     Decision(r) = "persist"
              PROVE  Decided(r)
          <6>1. From(q).by = "request" /\ From(q).id = q
            BY DEF From
          <6>2. request[q].action # "revise"
            BY <5>2, <6>1 DEF Decision
          <6> QED BY <5>2, <6>2 DEF Decided
        <5> QED BY <4>1, <5>1, <5>2 DEF Feedbacks
      <4>3. Decision(r) \in {"research", "persist"}
        BY DEF Decision
      <4>4. /\ pc[r] = "rerun" /\ Goto(r, Decision(r))
            /\ UNCHANGED <<inbox, request, job, feedback, report>>
        BY <3>7 DEF RerunHumanReview, EventStep
      <4> HIDE DEF Decision
      <4> QED BY <4>2, <4>3, <4>4, QuietDecisionStep
    <3>8. CASE ReceiveResume(r)
      <4>1. inbox[r] \in Seq(Requests) /\ inbox[r] # <<>>
        BY <3>8 DEF ReceiveResume, DecInv, TypeOK
      <4> HIDE DEF Active, Guarded, Idle
      <4>2. Head(inbox[r]) \in Requests /\ SentTo(Head(inbox[r]), r)
        <5>1. 1 \in 1..Len(inbox[r]) /\ Head(inbox[r]) = inbox[r][1]
          BY <4>1
        <5> QED BY <4>1, <5>1 DEF DecInv, DecisionsAgree
      <4>3. From(Head(inbox[r])) \in Feedbacks
        BY <4>2 DEF Feedbacks
      <4> QED BY <3>8, <4>2, <4>3, FeedbackDistinct, WaitStep DEF ReceiveResume
    <3>9. CASE ReviewTimeout(r)
      BY <3>9, FeedbackDistinct, WaitStep DEF ReviewTimeout, Feedbacks
    <3>10. CASE PersistReport(r)
      <4>1. CASE Exists(job[r])
        BY <3>10, <4>1, <2>6 DEF PersistReport, ReportStep, DecInv, TypeOK
      <4>2. CASE ~Exists(job[r])
        BY <3>10, <4>2, <2>6 DEF PersistReport, ControlStep
      <4> QED BY <4>1, <4>2
    <3>11. CASE IndexBrief(r)
      BY <3>11, <2>6 DEF IndexBrief
    <3>12. CASE LoadReport(r)
      <4>1. Goto(r, "write") \/ Goto(r, "close")
        BY <3>12 DEF LoadReport
      <4> QED BY <3>12, <4>1, <2>6 DEF LoadReport
    <3>13. CASE WritePdf(r) \/ EmailReport(r)
      <4>1. target[r] \in ReportsOf(job[r])
        BY <3>13 DEF WritePdf, EmailReport, ReportStep, DecInv, RowsAgree
      <4>2. ASSUME NEW x \in Runs, report'[x] # "none" PROVE report[x] # "none"
        BY <3>13, <4>1, <4>2 DEF WritePdf, EmailReport, ReportStep, ReportsOf,
                                 DecInv, TypeOK
      <4> QED BY <3>13, <4>2, <2>6 DEF WritePdf, EmailReport, ReportStep
    <3> QED BY <2>7, <3>1, <3>2, <3>3, <3>4, <3>5, <3>6, <3>7, <3>8, <3>9,
               <3>10, <3>11, <3>12, <3>13 DEF Progress
  <2>8. ASSUME NEW r \in Runs, Raise(r) \/ Crash(r) PROVE Inv'
    BY <2>8, QuietDecisionStep DEF Raise, Crash, Leave, Active, Guarded, Idle
  <2>9. CASE UNCHANGED vars
    BY <2>1, <2>9 DEF vars
  <2> QED
    BY <2>2, <2>3, <2>4, <2>5, <2>7, <2>8, <2>9 DEF Next, Api, Broker, Worker
<1> QED
  <2>1. Spec => []RowInv
    BY RowInvariant
  <2> QED BY <1>1, <1>2, <2>1, PTL DEF Spec

\* Every decision a run acts on was sent, acknowledged and published to this
\* run for its own brief, and every report of a reviewed depth follows one that
\* was not "revise" (tasks._wait_for_resume, graph._review_decision).
THEOREM DecisionsAreSent == Spec => [](DecidedBeforeReport /\ DecisionWasSentHere)
<1>1. (/\ \A x \in Runs : DecisionsAgree(x)
       /\ DecidedBeforeReport /\ DecisionWasSentHere)
        => DecidedBeforeReport /\ DecisionWasSentHere
  OBVIOUS
<1> QED BY <1>1, DecisionInvariant, PTL
\* No report of a reviewed depth exists without a decision that accepts it.
THEOREM ReportsAreDecided == Spec => []DecidedBeforeReport
<1>1. DecidedBeforeReport /\ DecisionWasSentHere => DecidedBeforeReport
  OBVIOUS
<1> QED BY <1>1, DecisionsAreSent, PTL

=============================================================================
