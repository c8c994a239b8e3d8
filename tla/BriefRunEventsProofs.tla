------------------------ MODULE BriefRunEventsProofs ------------------------
(***************************************************************************)
(* What a brief owes to its deliveries: one execution, and so at most one  *)
(* report, for each; and, while there was only one, events and a final     *)
(* status that tell what became of it.                                     *)
(***************************************************************************)
EXTENDS BriefRunContractProofs, FiniteSetTheorems

\* The executions of a brief's task.
RunsOf(b) == {r \in Runs : job[r] = b}
Enqueued(b) == IF creation[b] = "answered" THEN 1 ELSE 0

\* Every message is either still queued or was accepted by one execution.
DeliveryInv ==
  /\ \A r \in Runs : pc[r] = "free" => job[r] = NoBrief
  /\ \A b \in Briefs :
       /\ IsFiniteSet(RunsOf(b))
       /\ Cardinality(RunsOf(b)) + queue[b] = redelivered[b] + Enqueued(b)

\* A step that accepts no message and queues none.
LEMMA NoDelivery ==
  ASSUME DeliveryInv, UNCHANGED <<job, brokerVars>>,
         \A b \in Briefs : creation'[b] = "answered" <=> creation[b] = "answered",
         \A r \in Runs : pc'[r] = "free" => pc[r] = "free"
  PROVE  DeliveryInv'
<1>1. ASSUME NEW b \in Briefs PROVE RunsOf(b)' = RunsOf(b) /\ Enqueued(b)' = Enqueued(b)
  BY DEF RunsOf, Enqueued
<1>2. QED BY <1>1 DEF DeliveryInv, brokerVars

\* The API's handlers put at most one message in the queue, Celery copies it.
LEMMA ApiDelivers ==
  ASSUME TypeOK, DeliveryInv, Api \/ \E b \in Briefs : Redeliver(b)
  PROVE  DeliveryInv'
<1> USE DEF dbVars, apiVars, brokerVars, runVars
<1>1. ASSUME NEW b \in Briefs,
             CreateBrief(b) \/ EnqueueFails(b) \/ DeleteBrief(b)
      PROVE  DeliveryInv'
  BY <1>1, NoDelivery DEF CreateBrief, EnqueueFails, DeleteBrief, TypeOK
<1>2. ASSUME NEW q \in Requests, \/ PublishResume(q)
                                 \/ \E b \in Briefs, action \in ReviewActions :
                                      CheckResume(q, b, action)
      PROVE  DeliveryInv'
  BY <1>2, NoDelivery DEF PublishResume, CheckResume
<1>3. ASSUME NEW b \in Briefs, EnqueueBrief(b) \/ Redeliver(b)
      PROVE  DeliveryInv'
  <2>1. UNCHANGED <<job, pc>>
    BY <1>3 DEF EnqueueBrief, Redeliver
  <2>2. \A x \in Briefs : RunsOf(x)' = RunsOf(x)
    BY <2>1 DEF RunsOf
  <2>3. ASSUME NEW x \in Briefs
        PROVE  /\ queue[x] \in Nat /\ redelivered[x] \in Nat
               /\ queue'[x] - queue[x] =
                    redelivered'[x] + Enqueued(x)' - redelivered[x] - Enqueued(x)
    <3>1. queue[x] \in Nat /\ redelivered[x] \in Nat
      BY BoundsAssumption DEF TypeOK
    <3>2. CASE EnqueueBrief(b)
      BY <3>1, <3>2 DEF EnqueueBrief, Enqueued, TypeOK
    <3>3. CASE Redeliver(b)
      BY <3>1, <3>3 DEF Redeliver, Enqueued, TypeOK
    <3>4. QED BY <1>3, <3>1, <3>2, <3>3
  <2>4. ASSUME NEW x \in Briefs
        PROVE  /\ Cardinality(RunsOf(x)) \in Nat /\ Enqueued(x) \in Nat
               /\ queue'[x] \in Int /\ redelivered'[x] \in Int
               /\ Enqueued(x)' \in Nat
    BY <1>3, BoundsAssumption, FS_CardinalityType
    DEF EnqueueBrief, Redeliver, Enqueued, TypeOK, DeliveryInv
  <2>5. ASSUME NEW x \in Briefs
        PROVE  Cardinality(RunsOf(x)') + queue'[x] = redelivered'[x] + Enqueued(x)'
    BY <2>2, <2>3, <2>4 DEF DeliveryInv
  <2>6. QED BY <2>1, <2>2, <2>5 DEF DeliveryInv
<1>4. QED BY <1>1, <1>2, <1>3 DEF Api

\* An accepted message leaves the queue and starts one execution.
LEMMA AcceptDelivers ==
  ASSUME TypeOK, DeliveryInv, NEW r \in Runs, NEW b \in Briefs, Accept(r, b)
  PROVE  DeliveryInv'
<1>1. /\ pc[r] = "free" /\ pc' = [pc EXCEPT ![r] = "set_planning"]
      /\ job' = [job EXCEPT ![r] = b]
      /\ queue[b] > 0 /\ queue' = [queue EXCEPT ![b] = @ - 1]
      /\ UNCHANGED <<creation, redelivered>>
  BY DEF Accept, Goto, Dequeue, apiVars
<1>2. \A x \in Briefs : Enqueued(x)' = Enqueued(x)
  BY <1>1 DEF Enqueued
<1>3. r \notin RunsOf(b)
  BY <1>1, BriefsAssumption DEF DeliveryInv, RunsOf
<1>4. \A x \in Briefs : RunsOf(x)' = IF x = b THEN RunsOf(b) \cup {r} ELSE RunsOf(x)
  BY <1>1, BriefsAssumption DEF DeliveryInv, RunsOf, TypeOK
<1>5. ASSUME NEW x \in Briefs
      PROVE  /\ IsFiniteSet(RunsOf(x)')
             /\ Cardinality(RunsOf(x)') + queue'[x] = redelivered'[x] + Enqueued(x)'
  <2>1. IsFiniteSet(RunsOf(x)) /\ Cardinality(RunsOf(x)) \in Nat
    BY FS_CardinalityType DEF DeliveryInv
  <2>2. CASE x = b
    <3>1. RunsOf(b)' = RunsOf(b) \cup {r}
      BY <1>4
    <3>2. /\ IsFiniteSet(RunsOf(b)')
          /\ Cardinality(RunsOf(b)') = Cardinality(RunsOf(b)) + 1
      BY <1>3, <2>1, <2>2, <3>1, FS_AddElement
    <3>3. queue[b] \in Nat /\ queue'[b] = queue[b] - 1
      BY <1>1 DEF TypeOK
    <3>4. Cardinality(RunsOf(b)) + queue[b] = redelivered[b] + Enqueued(b)
      BY DEF DeliveryInv
    <3>5. QED BY <1>1, <1>2, <2>1, <2>2, <3>2, <3>3, <3>4
  <2>3. CASE x # b
    BY <1>1, <1>2, <1>4, <2>1, <2>3 DEF TypeOK, DeliveryInv
  <2>4. QED BY <2>2, <2>3
<1>6. QED BY <1>1, <1>5 DEF DeliveryInv, TypeOK

\* No statement of a run frees it or touches the queue.
LEMMA WorkerMoves ==
  ASSUME TypeOK, NEW r \in Runs, Progress(r) \/ Raise(r) \/ Crash(r)
  PROVE  /\ UNCHANGED <<job, apiVars, brokerVars>>
         /\ pc[r] # "free" /\ \E next \in (Active \cup Idle) \ {"free"} : Goto(r, next)
<1> USE DEF Active, Guarded, Idle
<1>1. CASE \/ SetPlanning(r) \/ Plan(r) \/ SetAwaitingReview(r)
           \/ SetComplete(r) \/ MarkFailed(r)
  BY <1>1 DEF SetPlanning, Plan, SetAwaitingReview, SetComplete, MarkFailed,
              StatusStep
<1>2. CASE LoadBrief(r) \/ Subscribe(r) \/ CloseConnection(r)
  BY <1>2 DEF LoadBrief, Subscribe, CloseConnection, ControlStep
<1>3. CASE TracePlan(r) \/ Research(r)
  BY <1>3 DEF TracePlan, Research, TraceStep
<1>4. CASE \/ HumanReview(r) \/ PublishResumed(r) \/ PublishReportReady(r)
           \/ PublishComplete(r) \/ PublishFailed(r) \/ PublishPlan(r)
           \/ PublishResearch(r)
  BY <1>4 DEF HumanReview, PublishResumed, PublishReportReady, PublishComplete,
              PublishFailed, PublishPlan, PublishResearch, EventStep
<1>5. CASE RerunHumanReview(r)
  BY <1>5 DEF RerunHumanReview, EventStep, Decision
<1>6. CASE ReceiveResume(r) \/ ReviewTimeout(r)
  BY <1>6 DEF ReceiveResume, ReviewTimeout, WaitReturns
<1>7. CASE PersistReport(r) \/ WritePdf(r) \/ EmailReport(r)
  BY <1>7 DEF PersistReport, WritePdf, EmailReport, ReportStep, ControlStep
<1>8. CASE IndexBrief(r) \/ LoadReport(r)
  BY <1>8 DEF IndexBrief, LoadReport
<1>9. CASE Raise(r) \/ Crash(r)
  BY <1>9 DEF Raise, Crash, Leave
<1>10. QED BY <1>1, <1>2, <1>3, <1>4, <1>5, <1>6, <1>7, <1>8, <1>9 DEF Progress

\* Messages and executions agree in every behaviour.
LEMMA DeliveryInvariant == Spec => []DeliveryInv
<1>1. Init => DeliveryInv
  <2> SUFFICES ASSUME Init PROVE DeliveryInv
    OBVIOUS
  <2>1. \A b \in Briefs : RunsOf(b) = {} /\ Enqueued(b) = 0
    BY BriefsAssumption DEF Init, RunsOf, Enqueued
  <2>2. QED BY <2>1, FS_EmptySet DEF Init, DeliveryInv
<1>2. TypeOK /\ DeliveryInv /\ [Next]_vars => DeliveryInv'
  <2> SUFFICES ASSUME TypeOK, DeliveryInv, [Next]_vars PROVE DeliveryInv'
    OBVIOUS
  <2>1. ASSUME NEW r \in Runs, Progress(r) \/ Raise(r) \/ Crash(r)
        PROVE  DeliveryInv'
    <3>1. \A x \in Runs : pc'[x] = "free" => pc[x] = "free"
      BY <2>1, WorkerMoves DEF Goto, TypeOK
    <3>2. QED BY <2>1, <3>1, WorkerMoves, NoDelivery DEF apiVars
  <2>2. CASE UNCHANGED vars
    BY <2>2, NoDelivery DEF vars, apiVars, runVars
  <2>3. QED BY <2>1, <2>2, ApiDelivers, AcceptDelivers DEF Next, Broker, Worker
<1>3. QED BY <1>1, <1>2, TypeCorrect, PTL DEF Spec

\* OneReportPerDelivery, for every number of briefs, runs and redeliveries: a
\* brief has at most one report for each time its message was delivered.
THEOREM ReportsAreDelivered == Spec => []OneReportPerDelivery
<1>1. TypeOK /\ DeliveryInv => OneReportPerDelivery
  <2> SUFFICES ASSUME TypeOK, DeliveryInv, NEW b \in Briefs
               PROVE  Cardinality(ReportsOf(b)) <= 1 + redelivered[b]
    BY DEF OneReportPerDelivery
  <2>1. IsFiniteSet(RunsOf(b)) /\ ReportsOf(b) \subseteq RunsOf(b)
    BY DEF DeliveryInv, RunsOf, ReportsOf
  <2>2. Cardinality(ReportsOf(b)) <= Cardinality(RunsOf(b))
    BY <2>1, FS_Subset
  <2>3. /\ Cardinality(ReportsOf(b)) \in Nat /\ Cardinality(RunsOf(b)) \in Nat
        /\ queue[b] \in Nat /\ redelivered[b] \in Int
    BY <2>1, FS_Subset, FS_CardinalityType, BoundsAssumption DEF TypeOK
  <2>4. Cardinality(RunsOf(b)) + queue[b] <= 1 + redelivered[b]
    BY <2>3 DEF DeliveryInv, Enqueued
  <2>5. QED BY <2>2, <2>3, <2>4
<1>2. QED BY <1>1, TypeCorrect, DeliveryInvariant, PTL

-----------------------------------------------------------------------------
(* Inductive invariant: what the events and the status of a brief say about *)
(* its run, while there is at most one.                                     *)

Undelivered == {"set_planning", "load", "plan", "trace", "traced", "research",
                "researched", "review", "paused", "subscribe", "wait", "resumed",
                "rerun", "persist", "finish"}
Completed == {"index", "load_report", "write", "email", "announce", "close",
              "closed"}
\* Where a run is after it published brief_complete: it returns, or the
\* connection it closes fails and the handler runs.
AfterComplete == {"closed", "mark_failed", "announce_failed", "ended", "crashed"}
FinalStatuses == {"complete", "failed"}

\* What the position of a run that is the only one of its brief says.
PositionAgrees(r) ==
  /\ pc[r] \in Undelivered => /\ status[job[r]] \notin FinalStatuses
                              /\ lastEvent[job[r]] # "report_ready"
  /\ pc[r] \in Completed => completedAt[job[r]] /\ status[job[r]] = "complete"
  /\ pc[r] \in {"announce", "close"} => report[r] = "emailed"
  /\ pc[r] = "announce_failed" => status[job[r]] \in {"failed", "deleted"}

\* What the last event of its brief says.
EventAgrees(r) ==
  LET e == lastEvent[job[r]]
  IN  /\ e = "brief_failed" => pc[r] = "ended"
      /\ e = "brief_complete" => pc[r] \in AfterComplete
      /\ e \in {"report_ready", "brief_complete"} =>
           completedAt[job[r]] /\ report[r] = "emailed"
      /\ e = "brief_complete" =>
           \/ status[job[r]] = "complete"
           \/ status[job[r]] = "failed" /\ pc[r] \in {"announce_failed", "crashed"}
      /\ e = "brief_failed" => status[job[r]] \in {"failed", "deleted"}

\* A brief delivered once at most: its run, or none yet.
BriefAgrees(b) ==
  redelivered[b] = 0 =>
    /\ \A r \in RunsOf(b) : PositionAgrees(r) /\ EventAgrees(r)
    /\ RunsOf(b) = {} => /\ lastEvent[b] = "none"
                         /\ status[b] \in {"absent", "queued", "deleted"}

\* The row of a brief is there from its creation, and as long as its reports.
RowExists(b) ==
  /\ creation[b] = "none" <=> status[b] = "absent"
  /\ ReportsOf(b) # {} => Exists(b)

\* The invariants established so far.
Known == RouteInv /\ CompletedHasReport /\ DeliveryInv
StoryInv == \A b \in Briefs : RowExists(b) /\ BriefAgrees(b)

\* A brief delivered once has one run at most, and that one accepted the only
\* message.
LEMMA SoleRun ==
  ASSUME TypeOK, DeliveryInv, NEW b \in Briefs, redelivered[b] = 0
  PROVE  /\ \A x, y \in RunsOf(b) : x = y
         /\ RunsOf(b) # {} => creation[b] = "answered" /\ queue[b] = 0
<1>1. /\ IsFiniteSet(RunsOf(b)) /\ Cardinality(RunsOf(b)) \in Nat
      /\ queue[b] \in Nat
      /\ Cardinality(RunsOf(b)) + queue[b] = Enqueued(b)
  BY FS_CardinalityType DEF DeliveryInv, TypeOK, Enqueued
<1>2. /\ Cardinality(RunsOf(b)) \in {0, 1}
      /\ Cardinality(RunsOf(b)) = 1 => creation[b] = "answered" /\ queue[b] = 0
  BY <1>1 DEF Enqueued
<1>3. CASE Cardinality(RunsOf(b)) = 0
  BY <1>1, <1>3, FS_EmptySet
<1>4. CASE Cardinality(RunsOf(b)) = 1
  <2>1. \E x : RunsOf(b) = {x}
    BY <1>1, <1>4, FS_Singleton
  <2>2. QED BY <1>2, <1>4, <2>1
<1>5. QED BY <1>2, <1>3, <1>4

\* A brief of which the step shows nothing keeps its story.
LEMMA StoryKept ==
  ASSUME NEW b \in Briefs, BriefAgrees(b),
         redelivered'[b] = 0 => redelivered[b] = 0,
         RunsOf(b)' = RunsOf(b), status'[b] = status[b],
         lastEvent'[b] = lastEvent[b], completedAt'[b] = completedAt[b],
         \A r \in RunsOf(b) : pc'[r] = pc[r] /\ report'[r] = report[r]
  PROVE  BriefAgrees(b)'
<1>1. \A r \in RunsOf(b) : job[r] = b /\ job'[r] = b
  BY DEF RunsOf
<1>2. ASSUME NEW r \in RunsOf(b), PositionAgrees(r), EventAgrees(r)
      PROVE  PositionAgrees(r)' /\ EventAgrees(r)'
  BY <1>1, <1>2 DEF PositionAgrees, EventAgrees
<1>3. QED BY <1>2 DEF BriefAgrees

\* A step of the API or of Celery's redelivery moves no run.
LEMMA ApiStory ==
  ASSUME Known, StoryInv, Api \/ \E b \in Briefs : Redeliver(b)
  PROVE  StoryInv'
<1> USE DEF Known, RouteInv, dbVars, apiVars, brokerVars, runVars
<1>1. ASSUME UNCHANGED <<pc, job, report, lastEvent, completedAt>>,
             NEW x \in Briefs, status'[x] = status[x],
             redelivered'[x] = 0 => redelivered[x] = 0,
             creation'[x] = "none" <=> creation[x] = "none"
      PROVE  RowExists(x)' /\ BriefAgrees(x)'
  <2>1. RunsOf(x)' = RunsOf(x) /\ ReportsOf(x)' = ReportsOf(x)
    BY <1>1 DEF RunsOf, ReportsOf
  <2>2. RowExists(x) /\ BriefAgrees(x)
    BY DEF StoryInv
  <2>3. RowExists(x)'
    BY <1>1, <2>1, <2>2 DEF RowExists, Exists
  <2>4. QED BY <1>1, <2>1, <2>2, <2>3, StoryKept
<1>2. ASSUME NEW b \in Briefs, CreateBrief(b) PROVE StoryInv'
  <2>1. /\ creation[b] = "none" /\ creation' = [creation EXCEPT ![b] = "committed"]
        /\ status' = [status EXCEPT ![b] = "queued"]
        /\ UNCHANGED <<pc, job, report, lastEvent, completedAt, redelivered>>
    BY <1>2 DEF CreateBrief
  <2>2. RowExists(b)'
    BY <2>1 DEF RowExists, Exists, TypeOK
  <2>3. BriefAgrees(b)'
    <3>1. RunsOf(b)' = RunsOf(b)
      BY <2>1 DEF RunsOf
    <3>2. redelivered[b] = 0 => RunsOf(b) = {}
      BY <2>1, SoleRun
    <3>3. QED BY <2>1, <3>1, <3>2 DEF StoryInv, BriefAgrees, TypeOK
  <2>4. ASSUME NEW x \in Briefs, x # b PROVE RowExists(x)' /\ BriefAgrees(x)'
    BY <1>1, <2>1, <2>4 DEF TypeOK
  <2>5. QED BY <2>2, <2>3, <2>4 DEF StoryInv
<1>3. ASSUME NEW b \in Briefs, DeleteBrief(b) PROVE StoryInv'
  <2>1. /\ Exists(b) /\ ReportsOf(b) = {}
        /\ status' = [status EXCEPT ![b] = "deleted"]
        /\ UNCHANGED <<pc, job, report, lastEvent, completedAt, redelivered,
                       creation>>
    BY <1>3 DEF DeleteBrief, Deletable
  <2>2. RunsOf(b)' = RunsOf(b) /\ ReportsOf(b)' = ReportsOf(b)
    BY <2>1 DEF RunsOf, ReportsOf
  <2>3. ~completedAt[b] /\ status[b] # "complete" /\ status'[b] = "deleted"
    BY <2>1 DEF CompletedHasReport, TypeOK
  <2>4. RowExists(b)'
    BY <2>1, <2>2, <2>3 DEF StoryInv, RowExists, Exists
  <2>5. ASSUME NEW r \in RunsOf(b), PositionAgrees(r), EventAgrees(r)
        PROVE  PositionAgrees(r)' /\ EventAgrees(r)'
    <3>1. job[r] = b /\ job'[r] = b
      BY <2>1 DEF RunsOf
    <3>2. QED BY <2>1, <2>3, <2>5, <3>1
              DEF PositionAgrees, EventAgrees, FinalStatuses
  <2>6. BriefAgrees(b)'
    BY <2>1, <2>2, <2>3, <2>5 DEF StoryInv, BriefAgrees
  <2>7. ASSUME NEW x \in Briefs, x # b PROVE RowExists(x)' /\ BriefAgrees(x)'
    BY <1>1, <2>1, <2>7 DEF TypeOK
  <2>8. QED BY <2>4, <2>6, <2>7 DEF StoryInv
<1>4. ASSUME NEW b \in Briefs, EnqueueBrief(b) \/ EnqueueFails(b)
      PROVE  StoryInv'
  <2>1. /\ UNCHANGED <<pc, job, report, lastEvent, completedAt, status,
                       redelivered>>
        /\ \A x \in Briefs : creation'[x] = "none" <=> creation[x] = "none"
    BY <1>4 DEF EnqueueBrief, EnqueueFails, TypeOK
  <2>2. QED BY <1>1, <2>1 DEF StoryInv
<1>5. ASSUME NEW b \in Briefs, Redeliver(b) PROVE StoryInv'
  <2>1. /\ UNCHANGED <<pc, job, report, lastEvent, completedAt, status,
                       creation>>
        /\ \A x \in Briefs : redelivered'[x] = 0 => redelivered[x] = 0
    BY <1>5, BoundsAssumption DEF Redeliver, TypeOK
  <2>2. QED BY <1>1, <2>1 DEF StoryInv
<1>6. ASSUME NEW q \in Requests, \/ PublishResume(q)
                                 \/ \E b \in Briefs, action \in ReviewActions :
                                      CheckResume(q, b, action)
      PROVE  StoryInv'
  <2>1. UNCHANGED <<pc, job, report, lastEvent, completedAt, status, creation,
                    redelivered>>
    BY <1>6 DEF PublishResume, CheckResume
  <2>2. QED BY <1>1, <2>1 DEF StoryInv
<1>7. QED BY <1>2, <1>3, <1>4, <1>5, <1>6 DEF Api

\* The accepted message of a brief delivered once starts its only run.
LEMMA AcceptStory ==
  ASSUME Known, StoryInv, NEW r \in Runs, NEW b \in Briefs, Accept(r, b)
  PROVE  StoryInv'
<1>1. /\ pc[r] = "free" /\ pc' = [pc EXCEPT ![r] = "set_planning"]
      /\ job' = [job EXCEPT ![r] = b] /\ queue[b] > 0
      /\ UNCHANGED <<status, completedAt, report, lastEvent, creation,
                     redelivered>>
  BY DEF Accept, Goto, Dequeue, dbVars, apiVars
<1>2. report[r] = "none" /\ job[r] = NoBrief
  BY <1>1 DEF Known, RouteInv, DeliveryInv, RowsAgree, AfterReport
<1>3. \A x \in Runs : /\ pc'[x] = (IF x = r THEN "set_planning" ELSE pc[x])
                      /\ job'[x] = (IF x = r THEN b ELSE job[x])
  BY <1>1 DEF Known, RouteInv, TypeOK
<1>4. \A x \in Briefs : ReportsOf(x)' = ReportsOf(x)
  BY <1>1, <1>2, <1>3 DEF ReportsOf
<1>5. \A x \in Briefs : RowExists(x)'
  BY <1>1, <1>4 DEF StoryInv, RowExists, Exists
<1>6. ASSUME NEW x \in Briefs, x # b PROVE BriefAgrees(x)'
  <2>1. RunsOf(x)' = RunsOf(x) /\ r \notin RunsOf(x)
    BY <1>2, <1>3, <1>6, BriefsAssumption DEF RunsOf
  <2>2. \A y \in RunsOf(x) : y \in Runs /\ y # r
    BY <2>1 DEF RunsOf
  <2>3. BriefAgrees(x)
    BY DEF StoryInv
  <2>4. QED BY <1>1, <1>3, <2>1, <2>2, <2>3, StoryKept
<1>7. BriefAgrees(b)'
  <2> SUFFICES ASSUME redelivered[b] = 0 PROVE BriefAgrees(b)'
    BY <1>1 DEF BriefAgrees
  <2>1. RunsOf(b) = {}
    BY <1>1, SoleRun DEF Known, RouteInv
  <2>2. RunsOf(b)' = {r}
    BY <1>3, <2>1 DEF RunsOf
  <2>3. lastEvent[b] = "none" /\ status[b] \in {"absent", "queued", "deleted"}
    BY <2>1 DEF StoryInv, BriefAgrees
  <2>4. PositionAgrees(r)' /\ EventAgrees(r)'
    BY <1>1, <1>3, <2>3
    DEF PositionAgrees, EventAgrees, Undelivered, Completed, FinalStatuses,
        AfterComplete
  <2>5. QED BY <2>2, <2>4 DEF BriefAgrees
<1>8. QED BY <1>5, <1>6, <1>7 DEF StoryInv

\* What is known of the brief of a run that is about to move.
LEMMA Told ==
  ASSUME Known, StoryInv, NEW r \in Runs, pc[r] # "free"
  PROVE  /\ job[r] \in Briefs
         /\ redelivered[job[r]] = 0 =>
              /\ PositionAgrees(r) /\ EventAgrees(r)
              /\ status[job[r]] # "absent"
              /\ \A x \in RunsOf(job[r]) : x = r
<1>1. job[r] \in Briefs /\ r \in RunsOf(job[r])
  BY DEF Known, RouteInv, RowsAgree, RunsOf
<1>2. ASSUME redelivered[job[r]] = 0
      PROVE  /\ creation[job[r]] = "answered"
             /\ \A x, y \in RunsOf(job[r]) : x = y
  BY <1>1, <1>2, SoleRun DEF Known, RouteInv
<1>3. RowExists(job[r]) /\ BriefAgrees(job[r])
  BY <1>1 DEF StoryInv
<1>4. QED BY <1>1, <1>2, <1>3 DEF RowExists, BriefAgrees

\* A step of run r: only the story of its own brief has to be looked at.
LEMMA MoverStory ==
  ASSUME Known, StoryInv, NEW r \in Runs, pc[r] # "free", NEW next, Goto(r, next),
         UNCHANGED <<job, creation, redelivered>>,
         \A b \in Briefs \ {job[r]} : /\ status'[b] = status[b]
                                     /\ lastEvent'[b] = lastEvent[b]
                                     /\ completedAt'[b] = completedAt[b],
         \/ status'[job[r]] = status[job[r]]
         \/ Exists(job[r]) /\ Exists(job[r])',
         \A x \in Runs : job[x] # job[r] => report'[x] = report[x],
         \A x \in Runs : report'[x] # "none" =>
                           report[x] # "none" \/ (x = r /\ Exists(job[r])),
         redelivered[job[r]] = 0 => PositionAgrees(r)' /\ EventAgrees(r)'
  PROVE  StoryInv'
<1>1. job[r] \in Briefs
  BY Told
<1>2. \A b \in Briefs : RunsOf(b)' = RunsOf(b)
  BY DEF RunsOf
<1>3. ASSUME NEW b \in Briefs PROVE RowExists(b)'
  <2>1. RowExists(b) /\ (Exists(b) => Exists(b)')
    BY <1>1 DEF StoryInv, Exists
  <2>2. ReportsOf(b)' # {} => ReportsOf(b) # {} \/ Exists(b)
    BY DEF ReportsOf
  <2>3. creation'[b] = "none" <=> status'[b] = "absent"
    BY <1>1, <2>1 DEF RowExists, Exists
  <2>4. QED BY <2>1, <2>2, <2>3 DEF RowExists
<1>4. ASSUME NEW b \in Briefs, b # job[r] PROVE BriefAgrees(b)'
  <2>1. \A x \in RunsOf(b) : x \in Runs /\ job[x] # job[r] /\ x # r
    BY <1>4 DEF RunsOf
  <2>2. \A x \in RunsOf(b) : pc'[x] = pc[x] /\ report'[x] = report[x]
    BY <2>1 DEF Goto, Known, RouteInv, TypeOK
  <2>3. BriefAgrees(b)
    BY DEF StoryInv
  <2>4. QED BY <1>2, <1>4, <2>2, <2>3, StoryKept
<1>5. BriefAgrees(job[r])'
  <2> SUFFICES ASSUME redelivered[job[r]] = 0 PROVE BriefAgrees(job[r])'
    BY DEF BriefAgrees
  <2>1. RunsOf(job[r])' = {r}
    BY <1>1, <1>2, Told DEF RunsOf
  <2>2. QED BY <2>1 DEF BriefAgrees
<1>6. (\A b \in Briefs : BriefAgrees(b))'
  BY <1>4, <1>5
<1>7. QED BY <1>3, <1>6 DEF StoryInv

\* A step that moves run r and writes nothing the story is about.
LEMMA QuietStory ==
  ASSUME Known, StoryInv, NEW r \in Runs, pc[r] \notin {"free", "ended"},
         NEW next, Goto(r, next),
         UNCHANGED <<job, creation, redelivered, status, lastEvent, completedAt,
                     report>>,
         next \in Undelivered => pc[r] \in Undelivered,
         next \in Completed => pc[r] \in Completed,
         redelivered[job[r]] = 0 /\ next \in {"announce", "close"} =>
           report[r] = "emailed",
         pc[r] \in AfterComplete => next \in AfterComplete,
         pc[r] \in {"announce_failed", "crashed"} => next = "crashed",
         next # "announce_failed"
  PROVE  StoryInv'
<1>1. pc'[r] = next
  BY DEF Goto, Known, RouteInv, TypeOK
<1>2. ASSUME redelivered[job[r]] = 0
      PROVE  PositionAgrees(r)' /\ EventAgrees(r)'
  <2>1. PositionAgrees(r) /\ EventAgrees(r)
    BY <1>2, Told
  <2>2. QED BY <1>1, <1>2, <2>1 DEF PositionAgrees, EventAgrees, AfterComplete
<1>3. QED BY <1>2, MoverStory

\* The updates of the status.
LEMMA StatusStory ==
  ASSUME Known, StoryInv, NEW r \in Runs, NEW at, NEW s, NEW next,
         StatusStep(r, at, s, next), s \notin {"absent", "deleted"},
         \/ {at, next} \subseteq Undelivered /\ s \notin FinalStatuses
         \/ at = "finish" /\ next \in {"index", "load_report"} /\ s = "complete"
         \/ at = "mark_failed" /\ next = "announce_failed" /\ s = "failed"
  PROVE  StoryInv'
<1> DEFINE b == job[r]
<1>1. /\ pc[r] = at /\ at # "free" /\ Goto(r, next)
      /\ status' = [status EXCEPT ![b] = IF Exists(b) THEN s ELSE @]
      /\ completedAt' = [completedAt EXCEPT ![b] =
                           @ \/ (s = "complete" /\ Exists(b))]
      /\ UNCHANGED <<job, creation, redelivered, lastEvent, report>>
  BY DEF StatusStep, SetStatus, Undelivered, apiVars, brokerVars
<1>2. b \in Briefs
  BY <1>1, Told
<1>3. /\ pc'[r] = next
      /\ status'[b] = (IF Exists(b) THEN s ELSE status[b])
      /\ completedAt'[b] <=> completedAt[b] \/ (s = "complete" /\ Exists(b))
      /\ \A x \in Briefs \ {b} : /\ status'[x] = status[x]
                                 /\ completedAt'[x] = completedAt[x]
  <2>1. /\ pc \in [Runs -> Active \cup Idle] /\ status \in [Briefs -> Statuses]
        /\ completedAt \in [Briefs -> BOOLEAN]
    BY DEF Known, RouteInv, TypeOK
  <2>2. pc'[r] = next
    BY <1>1, <2>1 DEF Goto
  <2>3. \A x \in Briefs :
          status'[x] = (IF x = b /\ Exists(b) THEN s ELSE status[x])
    BY <1>1, <2>1
  <2>4. completedAt'[b] <=> completedAt[b] \/ (s = "complete" /\ Exists(b))
    BY <1>1, <1>2, <2>1
  <2>5. \A x \in Briefs \ {b} : completedAt'[x] = completedAt[x]
    BY <1>1, <2>1
  <2>6. QED BY <1>2, <2>2, <2>3, <2>4, <2>5
<1>4. status'[b] = status[b] \/ (Exists(b) /\ Exists(b)')
  BY <1>1, <1>3 DEF Exists
<1>5. ASSUME redelivered[b] = 0
      PROVE  PositionAgrees(r)' /\ EventAgrees(r)'
  <2>1. PositionAgrees(r) /\ EventAgrees(r) /\ status[b] # "absent"
    BY <1>1, <1>5, Told
  <2>2. CASE {at, next} \subseteq Undelivered /\ s \notin FinalStatuses
    BY <1>1, <1>3, <2>1, <2>2
    DEF PositionAgrees, EventAgrees, Undelivered, Completed, AfterComplete
  <2>3. CASE at = "finish" /\ next \in {"index", "load_report"} /\ s = "complete"
    <3>1. r \in ReportsOf(b)
      BY <1>1, <2>3 DEF Known, RouteInv, RowsAgree, ReportsOf
    <3>2. Exists(b)
      BY <1>2, <3>1 DEF StoryInv, RowExists
    <3>3. QED BY <1>1, <1>3, <2>1, <2>3, <3>2
              DEF PositionAgrees, EventAgrees, Undelivered, Completed, AfterComplete
  <2>4. CASE at = "mark_failed" /\ next = "announce_failed" /\ s = "failed"
    <3>1. status'[b] \in {"failed", "deleted"}
      BY <1>3, <2>1, <2>4 DEF Exists
    <3>2. status[b] = "complete" => status'[b] = "failed"
      BY <1>3, <2>4 DEF Exists
    <3>3. PositionAgrees(r)'
      BY <1>1, <1>3, <2>1, <2>4, <3>1 DEF PositionAgrees, Undelivered, Completed
    <3>4. EventAgrees(r)'
      BY <1>1, <1>3, <2>1, <2>4, <3>1, <3>2 DEF EventAgrees, AfterComplete
    <3>5. QED BY <3>3, <3>4
  <2>5. QED BY <2>2, <2>3, <2>4
<1>6. QED BY <1>1, <1>3, <1>4, <1>5, MoverStory

\* The events.
LEMMA EventStory ==
  ASSUME Known, StoryInv, NEW r \in Runs, NEW e \in Events, NEW next,
         pc[r] # "free", Goto(r, next),
         lastEvent' = [lastEvent EXCEPT ![job[r]] = e],
         UNCHANGED <<job, creation, redelivered, status, completedAt, report>>,
         \/ /\ {pc[r], next} \subseteq Undelivered
            /\ e \notin {"report_ready", "brief_complete", "brief_failed"}
         \/ pc[r] = "announce" /\ next = "close" /\ e = "report_ready"
         \/ pc[r] = "close" /\ next = "closed" /\ e = "brief_complete"
         \/ pc[r] = "announce_failed" /\ next = "ended" /\ e = "brief_failed"
  PROVE  StoryInv'
<1>1. job[r] \in Briefs
  BY Told
<1>2. /\ pc'[r] = next /\ lastEvent'[job[r]] = e
      /\ \A x \in Briefs \ {job[r]} : lastEvent'[x] = lastEvent[x]
  BY <1>1 DEF Goto, Known, RouteInv, TypeOK
<1>3. ASSUME redelivered[job[r]] = 0
      PROVE  PositionAgrees(r)' /\ EventAgrees(r)'
  <2>1. PositionAgrees(r) /\ EventAgrees(r)
    BY <1>3, Told
  <2>2. QED BY <1>2, <2>1
            DEF PositionAgrees, EventAgrees, Undelivered, Completed, AfterComplete
<1>4. QED BY <1>2, <1>3, MoverStory

\* A trace row of a run that has not delivered, or the exception in its place.
LEMMA TraceStory ==
  ASSUME Known, StoryInv, NEW r \in Runs, NEW at \in Undelivered,
         NEW next \in Undelivered, TraceStep(r, at, next)
  PROVE  StoryInv'
<1>1. /\ pc[r] = at /\ at \notin {"free", "ended"}
      /\ UNCHANGED <<job, creation, redelivered, status, lastEvent, completedAt,
                     report>>
  BY DEF TraceStep, Undelivered, apiVars, brokerVars
<1>2. Goto(r, next) \/ Goto(r, "mark_failed")
  BY DEF TraceStep
<1>3. QED BY <1>1, <1>2, QuietStory DEF Undelivered, Completed, AfterComplete

\* The insert of the report.
LEMMA PersistStory ==
  ASSUME Known, StoryInv, NEW r \in Runs, PersistReport(r)
  PROVE  StoryInv'
<1>1. CASE Exists(job[r])
  <2>1. /\ pc[r] = "persist" /\ Goto(r, "finish")
        /\ report' = [report EXCEPT ![r] = "row"]
        /\ UNCHANGED <<job, creation, redelivered, status, lastEvent, completedAt>>
    BY <1>1 DEF PersistReport, ReportStep, apiVars, brokerVars
  <2>2. \A x \in Runs : report'[x] = IF x = r THEN "row" ELSE report[x]
    BY <2>1 DEF Known, RouteInv, TypeOK
  <2>3. pc'[r] = "finish"
    BY <2>1 DEF Goto, Known, RouteInv, TypeOK
  <2>4. ASSUME redelivered[job[r]] = 0
        PROVE  PositionAgrees(r)' /\ EventAgrees(r)'
    <3>1. PositionAgrees(r) /\ EventAgrees(r)
      BY <2>1, <2>4, Told
    <3>2. QED BY <2>1, <2>2, <2>3, <3>1
              DEF PositionAgrees, EventAgrees, Undelivered, Completed, AfterComplete
  <2>5. QED BY <1>1, <2>1, <2>2, <2>4, MoverStory
<1>2. CASE ~Exists(job[r])
  <2>1. /\ pc[r] = "persist" /\ Goto(r, "mark_failed")
        /\ UNCHANGED <<job, creation, redelivered, status, lastEvent,
                       completedAt, report>>
    BY <1>2 DEF PersistReport, ControlStep, dbVars, apiVars, brokerVars
  <2>2. QED BY <2>1, QuietStory DEF Undelivered, Completed, AfterComplete
<1>3. QED BY <1>1, <1>2

\* The PDF and the e-mail: a run delivered once works on its own row.
LEMMA DeliveryStory ==
  ASSUME Known, StoryInv, NEW r \in Runs, WritePdf(r) \/ EmailReport(r)
  PROVE  StoryInv'
<1> DEFINE x == target[r]
           state == IF pc[r] = "email" THEN "emailed"
                    ELSE IF report[x] = "row" THEN "pdf" ELSE report[x]
           next == IF pc[r] = "email" THEN "announce" ELSE "email"
<1>1. /\ pc[r] \in {"write", "email"} /\ Goto(r, next)
      /\ report' = [report EXCEPT ![x] = state]
      /\ UNCHANGED <<job, creation, redelivered, status, lastEvent, completedAt>>
  BY DEF WritePdf, EmailReport, ReportStep, apiVars, brokerVars
<1>2. x \in Runs /\ job[x] = job[r] /\ report[x] # "none"
  BY <1>1 DEF Known, RouteInv, RowsAgree, ReportsOf
<1>3. /\ pc'[r] = next
      /\ \A y \in Runs : report'[y] = IF y = x THEN state ELSE report[y]
  <2>1. report \in [Runs -> ReportStates] /\ pc \in [Runs -> Active \cup Idle]
    BY DEF Known, RouteInv, TypeOK
  <2>2. QED BY <1>1, <1>2, <2>1 DEF Goto
<1>4. ASSUME redelivered[job[r]] = 0
      PROVE  PositionAgrees(r)' /\ EventAgrees(r)'
  <2>1. PositionAgrees(r) /\ EventAgrees(r) /\ x = r
    BY <1>1, <1>2, <1>4, Told DEF RunsOf
  <2>2. report[r] = "emailed" => state = "emailed"
    BY <2>1
  <2>3. report'[r] = state
    BY <1>3, <2>1
  <2>4. pc[r] \in Completed /\ pc'[r] \in Completed /\ pc'[r] # "close"
    BY <1>1, <1>3 DEF Completed
  <2>5. pc'[r] = "announce" => state = "emailed"
    BY <1>3
  <2>6. pc'[r] \notin Undelivered /\ pc'[r] # "announce_failed" /\ pc[r] # "ended"
    BY <1>1, <1>3 DEF Undelivered
  <2> HIDE DEF x, state, next
  <2>7. QED BY <1>1, <2>1, <2>2, <2>3, <2>4, <2>5, <2>6
            DEF PositionAgrees, EventAgrees, AfterComplete
<1>5. /\ \A y \in Runs : job[y] # job[r] => report'[y] = report[y]
      /\ \A y \in Runs : report'[y] # "none" => report[y] # "none"
  BY <1>2, <1>3
<1>6. pc[r] # "free"
  BY <1>1
<1> HIDE DEF x, state, next
<1>7. QED BY <1>1, <1>4, <1>5, <1>6, MoverStory

\* The completed brief of a run that delivers has its report to deliver.
LEMMA LoadStory ==
  ASSUME Known, StoryInv, NEW r \in Runs, LoadReport(r)
  PROVE  StoryInv'
<1>1. /\ pc[r] = "load_report"
      /\ \/ Goto(r, "write")
         \/ Goto(r, "close") /\ ~(Exists(job[r]) /\ ReportsOf(job[r]) # {})
      /\ UNCHANGED <<job, creation, redelivered, status, lastEvent, completedAt,
                     report>>
  BY DEF LoadReport, dbVars, apiVars, brokerVars
<1>2. redelivered[job[r]] = 0 => Exists(job[r]) /\ ReportsOf(job[r]) # {}
  BY <1>1, Told DEF Known, CompletedHasReport, PositionAgrees, Completed
<1>3. QED BY <1>1, <1>2, QuietStory DEF Undelivered, Completed, AfterComplete

\* One statement of run_research_brief keeps the story of its brief.
LEMMA WorkerStory ==
  ASSUME Known, StoryInv, NEW r \in Runs, Progress(r) \/ Raise(r) \/ Crash(r)
  PROVE  StoryInv'
<1> USE DEF dbVars, apiVars, brokerVars, runVars
<1>1. CASE SetPlanning(r) \/ Plan(r) \/ SetAwaitingReview(r)
  BY <1>1, StatusStory
  DEF SetPlanning, Plan, SetAwaitingReview, Undelivered, FinalStatuses
<1>2. CASE SetComplete(r)
  BY <1>2, StatusStory DEF SetComplete
<1>3. CASE MarkFailed(r)
  BY <1>3, StatusStory DEF MarkFailed
<1>4. CASE LoadBrief(r) \/ Subscribe(r) \/ CloseConnection(r)
  <2>1. PICK next \in {"plan", "ended", "wait"} :
          /\ \/ pc[r] \in {"load", "subscribe"}
             \/ pc[r] = "closed" /\ next = "ended"
          /\ Goto(r, next)
          /\ UNCHANGED <<job, creation, redelivered, status, lastEvent,
                         completedAt, report>>
    BY <1>4 DEF LoadBrief, Subscribe, CloseConnection, ControlStep
  <2>2. QED BY <2>1, QuietStory DEF Undelivered, Completed, AfterComplete
<1>5. CASE ReceiveResume(r) \/ ReviewTimeout(r)
  <2>1. /\ pc[r] = "wait" /\ Goto(r, "resumed")
        /\ UNCHANGED <<job, creation, redelivered, status, lastEvent,
                       completedAt, report>>
    BY <1>5 DEF ReceiveResume, ReviewTimeout, WaitReturns
  <2>2. QED BY <2>1, QuietStory DEF Undelivered, Completed, AfterComplete
<1>6. CASE TracePlan(r) \/ Research(r)
  BY <1>6, TraceStory DEF TracePlan, Research, Undelivered
<1>7. CASE \/ HumanReview(r) \/ PublishResumed(r) \/ RerunHumanReview(r)
           \/ PublishPlan(r) \/ PublishResearch(r)
  <2>1. PICK e \in {"human_review", "human_review_resumed", "agent_update"},
             next \in {"paused", "rerun", "research", "review", "persist"} :
          /\ pc[r] \in {"traced", "researched", "review", "resumed", "rerun"}
          /\ Goto(r, next)
          /\ lastEvent' = [lastEvent EXCEPT ![job[r]] = e]
          /\ UNCHANGED <<job, creation, redelivered, status, completedAt, report>>
    BY <1>7 DEF HumanReview, PublishResumed, RerunHumanReview, PublishPlan,
                PublishResearch, EventStep, Decision
  <2>2. QED BY <2>1, EventStory DEF Undelivered, Events
<1>8. CASE PublishReportReady(r) \/ PublishComplete(r) \/ PublishFailed(r)
  BY <1>8, EventStory
  DEF PublishReportReady, PublishComplete, PublishFailed, EventStep, Events
<1>9. CASE PersistReport(r)
  BY <1>9, PersistStory
<1>10. CASE IndexBrief(r)
  <2>1. /\ pc[r] = "index" /\ Goto(r, "load_report")
        /\ UNCHANGED <<job, creation, redelivered, status, lastEvent,
                       completedAt, report>>
    BY <1>10 DEF IndexBrief
  <2>2. QED BY <2>1, QuietStory DEF Undelivered, Completed, AfterComplete
<1>11. CASE LoadReport(r)
  BY <1>11, LoadStory
<1>12. CASE WritePdf(r) \/ EmailReport(r)
  BY <1>12, DeliveryStory
<1>13. CASE Raise(r) \/ Crash(r)
  <2>1. PICK next \in {"mark_failed", "crashed"} :
          /\ pc[r] \in Active /\ Goto(r, next)
          /\ next = "mark_failed" => pc[r] \in Guarded
          /\ UNCHANGED <<job, creation, redelivered, status, lastEvent,
                         completedAt, report>>
    BY <1>13 DEF Raise, Crash, Leave, Active
  <2>2. QED BY <2>1, QuietStory
            DEF Undelivered, Completed, AfterComplete, Active, Guarded
<1>14. QED BY <1>1, <1>2, <1>3, <1>4, <1>5, <1>6, <1>7, <1>8, <1>9, <1>10,
              <1>11, <1>12, <1>13 DEF Progress

\* What was known of rows, routes and deliveries holds together.
LEMMA KnownInvariant == Spec => []Known
<1>1. RouteInv /\ RowInv /\ DeliveryInv => Known
  BY DEF Known, RowInv
<1>2. QED BY <1>1, RouteInvariant, RowInvariant, DeliveryInvariant, PTL

\* Status, events and positions agree in every behaviour.
LEMMA StoryInvariant == Spec => []StoryInv
<1>1. Init => StoryInv
  <2>1. Init => \A b \in Briefs : RunsOf(b) = {} /\ ReportsOf(b) = {}
    BY BriefsAssumption DEF Init, RunsOf, ReportsOf
  <2>2. QED BY <2>1 DEF Init, StoryInv, RowExists, BriefAgrees
<1>2. Known /\ StoryInv /\ [Next]_vars => StoryInv'
  <2> SUFFICES ASSUME Known, StoryInv, [Next]_vars PROVE StoryInv'
    OBVIOUS
  <2>1. CASE UNCHANGED vars
    <3>1. UNCHANGED <<pc, job, report, lastEvent, completedAt, status, creation,
                      redelivered>>
      BY <2>1 DEF vars, dbVars, apiVars, brokerVars, runVars
    <3>2. \A b \in Briefs : RunsOf(b)' = RunsOf(b) /\ ReportsOf(b)' = ReportsOf(b)
      BY <3>1 DEF RunsOf, ReportsOf
    <3>3. ASSUME NEW b \in Briefs PROVE RowExists(b)' /\ BriefAgrees(b)'
      BY <3>1, <3>2, StoryKept DEF StoryInv, RowExists, Exists
    <3>4. QED BY <3>3 DEF StoryInv
  <2>2. QED BY <2>1, ApiStory, AcceptStory, WorkerStory DEF Next, Broker, Worker
<1>3. QED BY <1>1, <1>2, KnownInvariant, PTL DEF Spec

-----------------------------------------------------------------------------
(* What the runs check *)

\* EventsTellTheTruth, for every number of briefs, runs and crashes: the events
\* of a brief delivered once are true of its rows.
THEOREM EventsAreTrue == Spec => []EventsTellTheTruth
<1>1. StoryInv => EventsTellTheTruth
  <2> SUFFICES ASSUME StoryInv, NEW b \in Briefs, redelivered[b] = 0,
                      lastEvent[b] # "none"
               PROVE  /\ lastEvent[b] \in {"report_ready", "brief_complete"} =>
                           /\ completedAt[b]
                           /\ \E r \in ReportsOf(b) : report[r] = "emailed"
                      /\ lastEvent[b] = "brief_complete" =>
                           \/ status[b] = "complete"
                           \/ status[b] = "failed" /\ Failing(b)
                      /\ lastEvent[b] = "brief_failed" =>
                           status[b] \in {"failed", "deleted"}
    BY DEF EventsTellTheTruth
  <2>1. BriefAgrees(b)
    BY DEF StoryInv
  <2>2. PICK r \in RunsOf(b) : EventAgrees(r)
    BY <2>1 DEF BriefAgrees
  <2>3. r \in Runs /\ job[r] = b
    BY <2>2 DEF RunsOf
  <2>4. report[r] = "emailed" => r \in ReportsOf(b)
    BY <2>3 DEF ReportsOf
  <2>5. pc[r] \in {"announce_failed", "crashed"} => Failing(b)
    BY <2>3 DEF Failing
  <2>6. QED BY <2>2, <2>3, <2>4, <2>5 DEF EventAgrees
<1>2. QED BY <1>1, StoryInvariant, PTL

\* How the status of a brief delivered once may leave a final value.
Terminal(b) ==
  redelivered[b] = 0 /\ status[b] \in FinalStatuses =>
    \/ status'[b] = status[b]
    \/ status[b] = "complete" /\ status'[b] = "failed"
    \/ status[b] = "failed" /\ status'[b] = "deleted"

\* The API finds no final brief to create, and none complete to delete.
LEMMA ApiTerminal ==
  ASSUME Known, StoryInv, Api, NEW x \in Briefs
  PROVE  Terminal(x)
<1> USE DEF dbVars, Terminal, FinalStatuses
<1>1. status \in [Briefs -> Statuses]
  BY DEF Known, RouteInv, TypeOK
<1>2. ASSUME NEW b \in Briefs, CreateBrief(b) PROVE Terminal(x)
  BY <1>1, <1>2 DEF CreateBrief, StoryInv, RowExists
<1>3. ASSUME NEW b \in Briefs, DeleteBrief(b) PROVE Terminal(x)
  <2>1. status[b] # "complete"
    BY <1>3 DEF DeleteBrief, Deletable, Known, CompletedHasReport
  <2>2. QED BY <1>1, <1>3, <2>1 DEF DeleteBrief
<1>4. ASSUME NEW b \in Briefs, EnqueueBrief(b) \/ EnqueueFails(b)
      PROVE  Terminal(x)
  BY <1>4 DEF EnqueueBrief, EnqueueFails
<1>5. ASSUME NEW q \in Requests, \/ PublishResume(q)
                                 \/ \E b \in Briefs, action \in ReviewActions :
                                      CheckResume(q, b, action)
      PROVE  Terminal(x)
  BY <1>5 DEF PublishResume, CheckResume
<1>6. QED BY <1>2, <1>3, <1>4, <1>5 DEF Api

\* A run sets the status of its own brief, and a final one only in the handler.
LEMMA WorkerTerminal ==
  ASSUME Known, StoryInv, NEW r \in Runs, Progress(r) \/ Raise(r) \/ Crash(r),
         NEW x \in Briefs
  PROVE  Terminal(x)
<1> USE DEF dbVars, Terminal, FinalStatuses
<1>1. status \in [Briefs -> Statuses]
  BY DEF Known, RouteInv, TypeOK
<1>2. CASE \/ SetPlanning(r) \/ Plan(r) \/ SetAwaitingReview(r) \/ SetComplete(r)
  <2>1. PICK s : /\ pc[r] \in Undelivered /\ pc[r] # "free"
                 /\ status' = [status EXCEPT ![job[r]] = IF Exists(job[r]) THEN s ELSE @]
    BY <1>2 DEF SetPlanning, Plan, SetAwaitingReview, SetComplete, StatusStep,
                SetStatus, Undelivered
  <2>2. redelivered[job[r]] = 0 => status[job[r]] \notin FinalStatuses
    BY <2>1, Told DEF PositionAgrees
  <2>3. QED BY <1>1, <2>1, <2>2
<1>3. CASE MarkFailed(r)
  BY <1>1, <1>3 DEF MarkFailed, StatusStep, SetStatus
<1>4. CASE LoadBrief(r) \/ Subscribe(r) \/ CloseConnection(r)
  BY <1>4 DEF LoadBrief, Subscribe, CloseConnection, ControlStep
<1>5. CASE TracePlan(r) \/ Research(r)
  BY <1>5 DEF TracePlan, Research, TraceStep
<1>6. CASE \/ HumanReview(r) \/ PublishResumed(r) \/ RerunHumanReview(r)
           \/ PublishReportReady(r) \/ PublishComplete(r) \/ PublishFailed(r)
           \/ PublishPlan(r) \/ PublishResearch(r)
  BY <1>6 DEF HumanReview, PublishResumed, RerunHumanReview, PublishReportReady,
              PublishComplete, PublishFailed, PublishPlan, PublishResearch,
              EventStep
<1>7. CASE ReceiveResume(r) \/ ReviewTimeout(r)
  BY <1>7 DEF ReceiveResume, ReviewTimeout, WaitReturns
<1>8. CASE PersistReport(r) \/ WritePdf(r) \/ EmailReport(r)
  BY <1>8 DEF PersistReport, WritePdf, EmailReport, ReportStep, ControlStep
<1>9. CASE IndexBrief(r) \/ LoadReport(r)
  BY <1>9 DEF IndexBrief, LoadReport
<1>10. CASE Raise(r) \/ Crash(r)
  BY <1>10 DEF Raise, Crash, Leave
<1>11. QED BY <1>2, <1>3, <1>4, <1>5, <1>6, <1>7, <1>8, <1>9, <1>10 DEF Progress

\* TerminalIsFinal, for every number of briefs, runs and crashes: without a
\* redelivery "complete" can only become "failed", and "failed" "deleted".
THEOREM FinalStays == Spec => TerminalIsFinal
<1>1. Known /\ StoryInv /\ [Next]_vars => [\A b \in Briefs : Terminal(b)]_vars
  <2> SUFFICES ASSUME Known, StoryInv, Next, NEW b \in Briefs PROVE Terminal(b)
    OBVIOUS
  <2>1. CASE Broker
    BY <2>1 DEF Broker, Redeliver, Accept, dbVars, Terminal
  <2>2. QED BY <2>1, ApiTerminal, WorkerTerminal DEF Next, Worker
<1>2. [\A b \in Briefs : Terminal(b)]_vars =>
        [\A b \in Briefs :
           redelivered[b] = 0 /\ status[b] \in {"complete", "failed"} =>
             \/ status'[b] = status[b]
             \/ status[b] = "complete" /\ status'[b] = "failed"
             \/ status[b] = "failed" /\ status'[b] = "deleted"]_vars
  BY DEF Terminal, FinalStatuses
<1>3. QED BY <1>1, <1>2, KnownInvariant, StoryInvariant, PTL
          DEF Spec, TerminalIsFinal

=============================================================================
