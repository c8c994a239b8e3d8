------------------------------ MODULE BriefRun ------------------------------
(***************************************************************************)
(* The life of a research brief: the API handlers that create, resume and  *)
(* delete it, the Celery broker, the executions of the run_research_brief  *)
(* task, the Redis channel brief:<id>:resume that carries a reviewer's     *)
(* decision, and the database rows all of them share.                      *)
(*                                                                         *)
(* A run is one execution of the task.  A run's pc names the statement it  *)
(* is about to execute; an action ends where the code commits, publishes   *)
(* or awaits something another process can see.  The LangGraph pipeline    *)
(* inside a run is abstracted to its effects on the shared state (status,  *)
(* child rows, events); module ResearchGraph opens it.                     *)
(***************************************************************************)
EXTENDS Integers, Sequences, FiniteSets

CONSTANTS
  Briefs,           \* brief ids
  NoBrief,          \* job of a run that has not started
  Quick,            \* briefs of depth "quick": their graph has no human_review
  Consenting,       \* briefs created with consent_store
  Runs,             \* executions of the task the model allows
  NoRun,            \* "no report row picked"
  Slots,            \* pool processes, over all workers
  Requests,         \* calls of POST /v1/briefs/{id}/resume the model allows
  MaxRedeliveries,  \* bound on broker redeliveries per brief
  MaxCrashes        \* bound on worker crashes

ASSUME BriefsAssumption == /\ Quick \subseteq Briefs
                           /\ Consenting \subseteq Briefs
                           /\ NoBrief \notin Briefs
ASSUME RunsAssumption == NoRun \notin Runs
ASSUME BoundsAssumption == /\ Slots \in Nat
                           /\ MaxRedeliveries \in Nat
                           /\ MaxCrashes \in Nat

ReviewActions == {"approve", "revise", "expand"}
\* What _wait_for_resume can hand to the graph besides a request: nothing yet,
\* or the approval it invents when the deadline passes.
NoFeedback == [by |-> "nobody"]
TimedOut == [by |-> "timeout"]
From(q) == [by |-> "request", id |-> q]

VARIABLES
  \* research_briefs, agent_traces/claims/knowledge_base_entries, reports
  status,        \* [Briefs -> Statuses]
  completedAt,   \* [Briefs -> BOOLEAN]: completed_at is set
  hasChildren,   \* [Briefs -> BOOLEAN]: a trace, claim or KB row references it
  report,        \* [Runs -> ReportStates]: the reports row the run inserted
  \* the API
  creation,      \* [Briefs -> ...]: where create_brief is
  request,       \* [Requests -> record]: where each resume_brief call is
  \* Redis: broker queue, resume subscriptions, last message on brief:<id>:events
  queue,         \* [Briefs -> Nat]: task messages not yet accepted
  redelivered,   \* [Briefs -> Nat]
  inbox,         \* [Runs -> Seq(Requests)]: the run's subscribed socket
  lastEvent,     \* [Briefs -> Events]
  \* the workers
  pc, job, feedback, target,
  crashes

dbVars == <<status, completedAt, hasChildren, report>>
apiVars == <<creation, request>>
brokerVars == <<queue, redelivered>>
runVars == <<pc, job, feedback, target>>
vars == <<dbVars, apiVars, brokerVars, inbox, lastEvent, runVars, crashes>>

Statuses == {"absent", "queued", "planning", "researching", "awaiting_review",
             "complete", "failed", "deleted"}
ReportStates == {"none", "row", "pdf", "emailed"}
Events == {"none", "agent_update", "human_review", "human_review_resumed",
           "report_ready", "brief_complete", "brief_failed"}
\* Inside the try of run_research_brief: an exception leads to the handler.
Guarded == {"set_planning", "load", "plan", "trace", "traced", "research",
            "researched", "review", "paused", "subscribe", "wait", "resumed",
            "rerun", "persist", "finish", "index", "load_report", "write",
            "email", "announce", "close", "closed"}
Active == Guarded \cup {"mark_failed", "announce_failed"}
Idle == {"free", "ended", "crashed"}

Init ==
  /\ status = [b \in Briefs |-> "absent"]
  /\ completedAt = [b \in Briefs |-> FALSE]
  /\ hasChildren = [b \in Briefs |-> FALSE]
  /\ report = [r \in Runs |-> "none"]
  /\ creation = [b \in Briefs |-> "none"]
  /\ request = [q \in Requests |->
                  [at |-> "none", brief |-> NoBrief, action |-> "approve",
                   reached |-> {}]]
  /\ queue = [b \in Briefs |-> 0]
  /\ redelivered = [b \in Briefs |-> 0]
  /\ inbox = [r \in Runs |-> <<>>]
  /\ lastEvent = [b \in Briefs |-> "none"]
  /\ pc = [r \in Runs |-> "free"]
  /\ job = [r \in Runs |-> NoBrief]
  /\ feedback = [r \in Runs |-> NoFeedback]
  /\ target = [r \in Runs |-> NoRun]
  /\ crashes = 0

-----------------------------------------------------------------------------
(* Shared helpers *)

Exists(b) == status[b] \notin {"absent", "deleted"}
ReportsOf(b) == {r \in Runs : job[r] = b /\ report[r] # "none"}
Goto(r, label) == pc' = [pc EXCEPT ![r] = label]
\* Mutant: a guard that keeps "complete" from being overwritten.
SetStatusUnlessComplete(b, s) ==
  status' = [status EXCEPT ![b] =
               IF Exists(b) /\ @ # "complete" THEN s ELSE @]
\* UPDATE research_briefs ... WHERE id = b: no row, no effect.
SetStatus(b, s) ==
  status' = [status EXCEPT ![b] = IF Exists(b) THEN s ELSE @]

-----------------------------------------------------------------------------
(* API handlers *)

\* create_brief up to its commit.
CreateBrief(b) ==
  /\ creation[b] = "none"
  /\ creation' = [creation EXCEPT ![b] = "committed"]
  /\ status' = [status EXCEPT ![b] = "queued"]
  /\ UNCHANGED <<completedAt, hasChildren, report, request, brokerVars, inbox,
                 lastEvent, runVars, crashes>>

\* create_brief after the commit: .delay() reaches the broker and the call
\* answers, or it raises (or the API process dies) and nothing is queued.
EnqueueBrief(b) ==
  /\ creation[b] = "committed"
  /\ creation' = [creation EXCEPT ![b] = "answered"]
  /\ queue' = [queue EXCEPT ![b] = @ + 1]
  /\ UNCHANGED <<dbVars, request, redelivered, inbox, lastEvent, runVars,
                 crashes>>

EnqueueFails(b) ==
  /\ creation[b] = "committed"
  /\ creation' = [creation EXCEPT ![b] = "lost"]
  /\ UNCHANGED <<dbVars, request, brokerVars, inbox, lastEvent, runVars,
                 crashes>>

\* resume_brief reads the row and checks its status ...
CheckResume(q, b, action) ==
  /\ request[q].at = "none"
  /\ Exists(b)
  /\ request' = [request EXCEPT ![q] =
       [at |-> IF status[b] = "awaiting_review" THEN "checked" ELSE "refused",
        brief |-> b, action |-> action, reached |-> {}]]
  /\ UNCHANGED <<dbVars, creation, brokerVars, inbox, lastEvent, runVars,
                 crashes>>

\* Mutant: one channel for all briefs.
ListenersAnyBrief(q) == {r \in Runs : pc[r] = "wait"}
\* The subscribers of brief:<id>:resume.
Listeners(q) == {r \in Runs : pc[r] = "wait" /\ job[r] = request[q].brief}

\* ... and publishes the decision later, to whoever is subscribed then.
\* PUBLISH keeps nothing for later subscribers; the reply does not depend on
\* how many there were.
PublishResume(q) ==
  /\ request[q].at = "checked"
  /\ inbox' = [r \in Runs |-> IF r \in Listeners(q) THEN Append(inbox[r], q)
                                                    ELSE inbox[r]]
  /\ request' = [request EXCEPT ![q].at = "acked", ![q].reached = Listeners(q)]
  /\ UNCHANGED <<dbVars, creation, brokerVars, lastEvent, runVars, crashes>>

\* Mutant: foreign keys that cascade.
DeletableCascading(b) == Exists(b)
\* The foreign keys have no ON DELETE: a referenced brief cannot go.
Deletable(b) == Exists(b) /\ ~hasChildren[b] /\ ReportsOf(b) = {}

\* delete_brief: with referencing rows the commit raises and nothing changes.
DeleteBrief(b) ==
  /\ Deletable(b)
  /\ status' = [status EXCEPT ![b] = "deleted"]
  /\ UNCHANGED <<completedAt, hasChildren, report, apiVars, brokerVars, inbox,
                 lastEvent, runVars, crashes>>

-----------------------------------------------------------------------------
(* Celery broker and pool *)

\* The broker's visibility timeout passes while the message waits, reserved
\* but not accepted, in a busy worker: a second copy becomes deliverable.
Redeliver(b) ==
  /\ queue[b] > 0
  /\ redelivered[b] < MaxRedeliveries
  /\ queue' = [queue EXCEPT ![b] = @ + 1]
  /\ redelivered' = [redelivered EXCEPT ![b] = @ + 1]
  /\ UNCHANGED <<dbVars, apiVars, inbox, lastEvent, runVars, crashes>>

\* Mutant: no check that a message is there.
DequeueBlind(b) == queue' = [queue EXCEPT ![b] = @ - 1]
\* Mutant: the message stays until the work is done.
DequeueLate(b) == queue[b] > 0 /\ UNCHANGED queue
\* Celery's default acknowledgement, before the work.
Dequeue(b) == queue[b] > 0 /\ queue' = [queue EXCEPT ![b] = @ - 1]

\* A free pool process accepts a message.
Accept(r, b) ==
  /\ pc[r] = "free"
  /\ Cardinality({x \in Runs : pc[x] \in Active}) < Slots
  /\ Dequeue(b)
  /\ job' = [job EXCEPT ![r] = b]
  /\ Goto(r, "set_planning")
  /\ UNCHANGED <<dbVars, apiVars, redelivered, inbox, lastEvent, feedback,
                 target, crashes>>

-----------------------------------------------------------------------------
(* The statements a run is made of *)

\* A statement that only decides where to go.
ControlStep(r, at, next) ==
  /\ pc[r] = at
  /\ Goto(r, next)
  /\ UNCHANGED <<dbVars, apiVars, brokerVars, inbox, lastEvent, job, feedback,
                 target, crashes>>

\* _set_status, and the UPDATE of supervisor.plan.
StatusStep(r, at, s, next) ==
  /\ pc[r] = at
  /\ SetStatus(job[r], s)
  /\ completedAt' = [completedAt EXCEPT ![job[r]] =
                       @ \/ (s = "complete" /\ Exists(job[r]))]
  /\ Goto(r, next)
  /\ UNCHANGED <<hasChildren, report, apiVars, brokerVars, inbox, lastEvent,
                 job, feedback, target, crashes>>

\* publish_event up to its PUBLISH.  An error after it (a lost reply, the finally
\* that closes the connection) is raised from the position the step leads to.
EventStep(r, at, e, next) ==
  /\ pc[r] = at
  /\ lastEvent' = [lastEvent EXCEPT ![job[r]] = e]
  /\ Goto(r, next)
  /\ UNCHANGED <<dbVars, apiVars, brokerVars, inbox, job, feedback, target,
                 crashes>>

\* record_trace up to its commit: a row that references the brief; its event
\* follows.  The foreign key refuses the row of a deleted brief: the exception.
TraceStep(r, at, next) ==
  /\ pc[r] = at
  /\ IF Exists(job[r])
     THEN /\ hasChildren' = [hasChildren EXCEPT ![job[r]] = TRUE]
          /\ Goto(r, next)
     ELSE /\ Goto(r, "mark_failed")
          /\ UNCHANGED hasChildren
  /\ UNCHANGED <<status, completedAt, report, apiVars, brokerVars, inbox,
                 lastEvent, job, feedback, target, crashes>>

\* A commit on the reports row of run x.
ReportStep(r, at, x, state, next) ==
  /\ pc[r] = at
  /\ report' = [report EXCEPT ![x] = state]
  /\ Goto(r, next)
  /\ UNCHANGED <<status, completedAt, hasChildren, apiVars, brokerVars, inbox,
                 lastEvent, job, feedback, target, crashes>>

\* Mutant: the socket outlives the review it was opened for.
WaitReturnsKeeping(r, decision) ==
  /\ pc[r] = "wait"
  /\ feedback' = [feedback EXCEPT ![r] = decision]
  /\ Goto(r, "resumed")
  /\ UNCHANGED <<dbVars, apiVars, brokerVars, inbox, lastEvent, job, target,
                 crashes>>
\* _wait_for_resume returns; its finally drops whatever the socket still held.
WaitReturns(r, decision) ==
  /\ pc[r] = "wait"
  /\ feedback' = [feedback EXCEPT ![r] = decision]
  /\ inbox' = [inbox EXCEPT ![r] = <<>>]
  /\ Goto(r, "resumed")
  /\ UNCHANGED <<dbVars, apiVars, brokerVars, lastEvent, job, target, crashes>>

-----------------------------------------------------------------------------
(* run_research_brief, _run_graph, _execute_graph *)

SetPlanning(r) == StatusStep(r, "set_planning", "planning", "load")

\* Mutant: wait for the row to appear.
LoadBriefRetry(r) == ControlStep(r, "load", "plan") /\ Exists(job[r])
\* A missing brief ends the task without an error.
LoadBrief(r) ==
  ControlStep(r, "load", IF Exists(job[r]) THEN "plan" ELSE "ended")

\* supervisor.plan: the UPDATE and its commit, then its trace row, the first
\* row to reference the brief.
Plan(r) == StatusStep(r, "plan", "researching", "trace")
TracePlan(r) == TraceStep(r, "trace", "traced")
PublishPlan(r) == EventStep(r, "traced", "agent_update", "research")

\* The research, fact-check, synthesis and writing nodes: rows, then events.
Research(r) == TraceStep(r, "research", "researched")

\* Mutant: the quick route for every depth.
PublishResearchUnreviewed(r) ==
  EventStep(r, "researched", "agent_update", "persist")
\* A quick graph goes on to its end, the others reach human_review.
PublishResearch(r) ==
  EventStep(r, "researched", "agent_update",
            IF job[r] \in Quick THEN "persist" ELSE "review")

\* _human_review up to interrupt(): the event precedes the status.
HumanReview(r) == EventStep(r, "review", "human_review", "paused")

SetAwaitingReview(r) ==
  StatusStep(r, "paused", "awaiting_review", "subscribe")

\* The notification e-mail sits between the status and the subscription.
Subscribe(r) == ControlStep(r, "subscribe", "wait")

ReceiveResume(r) ==
  /\ inbox[r] # <<>>
  /\ WaitReturns(r, From(Head(inbox[r])))

\* Mutant: the deadline is looked at only when a message wakes the loop.
ReviewTimeoutIfWoken(r) == inbox[r] # <<>> /\ WaitReturns(r, TimedOut)
\* The deadline check comes before the read, so a message that arrived after
\* the last read is not seen.
ReviewTimeout(r) == WaitReturns(r, TimedOut)

PublishResumed(r) == EventStep(r, "resumed", "human_review_resumed", "rerun")

\* Mutant: every action but "expand" completes.
DecisionExpandOnly(r) ==
  IF feedback[r].by = "request" /\ request[feedback[r].id].action = "expand"
  THEN "research" ELSE "persist"
\* _review_decision.
Decision(r) ==
  IF feedback[r].by = "request" /\ request[feedback[r].id].action = "revise"
  THEN "research" ELSE "persist"

\* Command(resume=...) runs _human_review again from its first line, so the
\* event is published once more; then the graph routes.
RerunHumanReview(r) == EventStep(r, "rerun", "human_review", Decision(r))

\* The insert fails when the brief is gone.
PersistReport(r) ==
  /\ pc[r] = "persist"
  /\ IF Exists(job[r]) THEN ReportStep(r, "persist", r, "row", "finish")
                       ELSE ControlStep(r, "persist", "mark_failed")

\* Mutant: the client is told before anything is delivered.
SetCompleteUndelivered(r) == StatusStep(r, "finish", "complete", "close")
SetComplete(r) ==
  StatusStep(r, "finish", "complete",
             IF job[r] \in Consenting THEN "index" ELSE "load_report")

\* index_brief: knowledge_base_entries rows, no event.
IndexBrief(r) ==
  /\ pc[r] = "index"
  /\ hasChildren' = [hasChildren EXCEPT ![job[r]] = TRUE]
  /\ Goto(r, "load_report")
  /\ UNCHANGED <<status, completedAt, report, apiVars, brokerVars, inbox,
                 lastEvent, job, feedback, target, crashes>>

-----------------------------------------------------------------------------
(* _generate_and_deliver_report *)

\* SELECT ... WHERE brief_id = b takes the first of the rows, in no set order.
LoadReport(r) ==
  /\ pc[r] = "load_report"
  /\ IF Exists(job[r]) /\ ReportsOf(job[r]) # {}
     THEN /\ \E x \in ReportsOf(job[r]) : target' = [target EXCEPT ![r] = x]
          /\ Goto(r, "write")
     ELSE /\ Goto(r, "close")
          /\ UNCHANGED target
  /\ UNCHANGED <<dbVars, apiVars, brokerVars, inbox, lastEvent, job, feedback,
                 crashes>>

\* pdf_path; a row already e-mailed by another delivery keeps its flag.
WritePdf(r) ==
  ReportStep(r, "write", target[r],
             IF report[target[r]] = "row" THEN "pdf" ELSE report[target[r]],
             "email")

\* send_brief_ready swallows its own failures: the flag is set either way.
EmailReport(r) == ReportStep(r, "email", target[r], "emailed", "announce")

PublishReportReady(r) == EventStep(r, "announce", "report_ready", "close")

PublishComplete(r) == EventStep(r, "close", "brief_complete", "closed")

\* The finally of that publish_event, still inside the try of the task.
CloseConnection(r) == ControlStep(r, "closed", "ended")

-----------------------------------------------------------------------------
(* Failures *)

\* Mutant: no finally, the socket stays open.
LeaveOpen(r, next) ==
  /\ Goto(r, next)
  /\ UNCHANGED <<inbox, dbVars, apiVars, brokerVars, lastEvent, job, feedback,
                 target>>
\* The finally of _wait_for_resume runs on every way out.
Leave(r, next) ==
  /\ inbox' = [inbox EXCEPT ![r] = <<>>]
  /\ Goto(r, next)
  /\ UNCHANGED <<dbVars, apiVars, brokerVars, lastEvent, job, feedback, target>>

\* Any statement of the try may raise (LLM, search, SQL, Redis, PDF).
Raise(r) ==
  /\ pc[r] \in Guarded
  /\ Leave(r, "mark_failed")
  /\ UNCHANGED crashes

\* Mutant: the handler retries the task.
MarkFailedAndRetry(r) == StatusStep(r, "mark_failed", "failed", "set_planning")
\* The handler: the status, then the event.
MarkFailed(r) == StatusStep(r, "mark_failed", "failed", "announce_failed")

PublishFailed(r) == EventStep(r, "announce_failed", "brief_failed", "ended")

\* The pool process dies, or the handler itself raises: the message is already
\* acknowledged and the graph's checkpoint was in memory, so nothing resumes.
Crash(r) ==
  /\ pc[r] \in Active
  /\ crashes < MaxCrashes
  /\ crashes' = crashes + 1
  /\ Leave(r, "crashed")

-----------------------------------------------------------------------------
\* What a healthy worker does with a run it has accepted.
Progress(r) ==
  \/ SetPlanning(r) \/ LoadBrief(r) \/ Plan(r) \/ TracePlan(r) \/ PublishPlan(r)
  \/ Research(r) \/ PublishResearch(r)
  \/ HumanReview(r) \/ SetAwaitingReview(r) \/ Subscribe(r)
  \/ ReceiveResume(r) \/ ReviewTimeout(r) \/ PublishResumed(r)
  \/ RerunHumanReview(r) \/ PersistReport(r) \/ SetComplete(r)
  \/ IndexBrief(r) \/ LoadReport(r) \/ WritePdf(r) \/ EmailReport(r)
  \/ PublishReportReady(r) \/ PublishComplete(r) \/ CloseConnection(r)
  \/ MarkFailed(r) \/ PublishFailed(r)

Api ==
  \/ \E b \in Briefs : \/ CreateBrief(b) \/ EnqueueBrief(b)
                       \/ EnqueueFails(b) \/ DeleteBrief(b)
  \/ \E q \in Requests, b \in Briefs, action \in ReviewActions :
       CheckResume(q, b, action)
  \/ \E q \in Requests : PublishResume(q)

Broker == \E b \in Briefs : Redeliver(b) \/ \E r \in Runs : Accept(r, b)

Worker == \E r \in Runs : Progress(r) \/ Raise(r) \/ Crash(r)

Next == Api \/ Broker \/ Worker

Spec == Init /\ [][Next]_vars

\* Users and failures owe nothing; a live broker hands out its messages and a
\* live worker executes the next statement of every run it has accepted.
Fairness == /\ \A b \in Briefs : WF_vars(\E r \in Runs : Accept(r, b))
            /\ \A r \in Runs : WF_vars(Progress(r))

FairSpec == Spec /\ Fairness

-----------------------------------------------------------------------------
(* Properties *)

Feedbacks == {NoFeedback, TimedOut} \cup {From(q) : q \in Requests}
RequestStates == [at : {"none", "checked", "refused", "acked"},
                  brief : Briefs \cup {NoBrief},
                  action : ReviewActions,
                  reached : SUBSET Runs]

\* Every variable keeps its type.
TypeOK ==
  /\ status \in [Briefs -> Statuses]
  /\ completedAt \in [Briefs -> BOOLEAN]
  /\ hasChildren \in [Briefs -> BOOLEAN]
  /\ report \in [Runs -> ReportStates]
  /\ creation \in [Briefs -> {"none", "committed", "answered", "lost"}]
  /\ request \in [Requests -> RequestStates]
  /\ queue \in [Briefs -> Nat]
  /\ redelivered \in [Briefs -> 0..MaxRedeliveries]
  /\ inbox \in [Runs -> Seq(Requests)]
  /\ lastEvent \in [Briefs -> Events]
  /\ pc \in [Runs -> Active \cup Idle]
  /\ job \in [Runs -> Briefs \cup {NoBrief}]
  /\ feedback \in [Runs -> Feedbacks]
  /\ target \in [Runs -> Runs \cup {NoRun}]
  /\ crashes \in 0..MaxCrashes

\* A brief that ever reached "complete" still exists and has a report, whatever
\* failed, crashed, ran twice or was deleted around it (tasks.py persists the
\* report in one commit and the status in another; delete_brief checks nothing).
CompletedHasReport ==
  \A b \in Briefs :
    completedAt[b] \/ status[b] = "complete" => Exists(b) /\ ReportsOf(b) # {}

\* A final word on the current draft: not "revise".
Decided(r) ==
  \/ feedback[r] = TimedOut
  \/ \E q \in Requests : /\ feedback[r] = From(q)
                         /\ request[q].action # "revise"

\* Call q was acknowledged after it was published to run r for r's brief.
SentTo(q, r) == /\ request[q].at = "acked"
                /\ request[q].brief = job[r]
                /\ r \in request[q].reached

\* No report of a reviewed depth is stored while the reviewer's word is missing
\* or is "revise": the run has an approval, an expansion or a timeout in hand.
DecidedBeforeReport ==
  \A r \in Runs :
    report[r] # "none" /\ job[r] \notin Quick => Decided(r)

\* The decision a run acts on was sent, by a caller who saw the brief awaiting
\* review, to this run and for this brief: channels of two briefs never mix and
\* a refused call decides nothing.
DecisionWasSentHere ==
  \A r \in Runs, q \in Requests : feedback[r] = From(q) => SentTo(q, r)

\* Where a run that delivers its report can be, and where one that has inserted
\* it can be.
Delivering == {"finish", "index", "load_report", "write", "email", "announce",
               "close", "closed"}
AfterReport == {"finish", "index", "load_report", "write", "email", "announce",
                "close", "closed", "mark_failed", "announce_failed", "ended", "crashed"}

\* What a run's position says about the rows and about the decision it holds:
\* the facts that make the invariants above inductive.
RowsAgree(r) ==
  /\ pc[r] # "free" => job[r] \in Briefs
  /\ pc[r] = "finish" => report[r] # "none"
  /\ pc[r] \in {"write", "email"} => target[r] \in ReportsOf(job[r])
  /\ report[r] # "none" => pc[r] \in AfterReport

DecisionsAgree(r) ==
  /\ pc[r] = "free" => feedback[r] = NoFeedback
  /\ pc[r] \in {"resumed", "rerun"} => feedback[r] # NoFeedback
  /\ pc[r] = "persist" /\ job[r] \notin Quick => Decided(r)
  /\ inbox[r] # <<>> => pc[r] = "wait"
  /\ \A i \in 1..Len(inbox[r]) : SentTo(inbox[r][i], r)

\* Where a run that asks, or has asked, for a review can be.
Reviewing == {"review", "paused", "subscribe", "wait", "resumed", "rerun"}

RouteAgrees(r) ==
  /\ pc[r] \in Reviewing => job[r] \notin Quick
  /\ pc[r] \in Delivering => report[r] # "none"

RunsConsistent ==
  \A r \in Runs : RowsAgree(r) /\ DecisionsAgree(r) /\ RouteAgrees(r)

\* reports.brief_id has no uniqueness constraint: what keeps a brief to one
\* report is only that its task message is delivered once.
OneReportPerDelivery ==
  \A b \in Briefs : Cardinality(ReportsOf(b)) <= 1 + redelivered[b]

\* The failure of a run of b is under way: "failed" is stored, brief_failed not
\* yet published, or never, if the process died.
Failing(b) ==
  \E r \in Runs : job[r] = b /\ pc[r] \in {"announce_failed", "crashed"}

\* A client that trusts the event stream is told the truth about the rows, as
\* long as the task was delivered once: report_ready and brief_complete follow
\* an e-mailed report and the completion, brief_failed follows "failed".  Only
\* an error of the statement that published brief_complete (common.py closes
\* its connection inside the try of the task) makes "failed" of a brief whose
\* last event says otherwise, and then only on the way to brief_failed.
EventsTellTheTruth ==
  \A b \in Briefs :
    redelivered[b] = 0 =>
      /\ lastEvent[b] \in {"report_ready", "brief_complete"} =>
           /\ completedAt[b]
           /\ \E r \in ReportsOf(b) : report[r] = "emailed"
      /\ lastEvent[b] = "brief_complete" =>
           status[b] = "complete" \/ (status[b] = "failed" /\ Failing(b))
      /\ lastEvent[b] = "brief_failed" => status[b] \in {"failed", "deleted"}

\* Without a redelivery a final status changes only in two ways: "complete"
\* becomes "failed" when delivery fails after completion, and a failed brief
\* without rows may be deleted.
TerminalIsFinal ==
  [][\A b \in Briefs :
       redelivered[b] = 0 /\ status[b] \in {"complete", "failed"} =>
         \/ status'[b] = status[b]
         \/ status[b] = "complete" /\ status'[b] = "failed"
         \/ status[b] = "failed" /\ status'[b] = "deleted"]_vars

\* A brief whose creation was answered ends complete, failed or deleted, for
\* every silence of the reviewer, as long as workers do not crash.
BriefSettles ==
  \A b \in Briefs :
    creation[b] = "answered" ~> status[b] \in {"complete", "failed", "deleted"}

\* A pool process that accepts a brief gives its slot back: the wait for a
\* reviewer is bounded.
SlotIsReleased == \A r \in Runs : pc[r] \in Active ~> pc[r] \notin Active

\* What the review page tells its user ("Revision requested - resuming
\* research..."): a revision the API acknowledged reached a run that waits.
RevisionReachesRun ==
  \A q \in Requests :
    request[q].at = "acked" /\ request[q].action = "revise" =>
      request[q].reached # {}

-----------------------------------------------------------------------------
(* Refinement *)

Phase(r) ==
  IF report[r] # "none" THEN "finished" ELSE
  CASE pc[r] \in {"mark_failed", "announce_failed", "ended", "crashed"} -> "failed"
    [] pc[r] = "review" \/ (pc[r] = "persist" /\ job[r] \in Quick) -> "drafted"
    [] pc[r] \in {"paused", "subscribe", "wait"} -> "reviewing"
    [] pc[r] \in {"resumed", "rerun"} ->
         IF Decision(r) = "research" THEN "drafting" ELSE "accepted"
    [] pc[r] = "persist" /\ job[r] \notin Quick -> "accepted"
    [] OTHER -> "drafting"

Contract(r) == INSTANCE ReviewContract WITH phase <- Phase(r),
                                            quick <- job[r] \in Quick

\* Every run keeps the promise made to the reviewer, in the presence of other
\* runs, crashes, timeouts, late and repeated calls.
RunsKeepContract ==
  /\ \A r \in Runs : Contract(r)!Init
  /\ [][\A r \in Runs : [Contract(r)!Next]_(Phase(r))]_vars

=============================================================================
