# NEXUS: a TLA+ verification project

NEXUS (`src/`) turns a topic into a reviewed research report. A FastAPI process
accepts *briefs*, a Celery worker runs a LangGraph pipeline of LLM agents for
each of them, a human may approve, revise or expand the draft, and the report is
written to PDF, mailed and, with consent, indexed for later research. This
directory holds TLA+ models of that behaviour, the TLC runs that check them on
small instances and the TLAPS proofs of their main properties for every instance.
`PROJECT.json` maps each definition to the lines it stands for.

## 1. Inventory

| Component | State | Operations | Modelled |
|---|---|---|---|
| Brief lifecycle (`app/routes/briefs.py`, `app/workers/tasks.py`) | rows of `research_briefs` (status, completed_at), `reports` | create, resume, delete; the tasks `run_research_brief`, `generate_report` | `BriefRun`, `ReportDelivery` |
| Resume channel (`tasks.py:101`, `briefs.py:102`) | Redis subscriptions to `brief:<id>:resume` | SUBSCRIBE, PUBLISH, receive, deadline, close | `BriefRun` |
| Celery broker and pool (`celery_app.py`) | messages, pool processes | deliver, acknowledge, redeliver, crash | `BriefRun`, as external code |
| Research graph (`app/agents/graph.py`, `state.py`, `supervisor.py`, `planner.py`) | `ResearchState`, checkpoint in memory | nodes, superstep barrier, conditional edges, interrupt, resume | `ResearchGraph` |
| Research agents (`web_search.py`, `domain_knowledge.py`, `data_analyst.py`, `synthesis.py`, `writer.py`) | traces, claims | one node each | `ResearchGraph`, prompts and answers abstracted |
| Fact checker, debate (`fact_checker.py`, `debate.py`) | `claims` rows, the verified and disputed lists, debate traces | check every claim, debate some | `FactCheck`; one step per claim in `ResearchGraph` |
| LLM clients (`groq_client.py`, `gemini_client.py`) | attempt and delay of a call | call with back-off | `LLMClient`, inside `FactCheck` |
| Traces and events (`app/agents/common.py`) | `agent_traces`, channel `brief:<id>:events` | `record_trace`, `publish_event` | `BriefRun`, `ResearchGraph`, `EventStream` |
| Event stream (`app/routes/stream.py`) and its clients (`demo/run_demo.py`, `dashboard/pages/2_live_research.py`) | a Redis subscription and a WebSocket per client; the client's session | connect, forward, close; read, approve, poll, reconnect | `EventStream` |
| Report delivery (`tasks.py:39-82`, `routes/reports.py`, `email_service.py`) | two PDF files per brief, `pdf_path`, `emailed` | deliver, resend, download | `ReportDelivery` |
| Knowledge base (`knowledge_service.py`, `chroma_tool.py`, `memory.py`) | Chroma collections, `knowledge_base_entries` | index, related briefs, agent search, summary | `KnowledgeBase`, inside `ReportDelivery` |
| Admission (`core/auth.py`, `routes/auth.py`, `briefs.py:44-78`) | tenants, plan, monthly counter | register, token, create under limits | `BriefAdmission` |
| Dashboard sessions and form (`dashboard/auth`, `pages/1_new_brief.py`, `4_library.py`) | `st.session_state` | login, logout, three form steps, re-run, launch | `BriefAdmission` |
| Confidence scores, percentiles, calculator | none | pure functions | not modelled (section 8) |
| Report layout, schemas, settings, middleware, metrics, evals, other pages, migrations, manifests | none that another component reads | layout, validation, wiring | not modelled (section 8) |

**Interactions.** The API and the worker share no memory. They meet in the SQL
rows, in the Celery queue, in two Redis Pub/Sub channels per brief which keep
nothing for a late subscriber, in the files under `reports/` and in Chroma. One
execution of the task makes many separate commits, publications and awaits;
between any two of them every other process may act.

**What is hard.** A decision published while nobody listens; a decision checked
against one status and delivered in another; a deadline racing a late decision;
the review node re-executed from its first line on resume; two executions of one
brief after a redelivery, with no uniqueness constraint on reports; deletion of a
brief under a running task; an exception after the status is already "complete";
a process that dies after its message was acknowledged; lists that grow next to
lists that are overwritten over two fact-check passes; a stream that subscribes
after it looked at the brief; two deliveries that truncate and write the same two
files; vectors and rows in two stores without a common transaction; a counter
read, checked and written back by overlapping requests; a form that survives its
login; a debate whose traces commit before the claim they are about.
`PROJECT.json` lists these hazards with the line where each one bites.

**What makes each component correct.** Lifecycle: a completed brief has a report
and keeps existing, a final status stays final, a brief settles, a process slot
is given back. Review: no reviewed report without a final decision that was sent
to that very run. Graph: no claim lost or judged twice, bounded replanning, what
is published is what was reviewed. Fact check: rows, lists, events and debate
traces tell one story. Stream: each connection shows a gap-free part of the
history and its last event agrees with the rows. Delivery: a path in the database
has whole, matching files behind it. Knowledge base: what is counted can be found,
and only by its tenant. Admission: one key per address, and a limit that is worth
what the code can make it worth.

## 2. Modules

| Module | Lines of the system | Role |
|---|---|---|
| `BriefRun` | `briefs.py`, `tasks.py`, `common.py`, `celery_app.py` | API, broker, Pub/Sub, any number of task executions |
| `ResearchGraph` | `agents/*.py` | one execution of the compiled graph, superstep by superstep |
| `ReviewContract` | | abstract: draft, ask, decide, publish; implemented by the two above |
| `EventStream` | `stream.py`, `run_demo.py`, `2_live_research.py`, `agent_trace_feed.py` | `BriefRun` composed with the stream handlers and two kinds of client |
| `EventFeed` | | abstract: what one viewer may expect; implemented by `EventStream` |
| `LLMClient` | `groq_client.py`, `gemini_client.py` | one model call with its retries |
| `FactCheck` | `fact_checker.py`, `debate.py` | one pass of the fact checker, with its calls |
| `ClaimVerdicts` | | abstract: claims settled in order; implemented by `FactCheck` |
| `KnowledgeBase` | `knowledge_service.py`, `memory.py`, `chroma_tool.py` | the two stores and the searches |
| `ReportDelivery` | `tasks.py`, `reports.py`, `export_service.py`, `email_service.py` | the end of a run, resends, files; uses `KnowledgeBase` |
| `BriefAdmission` | `auth.py`, `briefs.py`, `dashboard/auth/*`, `1_new_brief.py`, `4_library.py` | tenants, limits, sessions |
| `MCBriefRun`, `MCEventStream`, `MCReportDelivery`, `MCBriefAdmission` | | symmetry sets and functions for TLC |
| `BriefRunProofs`, `BriefRunContractProofs`, `BriefRunEventsProofs`, `EventStreamProofs`, `ResearchGraphProofs`, `FactCheckProofs`, `ReportDeliveryProofs`, `BriefAdmissionProofs` | | theorems |

### BriefRun

A *run* is one execution of `run_research_brief`; `pc[r]` names the statement it
is about to execute. An action ends where the code commits, publishes or awaits
something another process can see, so everything between two such points is one
step and nothing larger is. The pieces:

* `status`, `completedAt`, `hasChildren`, `report` are the rows. Children are
  the traces, claims and knowledge-base rows whose foreign keys decide whether
  `delete_brief` can commit.
* `creation` and `request` hold where an API call is. `create_brief` commits and
  *then* queues (`CreateBrief`, `EnqueueBrief` / `EnqueueFails`); `resume_brief`
  reads the status and *then* publishes (`CheckResume`, `PublishResume`).
* `queue` and `redelivered` are the broker: `Dequeue` acknowledges before the
  work, Celery's default. `Redeliver` is the visibility timeout of Celery's Redis
  transport: a message still waiting is delivered a second time.
* `inbox[r]` is the run's subscribed socket; `PublishResume` appends to whoever is
  subscribed at that moment and to nobody else. `Leave` and `WaitReturns` are the
  `finally` that drops what is left.
* `lastEvent[b]` is the last event on the brief's event channel. A publication
  (`EventStep`) is a step of its own, after the commit it follows (`TracePlan` and
  `PublishPlan`, `Research` and `PublishResearch`), and the statement can still fail
  behind it: `publish_event` closes its connection in a `finally` (`CloseConnection` for
  the last event, the next position for the others).
* `Raise` lets any statement of the `try` fail; `MarkFailed` and `PublishFailed`
  are the handler; `Crash` is a dead process or a handler that fails itself.

`Research` and `PublishResearch` stand for the pipeline between two points where other
processes see something new: its rows and events. What happens inside is `ResearchGraph`.

### ResearchGraph

`frontier` is the set of nodes of the current LangGraph superstep, `done` those
that returned. Parallel researchers commit a trace per task as they go
(`TraceTask`) and may fail between two of them; once their tasks are traced they return
(`Research`), and their claims enter the state at the barrier (`EndResearch`): `all_claims` is an
`operator.add` list and grows, the two verdict lists are overwritten
(`UpdateLists`). The fact checker is a loop whose every turn commits
(`JudgeClaim`). `Interrupt` stops the execution, `Resume` hands over the decision
and `Reviewed` is the node's second execution. `NodeFails` may end the execution
anywhere; the database keeps what was committed.

A claim is `[agent, pass, id, low]`: who found it, in which pass, and whether its
confidence is below the 0.4 of `check_completion`. A verdict is the list the claim
is put in. What models and searches answer is a nondeterministic choice.

### ReviewContract, implemented twice

`ReviewContract` says what one execution promises its reviewer. `ResearchGraph`
implements it (`ImplementsContract`: the mapping is `Phase`), and so does every
run of `BriefRun` (`RunsKeepContract`), there among other runs, crashes and late
calls. The two models look at the same pipeline from two sides; the contract is
what they have in common and what makes it legitimate for `BriefRun` to
abstract the graph.

### EventStream and EventFeed

`EventStream` extends `BriefRun`: `System` is a step of `BriefRun` together with
`Deliver`, which appends the event of a publishing statement to `published[b]` and
to the Redis socket (`buffer`) of every handler subscribed at that moment. An event
is its number in the brief's history. A handler (`stream[c]`) reads the brief's row
(`Connect`), subscribes afterwards (`SubscribeStream`), forwards (`Forward`) until a
terminal event, notices that its client is gone (`HangUp`), or fails (`HandlerFails`);
every end runs the `finally` (`Finally`). `wire[c]` holds frames the client has not read,
`Cut` breaks the connection and loses them: a demo dies of it. A handler that failed
closes its socket, so its client reads the rest and an empty frame, at which the demo
leaves its loop and goes on (`DemoClosed`).

`DemoConnect` to `DemoReport` are the demo script: it leaves its event loop on
"human_review", reads the status once, approves through `BriefRun`'s own resume
call, then polls to the end or to its deadline. `PageLoad`, `PageConnect`,
`PageDrain` are one script run of the live page; `resting` remembers that the page
was drawn with a status at which it stops refreshing itself, until `PageReopen`.

`EventFeed` is the promise to one viewer: nothing of the past, then everything in
order without a gap, until it is cut off. `StreamsImplementFeed` maps each viewer's
`sent`, `cursor` and `got` to the history, the next event in flight and what the
client has read.

### LLMClient, FactCheck and ClaimVerdicts

`LLMClient` is the retry loop both clients share: attempt, doubled delay, no sleep
after the last attempt, any other error at once. `FactCheck` makes one such call per
claim, all at once (`asyncio.gather`; `AnswerCheck`, `ProviderBusy`, `Wake`). When
all have returned the loop takes the claims in order (`AtTurn`): `Judge` decides on a
debate, `Defend` asks the author and commits the defense's trace first,
`RenderVerdict` asks for the verdict and commits its trace, `PublishDebate` tells the
viewers, `Sort` fills the lists, `PublishDispute` tells of a dispute, `StoreClaim` commits the claim's row with its trace. `Fail` ends the node
anywhere and with it the brief; `Propagate` is the failure that a raised call
causes. Confidences are integers in ten-thousandths, so that `round(x, 3)` is modelled
by what it does (`Rounded`).

`ClaimVerdicts` is what the graph relies on: claims are settled one after the other,
each for good. `SettlesClaims` maps a settled claim to one whose row is committed.

### KnowledgeBase and ReportDelivery

`ReportDelivery` starts where a run inserts its report (`PersistReport`) and follows it
through `SetComplete`, the two commits of `index_brief` (`Embed` writes Chroma,
`IndexCommit` the rows) and `_generate_and_deliver_report`, which the resend route
queues too (`Resend`). A delivery picks any report row of its brief (`PickRow`: the
query is not ordered), asks the knowledge base for related briefs (`PrintRelated`),
truncates and writes two files, each of the four steps by itself because they run in a
thread while another pool process may do the same (`OpenReport`, `WriteReport`,
`OpenTrace`, `WriteTrace`), commits the path and, whatever the mail server said, the
flag (`CommitPath`, `EmailReport`). A file is whose bytes come first and whose last; a
writer that finds longer content leaves the tail. `Fail` ends a delivery anywhere.
`disturbed` is a history variable: briefs whose last writer began beside another one
or did not get through.

`KnowledgeBase` has the two stores, the collection of each tenant (`KbCollection`), the
collection the agent's tool searches (`COLLECTION_NAME`), and `Chunks`, the loop of
`_chunk_text` over the number of words. Similarities are any ranking: a search may
return any documents of its collection.

### BriefAdmission

`Register` looks for the address, `Insert` relies on the unique constraint
(`AddressFree`); its row is committed before the answer, which may get lost
("unanswered"), and only the answer contains the key that `HasToken` wants. A call of `create_brief` is `Send` (token accepted), `Check` (the row
read, both limits), `Commit` (the counter written as the value read plus one, the row
inserted; the caller hears of success or, after a late error, of failure), or `Refuse`. `overlaps` counts commits of a call during which another call
of the same tenant had committed. A session holds what `st.session_state` holds: the
token's tenant and plan, the form's step and draft, and the call it waits for. `Update`
is a click, which abandons a script that waits. `Upgrade` is the operator: no code
changes a plan.

## 3. Runs

| Run | Result | Bounds | Shows |
|---|---|---|---|
| `briefrun_safety` | pass, 1.81 M states | 2 briefs (b1 reviewed; b2 quick and indexed), 2 runs, 2 slots, 1 resume call, 1 redelivery, 1 crash; runs symmetric | safety and action properties of `BriefRun`, and the contract |
| `briefrun_reviews` | pass, 589 k states | 2 reviewed briefs, 2 runs, 2 calls, no redelivery, no crash; briefs, runs and calls symmetric | two briefs under review at the same time: channels do not mix, no decision survives its socket |
| `briefrun_liveness` | pass, 50 k states | 2 briefs, 2 runs, 1 slot, 1 call, no redelivery, no crash | briefs settle, slots are released |
| `lost_resume` | violation | 1 brief, 1 run, 1 call | an acknowledged revision reaches nobody |
| `research_graph` | pass, 308 k states | 1 claim per researcher and pass, 2 revisions, both depths | all properties of the graph, and the contract |
| `replan_budget` | violation | as above, no revision | replanning stops after one pass, not two |
| `expand_resumes` | violation | as above, 1 revision | "expand" completes at once |
| `event_stream` | pass, 1.03 M states | 1 reviewed brief, 1 run, 1 of 2 viewers (a demo with its resume call, or a live page), 1 broken connection or failed handler, the review page asks for approval or revision (`Asked`) | what viewers are told, the end of streams, the refinement of `EventFeed` |
| `fact_check` | pass, 1.56 M states | 2 claims, confidences 0.1992, 0.4, 0.8 or missing, 2 attempts per call | rows, lists, events and traces; the pass ends; the refinement of `ClaimVerdicts` |
| `report_delivery` | pass, 2.27 M states | 2 tenants with a brief each (one consents), 2 runs, 1 resend, reports of 6 and 0 words, chunks of 3 words overlapping by 1, 2 hits, 1 related brief | files, index and related research |
| `kb_search` | violation | as above, no resend | the agent's search never finds what was indexed |
| `brief_admission` | pass, 1.15 M states | 2 tenants, 2 registrations, 2 calls in flight, 1 session, limit 2, 3 briefs over all tenants (`MaxBriefs`); calls, registrations and tenants symmetric | the limit, the keys, the form |

**Why the bounds are enough to be interesting.** Two runs on one brief need one
redelivery; two reviewed briefs with two calls exercise the separation of channels,
two decisions for one wait and a call checked in one round and published in the
next. Two slots are what the deployment has (`docker-compose.yml`:
`--concurrency=2`). One call against a redelivered brief covers the decision that is
early, late, lost, or delivered to two listeners of one brief; longer rounds are
covered by the proofs, which bound nothing. One claim per agent and pass gives four
claims of two ages after a replan, with every subset of verdicts; `MAX_ITERATIONS` is
the code's own 2. The depth "deep" is built exactly like "standard".

*Streams.* Viewers never influence each other: they share only `published`, and a demo
its own resume call. One viewer at a time is therefore enough, chosen from both kinds;
one cut lets a page reconnect in the middle of the history. An expansion is left out of
this run only: `_review_decision` treats it as an approval, and `briefrun_safety` has it. *Fact check.* Two claims
are the least for an order of the loop; the confidences lie below, at and above the
debate's thresholds, and 0.1992 with a claim of 0.8 averages to 0.4996, which rounding
lifts to 0.5. Two attempts have both a retry and a last attempt. *Delivery.* Two
runs may be about one brief or about two; with the resend three deliveries can
meet in the files. Six words make chunks 1-3, 3-5 and 5-6. *Admission.* Limit 2 and 3
briefs reach the limit, the refusal and one brief given away by two overlapping
calls; the proofs cover any number.

`CHECK_DEADLOCK FALSE` is set because a system whose briefs are all finished, and
whose allowed runs, calls and deliveries are used up, really does stop; in
`BriefAdmission` the same holds of the bounds.

**Fairness.** `BriefRun`: weak fairness of `Accept` for each brief (a live broker
hands its messages to free processes) and of `Progress` for each run (a live
worker executes its next statement). The wait for a reviewer is part of
`Progress` because the deadline `RESUME_WAIT_TIMEOUT_SECONDS` (30 min,
`tasks.py:35`) is looked at in every turn of its loop, at least once per poll.
Nothing is assumed of users, deletions, redeliveries, exceptions or crashes.
Crashes are excluded from the liveness run: a process that dies leaves its brief
unsettled for ever (section 6). `ResearchGraph`: weak fairness of its step; nothing
of the reviewer. `EventStream`: weak fairness of each stream handler (the event loop
of the API); nothing of workers, clients or networks. `FactCheck`: weak fairness of
each claim's progress (calls answer or raise, sleeps end), of the return and of
`Propagate`, because an exception of a gathered call does end the node; nothing else
has to fail. `ReportDelivery` and `BriefAdmission` state safety only.

### Properties worth reading

* `CompletedHasReport`: whatever failed, ran twice or was deleted around it, a
  brief that ever completed exists and has a report. Nothing states this in one
  place of the code: it follows from the order of two commits and from foreign
  keys without ON DELETE.
* `DecisionWasSentHere`, `DecidedBeforeReport`: a stored report of a reviewed depth
  rests on a final decision (or the deadline), and that decision was acknowledged,
  for this brief, and published to this run.
* `OneReportPerDelivery`: reports per brief are bounded only by deliveries of its
  message, because `reports.brief_id` is not unique.
* `EventsTellTheTruth`, `TerminalIsFinal`: both only for briefs delivered once. After
  a redelivery the second execution really does move a completed brief back to
  "planning". The first one covers events whose statement fails after publishing:
  "complete" then becomes "failed" under the event brief_complete, but only while the
  run that failed is on its way to brief_failed, or if it died there (`Failing`).
* `TerminalIsFinal` names the exception the code has: an e-mail, PDF or event that
  fails after completion turns "complete" into "failed".
* `NoClaimLost`, `OneVerdictPerClaim`: after a replan the lists cover `all_claims`
  exactly, each claim once.
* `RowsMatchChecks`: the `claims` table holds one row per claim *and check that judged
  it*, in the middle of a check and after a failure too, and none of a claim that was
  traced but never passed the barrier.
* `PublishedAsReviewed`: the final report is the draft of the last decision, and each
  revision made a draft of its own.
* `BriefSettles`, `SlotIsReleased`: silent reviewers cannot hold the pool for ever.
* `ViewersToldTheTruth`: who was told "brief_complete" finds its PDF ready and the brief
  complete, whenever it looks; only if the very statement that told it failed after
  telling does it find "failed", with the PDF still there and brief_failed published, on
  its way, or lost with its process. Who polls the status instead has no such promise,
  because the status comes first and the event last.
* `StreamsEnd`: a handler that was subscribed when the final event was published
  closes. It says nothing of one that subscribed later (section 6).
* `DownloadsAreWhole`: a path has both files behind it at every moment, and while
  nobody writes and the last writer was alone and got through, both files are whole
  and of the same delivery, however many deliveries overlapped or failed before.
* `EntriesAreSearchable`, `IndexedInFull`: a failure between the two stores leaves
  vectors without rows, never rows without vectors; a committed pass covers its
  report without a gap. Neighbouring chunks share the words of the overlap
  (`CHUNK_OVERLAP_WORDS`) by design, but no chunk lies within another.
* `RelatedStaysInTenant`: related research never names a brief of another tenant,
  without consent or unfinished. It may name the brief itself (section 6).
* `LimitHolds`: the free limit is exact without overlapping calls; each overlapping
  commit can give the whole limit away once more, and nothing beyond that.
* `SessionsSound`: one tenant per address whatever registrations race, and a tenant
  whose key nobody was shown has no session, call or brief. Over Back, Re-run, logout,
  another tenant's login and a launch reported as failed, the form's last step has a
  complete draft, and no tenant that is not "pro" gets a deep brief,
  although the session's plan may be stale.
* `RowsAgreeWithLists`, `DebatesAreTraced`: the claim's row, the lists that go on to
  the report, the events and the debate's own traces agree wherever the check stops,
  with the one exception of a value that only rounding lifts to the threshold.

Each property of a passing run has a mutant in `PROJECT.json`: a plausible bug in a
mapped definition (a dropped `finally`, one channel or one collection for all,
cascading foreign keys, lists that grow instead of being overwritten, a bound off by
one, rows before vectors, a path after the mail, a file not truncated) which makes
TLC refute it.

## 4. Proofs

Every safety invariant, every action property and every refinement that a run checks is
also a theorem; liveness stays with TLC. The theorems hold for every set of briefs, runs,
calls, viewers, claims, tenants, sessions and deliveries, every number of slots,
retries, revisions, redeliveries, broken connections and crashes, from the named
assumptions on the constants only: `NoBrief`, `NoRun`, `NoTenant`, `NoCall`, `Missing`
are none of the things they are missing values of, `Quick` and `Consenting` are briefs,
`Owner`, `Length` and `Watches` are functions, the bounds are naturals, `ClaimIds` is
finite, a fact-check has at least one claim, confidences lie between 0 and 1 (in
ten-thousandths), a demo is one of the resume calls and no live page, runs and resends
are distinct and neither is called "absent" or "cut", the limit, the number of attempts
and the chunk size are positive.

| Module | Theorem | Property of a run |
|---|---|---|
| `BriefRunProofs` | `TypeCorrect` | `TypeOK` |
| | `CompletionIsBacked` | `CompletedHasReport` |
| | `DecisionsAreSent` | `DecisionWasSentHere` |
| | `ReportsAreDecided` | `DecidedBeforeReport` |
| `BriefRunContractProofs` | `RunsStayConsistent` | `RunsConsistent` |
| | `ContractKept` | `RunsKeepContract` |
| `BriefRunEventsProofs` | `ReportsAreDelivered` | `OneReportPerDelivery` |
| | `EventsAreTrue` | `EventsTellTheTruth` |
| | `FinalStays` | `TerminalIsFinal` |
| `EventStreamProofs` | `StreamRefinesRuns` | none: `StreamSpec` implies the `Spec` of `BriefRun` |
| | `StreamTyped` | `StreamTypeOK` |
| | `FeedsKept` | `StreamsImplementFeed` |
| | `ViewersTold` | `ViewersToldTheTruth` |
| `ResearchGraphProofs` | `TypeCorrect` | `TypeOK` |
| | `ClaimsAccounted`, `OneVerdict` | `NoClaimLost`, `OneVerdictPerClaim` |
| | `RowsMatch` | `RowsMatchChecks` |
| | `StateStaysConsistent` | `StateConsistent` |
| | `PublicationFollowsReview` | `PublishedAsReviewed` |
| | `QuickLeavesOut` | `QuickSkips` |
| | `KeepsContract` | `ImplementsContract` |
| `FactCheckProofs` | `CheckTyped` | `CheckTypeOK` |
| | `RowsAgree` | `RowsAgreeWithLists` |
| | `DebatesTraced` | `DebatesAreTraced` |
| | `ClaimsSettled` | `SettlesClaims` |
| `ReportDeliveryProofs` | `DeliveryTyped` | `DeliveryTypeOK` |
| | `IndexIsSearchable` | `EntriesAreSearchable` |
| | `IndexHoldsReports` | `IndexedInFull` |
| | `RelatedIsPrivate` | `RelatedStaysInTenant` |
| | `DownloadsWhole` | `DownloadsAreWhole` |
| `BriefAdmissionProofs` | `AdmissionTyped` | `AdmissionTypeOK` |
| | `LimitIsWorth` | `LimitHolds` |
| | `SessionsAreSound` | `SessionsSound` |

**The argument for BriefRun.** `CompletedHasReport` is not inductive: one has to know
that a run about to set "complete" has inserted its report, that the row it
delivers belongs to its brief, and that a run that never started owns none. That
is `RowsAgree`, and with `TypeOK` and `CompletedHasReport` it is the first inductive
invariant. The second, `DecInv`, adds `DecisionsAgree`: what sits in a socket was
acknowledged and published to that run while it waited, only a waiting run has
anything in its socket, and from the wait to the insert the run carries its
decision. An acknowledged call never changes, which is what keeps an old decision
true (`StandingRun`). The third, `RouteInv`, adds that quick runs never come near
the review statements and that a delivering run has its report: enough to map every
step to a step of `ReviewContract` or to a stutter.

**The argument for deliveries and events** (`BriefRunEventsProofs`). `DeliveryInv` counts:
the executions of a brief and its messages still queued are together the one
`create_brief` sent and the redelivered ones. So reports, which only executions insert,
are bounded by deliveries, and a brief never redelivered has one execution (`SoleRun`).
Of that one, `StoryInv` says what its position means for the status and the last event
(`PositionAgrees`) and what the last event means for rows and position (`EventAgrees`):
after brief_complete the run is where the connection is still to be closed, at the end,
or in the handler, and what it completed stays stored; and that a row is there from its creation and as long as it has reports (`RowExists`),
which keeps `delete_brief` away from a story that has ended well.

**The argument for EventStream** (`StreamInv`). Around the stream every step is one of
`BriefRun` or leaves its variables alone (`StreamRefinesRuns`), so the invariants above
hold there too. `InFlight` places every event: what is on the wire and in the Redis
socket are consecutive numbers, and while the handler is subscribed they are exactly
the end of the brief's history. That is the refinement of `EventFeed`: a publication
extends both, forwarding moves one across, reading takes the first, and a cut loses
all of them at once. `HistoryAgrees` ties the history to `lastEvent`, and a terminal
event of a brief delivered once is the last of the history, or is followed by brief_failed
alone; `StoryInv` then says what the rows are for a viewer who has read it. What
brief_complete told of (the report, its e-mail) outlives a later failure
(`CompletionsStand`).

**The argument for ResearchGraph.** `NoClaimLost` needs that, during a check, each
claim is either judged or still to judge and never both (`ChecksAgree`), and that
nobody researches once there is a draft. `PublishedAsReviewed` needs the version
of the draft tied to the number of revisions at every point between two reviews
(`ReviewAgrees`). `BudgetKept` bounds the passes: every node before the second
verdict runs below `MAX_ITERATIONS`. `TypeInv`, then `ChecksAgree`, then
`ReviewAgrees`; the contract follows from the last. `QuickSkips` needs that a quick execution's frontier and pending claims
never held what it leaves out (`QuickAgrees`). `RowsMatchChecks` needs the rows during
a check and after a failed one as well: a claim has the row of a fact-check that is
over, or of the one at hand if that has judged it (`RowsCount`), while findings are
never of a later pass than the count allows (`FindingsAgree`); so the checks with a
row are the interval `JudgedBy` names. That `EndCheck` finds
every claim judged is `ChecksAgree`.

**The argument for FactCheck** (`CheckInv`). One statement per claim and stage
(`ClaimAgrees`): nothing is stored or listed before its stage, each debate has exactly
the traces its stage implies, and once judged the flags, the confidence and the traces
agree up to the value rounding lifts (`DebateAgrees`, `RoundedSides`); each event has
been published from its stage on and not before. `OrderAgrees`
has the loop: a claim is in it only after every check has answered and all earlier
claims are stored, which makes the stored claims a prefix and gives `ClaimVerdicts` its
order.

**The argument for ReportDelivery** (`DeliveryInv`). `EntriesAreSearchable` needs that a
pass between its two commits has every document of the row it read in Chroma
(`IndexAgrees`); nothing ever removes one. `RelatedStaysInTenant` needs that documents
are only of consented, completed briefs, and that an answer printed once stays
allowed, since consent and completion are never taken back (`RelatedAgrees`).
`DownloadsAreWhole` needs two parts. `PathsAgree`: a file that exists never becomes
absent again, and from the second open on both exist. `FilesAgree`: of a brief that is
not disturbed there is at most one writer, what it has behind it is whole and its own
(`WriterAgrees`), and without a writer both files are of one delivery; a writer that
joins another makes the brief disturbed, and one that begins alone afterwards starts
anew from two truncations. `IndexedInFull` needs that a run commits the rows of one
report, all at once and never again (`PassAgrees`), and two facts about the loop of
`_chunk_text` for any chunk length, overlap and number of words: `ChunksCover` and
`ChunksAdvance`. They need no induction over the loop: the chunk that holds a word is
the one that begins at the multiple of the stride below it or, past the end of the
loop, at the last multiple the loop reaches (`LastChunk`), by division alone.

**The argument for BriefAdmission** (`AdmissionInv`). `LimitHolds` is not inductive: a
commit writes what its call read earlier. `CallsAgree` says what a checked call knows:
what it read is below the limit if the tenant is free, is still the counter unless
another call committed in between, and never more than the tenant's briefs. A commit
that overlapped is paid for by `overlaps`, one that did not moves counter and rows
together. `KeysAgree` has the one registration that made each tenant, answered or not;
`NothingBefore` that a tenant without a shown key has no briefs; `FormAgrees`
and `DeepIsPro` the form and the depths, with `CallsAgree` for the call between the
check of the depth and the commit, during which a plan only rises.

Two of the named invariants (`RunsConsistent`, `StateConsistent`) are also invariants of
the runs; the others are written in the proof modules.

**Model-checked only, beyond the prover**: `BriefSettles`, `SlotIsReleased`,
`GraphStops`, `StreamsEnd` and `CheckEnds`, because liveness under fairness needs
ENABLED. The four runs that end in a violation refute what they state and prove nothing.

## 5. Findings

* **A decision can vanish** (`lost_resume`). The status becomes "awaiting_review",
  a notification e-mail is sent, and only then does the run subscribe
  (`tasks.py:161-164`). A reviewer who answers in between is told that research
  resumes (`dashboard/pages/3_review.py:118`); the message has no subscriber and
  the draft is approved by the deadline. The same happens to a call that passed
  its check just before the deadline.
* **Research is planned anew once, not twice** (`replan_budget`). `check_completion`
  compares the number of fact-checks, the first included, with `MAX_ITERATIONS = 2`
  (`supervisor.py:82`). `planner.py:5` has `MAX_REPLANS = 2`, which nothing reads,
  `planner.py:41` says the caller's check bounds replanning by it, and `README.md:86`
  draws "loop, max 2×".
* **"Expand" does not expand** (`expand_resumes`). `_review_decision` knows only
  "revise" (`graph.py:48`); "expand" completes the brief with the draft as it is.
* **The agent never finds what was indexed** (`kb_search`). Reports are indexed in the
  collection of their tenant (`memory.py:51`); the tool `search_knowledge_base`, which
  promises the tenant's past research (`chroma_tool.py:19`), reads a collection that
  nothing writes (`chroma_tool.py:8`).

## 6. Known consequences the models make visible

Briefs and reviews:

* If the broker refuses the message, the brief stays "queued" (`EnqueueFails`) and
  has already been counted against the tenant.
* A process that dies leaves its brief in a non-final status: the message was
  acknowledged early and the checkpoint (`MemorySaver`) was in its memory.
* After a redelivery two executions share one brief; either may deliver the other's
  report row (`LoadReport`, `PickRow` pick any).
* A decision checked in one review round may be published in the next and then
  decides about a draft its sender never saw (`CheckResume`, `PublishResume`): it
  names a brief, not a draft.
* A terminal event need not be the last: brief_complete is published inside the `try`
  of the task (`tasks.py:205`), and `publish_event` closes its connection in a `finally`
  (`common.py:46-47`). If the reply is lost or the close raises, the handler sets "failed"
  and publishes brief_failed; the streams ended at the first of the two (`stream.py:20`,
  `stream.py:64`), so nobody who was watching hears of it, and the brief has its report,
  PDF and e-mail nevertheless.
* Follow-up tasks for two of three agents are dropped: the replanner is asked for tasks
  for `web_search`, `data_analyst` and `domain_knowledge` (`planner.py:16`), but the only
  edge out of it leads to `web_search` (`graph.py:82`), which takes the tasks of its own name.
* The text of a revision is stored in `human_feedback` and read by nobody: the
  synthesis runs again on the same claims.

Streams:

* A handler reads the brief's row, then subscribes, and never reads the status again:
  one that subscribes after the terminal event sends heartbeats until its client goes.
* The demo leaves its loop on "human_review", an event that is published before the
  status is set. If it reads the status in between it does not approve
  (`DemoReadStatus`) and waits for the deadline of the review.
* The live page does not refresh itself at "awaiting_review": after the decision it
  shows the old status until somebody opens it again.

Reports and knowledge base:

* A resend truncates the files of a finished report in place. If it fails between,
  the download of a report that once was whole is empty or cut, and stays so.
* `emailed` is set after every delivery, also when no mail was sent because none is
  configured or the server refused it.
* A brief is indexed before its report is rendered, and the search does not leave it
  out: its own report may list it as related research.

Debates:

* A retracted claim leaves a defense trace and no verdict trace, so the live page's
  "Debate rounds", which counts verdict traces, leaves the debate out.
* A defense that is not JSON parses to `{}` and does not retract; the fallback of
  `debate.py:43` is reached only by JSON that is no object.
* An average of 0.4996 is rounded to 0.5 after the flags were set: the row says
  disputed, the list says verified. `RowsAgreeWithLists` names this one value.
* A claim whose model says low confidence without "disputed" goes to the disputed list
  with a row that is not flagged as disputed.

Admission:

* Nothing resets `brief_count_this_month`: the monthly limit is one for life.
* Two calls that overlap write the same counter; one that was slow resets what others
  counted meanwhile (`LimitHolds`).
* The loser of two registrations of one address gets the database's error as a 500.
* A registration whose answer is lost after its commit takes its address for good: a
  second attempt gets 409, and nobody knows the key.
* A launch can be reported as failed although its brief exists, counts against the limit
  and, if the message went out, runs; a second click makes another one.
* The draft and its step survive logout and the next login in the same session.

## 7. What is left to do

1. Proofs across models: `ReportDelivery` starts where `BriefRun` has inserted a report,
   and `FactCheck` is one step of `ResearchGraph` seen from inside; that their starting
   points are reached, and their results are what the other model takes, is argued here
   in words and by the contract the models share.
2. `Algorithms`: the calculator, percentiles and confidence propagation as pure
   operators against reference definitions over bounded inputs.

Composition: `EventStream` extends `BriefRun`, `ReportDelivery` extends `KnowledgeBase`,
`FactCheck` extends `LLMClient` and has as one component what `JudgeClaim` of
`ResearchGraph` does in one step; `ReviewContract` links `BriefRun` and `ResearchGraph`.

## 8. Not modelled, and why

* Prompts, model answers, search results and similarities: external, any answer is
  allowed.
* `confidence_service.py`: its three scoring functions have no caller in the
  application, only in tests; `confidence_label` is layout.
* The calculator, percentiles and growth scan of `data_analyst`: pure functions of one
  text, without state (section 7).
* The layout of PDFs, mails and exports; the comparison of two briefs and the pages
  that only show data: they read rows and change nothing.
* Metrics, tracing, logs, correlation ids: no component reads them.
* Password hashing and token cryptography (libraries), rate limits of the HTTP layer
  (a library, in memory per process), validation and settings.
* The episodic memory of `memory.py:19-44`: no caller in the application.
* The demo tenant seeded by `main.py:22` under several starting API processes.
* Heartbeats of the stream: both clients skip them.
* The evals: they run the graph and print scores, and keep no state of the system.
* Migrations and manifests; the constraints the models rely on are in `Deletable`
  (`BriefRun`) and `AddressFree` (`BriefAdmission`).
* `deep` briefs are not distinguished from `standard` ones after admission, since the
  compiled graph is the same.

## 9. Running

    tlc -workers 2 -config MCBriefRun.cfg MCBriefRun
    tlc -workers 2 -config MCBriefRunReviews.cfg MCBriefRun
    tlc -workers 2 -config MCBriefRunLive.cfg MCBriefRun
    tlc -workers 2 -config ResearchGraph.cfg ResearchGraph
    tlc -workers 2 -config MCEventStream.cfg MCEventStream
    tlc -workers 2 -config FactCheck.cfg FactCheck
    tlc -workers 2 -config MCReportDelivery.cfg MCReportDelivery
    tlc -workers 2 -config MCBriefAdmission.cfg MCBriefAdmission
    tlapm BriefRunProofs.tla
    tlapm BriefRunContractProofs.tla
    tlapm BriefRunEventsProofs.tla
    tlapm EventStreamProofs.tla
    tlapm ResearchGraphProofs.tla
    tlapm FactCheckProofs.tla
    tlapm ReportDeliveryProofs.tla
    tlapm BriefAdmissionProofs.tla

The four runs that end in a violation are `MCBriefRunLostResume.cfg` (module
`MCBriefRun`), `ResearchGraphReplans.cfg` and `ResearchGraphExpand.cfg` (module
`ResearchGraph`) and `MCReportDeliverySearch.cfg` (module `MCReportDelivery`).
