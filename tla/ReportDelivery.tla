--------------------------- MODULE ReportDelivery ---------------------------
(***************************************************************************)
(* From a finished draft to the user's files: the end of the executions of *)
(* run_research_brief (report row, completion, index, delivery) and the    *)
(* generate_report tasks a user starts to have the e-mail sent again.  A   *)
(* delivery renders two PDFs, writes them to reports/<brief>/report.pdf    *)
(* and trace.pdf, and commits the path and the e-mail flag on a report     *)
(* row.  No lock orders two deliveries of a brief.                         *)
(*                                                                         *)
(* BriefRun has what comes before; here a run enters with its report row.  *)
(***************************************************************************)
EXTENDS KnowledgeBase

CONSTANTS
  Resends,     \* generate_report tasks
  NoBrief, NoRun,
  Length       \* [Runs -> Nat]: words of the report a run writes

ASSUME DeliveriesAssumption == /\ Runs \cap Resends = {}
                               /\ {"absent", "cut"} \cap (Runs \cup Resends) = {}
                               /\ NoBrief \notin Briefs /\ NoRun \notin Runs
                               /\ Length \in [Runs -> Nat]
Deliveries == Runs \cup Resends

VARIABLES
  pc, job,
  completed,  \* briefs whose completed_at is set
  related,    \* [Deliveries -> SUBSET Briefs]: "Related past research"
  source,     \* [Runs -> Runs \cup {NoRun}]: the report row index_brief read
  target,     \* [Deliveries -> Runs \cup {NoRun}]: the row it commits to
  pathed, emailed,  \* report rows with pdf_path, with the e-mail flag
  file,       \* [Briefs -> [Files -> contents]]
  disturbed   \* history: briefs whose last writer shared the files or failed

rowVars == <<completed, pathed, emailed>>
fileVars == <<file, disturbed>>
vars == <<kbVars, pc, job, rowVars, related, source, target, fileVars>>

Files == {"report", "trace"}
\* Bytes of a file: whose come first and whose come last.  open(..., "wb") cuts
\* a file to nothing; a writer that finds longer content leaves its tail.
Absent == [head |-> "absent", tail |-> "absent"]
Cut == [head |-> "cut", tail |-> "cut"]
Written(d) == [head |-> d, tail |-> d]
Writing == {"write_report", "open_trace", "write_trace"}
Active == {"finish", "index", "commit", "load", "open_report", "path", "email"}
            \cup Writing

Init ==
  /\ KbInit
  /\ pc = [d \in Deliveries |-> "none"]
  /\ job = [d \in Deliveries |-> NoBrief]
  /\ completed = {} /\ pathed = {} /\ emailed = {}
  /\ related = [d \in Deliveries |-> {}]
  /\ source = [r \in Runs |-> NoRun]
  /\ target = [d \in Deliveries |-> NoRun]
  /\ file = [b \in Briefs |-> [f \in Files |-> Absent]]
  /\ disturbed = {}

\* The reports rows of b; a row is never deleted.
ReportsOf(b) == {r \in Runs : job[r] = b}
Goto(d, label) == pc' = [pc EXCEPT ![d] = label]

-----------------------------------------------------------------------------
(* The end of a run, and the resend route *)

\* _persist_report.
PersistReport(r, b) ==
  /\ pc[r] = "none"
  /\ job' = [job EXCEPT ![r] = b]
  /\ Goto(r, "finish")
  /\ UNCHANGED <<kbVars, completed, pathed, emailed, related, source, target,
                 fileVars>>

\* Mutant: consent is not asked for.
AfterCompleteAlways(b) == "index"
AfterComplete(b) == IF b \in Consenting THEN "index" ELSE "load"

SetComplete(r) ==
  /\ pc[r] = "finish"
  /\ completed' = completed \cup {job[r]}
  /\ Goto(r, AfterComplete(job[r]))
  /\ UNCHANGED <<kbVars, job, pathed, emailed, related, source, target,
                 fileVars>>

\* Mutant: the rows are committed first.
EmbedRowsFirst(r) ==
  /\ pc[r] = "index"
  /\ \E x \in ReportsOf(job[r]) :
       /\ source' = [source EXCEPT ![r] = x]
       /\ CommitEntries(r, job[r], Length[x])
  /\ Goto(r, "commit")
  /\ UNCHANGED <<job, rowVars, related, target, fileVars>>
\* index_brief up to write_semantic: of any of the brief's reports.
Embed(r) ==
  /\ pc[r] = "index"
  /\ \E x \in ReportsOf(job[r]) :
       /\ source' = [source EXCEPT ![r] = x]
       /\ WriteSemantic(r, job[r], Length[x])
       /\ Goto(r, IF Length[x] = 0 THEN "load" ELSE "commit")
  /\ UNCHANGED <<job, rowVars, related, target, fileVars>>

IndexCommit(r) ==
  /\ pc[r] = "commit"
  /\ CommitEntries(r, job[r], Length[source[r]])
  /\ Goto(r, "load")
  /\ UNCHANGED <<job, rowVars, related, source, target, fileVars>>

\* resend_report_email refuses a brief without a report.
Resend(s, b) ==
  /\ pc[s] = "none"
  /\ ReportsOf(b) # {}
  /\ job' = [job EXCEPT ![s] = b]
  /\ Goto(s, "load")
  /\ UNCHANGED <<kbVars, rowVars, related, source, target, fileVars>>

-----------------------------------------------------------------------------
(* _generate_and_deliver_report *)

\* SELECT ... WHERE brief_id: any of the brief's report rows.
PickRow(d) ==
  \E x \in ReportsOf(job[d]) : target' = [target EXCEPT ![d] = x]

\* The list "Related past research" of the report PDF.
PrintRelated(d) ==
  \E answer \in RelatedAnswers(Owner[job[d]]) :
    related' = [related EXCEPT ![d] = answer]

\* Renders both PDFs in memory; what a PDF shows of the rows it is made from
\* is not modelled.
Render(d) ==
  /\ pc[d] = "load"
  /\ PickRow(d) /\ PrintRelated(d)
  /\ Goto(d, "open_report")
  /\ UNCHANGED <<kbVars, job, rowVars, source, fileVars>>

Others(d) == {e \in Deliveries \ {d} : job[e] = job[d] /\ pc[e] \in Writing}

\* Mutant: an existing file is not truncated.
OpenKeeping(d, at, f, next) ==
  /\ pc[d] = at
  /\ file' = [file EXCEPT ![job[d]][f] = IF @ = Absent THEN Cut ELSE @]
  /\ Goto(d, next)
  /\ UNCHANGED <<kbVars, job, rowVars, related, source, target>>
\* _write_pdf_files runs in a thread of its own: each open and each write may
\* meet those of another delivery.
Open(d, at, f, next) ==
  /\ pc[d] = at
  /\ file' = [file EXCEPT ![job[d]][f] = Cut]
  /\ Goto(d, next)
  /\ UNCHANGED <<kbVars, job, rowVars, related, source, target>>

Write(d, at, f, next) ==
  /\ pc[d] = at
  /\ \E last \in {d, file[job[d]][f].tail} \ {"cut"} :
       file' = [file EXCEPT ![job[d]][f] = [head |-> d, tail |-> last]]
  /\ Goto(d, next)
  /\ UNCHANGED <<kbVars, job, rowVars, related, source, target,
                 disturbed>>

OpenReport(d) ==
  /\ Open(d, "open_report", "report", "write_report")
  /\ disturbed' = IF Others(d) = {} THEN disturbed \ {job[d]}
                                    ELSE disturbed \cup {job[d]}
WriteReport(d) == Write(d, "write_report", "report", "open_trace")
OpenTrace(d) == /\ Open(d, "open_trace", "trace", "write_trace")
                /\ UNCHANGED disturbed
\* Mutant: the mail goes out before the path is committed.
WriteTraceAndMail(d) == Write(d, "write_trace", "trace", "email")
WriteTrace(d) == Write(d, "write_trace", "trace", "path")

CommitPath(d) ==
  /\ pc[d] = "path"
  /\ pathed' = pathed \cup {target[d]}
  /\ Goto(d, "email")
  /\ UNCHANGED <<kbVars, job, completed, emailed, related, source, target,
                 fileVars>>

\* send_brief_ready returns whether the mail was sent, skipped or refused, and
\* the flag is committed after each.
EmailReport(d) ==
  /\ pc[d] = "email"
  /\ emailed' = emailed \cup {target[d]}
  /\ Goto(d, "done")
  /\ UNCHANGED <<kbVars, job, completed, pathed, related, source, target,
                 fileVars>>

\* Any statement raises, or the process dies: nothing is undone.
Fail(d) ==
  /\ pc[d] \in Active
  /\ disturbed' = IF pc[d] \in Writing THEN disturbed \cup {job[d]}
                                       ELSE disturbed
  /\ Goto(d, "failed")
  /\ UNCHANGED <<kbVars, job, rowVars, related, source, target, file>>

Deliver(d) == \/ Render(d)
              \/ OpenReport(d) \/ WriteReport(d)
              \/ OpenTrace(d) \/ WriteTrace(d)
              \/ CommitPath(d) \/ EmailReport(d) \/ Fail(d)

Next ==
  \/ \E r \in Runs : \/ \E b \in Briefs : PersistReport(r, b)
                     \/ SetComplete(r) \/ Embed(r) \/ IndexCommit(r)
  \/ \E s \in Resends, b \in Briefs : Resend(s, b)
  \/ \E d \in Deliveries : Deliver(d)

Spec == Init /\ [][Next]_vars

-----------------------------------------------------------------------------
(* Properties *)

FileEnds == Deliveries \cup {"absent", "cut"}
\* Every variable keeps its type.
DeliveryTypeOK ==
  /\ KbTypeOK
  /\ pc \in [Deliveries -> Active \cup {"none", "done", "failed"}]
  /\ job \in [Deliveries -> Briefs \cup {NoBrief}]
  /\ completed \subseteq Briefs
  /\ related \in [Deliveries -> SUBSET Briefs]
  /\ source \in [Runs -> Runs \cup {NoRun}]
  /\ target \in [Deliveries -> Runs \cup {NoRun}]
  /\ pathed \subseteq Runs /\ emailed \subseteq pathed
  /\ file \in [Briefs -> [Files -> [head : FileEnds, tail : FileEnds]]]
  /\ disturbed \subseteq Briefs

\* download_report_pdf and download_trace_pdf answer with the file when the row
\* they happen to read has a path and the file exists.
Downloadable(b, f) ==
  /\ \E x \in ReportsOf(b) : x \in pathed
  /\ file[b][f] # Absent

\* A path in the database has both files behind it.  While nobody writes, and
\* the last to begin did it alone and got through, a download is one delivery's
\* complete bytes and the two files belong together, however many deliveries
\* came before, failed or overlapped (tasks.py truncates both files in place).
DownloadsAreWhole ==
  \A b \in Briefs :
    (\E x \in ReportsOf(b) : x \in pathed) =>
      /\ \A f \in Files : Downloadable(b, f)
      /\ b \notin disturbed /\ {d \in Deliveries : /\ job[d] = b
                                                   /\ pc[d] \in Writing} = {}
           => \E d \in Deliveries : \A f \in Files : file[b][f] = Written(d)

\* The "Related past research" of a report, and every answer the API could give
\* now, names only briefs of the same tenant whose owner consented and whose
\* research was complete.
MayBeListed(b, t) == Owner[b] = t /\ b \in Consenting /\ b \in completed
RelatedStaysInTenant ==
  /\ \A d \in Deliveries : \A b \in related[d] : MayBeListed(b, Owner[job[d]])
  /\ \A t \in Tenants : \A answer \in RelatedAnswers(t) :
       \A b \in answer : MayBeListed(b, t)

\* An index pass that committed covers its report without a gap: every word of
\* the report the pass read lies in at least one of its entries (neighbours share
\* the words of the overlap), and no entry lies within another: each one ends
\* after all that begin before it (knowledge_service.py:24-36).
IndexedInFull ==
  \A r \in Runs :
    LET ranges == {e.chunk : e \in {x \in entries : x.by = r}}
    IN  ranges # {} =>
          /\ \A w \in 1..Length[source[r]] :
               \E c \in ranges : c.from <= w /\ w <= c.to
          /\ \A c, d \in ranges : c.from < d.from => c.to < d.to

=============================================================================
