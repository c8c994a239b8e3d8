----------------------------- MODULE EventStream -----------------------------
(***************************************************************************)
(* The live event stream, composed with BriefRun: every publish_event of a *)
(* run reaches the Redis sockets subscribed to the brief's channel at that *)
(* moment, and nobody else.  A viewer is a client with one WebSocket: the  *)
(* demo script, or the dashboard's live page.  The handler stream_brief    *)
(* moves events from its Redis socket to the WebSocket until a terminal    *)
(* event or until its client is gone.                                      *)
(*                                                                         *)
(* An event is represented by its number in the brief's history.  The      *)
(* handler's heartbeats, which both clients skip, are left out.            *)
(***************************************************************************)
EXTENDS BriefRun

CONSTANTS
  Demos,     \* demo scripts; each is named by the one resume call it makes
  Pages,     \* dashboard sessions that show the live page
  Watches,   \* [Demos \cup Pages -> Briefs]: the brief a viewer looks at
  Asked,      \* bound on what the review page asks for, of ReviewActions
  MaxPresent, \* bound on the viewers of one behaviour
  MaxCuts     \* bound on broken connections

Viewers == Demos \cup Pages

ASSUME ViewersAssumption == /\ Demos \subseteq Requests
                            /\ Demos \cap Pages = {}
                            /\ Watches \in [Viewers -> Briefs]
                            /\ MaxPresent \in Nat /\ MaxCuts \in Nat

VARIABLES
  published,   \* [Briefs -> Seq(Events)]: history of brief:<id>:events
  stream,      \* [Viewers -> ...]: where the handler stream_brief is
  buffer,      \* [Viewers -> Seq(Nat)]: its subscribed Redis socket
  wire,        \* [Viewers -> Seq(Nat)]: frames its client has not read
  conn,        \* [Viewers -> {"none", "up"}]: the client's end
  at,          \* [Viewers -> ...]: where the client is
  seen,        \* [Viewers -> Seq(Nat)]: events the client has read
  resting,     \* [Pages -> BOOLEAN]: the page was drawn with a status at
               \* which it stops refreshing itself
  cuts         \* connections broken so far

handlerVars == <<stream, buffer>>
clientVars == <<conn, at, seen, resting>>
viewerVars == <<handlerVars, wire, clientVars, cuts>>
streamVars == <<vars, published, viewerVars>>

\* Mutant: a failed brief does not end the stream.
TerminalEventsCompleteOnly == {"brief_complete"}
TERMINAL_EVENTS == {"brief_complete", "brief_failed"}
\* What frame n tells the viewer c.
EventOf(c, n) == published[Watches[c]][n]
IsTerminal(c, n) == EventOf(c, n) \in TERMINAL_EVENTS

StreamInit ==
  /\ Init
  /\ published = [b \in Briefs |-> <<>>]
  /\ stream = [c \in Viewers |-> "none"]
  /\ buffer = [c \in Viewers |-> <<>>]
  /\ wire = [c \in Viewers |-> <<>>]
  /\ conn = [c \in Viewers |-> "none"]
  /\ \E present \in SUBSET Viewers :
       /\ Cardinality(present) <= MaxPresent
       /\ at = [c \in Viewers |-> IF c \in present THEN "connect" ELSE "away"]
  /\ seen = [c \in Viewers |-> <<>>]
  /\ resting = [p \in Pages |-> FALSE]
  /\ cuts = 0

-----------------------------------------------------------------------------
(* The runs' side: PUBLISH brief:<id>:events *)

\* Statements that publish, unless they raise before or their process dies; an
\* error after the PUBLISH is a step of its own (EventStep).
Announcing == {"traced", "researched", "review", "resumed", "rerun", "announce",
               "close", "announce_failed"}
Publishes(r) == /\ pc[r] \in Announcing
                /\ pc'[r] \notin {pc[r], "mark_failed", "crashed"}

Subscribers(b) == {c \in Viewers : stream[c] = "open" /\ Watches[c] = b}

\* The event of a step of run r goes to whoever is subscribed.
Publish(r) ==
  LET b == job[r]
  IN /\ published' = [published EXCEPT ![b] = Append(@, lastEvent'[b])]
     /\ buffer' = [c \in Viewers |->
                     IF c \in Subscribers(b)
                     THEN Append(buffer[c], Len(published'[b])) ELSE buffer[c]]

Deliver ==
  /\ \/ \E r \in Runs : Publishes(r) /\ Publish(r)
     \/ (\A r \in Runs : ~Publishes(r)) /\ UNCHANGED <<published, buffer>>
  /\ UNCHANGED <<stream, wire, clientVars, cuts>>

-----------------------------------------------------------------------------
(* stream_brief *)

\* A client connects: the token is good, the brief's row is read and the
\* socket accepted, or the connection refused with 4404.
Connect(c) ==
  /\ stream[c] \in {"none", "closed"}
  /\ conn[c] = "none"
  /\ IF Exists(Watches[c])
     THEN /\ stream' = [stream EXCEPT ![c] = "checked"]
          /\ conn' = [conn EXCEPT ![c] = "up"]
     ELSE UNCHANGED <<stream, conn>>
  /\ wire' = [wire EXCEPT ![c] = <<>>]

\* SUBSCRIBE, after the read of the row; the status is not read again.
SubscribeStream(c) ==
  /\ stream[c] = "checked"
  /\ stream' = [stream EXCEPT ![c] = "open"]
  /\ UNCHANGED <<vars, published, buffer, wire, clientVars, cuts>>

\* Mutant: what arrives while the client is slow is dropped.
SendFrameUnlessBusy(c, n) ==
  wire' = [wire EXCEPT ![c] =
             IF conn[c] = "up" /\ @ = <<>> THEN Append(@, n) ELSE @]
\* A frame to a client that has left goes nowhere.
SendFrame(c, n) ==
  wire' = [wire EXCEPT ![c] = IF conn[c] = "up" THEN Append(@, n) ELSE @]

\* Mutant: no finally, the subscription stays.
FinallyKeeping(c) ==
  /\ stream' = [stream EXCEPT ![c] = "closed"]
  /\ UNCHANGED buffer
\* unsubscribe and close drop what Redis still holds.
Finally(c) ==
  /\ stream' = [stream EXCEPT ![c] = "closed"]
  /\ buffer' = [buffer EXCEPT ![c] = <<>>]

\* One turn of the loop with a message; a terminal event is the last.
Forward(c) ==
  /\ stream[c] = "open"
  /\ buffer[c] # <<>>
  /\ SendFrame(c, Head(buffer[c]))
  /\ IF IsTerminal(c, Head(buffer[c])) THEN Finally(c)
     ELSE /\ buffer' = [buffer EXCEPT ![c] = Tail(@)]
          /\ UNCHANGED stream
  /\ UNCHANGED <<vars, published, clientVars, cuts>>

\* receiver.done(): the client has left.
HangUp(c) ==
  /\ stream[c] = "open"
  /\ conn[c] = "none"
  /\ Finally(c)
  /\ UNCHANGED <<vars, published, wire, clientVars, cuts>>

\* The handler raises, or its process is stopped: the finally says goodbye to
\* the client, which still reads what was sent before.  (Without a client it is
\* HangUp.)
HandlerFails(c) ==
  /\ stream[c] = "open"
  /\ conn[c] = "up"
  /\ cuts < MaxCuts
  /\ cuts' = cuts + 1
  /\ Finally(c)
  /\ UNCHANGED <<vars, published, wire, clientVars>>

\* The connection breaks: what was on its way is lost.  The demo dies of the
\* exception, the page notices and goes on.
Cut(c) ==
  /\ stream[c] \in {"checked", "open"}
  /\ conn[c] = "up"
  /\ cuts < MaxCuts
  /\ cuts' = cuts + 1
  /\ Finally(c)
  /\ wire' = [wire EXCEPT ![c] = <<>>]
  /\ conn' = [conn EXCEPT ![c] = "none"]
  /\ at' = [at EXCEPT ![c] = IF c \in Demos THEN "failed" ELSE @]
  /\ UNCHANGED <<vars, published, seen, resting>>

-----------------------------------------------------------------------------
(* demo/run_demo.py *)

DemoGoto(d, label) == at' = [at EXCEPT ![d] = label]
\* ws.close()
Hang(c) == /\ conn' = [conn EXCEPT ![c] = "none"]
           /\ wire' = [wire EXCEPT ![c] = <<>>]

\* stream_events connects once create_brief has answered.
DemoConnect(d) ==
  /\ at[d] = "connect"
  /\ creation[Watches[d]] = "answered"
  /\ Connect(d)
  /\ DemoGoto(d, IF Exists(Watches[d]) THEN "stream" ELSE "failed")
  /\ UNCHANGED <<vars, published, buffer, seen, resting, cuts>>

\* The events that end the loop of stream_events.
DemoStops == {"human_review", "brief_complete", "brief_failed"}

DemoReceive(d) ==
  /\ at[d] = "stream"
  /\ wire[d] # <<>>
  /\ LET n == Head(wire[d])
     IN /\ seen' = [seen EXCEPT ![d] = Append(@, n)]
        /\ IF EventOf(d, n) \in DemoStops
           THEN DemoGoto(d, "status") /\ Hang(d)
           ELSE /\ wire' = [wire EXCEPT ![d] = Tail(@)]
                /\ UNCHANGED <<at, conn>>
  /\ UNCHANGED <<vars, published, handlerVars, resting, cuts>>

\* The empty frame of a closed stream ends the loop as well.
DemoClosed(d) ==
  /\ at[d] = "stream"
  /\ stream[d] = "closed"
  /\ wire[d] = <<>>
  /\ DemoGoto(d, "status") /\ Hang(d)
  /\ UNCHANGED <<vars, published, handlerVars, seen, resting, cuts>>

\* A demo step after the stream: the event stream is no longer involved.
DemoStep(d, from, to) ==
  /\ at[d] = from
  /\ DemoGoto(d, to)
  /\ UNCHANGED <<published, handlerVars, wire, conn, seen, resting, cuts>>

\* approve_if_awaiting reads the status once ...
DemoReadStatus(d) ==
  /\ DemoStep(d, "status", IF ~Exists(Watches[d]) THEN "failed"
                           ELSE IF status[Watches[d]] = "awaiting_review"
                                THEN "approve" ELSE "poll")
  /\ UNCHANGED vars

\* ... and approves; a 400 ends the script.  (A 404 cannot happen: the brief
\* has traces by now, and their foreign keys make delete_brief fail.)
DemoApprove(d) ==
  /\ CheckResume(d, Watches[d], "approve")
  /\ DemoStep(d, "approve",
              IF request'[d].at = "checked" THEN "publish" ELSE "failed")

DemoPublish(d) == PublishResume(d) /\ DemoStep(d, "publish", "poll")

\* poll_until_complete: a read that finds neither outcome is repeated.
DemoPoll(d) ==
  /\ \/ status[Watches[d]] = "complete" /\ DemoStep(d, "poll", "report")
     \/ status[Watches[d]] = "failed" /\ DemoStep(d, "poll", "failed")
     \/ ~Exists(Watches[d]) /\ DemoStep(d, "poll", "failed")
  /\ UNCHANGED vars

\* POLL_TIMEOUT_SECONDS.
DemoDeadline(d) == DemoStep(d, "poll", "failed") /\ UNCHANGED vars

\* A report row of b whose PDF can be downloaded.
HasPdf(b) == \E r \in ReportsOf(b) : report[r] \in {"pdf", "emailed"}

\* print_report_and_stats: any report row will do; the download is refused
\* while the picked row has no PDF.
DemoReport(d) ==
  /\ \/ HasPdf(Watches[d]) /\ DemoStep(d, "report", "done")
     \/ /\ \/ ReportsOf(Watches[d]) = {}
           \/ \E r \in ReportsOf(Watches[d]) : report[r] = "row"
        /\ DemoStep(d, "report", "failed")
  /\ UNCHANGED vars

Demo(d) ==
  \/ DemoConnect(d) \/ DemoReceive(d) \/ DemoClosed(d) \/ DemoReadStatus(d)
  \/ DemoApprove(d) \/ DemoPublish(d) \/ DemoPoll(d) \/ DemoDeadline(d) \/ DemoReport(d)

-----------------------------------------------------------------------------
(* dashboard: pages/2_live_research.py, components/agent_trace_feed.py *)

\* The page's script is run again only while the status it read is not one of
\* these.
RestingStages == {"complete", "failed", "awaiting_review"}

\* get_brief at the top of a script run; a missing brief stops it.
PageLoad(p) ==
  /\ at[p] = "connect"
  /\ creation[Watches[p]] = "answered"
  /\ resting' = [resting EXCEPT ![p] = status[Watches[p]] \in RestingStages]
  /\ at' = [at EXCEPT ![p] = IF ~Exists(Watches[p]) THEN "shown"
                             ELSE IF conn[p] = "up" THEN "drain" ELSE "feed"]
  /\ UNCHANGED <<vars, published, handlerVars, wire, conn, seen, cuts>>

\* ensure_connection, when the session holds no socket.
PageConnect(p) ==
  /\ at[p] = "feed"
  /\ Connect(p)
  /\ at' = [at EXCEPT ![p] = "drain"]
  /\ UNCHANGED <<vars, published, buffer, seen, resting, cuts>>

\* A terminal event is among the frames that have arrived.
Ends(p) == \E i \in 1..Len(wire[p]) : IsTerminal(p, wire[p][i])

\* poll_events reads what has arrived; a terminal event or a broken socket
\* empties the session's slot, the close of the server only at the next read.
PageDrain(p) ==
  /\ at[p] = "drain"
  /\ seen' = [seen EXCEPT ![p] = @ \o wire[p]]
  /\ wire' = [wire EXCEPT ![p] = <<>>]
  /\ \/ ~Ends(p) /\ UNCHANGED conn
     \/ /\ Ends(p) \/ stream[p] = "closed"
        /\ conn' = [conn EXCEPT ![p] = "none"]
  /\ at' = [at EXCEPT ![p] = IF resting[p] THEN "shown" ELSE "connect"]
  /\ UNCHANGED <<vars, published, handlerVars, resting, cuts>>

\* The user opens the page again, e.g. sent there by the review page.
PageReopen(p) ==
  /\ at[p] = "shown"
  /\ at' = [at EXCEPT ![p] = "connect"]
  /\ UNCHANGED <<vars, published, handlerVars, wire, conn, seen, resting,
                 cuts>>

PageScript(p) == PageLoad(p) \/ PageConnect(p) \/ PageDrain(p)

-----------------------------------------------------------------------------
\* A step of the rest of the system; the calls of the demos are theirs, the
\* others are the review page's.
System == /\ Next
          /\ \A q \in Requests : request'[q].action \in {request[q].action} \cup Asked
          /\ \A d \in Demos : at[d] # "away" => request'[d] = request[d]
          /\ Deliver

Handler(c) == SubscribeStream(c) \/ Forward(c) \/ HangUp(c)

StreamNext ==
  \/ System
  \/ \E c \in Viewers : Handler(c) \/ HandlerFails(c) \/ Cut(c)
  \/ \E d \in Demos : Demo(d)
  \/ \E p \in Pages : PageScript(p) \/ PageReopen(p)

StreamSpec == StreamInit /\ [][StreamNext]_streamVars

\* The event loop of the API runs every handler.  Nothing is owed by users,
\* networks or workers.
StreamFairness == \A c \in Viewers : WF_streamVars(Handler(c))

FairStreamSpec == StreamSpec /\ StreamFairness

-----------------------------------------------------------------------------
(* Properties *)

\* Every variable keeps its type, and only a subscribed handler has anything
\* in its Redis socket (the finally of stream_brief).
StreamTypeOK ==
  /\ published \in [Briefs -> Seq(Events)]
  /\ stream \in [Viewers -> {"none", "checked", "open", "closed"}]
  /\ \A c \in Viewers :
       LET known == 1..Len(published[Watches[c]])
       IN /\ buffer[c] \in Seq(known)
          /\ wire[c] \in Seq(known)
          /\ seen[c] \in Seq(known)
  /\ conn \in [Viewers -> {"none", "up"}]
  /\ at \in [Viewers -> {"away", "connect", "stream", "status", "approve",
                         "publish", "poll", "report", "done", "failed", "feed",
                         "drain", "shown"}]
  /\ resting \in [Pages -> BOOLEAN]
  /\ cuts \in 0..MaxCuts
  /\ \A c \in Viewers : buffer[c] # <<>> => stream[c] = "open"

Heard(c, e) == \E i \in 1..Len(seen[c]) : EventOf(c, seen[c][i]) = e

\* A viewer that was told "brief_complete" finds, whenever it looks afterwards,
\* the brief complete and its PDF ready; at worst it reads "failed" with that
\* PDF, if the statement that told it failed after telling, and brief_failed is
\* on its way or lost with its process.  One told "brief_failed" finds no
\* success.  (A viewer that polls the status instead can see "complete" before
\* there is a PDF: tasks.py sets the status first and publishes last.)
ViewersToldTheTruth ==
  \A c \in Viewers :
    redelivered[Watches[c]] = 0 =>
      /\ Heard(c, "brief_complete") =>
           /\ HasPdf(Watches[c])
           /\ \/ status[Watches[c]] = "complete"
              \/ /\ status[Watches[c]] = "failed"
                 /\ \/ lastEvent[Watches[c]] = "brief_failed"
                    \/ Failing(Watches[c])
      /\ Heard(c, "brief_failed") =>
           status[Watches[c]] \in {"failed", "deleted"}

\* A handler that was subscribed when the final event of its brief was
\* published ends its stream: it sends that event, or its client is gone.
FinalIn(c) == \E i \in 1..Len(buffer[c]) :
                EventOf(c, buffer[c][i]) \in {"brief_complete", "brief_failed"}
StreamsEnd == \A c \in Viewers : FinalIn(c) ~> stream[c] = "closed"

\* Events on their way to viewer c over its present connection.
Flight(c) == wire[c] \o buffer[c]
Cursor(c) ==
  CASE conn[c] = "none" -> -1
    [] conn[c] = "up" /\ Flight(c) # <<>> -> Head(Flight(c)) - 1
    [] conn[c] = "up" /\ Flight(c) = <<>> /\ stream[c] = "open" ->
         Len(published[Watches[c]])
    [] OTHER -> -1

FeedVars(c) == <<Len(published[Watches[c]]), Cursor(c), seen[c]>>

Feed(c) == INSTANCE EventFeed WITH sent <- Len(published[Watches[c]]),
                                   cursor <- Cursor(c),
                                   got <- seen[c]

\* Every viewer is given a gap-free part of its brief's history over each of
\* its connections, nothing twice and nothing out of order, whatever breaks,
\* heartbeats or reconnects in between.
StreamsImplementFeed ==
  /\ \A c \in Viewers : Feed(c)!Init
  /\ [][\A c \in Viewers : [Feed(c)!Next]_(FeedVars(c))]_streamVars

=============================================================================
