-------------------------- MODULE EventStreamProofs --------------------------
(***************************************************************************)
(* The event stream keeps its word to every viewer, for every number of    *)
(* viewers, briefs and runs.  EventStream composes the handlers with       *)
(* BriefRun, so everything proved of BriefRun holds around them.           *)
(***************************************************************************)
EXTENDS EventStream, BriefRunEventsProofs, SequenceTheorems

-----------------------------------------------------------------------------
(* One connection: k is the client's end, s the handler, w the frames on   *)
(* the wire, b the Redis socket, n the length of the brief's history.      *)

\* What is in flight is the end of the history as long as the handler is
\* subscribed, and without a gap in any case.
InFlight(k, s, w, b, n) ==
  /\ k = "none" \/ s \in {"none", "checked"} => w = <<>>
  /\ s # "open" => b = <<>>
  /\ \A i \in 1..Len(w) : w[i] = w[1] + i - 1
  /\ s = "open" => /\ \A i \in 1..Len(b) : b[i] = n - Len(b) + i
                   /\ w # <<>> => w[1] = n - Len(b) - Len(w) + 1

CursorOf(k, s, w, b, n) ==
  CASE k = "none" -> -1
    [] k = "up" /\ w \o b # <<>> -> Head(w \o b) - 1
    [] k = "up" /\ w \o b = <<>> /\ s = "open" -> n
    [] OTHER -> -1

\* The cursor, without the concatenation.
LEMMA CursorValue ==
  ASSUME NEW k \in {"none", "up"}, NEW s, NEW w \in Seq(Nat), NEW b \in Seq(Nat),
         NEW n \in Nat, InFlight(k, s, w, b, n)
  PROVE  CursorOf(k, s, w, b, n) =
           IF k = "up" /\ w # <<>> THEN w[1] - 1
           ELSE IF k = "up" /\ s = "open" THEN n - Len(b) ELSE -1
<1>1. CASE k = "none"
  BY <1>1 DEF CursorOf
<1>2. CASE k = "up" /\ w # <<>>
  <2>1. w \o b # <<>> /\ Head(w \o b) = w[1]
    <3>1. w \o b \in Seq(Nat) /\ Len(w \o b) = Len(w) + Len(b) /\ Len(w) >= 1
      BY <1>2, ConcatProperties, EmptySeq
    <3>2. (w \o b)[1] = w[1]
      BY <3>1, ConcatProperties
    <3>3. QED BY <3>1, <3>2, EmptySeq
  <2>2. QED BY <1>2, <2>1 DEF CursorOf
<1>3. CASE k = "up" /\ w = <<>>
  <2>1. w \o b = b
    BY <1>3, ConcatEmptySeq
  <2>2. CASE b = <<>>
    BY <1>3, <2>1, <2>2 DEF CursorOf
  <2>3. CASE b # <<>>
    <3>1. s = "open" /\ Len(b) \in Nat \ {0}
      BY <2>3, EmptySeq DEF InFlight
    <3>2. b[1] = n - Len(b) + 1 /\ Head(b) = b[1]
      BY <2>3, <3>1 DEF InFlight
    <3>3. n - Len(b) \in Int
      BY <3>1
    <3>4. QED BY <1>3, <2>1, <2>3, <3>1, <3>2, <3>3 DEF CursorOf
  <2>4. QED BY <2>2, <2>3
<1>4. QED BY <1>1, <1>2, <1>3

\* A connection that carries nothing.
LEMMA FlightEmpty ==
  ASSUME NEW k \in {"none", "up"}, NEW s, NEW n \in Nat
  PROVE  /\ InFlight(k, s, <<>>, <<>>, n)
         /\ CursorOf(k, s, <<>>, <<>>, n) =
              IF k = "up" /\ s = "open" THEN n ELSE -1
<1>1. PICK e \in Seq(Nat) : e = <<>> /\ Len(e) = 0
  BY EmptySeq
<1>2. InFlight(k, s, e, e, n)
  BY <1>1 DEF InFlight
<1>3. CursorOf(k, s, e, e, n) = IF k = "up" /\ s = "open" THEN n - Len(e) ELSE -1
  BY <1>1, <1>2, CursorValue
<1>4. QED BY <1>1, <1>2, <1>3

\* An event reaches a subscribed socket.
LEMMA FlightPublish ==
  ASSUME NEW k \in {"none", "up"}, NEW w \in Seq(Nat), NEW b \in Seq(Nat),
         NEW n \in Nat, InFlight(k, "open", w, b, n)
  PROVE  /\ InFlight(k, "open", w, Append(b, n + 1), n + 1)
         /\ CursorOf(k, "open", w, Append(b, n + 1), n + 1) =
              CursorOf(k, "open", w, b, n)
<1> DEFINE c == Append(b, n + 1)
<1>1. /\ c \in Seq(Nat) /\ Len(c) = Len(b) + 1 /\ Len(b) \in Nat
      /\ \A i \in 1..Len(c) : c[i] = IF i = Len(b) + 1 THEN n + 1 ELSE b[i]
  BY AppendProperties
<1> HIDE DEF c
<1>2. InFlight(k, "open", w, c, n + 1)
  <2>1. \A i \in 1..Len(c) : c[i] = n + 1 - Len(c) + i
    <3>1. ASSUME NEW i \in 1..Len(c) PROVE c[i] = n + 1 - Len(c) + i
      <4>1. i \in 1..Len(b) => b[i] = n - Len(b) + i
        BY DEF InFlight
      <4>2. i \in Nat /\ (i = Len(b) + 1 \/ i \in 1..Len(b))
        BY <1>1
      <4>3. i = Len(b) + 1 => c[i] = n + 1
        BY <1>1
      <4>4. i \in 1..Len(b) => c[i] = b[i]
        BY <1>1
      <4>5. QED BY SMTT(30), <1>1, <4>1, <4>2, <4>3, <4>4
    <3>2. QED BY <3>1
  <2>2. n + 1 - Len(c) = n - Len(b)
    BY <1>1
  <2>3. w # <<>> => w[1] = n + 1 - Len(c) - Len(w) + 1
    <3>1. PICK l \in Nat : l = Len(w)
      BY LenProperties
    <3>2. w # <<>> => w[1] = n - Len(b) - l + 1
      BY <3>1 DEF InFlight
    <3>3. QED BY <2>2, <3>1, <3>2
  <2>4. /\ k = "none" => w = <<>>
        /\ \A i \in 1..Len(w) : w[i] = w[1] + i - 1
    BY DEF InFlight
  <2>5. QED BY <2>1, <2>3, <2>4 DEF InFlight
<1>3. CursorOf(k, "open", w, c, n + 1) = CursorOf(k, "open", w, b, n)
  BY SMTT(30), <1>1, <1>2, CursorValue
<1>4. QED BY <1>2, <1>3 DEF c

\* An event does not reach a socket that is not subscribed.
LEMMA FlightMissed ==
  ASSUME NEW k \in {"none", "up"}, NEW s, s # "open", NEW w \in Seq(Nat),
         NEW b \in Seq(Nat), NEW n \in Nat, InFlight(k, s, w, b, n)
  PROVE  /\ InFlight(k, s, w, b, n + 1)
         /\ CursorOf(k, s, w, b, n + 1) = CursorOf(k, s, w, b, n)
<1>1. InFlight(k, s, w, b, n + 1)
  BY DEF InFlight
<1>2. QED BY <1>1, CursorValue

\* The handler passes an event on to a client that is there.
LEMMA FlightForward ==
  ASSUME NEW w \in Seq(Nat), NEW b \in Seq(Nat), b # <<>>, NEW n \in Nat,
         InFlight("up", "open", w, b, n),
         NEW s, NEW rest, \/ s = "open" /\ rest = Tail(b)
                          \/ s = "closed" /\ rest = <<>>
  PROVE  /\ InFlight("up", s, Append(w, Head(b)), rest, n)
         /\ CursorOf("up", s, Append(w, Head(b)), rest, n) =
              CursorOf("up", "open", w, b, n)
<1> DEFINE v == Append(w, Head(b))
<1>1. /\ Len(b) \in Nat \ {0} /\ Head(b) \in Nat /\ Head(b) = b[1]
      /\ Tail(b) \in Seq(Nat) /\ Len(Tail(b)) = Len(b) - 1
      /\ \A i \in 1..Len(Tail(b)) : Tail(b)[i] = b[i + 1]
  <2>1. Len(b) \in Nat \ {0}
    BY EmptySeq, LenProperties
  <2>2. Head(b) = b[1]
    BY <2>1
  <2>3. QED BY <2>1, <2>2, HeadTailProperties
<1>2. /\ v \in Seq(Nat) /\ Len(v) = Len(w) + 1 /\ Len(w) \in Nat
      /\ \A i \in 1..Len(v) : v[i] = IF i = Len(w) + 1 THEN b[1] ELSE w[i]
  <2>1. b[1] \in Nat /\ v = Append(w, b[1])
    BY <1>1
  <2> HIDE DEF v
  <2>2. QED BY <2>1, AppendProperties, LenProperties
<1>3. b[1] = n - Len(b) + 1
  BY <1>1 DEF InFlight
<1>4. w = <<>> \/ w[1] = n - Len(b) - Len(w) + 1
  BY DEF InFlight
<1> HIDE DEF v
<1>5. v[1] = n - Len(b) - Len(w) + 1
  <2>1. CASE w = <<>>
    BY <1>1, <1>2, <1>3, <2>1
  <2>2. CASE w # <<>>
    <3>1. Len(w) >= 1
      BY <2>2, EmptySeq
    <3>2. QED BY <1>2, <1>4, <2>2, <3>1
  <2>3. QED BY <2>1, <2>2
<1>6. \A i \in 1..Len(v) : v[i] = v[1] + i - 1
  <2>1. ASSUME NEW i \in 1..Len(v) PROVE v[i] = v[1] + i - 1
    <3>1. CASE i = Len(w) + 1
      BY <1>1, <1>2, <1>3, <1>5, <3>1
    <3>2. CASE i # Len(w) + 1
      <4>1. i \in 1..Len(w) /\ w # <<>>
        BY <1>2, <3>2
      <4>2. w[i] = w[1] + i - 1 /\ w[1] = v[1]
        BY <1>4, <1>5, <4>1 DEF InFlight
      <4>3. QED BY <1>2, <3>2, <4>2
    <3>3. QED BY <3>1, <3>2
  <2>2. QED BY <2>1
<1>7. v # <<>>
  BY <1>2
<1>8. rest \in Seq(Nat) /\ InFlight("up", s, v, rest, n)
  <2>1. CASE s = "open" /\ rest = Tail(b)
    <3>1. \A i \in 1..Len(rest) : rest[i] = n - Len(rest) + i
      <4>1. ASSUME NEW i \in 1..Len(rest) PROVE rest[i] = n - Len(rest) + i
        <5>1. rest[i] = b[i + 1] /\ i + 1 \in 1..Len(b)
          BY <1>1, <2>1
        <5>2. QED BY <1>1, <2>1, <5>1 DEF InFlight
      <4>2. QED BY <4>1
    <3>2. v[1] = n - Len(rest) - Len(v) + 1
      BY <1>1, <1>2, <1>5, <2>1
    <3>3. QED BY <1>1, <1>6, <2>1, <3>1, <3>2 DEF InFlight
  <2>2. CASE s = "closed" /\ rest = <<>>
    BY <1>6, <2>2 DEF InFlight
  <2>3. QED BY <2>1, <2>2
<1>9. CursorOf("up", s, v, rest, n) = v[1] - 1
  BY <1>2, <1>7, <1>8, CursorValue
<1>10. CursorOf("up", "open", w, b, n) = v[1] - 1
  <2>1. w # <<>> => w[1] = v[1]
    BY <1>4, <1>5
  <2>2. w = <<>> => n - Len(b) = v[1] - 1
    BY <1>1, <1>5
  <2>3. QED BY <2>1, <2>2, CursorValue
<1>11. QED BY <1>8, <1>9, <1>10 DEF v

\* The handler throws away what its client is not there to read.
LEMMA FlightDropped ==
  ASSUME NEW b \in Seq(Nat), b # <<>>, NEW n \in Nat,
         InFlight("none", "open", <<>>, b, n)
  PROVE  InFlight("none", "open", <<>>, Tail(b), n)
<1>1. /\ Len(b) \in Nat \ {0}
      /\ Tail(b) \in Seq(Nat) /\ Len(Tail(b)) = Len(b) - 1
      /\ \A i \in 1..Len(Tail(b)) : Tail(b)[i] = b[i + 1]
  BY EmptySeq, HeadTailProperties
<1>2. ASSUME NEW i \in 1..Len(Tail(b)) PROVE Tail(b)[i] = n - Len(Tail(b)) + i
  <2>1. i + 1 \in 1..Len(b)
    BY <1>1
  <2>2. QED BY <1>1, <2>1 DEF InFlight
<1>3. QED BY <1>2 DEF InFlight

\* The client reads the first m frames: they follow its cursor, and so do those
\* that are left.
LEMMA FlightRead ==
  ASSUME NEW s, NEW w \in Seq(Nat), w # <<>>, NEW b \in Seq(Nat), NEW n \in Nat,
         InFlight("up", s, w, b, n), NEW m \in 1..Len(w), NEW v \in Seq(Nat),
         Len(v) = Len(w) - m, \A i \in 1..Len(v) : v[i] = w[m + i]
  PROVE  /\ InFlight("up", s, v, b, n)
         /\ CursorOf("up", s, w, b, n) = w[1] - 1
         /\ CursorOf("up", s, v, b, n) \in {w[m], -1}
<1>1. Len(w) \in Nat /\ Len(w) >= 1 /\ Len(v) \in Nat /\ m \in Nat /\ m >= 1
  BY EmptySeq, LenProperties
<1>2. \A i \in 1..Len(w) : w[i] = w[1] + i - 1 /\ w[i] \in Nat
  BY ElementOfSeq DEF InFlight
<1>3. v # <<>> => Len(v) >= 1
  BY EmptySeq
<1>4. v # <<>> => v[1] = w[1] + m
  <2> SUFFICES ASSUME v # <<>> PROVE v[1] = w[1] + m
    OBVIOUS
  <2>1. v[1] = w[m + 1] /\ m + 1 \in 1..Len(w)
    BY <1>1, <1>3
  <2>2. w[1] \in Nat
    BY <1>1, <1>2
  <2>3. QED BY <1>1, <1>2, <2>1, <2>2
<1>5. \A i \in 1..Len(v) : v[i] = v[1] + i - 1
  <2>1. ASSUME NEW i \in 1..Len(v) PROVE v[i] = v[1] + i - 1
    <3>1. m + i \in 1..Len(w) /\ v # <<>>
      BY <1>1
    <3>2. w[1] \in Nat
      BY <1>1, <1>2
    <3>3. w[m + i] = w[1] + (m + i) - 1
      BY <1>2, <3>1
    <3>4. v[i] = w[m + i] /\ v[1] = w[1] + m
      BY <1>4, <3>1
    <3>5. i \in Nat /\ m \in Nat
      BY <1>1
    <3>6. v[i] = w[1] + (m + i) - 1
      BY <3>3, <3>4
    <3>7. w[1] + (m + i) - 1 = (w[1] + m) + i - 1
      BY SMTT(30), <3>2, <3>5
    <3>8. QED BY <3>4, <3>6, <3>7
  <2>2. QED BY <2>1
<1>6. InFlight("up", s, v, b, n)
  <2>1. s \in {"none", "checked"} => v = <<>>
    BY DEF InFlight
  <2>2. ASSUME s = "open", v # <<>> PROVE v[1] = n - Len(b) - Len(v) + 1
    <3>1. w[1] = n - Len(b) - Len(w) + 1 /\ Len(b) \in Nat
      BY <2>2, LenProperties DEF InFlight
    <3>2. QED BY <1>1, <1>4, <2>2, <3>1
  <2>3. QED BY <1>5, <2>1, <2>2 DEF InFlight
<1>7. w[m] = w[1] + m - 1 /\ w[1] \in Nat
  BY <1>1, <1>2
<1>8. CursorOf("up", s, v, b, n) \in {w[m], -1}
  <2>1. CASE v # <<>>
    BY SMTT(30), <1>1, <1>4, <1>6, <1>7, <2>1, CursorValue
  <2>2. CASE v = <<>>
    <3>1. Len(v) = 0 /\ m = Len(w)
      BY <1>1, <2>2
    <3>2. s = "open" => n - Len(b) = w[m]
      <4>1. s = "open" => w[1] = n - Len(b) - Len(w) + 1
        BY DEF InFlight
      <4>2. Len(b) \in Nat
        BY LenProperties
      <4>3. QED BY <1>1, <1>7, <3>1, <4>1, <4>2
    <3>3. QED BY ZenonT(40), <1>6, <2>2, <3>2, CursorValue
  <2>3. QED BY <2>1, <2>2
<1>9. CursorOf("up", s, w, b, n) = w[1] - 1
  BY CursorValue
<1>10. QED BY <1>6, <1>8, <1>9

-----------------------------------------------------------------------------
(* Around the stream, BriefRun goes its way *)

\* Every behaviour of the stream is one of BriefRun: a viewer only looks, and
\* the resume call of a demo is one of the API's.
THEOREM StreamRefinesRuns == StreamSpec => Spec
<1>1. StreamInit => Init
  BY DEF StreamInit
<1>2. [StreamNext]_streamVars => [Next]_vars
  <2> SUFFICES ASSUME [StreamNext]_streamVars PROVE [Next]_vars
    OBVIOUS
  <2>1. CASE System
    BY <2>1 DEF System
  <2>2. ASSUME NEW c \in Viewers, Handler(c) \/ HandlerFails(c) \/ Cut(c)
        PROVE  UNCHANGED vars
    BY <2>2 DEF Handler, SubscribeStream, Forward, HangUp, HandlerFails, Cut
  <2>3. ASSUME NEW d \in Demos, Demo(d) PROVE [Next]_vars
    <3>1. d \in Requests /\ Watches[d] \in Briefs
      BY ViewersAssumption DEF Viewers
    <3>2. CASE DemoApprove(d)
      <4>1. CheckResume(d, Watches[d], "approve")
        BY <3>2 DEF DemoApprove
      <4>2. Api
        BY <3>1, <4>1 DEF Api, ReviewActions
      <4>3. QED BY <4>2 DEF Next
    <3>3. CASE DemoPublish(d)
      BY <3>1, <3>3 DEF DemoPublish, Next, Api
    <3>4. CASE \/ DemoConnect(d) \/ DemoReceive(d) \/ DemoClosed(d)
               \/ DemoReadStatus(d) \/ DemoPoll(d) \/ DemoDeadline(d)
               \/ DemoReport(d)
      <4>1. UNCHANGED vars
        BY <3>4 DEF DemoConnect, DemoReceive, DemoClosed, DemoReadStatus,
                    DemoPoll, DemoDeadline, DemoReport
      <4>2. QED BY <4>1
    <3>5. QED BY <2>3, <3>2, <3>3, <3>4 DEF Demo
  <2>4. ASSUME NEW p \in Pages, PageScript(p) \/ PageReopen(p)
        PROVE  UNCHANGED vars
    BY <2>4 DEF PageScript, PageLoad, PageConnect, PageDrain, PageReopen
  <2>5. CASE UNCHANGED streamVars
    BY <2>5 DEF streamVars
  <2>6. QED BY <2>1, <2>2, <2>3, <2>4, <2>5 DEF StreamNext
<1>3. QED BY <1>1, <1>2, PTL DEF StreamSpec, Spec

-----------------------------------------------------------------------------
(* Inductive invariant *)

\* The functions are functions.
Shapes ==
  /\ published \in [Briefs -> Seq(Events)]
  /\ stream \in [Viewers -> {"none", "checked", "open", "closed"}]
  /\ buffer \in [Viewers -> Seq(Nat)]
  /\ wire \in [Viewers -> Seq(Nat)]
  /\ seen \in [Viewers -> Seq(Nat)]
  /\ conn \in [Viewers -> {"none", "up"}]
  /\ at \in [Viewers -> {"away", "connect", "stream", "status", "approve",
                         "publish", "poll", "report", "done", "failed", "feed",
                         "drain", "shown"}]
  /\ resting \in [Pages -> BOOLEAN]
  /\ cuts \in 0..MaxCuts

\* How long the history is that viewer c looks at.
Sent(c) == Len(published[Watches[c]])

\* A viewer is only given what was published.
FramesKnown(c) ==
  {buffer[c], wire[c], seen[c]} \subseteq Seq(1..Sent(c))

FlightAgrees(c) == InFlight(conn[c], stream[c], wire[c], buffer[c], Sent(c))

\* The history of a brief ends with its last event and, as long as the brief
\* was delivered once, nothing follows brief_failed, and only brief_failed
\* follows brief_complete.
HistoryAgrees(b) ==
  /\ published[b] = <<>> => lastEvent[b] = "none"
  /\ published[b] # <<>> => published[b][Len(published[b])] = lastEvent[b]
  /\ redelivered[b] = 0 =>
       \A n \in 1..Len(published[b]) :
         /\ published[b][n] = "brief_failed" => n = Len(published[b])
         /\ published[b][n] = "brief_complete" =>
              n = Len(published[b]) \/ lastEvent[b] = "brief_failed"

StreamInv == /\ Shapes
             /\ \A c \in Viewers : FramesKnown(c) /\ FlightAgrees(c)
             /\ \A b \in Briefs : HistoryAgrees(b)

-----------------------------------------------------------------------------
(* Shapes *)

\* Membership of a sequence in Seq of another set.
LEMMA SeqOfElements ==
  ASSUME NEW S, NEW T, NEW s \in Seq(S), \A i \in 1..Len(s) : s[i] \in T
  PROVE  s \in Seq(T)
<1>1. Len(s) \in Nat /\ s \in [1..Len(s) -> S]
  BY LenProperties
<1>2. s \in [1..Len(s) -> T]
  BY <1>1
<1>3. QED BY <1>1, <1>2, SeqDef

\* A sequence over a set is one over a larger set.
LEMMA SeqWider ==
  ASSUME NEW m \in Nat, NEW n \in Nat, m <= n, NEW s \in Seq(1..m)
  PROVE  s \in Seq(1..n)
<1>1. \A i \in 1..Len(s) : s[i] \in 1..n
  BY ElementOfSeq
<1>2. QED BY <1>1, SeqOfElements

\* The numbers that follow k.
LEMMA CountUp ==
  ASSUME NEW k \in Nat, NEW m \in Nat
  PROVE  /\ [i \in 1..m |-> k + i] \in Seq(Nat)
         /\ Len([i \in 1..m |-> k + i]) = m
<1>1. [i \in 1..m |-> k + i] \in [1..m -> Nat]
  OBVIOUS
<1>2. [i \in 1..m |-> k + i] \in Seq(Nat)
  BY <1>1, SeqDef
<1>3. DOMAIN [i \in 1..m |-> k + i] = 1..m
  OBVIOUS
<1>4. QED BY <1>2, <1>3, LenProperties

\* Each step keeps the functions functions.
LEMMA RunsKeepShapes ==
  ASSUME Known, Shapes, Deliver, TypeOK'
  PROVE  Shapes'
<1>1. /\ UNCHANGED <<stream, wire, conn, at, seen, resting, cuts>>
      /\ \/ \E r \in Runs : Publish(r)
         \/ UNCHANGED <<published, buffer>>
  BY DEF Deliver, clientVars
<1>2. ASSUME NEW r \in Runs, Publish(r)
      PROVE  /\ published' \in [Briefs -> Seq(Events)]
             /\ buffer' \in [Viewers -> Seq(Nat)]
  <2> DEFINE b == job[r]
  <2>1. /\ published' = [published EXCEPT ![b] = Append(@, lastEvent'[b])]
        /\ buffer' = [c \in Viewers |->
                        IF c \in Subscribers(b)
                        THEN Append(buffer[c], Len(published'[b])) ELSE buffer[c]]
    BY <1>2 DEF Publish
  <2>2. published' \in [Briefs -> Seq(Events)]
    <3>1. ASSUME b \in Briefs PROVE Append(published[b], lastEvent'[b]) \in Seq(Events)
      <4>1. published[b] \in Seq(Events) /\ lastEvent'[b] \in Events
        BY <3>1 DEF Shapes, TypeOK
      <4>2. QED BY <4>1, AppendProperties
    <3>2. QED BY <2>1, <3>1 DEF Shapes
  <2>3. ASSUME NEW c \in Viewers
        PROVE  (IF c \in Subscribers(b)
                THEN Append(buffer[c], Len(published'[b])) ELSE buffer[c]) \in Seq(Nat)
    <3>1. CASE c \in Subscribers(b)
      <4>1. b \in Briefs
        BY <3>1, ViewersAssumption DEF Subscribers
      <4>2. Len(published'[b]) \in Nat /\ buffer[c] \in Seq(Nat)
        BY <2>2, <4>1, LenProperties DEF Shapes
      <4>3. QED BY <3>1, <4>2, AppendProperties
    <3>2. CASE c \notin Subscribers(b)
      BY <3>2 DEF Shapes
    <3>3. QED BY <3>1, <3>2
  <2> HIDE DEF b
  <2>4. QED BY <2>1, <2>2, <2>3
<1>3. QED BY <1>1, <1>2 DEF Shapes

\* The handler of a connection moves frames between sequences of numbers.
LEMMA HandlerKeepsShapes ==
  ASSUME Shapes, NEW c \in Viewers, Handler(c) \/ HandlerFails(c) \/ Cut(c)
  PROVE  Shapes'
<1> USE DEF Shapes, clientVars, viewerVars
<1>1. CASE SubscribeStream(c)
  BY <1>1 DEF SubscribeStream
<1>2. CASE Forward(c)
  <2>1. buffer[c] \in Seq(Nat) /\ buffer[c] # <<>> /\ wire[c] \in Seq(Nat)
    BY <1>2 DEF Forward
  <2>2. Head(buffer[c]) \in Nat /\ Tail(buffer[c]) \in Seq(Nat)
    BY <2>1, HeadTailProperties
  <2>3. Append(wire[c], Head(buffer[c])) \in Seq(Nat)
    BY <2>1, <2>2, AppendProperties
  <2>4. wire' \in [Viewers -> Seq(Nat)]
    BY <1>2, <2>1, <2>3 DEF Forward, SendFrame
  <2>5. buffer' \in [Viewers -> Seq(Nat)]
    <3>1. PICK rest \in Seq(Nat) : buffer' = [buffer EXCEPT ![c] = rest]
      BY <1>2, <2>2, EmptySeq DEF Forward, Finally
    <3>2. QED BY <3>1
  <2>6. stream' \in [Viewers -> {"none", "checked", "open", "closed"}]
    BY ZenonT(40), <1>2 DEF Forward, Finally
  <2>7. UNCHANGED <<published, seen, conn, at, resting, cuts>>
    BY <1>2 DEF Forward
  <2>8. QED BY <2>4, <2>5, <2>6, <2>7
<1>3. CASE HangUp(c)
  BY <1>3, EmptySeq DEF HangUp, Finally
<1>4. CASE Cut(c)
  <2>1. cuts' \in 0..MaxCuts
    BY <1>4, ViewersAssumption DEF Cut
  <2>2. wire' \in [Viewers -> Seq(Nat)] /\ buffer' \in [Viewers -> Seq(Nat)]
    BY <1>4, EmptySeq DEF Cut, Finally
  <2>3. QED BY <1>4, <2>1, <2>2 DEF Cut, Finally
<1>5. CASE HandlerFails(c)
  <2>1. cuts' \in 0..MaxCuts
    BY <1>5, ViewersAssumption DEF HandlerFails
  <2>2. QED BY <1>5, <2>1, EmptySeq DEF HandlerFails, Finally
<1>6. QED BY <1>1, <1>2, <1>3, <1>4, <1>5 DEF Handler

\* The demo script reads frames one by one.
LEMMA DemoKeepsShapes ==
  ASSUME Shapes, NEW d \in Demos, Demo(d)
  PROVE  Shapes'
<1> USE DEF Shapes, handlerVars, DemoGoto
<1>1. d \in Viewers
  BY DEF Viewers
<1>2. CASE DemoConnect(d)
  BY <1>1, <1>2, EmptySeq DEF DemoConnect, Connect
<1>3. CASE DemoReceive(d)
  <2>1. wire[d] \in Seq(Nat) /\ wire[d] # <<>> /\ seen[d] \in Seq(Nat)
    BY <1>1, <1>3 DEF DemoReceive
  <2>2. Head(wire[d]) \in Nat /\ Tail(wire[d]) \in Seq(Nat)
    BY <2>1, HeadTailProperties
  <2>3. Append(seen[d], Head(wire[d])) \in Seq(Nat)
    BY <2>1, <2>2, AppendProperties
  <2>4. seen' \in [Viewers -> Seq(Nat)]
    BY <1>3, <2>3 DEF DemoReceive
  <2>5. wire' \in [Viewers -> Seq(Nat)]
    <3>1. PICK rest \in Seq(Nat) : wire' = [wire EXCEPT ![d] = rest]
      BY <1>3, <2>2, EmptySeq DEF DemoReceive, Hang
    <3>2. QED BY <3>1
  <2>6. QED BY <1>3, <2>4, <2>5 DEF DemoReceive, Hang
<1>4. ASSUME NEW from, NEW to \in {"failed", "approve", "poll", "publish",
                                   "report", "done"},
             DemoStep(d, from, to)
      PROVE  Shapes'
  BY <1>4 DEF DemoStep
<1>5. CASE DemoReadStatus(d)
  BY <1>4, <1>5 DEF DemoReadStatus
<1>6. CASE DemoApprove(d) \/ DemoPublish(d)
  BY <1>4, <1>6 DEF DemoApprove, DemoPublish
<1>7. CASE DemoPoll(d) \/ DemoDeadline(d) \/ DemoReport(d)
  BY <1>4, <1>7 DEF DemoPoll, DemoDeadline, DemoReport
<1>8. CASE DemoClosed(d)
  BY <1>8, EmptySeq DEF DemoClosed, Hang
<1>9. QED BY <1>2, <1>3, <1>5, <1>6, <1>7, <1>8 DEF Demo

\* The live page reads whatever is on the wire at once.
LEMMA PageKeepsShapes ==
  ASSUME Shapes, NEW p \in Pages, PageScript(p) \/ PageReopen(p)
  PROVE  Shapes'
<1> USE DEF Shapes, handlerVars
<1>1. p \in Viewers
  BY DEF Viewers
<1>2. CASE PageLoad(p) \/ PageReopen(p)
  <2>1. resting' \in [Pages -> BOOLEAN]
    <3>1. CASE PageLoad(p)
      <4> DEFINE calm == status[Watches[p]] \in RestingStages
      <4>1. resting' = [resting EXCEPT ![p] = calm]
        BY <3>1 DEF PageLoad
      <4>2. calm \in BOOLEAN
        OBVIOUS
      <4> HIDE DEF calm
      <4>3. QED BY <4>1, <4>2
    <3>2. CASE PageReopen(p)
      BY <3>2 DEF PageReopen
    <3>3. QED BY <1>2, <3>1, <3>2
  <2>2. PICK label \in {"shown", "drain", "feed", "connect"} :
          at' = [at EXCEPT ![p] = label]
    BY <1>2 DEF PageLoad, PageReopen
  <2>3. UNCHANGED <<published, stream, buffer, wire, seen, conn, cuts>>
    BY <1>2 DEF PageLoad, PageReopen
  <2>4. QED BY <2>1, <2>2, <2>3
<1>3. CASE PageConnect(p)
  BY <1>3, EmptySeq DEF PageConnect, Connect
<1>4. CASE PageDrain(p)
  <2>1. seen[p] \o wire[p] \in Seq(Nat)
    BY <1>1, ConcatProperties
  <2>2. seen' \in [Viewers -> Seq(Nat)] /\ wire' \in [Viewers -> Seq(Nat)]
    BY <1>4, <2>1, EmptySeq DEF PageDrain
  <2>3. QED BY <1>4, <2>2 DEF PageDrain
<1>5. QED BY <1>2, <1>3, <1>4 DEF PageScript

-----------------------------------------------------------------------------
(* Steps of one feed *)

FeedStep(c) == [Feed(c)!Next]_(FeedVars(c))

\* The cursor of the refinement is that of the connection.
LEMMA CursorHere ==
  ASSUME NEW c \in Viewers
  PROVE  /\ Cursor(c) =
              CursorOf(conn[c], stream[c], wire[c], buffer[c], Sent(c))
         /\ Cursor(c)' =
              CursorOf(conn'[c], stream'[c], wire'[c], buffer'[c], Sent(c)')
BY DEF Cursor, Flight, CursorOf, Sent

\* The steps of EventFeed, as changes of its three variables.
LEMMA FeedMoves ==
  ASSUME NEW c \in Viewers,
         \/ /\ Sent(c)' = Sent(c) /\ seen'[c] = seen[c]
            /\ \/ Cursor(c)' \in {Cursor(c), -1}
               \/ Cursor(c) = -1 /\ Cursor(c)' = Sent(c)
         \/ /\ Sent(c)' = Sent(c) + 1 /\ seen'[c] = seen[c]
            /\ Cursor(c)' = Cursor(c)
         \/ /\ Sent(c)' = Sent(c) /\ Cursor(c) # -1
            /\ \E n \in 0..Sent(c) :
                 /\ Cursor(c) <= n
                 /\ seen'[c] = seen[c] \o [i \in 1..(n - Cursor(c)) |-> Cursor(c) + i]
                 /\ Cursor(c)' \in {n, -1}
  PROVE  FeedStep(c)
BY DEF FeedStep, FeedVars, Sent, Feed!Next, Feed!Publish, Feed!Join, Feed!Give,
       Feed!Leave, Feed!Off

\* What a step owes to viewer c.
Keeps(c) == FramesKnown(c)' /\ FlightAgrees(c)' /\ FeedStep(c)

\* A viewer that takes no part in a step.
LEMMA BystanderKeeps ==
  ASSUME StreamInv, NEW c \in Viewers, Sent(c)' = Sent(c),
         stream'[c] = stream[c], buffer'[c] = buffer[c], wire'[c] = wire[c],
         conn'[c] = conn[c], seen'[c] = seen[c]
  PROVE  Keeps(c)
<1>1. FramesKnown(c)' /\ FlightAgrees(c)'
  BY DEF StreamInv, FramesKnown, FlightAgrees
<1>2. Cursor(c)' = Cursor(c)
  BY CursorHere
<1>3. FeedStep(c)
  BY <1>2, FeedMoves
<1>4. QED BY <1>1, <1>3 DEF Keeps

\* A step of one viewer, its handler or the network between them.
LEMMA OthersKeep ==
  ASSUME StreamInv, UNCHANGED published, NEW c \in Viewers, Keeps(c),
         \A x \in Viewers \ {c} :
           /\ stream'[x] = stream[x] /\ buffer'[x] = buffer[x]
           /\ wire'[x] = wire[x] /\ conn'[x] = conn[x] /\ seen'[x] = seen[x]
  PROVE  \A x \in Viewers : Keeps(x)
<1>1. \A x \in Viewers : Sent(x)' = Sent(x)
  BY DEF Sent
<1>2. QED BY <1>1, BystanderKeeps

-----------------------------------------------------------------------------
(* The runs' side *)

\* A statement of a run says something about its own brief if it publishes, and
\* nothing otherwise.
LEMMA WorkerSpeaks ==
  ASSUME TypeOK, NEW r \in Runs, Progress(r) \/ Raise(r) \/ Crash(r)
  PROVE  /\ \A x \in Runs \ {r} : pc'[x] = pc[x]
         /\ \A b \in Briefs \ {job[r]} : lastEvent'[b] = lastEvent[b]
         /\ UNCHANGED lastEvent \/ Publishes(r)
         /\ Publishes(r) /\ pc[r] = "announce_failed" /\ job[r] \in Briefs =>
              lastEvent'[job[r]] = "brief_failed"
<1>1. \A x \in Runs \ {r} : pc'[x] = pc[x]
  BY WorkerMoves DEF Goto, TypeOK
<1>2. ASSUME NEW next, Goto(r, next), pc[r] \in Announcing,
             next \notin {pc[r], "mark_failed", "crashed"},
             NEW e, lastEvent' = [lastEvent EXCEPT ![job[r]] = e],
             pc[r] = "announce_failed" => e = "brief_failed"
      PROVE  /\ \A b \in Briefs \ {job[r]} : lastEvent'[b] = lastEvent[b]
             /\ Publishes(r)
             /\ pc[r] = "announce_failed" /\ job[r] \in Briefs =>
                  lastEvent'[job[r]] = "brief_failed"
  <2>1. pc'[r] = next
    BY <1>2 DEF Goto, TypeOK
  <2>2. QED BY <1>2, <2>1 DEF Publishes, TypeOK
<1>3. CASE \/ SetPlanning(r) \/ Plan(r) \/ SetAwaitingReview(r)
           \/ SetComplete(r) \/ MarkFailed(r)
  BY <1>1, <1>3 DEF SetPlanning, Plan, SetAwaitingReview, SetComplete,
                    MarkFailed, StatusStep
<1>4. CASE LoadBrief(r) \/ Subscribe(r) \/ CloseConnection(r)
  BY <1>1, <1>4 DEF LoadBrief, Subscribe, CloseConnection, ControlStep
<1>5. CASE TracePlan(r) \/ Research(r)
  BY <1>1, <1>5 DEF TracePlan, Research, TraceStep
<1>6. CASE \/ HumanReview(r) \/ PublishResumed(r) \/ PublishReportReady(r)
           \/ PublishComplete(r) \/ PublishFailed(r) \/ RerunHumanReview(r)
           \/ PublishPlan(r) \/ PublishResearch(r)
  <2>1. PICK next \in {"paused", "rerun", "close", "closed", "ended", "research",
                       "persist", "review"},
             e \in Events :
          /\ pc[r] \in Announcing /\ next # pc[r]
          /\ pc[r] = "announce_failed" => e = "brief_failed"
          /\ Goto(r, next) /\ lastEvent' = [lastEvent EXCEPT ![job[r]] = e]
    BY <1>6 DEF HumanReview, PublishResumed, PublishReportReady, PublishComplete,
                PublishFailed, RerunHumanReview, PublishPlan, PublishResearch,
                EventStep, Decision, Events, Announcing
  <2>2. QED BY <1>1, <1>2, <2>1 DEF Announcing
<1>7. CASE ReceiveResume(r) \/ ReviewTimeout(r)
  BY <1>1, <1>7 DEF ReceiveResume, ReviewTimeout, WaitReturns
<1>8. CASE PersistReport(r) \/ WritePdf(r) \/ EmailReport(r)
  BY <1>1, <1>8 DEF PersistReport, WritePdf, EmailReport, ReportStep, ControlStep
<1>9. CASE IndexBrief(r) \/ LoadReport(r)
  BY <1>1, <1>9 DEF IndexBrief, LoadReport
<1>10. CASE Raise(r) \/ Crash(r)
  <2>1. /\ UNCHANGED lastEvent
        /\ \E next \in {"mark_failed", "crashed"} : Goto(r, next)
    BY <1>10 DEF Raise, Crash, Leave
  <2>2. ~Publishes(r)
    BY <2>1 DEF Publishes, Goto, TypeOK
  <2>3. QED BY <1>1, <2>1, <2>2
<1>11. QED BY <1>3, <1>4, <1>5, <1>6, <1>7, <1>8, <1>9, <1>10 DEF Progress

\* Nobody else publishes, and a redelivery is never undone.
LEMMA OthersAreSilent ==
  ASSUME Known, Api \/ Broker
  PROVE  /\ UNCHANGED lastEvent
         /\ \A r \in Runs : ~Publishes(r)
         /\ \A b \in Briefs : redelivered'[b] = 0 => redelivered[b] = 0
<1> USE DEF apiVars, brokerVars, runVars
<1>1. CASE Api
  <2>1. UNCHANGED <<lastEvent, pc, redelivered>>
    BY <1>1 DEF Api, CreateBrief, EnqueueBrief, EnqueueFails, DeleteBrief,
                CheckResume, PublishResume
  <2>2. QED BY <2>1 DEF Publishes
<1>2. ASSUME NEW b \in Briefs, Redeliver(b)
      PROVE  /\ UNCHANGED <<lastEvent, pc>>
             /\ \A x \in Briefs : redelivered'[x] = 0 => redelivered[x] = 0
  BY <1>2, BoundsAssumption DEF Redeliver, Known, RouteInv, TypeOK
<1>3. ASSUME NEW b \in Briefs, NEW r \in Runs, Accept(r, b)
      PROVE  /\ UNCHANGED <<lastEvent, redelivered>>
             /\ \A x \in Runs : ~Publishes(x)
  <2>1. pc[r] = "free" /\ \A x \in Runs \ {r} : pc'[x] = pc[x]
    BY <1>3 DEF Accept, Goto, Known, RouteInv, TypeOK
  <2>2. QED BY <1>3, <2>1 DEF Publishes, Announcing, Accept
<1>4. CASE Broker
  BY <1>2, <1>3, <1>4 DEF Broker, Publishes
<1>5. QED BY <1>1, <1>4

\* An event of a brief delivered once follows no terminal one, unless it is the
\* brief_failed of a completion whose connection failed to close.
LEMMA PublishHistory ==
  ASSUME Known, StoryInv, StreamInv, TypeOK', NEW r \in Runs, Publishes(r),
         Publish(r), UNCHANGED redelivered,
         \A b \in Briefs \ {job[r]} : lastEvent'[b] = lastEvent[b],
         pc[r] = "announce_failed" => lastEvent'[job[r]] = "brief_failed"
  PROVE  \A b \in Briefs : HistoryAgrees(b)'
<1>0. PICK own \in Briefs : own = job[r]
  BY Told DEF Publishes, Announcing
<1>1. pc[r] # "ended"
  BY DEF Publishes, Announcing
<1>2. published' = [published EXCEPT ![own] = Append(@, lastEvent'[own])]
  BY <1>0 DEF Publish
<1>3. /\ published[own] \in Seq(Events) /\ lastEvent'[own] \in Events
      /\ \A b \in Briefs \ {own} : published'[b] = published[b]
      /\ published'[own] = Append(published[own], lastEvent'[own])
  BY <1>2 DEF StreamInv, Shapes, TypeOK
<1>4. redelivered[own] = 0 =>
        /\ lastEvent[own] # "brief_failed"
        /\ lastEvent[own] = "brief_complete" => lastEvent'[own] = "brief_failed"
  BY <1>0, <1>1, Told DEF EventAgrees, Publishes, Announcing, AfterComplete
<1>5. HistoryAgrees(own)'
  <2> DEFINE old == published[own]
             new == published'[own]
  <2>1. /\ Len(new) = Len(old) + 1 /\ Len(old) \in Nat /\ new # <<>>
        /\ \A i \in 1..Len(new) :
             new[i] = IF i = Len(old) + 1 THEN lastEvent'[own] ELSE old[i]
    BY <1>3, AppendProperties, LenProperties
  <2>2. new[Len(new)] = lastEvent'[own]
    BY <2>1
  <2>3. ASSUME redelivered[own] = 0, NEW n \in 1..Len(new), n # Len(new)
        PROVE  /\ new[n] # "brief_failed"
               /\ new[n] = "brief_complete" => lastEvent'[own] = "brief_failed"
    <3>1. n \in 1..Len(old) /\ new[n] = old[n] /\ old # <<>>
      BY <2>1, <2>3
    <3>2. /\ old[n] = "brief_failed" => n = Len(old)
          /\ old[n] = "brief_complete" =>
               n = Len(old) \/ lastEvent[own] = "brief_failed"
      BY <2>3, <3>1 DEF StreamInv, HistoryAgrees
    <3>3. old[Len(old)] = lastEvent[own]
      BY <3>1 DEF StreamInv, HistoryAgrees
    <3>4. QED BY <1>4, <2>3, <3>1, <3>2, <3>3
  <2> HIDE DEF old
  <2>5. QED BY <2>1, <2>2, <2>3 DEF HistoryAgrees
<1>6. ASSUME NEW b \in Briefs, b # own PROVE HistoryAgrees(b)'
  BY <1>0, <1>3, <1>6 DEF StreamInv, HistoryAgrees
<1>7. QED BY <1>5, <1>6

\* An event goes to whoever is subscribed, and to nobody else.
LEMMA PublishKeeps ==
  ASSUME Known, StoryInv, StreamInv, TypeOK', NEW r \in Runs, Publishes(r),
         Publish(r), UNCHANGED <<stream, wire, conn, seen>>
  PROVE  \A c \in Viewers : Keeps(c)
<1> DEFINE own == job[r]
<1>1. own \in Briefs
  BY Told DEF Publishes, Announcing
<1>2. /\ published' = [published EXCEPT ![own] = Append(@, lastEvent'[own])]
      /\ buffer' = [c \in Viewers |->
                      IF c \in Subscribers(own)
                      THEN Append(buffer[c], Len(published'[own])) ELSE buffer[c]]
  BY DEF Publish
<1>3. /\ published[own] \in Seq(Events) /\ lastEvent'[own] \in Events
      /\ \A b \in Briefs \ {own} : published'[b] = published[b]
      /\ published'[own] = Append(published[own], lastEvent'[own])
  BY <1>1, <1>2 DEF StreamInv, Shapes, TypeOK
<1> HIDE DEF own
<1>4. Len(published[own]) \in Nat /\ Len(published'[own]) = Len(published[own]) + 1
  BY <1>3, AppendProperties, LenProperties
<1>5. ASSUME NEW c \in Viewers, Watches[c] # own PROVE Keeps(c)
  <2>1. Watches[c] \in Briefs
    BY ViewersAssumption
  <2>2. Sent(c)' = Sent(c) /\ c \notin Subscribers(own)
    BY <1>3, <1>5, <2>1 DEF Sent, Subscribers
  <2>3. buffer'[c] = buffer[c]
    BY <1>2, <2>2
  <2>4. QED BY <2>2, <2>3, BystanderKeeps
<1>6. ASSUME NEW c \in Viewers, Watches[c] = own PROVE Keeps(c)
  <2> DEFINE n == Len(published[own])
  <2>1. n \in Nat /\ Sent(c) = n /\ Sent(c)' = n + 1
    BY <1>4, <1>6 DEF Sent
  <2>2. /\ conn[c] \in {"none", "up"} /\ wire[c] \in Seq(Nat)
        /\ buffer[c] \in Seq(Nat)
    BY DEF StreamInv, Shapes
  <2>3. InFlight(conn[c], stream[c], wire[c], buffer[c], n)
    BY <2>1 DEF StreamInv, FlightAgrees
  <2>4. buffer'[c] = IF stream[c] = "open" THEN Append(buffer[c], n + 1)
                                           ELSE buffer[c]
    BY <1>2, <1>4, <1>6 DEF Subscribers
  <2> HIDE DEF n
  <2>5. /\ InFlight(conn[c], stream[c], wire[c], buffer'[c], n + 1)
        /\ CursorOf(conn[c], stream[c], wire[c], buffer'[c], n + 1) =
             CursorOf(conn[c], stream[c], wire[c], buffer[c], n)
    <3>1. CASE stream[c] = "open"
      BY <2>1, <2>2, <2>3, <2>4, <3>1, FlightPublish
    <3>2. CASE stream[c] # "open"
      BY <2>1, <2>2, <2>3, <2>4, <3>2, FlightMissed
    <3>3. QED BY <3>1, <3>2
  <2>6. FlightAgrees(c)' /\ Cursor(c)' = Cursor(c)
    BY <2>1, <2>5, CursorHere DEF FlightAgrees
  <2>7. FeedStep(c)
    BY <2>1, <2>6, FeedMoves
  <2>8. FramesKnown(c)'
    <3>1. ASSUME NEW s \in Seq(1..n) PROVE s \in Seq(1..(n + 1))
      BY <2>1, SeqWider
    <3>2. {buffer[c], wire[c], seen[c]} \subseteq Seq(1..n)
      BY <2>1 DEF StreamInv, FramesKnown
    <3>3. Append(buffer[c], n + 1) \in Seq(1..(n + 1))
      BY <2>1, <3>1, <3>2, AppendProperties
    <3>4. QED BY <2>1, <2>4, <3>1, <3>2, <3>3 DEF FramesKnown
  <2>9. QED BY <2>6, <2>7, <2>8 DEF Keeps
<1>7. QED BY <1>5, <1>6

\* A step of the rest of the system.
LEMMA SystemKeeps ==
  ASSUME Known, StoryInv, StreamInv, TypeOK', System
  PROVE  StreamInv' /\ \A c \in Viewers : FeedStep(c)
<1>1. Next /\ Deliver /\ UNCHANGED <<stream, wire, conn, seen>>
  BY DEF System, Deliver, clientVars
<1>2. Shapes'
  BY <1>1, RunsKeepShapes DEF StreamInv
<1>3. /\ \A b \in Briefs : redelivered'[b] = 0 => redelivered[b] = 0
      /\ \/ \E r \in Runs : /\ Publishes(r) /\ Publish(r) /\ UNCHANGED redelivered
                            /\ \A b \in Briefs \ {job[r]} : lastEvent'[b] = lastEvent[b]
                            /\ pc[r] = "announce_failed" =>
                                 lastEvent'[job[r]] = "brief_failed"
         \/ UNCHANGED <<lastEvent, published, buffer>>
  <2>1. CASE Api \/ Broker
    BY <1>1, <2>1, OthersAreSilent DEF Deliver
  <2>2. ASSUME NEW r \in Runs, Progress(r) \/ Raise(r) \/ Crash(r)
        PROVE  <1>3!1 /\ <1>3!2
    <3>1. TypeOK
      BY DEF Known, RouteInv
    <3>2. UNCHANGED redelivered
      BY <2>2, <3>1, WorkerMoves DEF brokerVars
    <3>3. \A x \in Runs : Publishes(x) => x = r
      BY <2>2, <3>1, WorkerSpeaks DEF Publishes
    <3>4. /\ UNCHANGED lastEvent \/ Publishes(r)
          /\ \A b \in Briefs \ {job[r]} : lastEvent'[b] = lastEvent[b]
          /\ Publishes(r) /\ pc[r] = "announce_failed" =>
               lastEvent'[job[r]] = "brief_failed"
      <4>1. Publishes(r) => job[r] \in Briefs
        BY Told DEF Publishes, Announcing
      <4>2. QED BY <2>2, <3>1, <4>1, WorkerSpeaks
    <3>5. QED BY <1>1, <3>2, <3>3, <3>4 DEF Deliver
  <2>3. QED BY <1>1, <2>1, <2>2 DEF Next, Worker
<1>4. CASE UNCHANGED <<lastEvent, published, buffer>>
  <2>1. \A c \in Viewers : Keeps(c)
    BY <1>1, <1>4, BystanderKeeps DEF Sent
  <2>2. \A b \in Briefs : HistoryAgrees(b)'
    BY <1>3, <1>4 DEF StreamInv, HistoryAgrees
  <2>3. QED BY <1>2, <2>1, <2>2 DEF StreamInv, Keeps
<1>5. ASSUME NEW r \in Runs, Publishes(r), Publish(r), UNCHANGED redelivered,
             \A b \in Briefs \ {job[r]} : lastEvent'[b] = lastEvent[b],
             pc[r] = "announce_failed" => lastEvent'[job[r]] = "brief_failed"
      PROVE  StreamInv' /\ \A c \in Viewers : FeedStep(c)
  <2>1. \A c \in Viewers : Keeps(c)
    BY <1>1, <1>5, PublishKeeps
  <2>2. \A b \in Briefs : HistoryAgrees(b)'
    BY <1>5, PublishHistory
  <2>3. QED BY <1>2, <2>1, <2>2 DEF StreamInv, Keeps
<1>6. QED BY <1>3, <1>4, <1>5

-----------------------------------------------------------------------------
(* The viewers' side *)

\* What is known of one viewer.
LEMMA OneViewer ==
  ASSUME StreamInv, NEW c \in Viewers
  PROVE  /\ Sent(c) \in Nat
         /\ stream[c] \in {"none", "checked", "open", "closed"}
         /\ conn[c] \in {"none", "up"}
         /\ {buffer[c], wire[c], seen[c]} \subseteq Seq(Nat)
         /\ {buffer[c], wire[c], seen[c]} \subseteq Seq(1..Sent(c))
         /\ InFlight(conn[c], stream[c], wire[c], buffer[c], Sent(c))
<1>1. published[Watches[c]] \in Seq(Events)
  BY ViewersAssumption DEF StreamInv, Shapes
<1>2. QED BY <1>1, LenProperties
          DEF StreamInv, Shapes, Sent, FramesKnown, FlightAgrees

\* A connection that carries nothing: it was opened or lost, or it is the first
\* moment of a subscription.
LEMMA BareKeeps ==
  ASSUME StreamInv, NEW c \in Viewers, Sent(c)' = Sent(c),
         seen'[c] = seen[c], wire'[c] = <<>>, buffer'[c] = <<>>,
         conn'[c] \in {"none", "up"},
         \/ conn'[c] = "none" \/ stream'[c] # "open"
         \/ /\ stream[c] = "checked" /\ stream'[c] = "open"
            /\ conn'[c] = conn[c]
  PROVE  Keeps(c)
<1>1. /\ Sent(c) \in Nat /\ conn[c] \in {"none", "up"}
      /\ seen[c] \in Seq(1..Sent(c))
      /\ InFlight(conn[c], stream[c], wire[c], buffer[c], Sent(c))
      /\ wire[c] \in Seq(Nat) /\ buffer[c] \in Seq(Nat)
  BY OneViewer
<1>2. /\ <<>> \in Seq(Nat) /\ <<>> \in Seq(1..Sent(c)) /\ Len(<<>>) = 0
  BY EmptySeq
<1>3. FramesKnown(c)'
  BY <1>1, <1>2 DEF FramesKnown
<1>4. FlightAgrees(c)'
  BY <1>1, FlightEmpty DEF FlightAgrees
<1>5. Cursor(c)' = CursorOf(conn'[c], stream'[c], <<>>, <<>>, Sent(c))
  BY CursorHere
<1>6. ASSUME conn'[c] = "none" \/ stream'[c] # "open" PROVE FeedStep(c)
  <2>1. Cursor(c)' = -1
    BY <1>1, <1>5, <1>6, FlightEmpty
  <2>2. QED BY <2>1, FeedMoves
<1>7. ASSUME stream[c] = "checked", stream'[c] = "open",
             conn'[c] = conn[c], conn[c] = "up"
      PROVE  FeedStep(c)
  <2>1. wire[c] = <<>> /\ buffer[c] = <<>>
    BY <1>1, <1>7 DEF InFlight
  <2>2. Cursor(c) = CursorOf("up", "checked", <<>>, <<>>, Sent(c))
    BY <1>7, <2>1, CursorHere
  <2>3. Cursor(c) = -1
    BY <1>1, <2>2, FlightEmpty
  <2>4. Cursor(c)' = Sent(c)
    BY <1>1, <1>5, <1>7, FlightEmpty
  <2>5. QED BY <2>3, <2>4, FeedMoves
<1>8. FeedStep(c)
  BY <1>1, <1>6, <1>7
<1>9. QED BY <1>3, <1>4, <1>8 DEF Keeps

\* One turn of the loop of stream_brief.
LEMMA ForwardKeeps ==
  ASSUME StreamInv, NEW c \in Viewers, Forward(c)
  PROVE  Keeps(c)
<1> DEFINE w == wire[c]
           b == buffer[c]
<1>1. /\ Sent(c) \in Nat /\ conn[c] \in {"none", "up"}
      /\ {b, w} \subseteq Seq(Nat)
      /\ {b, w, seen[c]} \subseteq Seq(1..Sent(c))
      /\ InFlight(conn[c], stream[c], w, b, Sent(c))
  BY OneViewer
<1>2. /\ stream[c] = "open" /\ b # <<>>
      /\ UNCHANGED <<published, conn, seen>> /\ Sent(c)' = Sent(c)
  BY DEF Forward, clientVars, Sent
<1>3. wire'[c] = IF conn[c] = "up" THEN Append(w, Head(b)) ELSE w
  BY DEF Forward, SendFrame, StreamInv, Shapes
<1>4. \/ stream'[c] = "open" /\ buffer'[c] = Tail(b)
      \/ stream'[c] = "closed" /\ buffer'[c] = <<>>
  BY <1>2 DEF Forward, Finally, StreamInv, Shapes
<1>5. /\ Head(b) \in 1..Sent(c) /\ Tail(b) \in Seq(1..Sent(c))
      /\ Tail(b) \in Seq(Nat) /\ <<>> \in Seq(1..Sent(c)) /\ <<>> \in Seq(Nat)
  BY <1>1, <1>2, HeadTailProperties, EmptySeq
<1>6. /\ wire'[c] \in Seq(1..Sent(c)) /\ buffer'[c] \in Seq(1..Sent(c))
      /\ buffer'[c] \in Seq(Nat)
  <2>1. Append(w, Head(b)) \in Seq(1..Sent(c))
    BY <1>1, <1>5, AppendProperties
  <2> HIDE DEF w, b
  <2>2. QED BY <1>1, <1>3, <1>4, <1>5, <2>1
<1>7. FramesKnown(c)'
  BY <1>1, <1>2, <1>6 DEF FramesKnown
<1> HIDE DEF w, b
<1>8. CASE conn[c] = "up"
  <2>1. /\ InFlight("up", stream'[c], wire'[c], buffer'[c], Sent(c))
        /\ CursorOf("up", stream'[c], wire'[c], buffer'[c], Sent(c)) =
             CursorOf("up", "open", w, b, Sent(c))
    <3>1. /\ InFlight("up", "open", w, b, Sent(c))
          /\ wire'[c] = Append(w, Head(b))
      BY <1>1, <1>2, <1>3, <1>8
    <3>2. w \in Seq(Nat) /\ b \in Seq(Nat) /\ b # <<>> /\ Sent(c) \in Nat
      BY <1>1, <1>2
    <3>3. ASSUME NEW v, v = Append(w, Head(b)), NEW s, NEW rest,
                 \/ s = "open" /\ rest = Tail(b)
                 \/ s = "closed" /\ rest = <<>>
          PROVE  /\ InFlight("up", s, v, rest, Sent(c))
                 /\ CursorOf("up", s, v, rest, Sent(c)) =
                      CursorOf("up", "open", w, b, Sent(c))
      BY ZenonT(40), <3>1, <3>2, <3>3, FlightForward
    <3>4. QED BY <1>4, <3>1, <3>3
  <2>2. FlightAgrees(c)' /\ Cursor(c)' = Cursor(c)
    BY <1>2, <1>8, <2>1, CursorHere DEF FlightAgrees, w, b
  <2>3. FeedStep(c)
    BY <1>2, <2>2, FeedMoves
  <2>4. QED BY <1>7, <2>2, <2>3 DEF Keeps
<1>9. CASE conn[c] = "none"
  <2>1. w = <<>> /\ wire'[c] = <<>>
    BY <1>1, <1>3, <1>9 DEF InFlight
  <2>2. InFlight("none", stream'[c], <<>>, buffer'[c], Sent(c))
    <3>1. CASE stream'[c] = "open" /\ buffer'[c] = Tail(b)
      BY <1>1, <1>2, <1>9, <2>1, <3>1, FlightDropped
    <3>2. CASE stream'[c] = "closed" /\ buffer'[c] = <<>>
      <4>1. \A i \in 1..Len(<<>>) : FALSE
        BY EmptySeq
      <4>2. QED BY <3>2, <4>1 DEF InFlight
    <3>3. QED BY <1>4, <3>1, <3>2
  <2>3. FlightAgrees(c)'
    BY <1>2, <1>9, <2>1, <2>2 DEF FlightAgrees
  <2>4. Cursor(c)' = -1
    BY <1>2, <1>9, CursorHere DEF CursorOf
  <2>5. FeedStep(c)
    BY <1>2, <2>4, FeedMoves
  <2>6. QED BY <1>7, <2>3, <2>5 DEF Keeps
<1>10. QED BY <1>1, <1>8, <1>9

\* A handler that fails leaves its client what it has sent.
LEMMA FailsKeeps ==
  ASSUME StreamInv, NEW c \in Viewers, Sent(c)' = Sent(c), conn[c] = "up",
         stream'[c] = "closed", buffer'[c] = <<>>,
         wire'[c] = wire[c], conn'[c] = conn[c], seen'[c] = seen[c]
  PROVE  Keeps(c)
<1>1. /\ Sent(c) \in Nat /\ {buffer[c], wire[c]} \subseteq Seq(Nat)
      /\ {wire[c], seen[c]} \subseteq Seq(1..Sent(c))
      /\ InFlight("up", stream[c], wire[c], buffer[c], Sent(c))
  BY OneViewer
<1>2. <<>> \in Seq(Nat) /\ <<>> \in Seq(1..Sent(c))
  BY EmptySeq
<1>3. FramesKnown(c)'
  BY <1>1, <1>2 DEF FramesKnown
<1>4. InFlight("up", "closed", wire[c], <<>>, Sent(c))
  BY <1>1 DEF InFlight
<1>5. FlightAgrees(c)'
  BY <1>4 DEF FlightAgrees
<1>6. Cursor(c)' = IF wire[c] # <<>> THEN wire[c][1] - 1 ELSE -1
  <2>1. Cursor(c)' = CursorOf("up", "closed", wire[c], <<>>, Sent(c))
    BY CursorHere
  <2>2. wire[c] \in Seq(Nat) /\ <<>> \in Seq(Nat)
    BY <1>1, EmptySeq
  <2>3. CursorOf("up", "closed", wire[c], <<>>, Sent(c))
          = IF wire[c] # <<>> THEN wire[c][1] - 1 ELSE -1
    BY <1>1, <1>4, <2>2, CursorValue
  <2>4. QED BY <2>1, <2>3
<1>7. wire[c] # <<>> => Cursor(c) = wire[c][1] - 1
  BY <1>1, CursorValue, CursorHere
<1>8. FeedStep(c)
  BY <1>6, <1>7, FeedMoves
<1>9. QED BY <1>3, <1>5, <1>8 DEF Keeps

\* The handler, and the network between it and its client.
LEMMA HandlerKeeps ==
  ASSUME StreamInv, NEW c \in Viewers, Handler(c) \/ HandlerFails(c) \/ Cut(c)
  PROVE  \A x \in Viewers : Keeps(x)
<1>1. /\ UNCHANGED published /\ Sent(c)' = Sent(c)
      /\ \A x \in Viewers \ {c} :
           /\ stream'[x] = stream[x] /\ buffer'[x] = buffer[x]
           /\ wire'[x] = wire[x] /\ conn'[x] = conn[x] /\ seen'[x] = seen[x]
  <2>1. UNCHANGED published
    BY DEF Handler, SubscribeStream, Forward, HangUp, HandlerFails, Cut
  <2>2. \A x \in Viewers \ {c} :
           /\ stream'[x] = stream[x] /\ buffer'[x] = buffer[x]
           /\ wire'[x] = wire[x] /\ conn'[x] = conn[x] /\ seen'[x] = seen[x]
    BY DEF Handler, SubscribeStream, Forward, HangUp, HandlerFails, Cut,
           Finally, SendFrame,
           clientVars, StreamInv, Shapes
  <2>3. QED BY <2>1, <2>2 DEF Sent
<1>2. ASSUME SubscribeStream(c) PROVE Keeps(c)
  <2>1. /\ stream[c] = "checked" /\ stream'[c] = "open"
        /\ UNCHANGED <<buffer, wire, conn, seen>>
    BY <1>2 DEF SubscribeStream, clientVars, StreamInv, Shapes
  <2>2. buffer[c] = <<>> /\ wire[c] = <<>> /\ conn[c] \in {"none", "up"}
    BY <2>1, OneViewer DEF InFlight
  <2>3. QED BY <1>1, <2>1, <2>2, BareKeeps
<1>3. ASSUME Forward(c) PROVE Keeps(c)
  BY <1>3, ForwardKeeps
<1>4. ASSUME HangUp(c) PROVE Keeps(c)
  <2>1. conn[c] = "none" /\ buffer'[c] = <<>> /\ UNCHANGED <<wire, conn, seen>>
    BY <1>4 DEF HangUp, Finally, clientVars, StreamInv, Shapes
  <2>2. wire[c] = <<>>
    BY <2>1, OneViewer DEF InFlight
  <2>3. QED BY <1>1, <2>1, <2>2, BareKeeps
<1>5. ASSUME Cut(c) PROVE Keeps(c)
  <2>1. /\ conn'[c] = "none" /\ buffer'[c] = <<>> /\ wire'[c] = <<>>
        /\ UNCHANGED seen
    BY <1>5 DEF Cut, Finally, StreamInv, Shapes
  <2>2. QED BY <1>1, <2>1, BareKeeps
<1>6. ASSUME HandlerFails(c) PROVE Keeps(c)
  <2>1. /\ conn[c] = "up" /\ stream'[c] = "closed" /\ buffer'[c] = <<>>
        /\ UNCHANGED <<wire, conn, seen>>
    BY <1>6 DEF HandlerFails, Finally, clientVars, StreamInv, Shapes
  <2>2. QED BY <1>1, <2>1, FailsKeeps
<1>7. Keeps(c)
  BY <1>2, <1>3, <1>4, <1>5, <1>6 DEF Handler
<1>8. QED BY <1>1, <1>7, OthersKeep

\* A client opens a connection.
LEMMA ConnectKeeps ==
  ASSUME StreamInv, NEW c \in Viewers, Connect(c),
         UNCHANGED <<published, buffer, seen>>
  PROVE  Keeps(c)
<1>1. /\ stream[c] \in {"none", "closed"} /\ conn[c] = "none" /\ wire'[c] = <<>>
      /\ \/ stream'[c] = "checked" /\ conn'[c] = "up"
         \/ UNCHANGED <<stream, conn>>
  BY DEF Connect, StreamInv, Shapes
<1>2. buffer[c] = <<>>
  BY <1>1, OneViewer DEF InFlight
<1>3. Sent(c)' = Sent(c)
  BY DEF Sent
<1>4. QED BY <1>1, <1>2, <1>3, BareKeeps

\* The client reads some frames, in order, and perhaps closes the connection.
LEMMA ReadKeeps ==
  ASSUME StreamInv, NEW c \in Viewers, wire[c] # <<>>, NEW m \in 1..Len(wire[c]),
         UNCHANGED <<published, stream, buffer>>,
         wire'[c] \in Seq(Nat), seen'[c] \in Seq(Nat),
         NEW v \in Seq(Nat), Len(v) = Len(wire[c]) - m,
         \A i \in 1..Len(v) : v[i] = wire[c][m + i],
         \/ conn'[c] = conn[c] /\ wire'[c] = v
         \/ conn'[c] = "none" /\ wire'[c] = <<>>,
         Len(seen'[c]) = Len(seen[c]) + m,
         \A i \in 1..Len(seen'[c]) :
           seen'[c][i] = IF i <= Len(seen[c]) THEN seen[c][i]
                         ELSE wire[c][i - Len(seen[c])]
  PROVE  Keeps(c)
<1> DEFINE w == wire[c]
           got == seen[c]
           now == seen'[c]
<1>1. /\ Sent(c) \in Nat /\ conn[c] = "up"
      /\ {buffer[c], w, got} \subseteq Seq(Nat)
      /\ {buffer[c], w, got} \subseteq Seq(1..Sent(c))
      /\ InFlight("up", stream[c], w, buffer[c], Sent(c))
  <2>1. /\ Sent(c) \in Nat /\ conn[c] \in {"none", "up"}
        /\ {buffer[c], w, got} \subseteq Seq(Nat)
        /\ {buffer[c], w, got} \subseteq Seq(1..Sent(c))
        /\ InFlight(conn[c], stream[c], w, buffer[c], Sent(c))
    BY OneViewer
  <2>2. conn[c] = "up"
    BY <2>1 DEF InFlight
  <2>3. QED BY <2>1, <2>2
<1>2. /\ Sent(c)' = Sent(c) /\ buffer'[c] = buffer[c] /\ stream'[c] = stream[c]
  BY DEF Sent
<1>3. /\ Len(w) \in Nat /\ Len(got) \in Nat /\ m \in Nat /\ m >= 1 /\ m <= Len(w)
      /\ \A i \in 1..Len(w) : w[i] \in 1..Sent(c) /\ w[i] = w[1] + i - 1
      /\ \A i \in 1..Len(got) : got[i] \in 1..Sent(c)
  <2>1. w \in Seq(1..Sent(c)) /\ got \in Seq(1..Sent(c))
    BY <1>1
  <2>2. Len(w) \in Nat /\ Len(got) \in Nat
    BY <2>1, LenProperties
  <2>3. \A i \in 1..Len(w) : w[i] \in 1..Sent(c)
    BY <2>1, ElementOfSeq
  <2>4. \A i \in 1..Len(got) : got[i] \in 1..Sent(c)
    BY <2>1, ElementOfSeq
  <2>5. \A i \in 1..Len(w) : w[i] = w[1] + i - 1
    BY <1>1 DEF InFlight
  <2>6. m \in Nat /\ m >= 1 /\ m <= Len(w)
    BY <2>2
  <2>7. QED BY <2>2, <2>3, <2>4, <2>5, <2>6
<1>4. /\ InFlight("up", stream[c], v, buffer[c], Sent(c))
      /\ CursorOf("up", stream[c], w, buffer[c], Sent(c)) = w[1] - 1
      /\ CursorOf("up", stream[c], v, buffer[c], Sent(c)) \in {w[m], -1}
  BY <1>1, FlightRead
<1>5. PICK first \in Nat : /\ first = w[1] /\ first >= 1
                          /\ w[m] = first + m - 1 /\ w[m] <= Sent(c)
  <2>1. 1 \in 1..Len(w) /\ m \in 1..Len(w)
    BY <1>3
  <2>2. /\ w[1] \in 1..Sent(c) /\ w[m] \in 1..Sent(c)
        /\ w[m] = w[1] + m - 1
    BY <1>3, <2>1
  <2>3. \A x \in 1..Sent(c) : x \in Nat /\ x >= 1 /\ x <= Sent(c)
    BY <1>1
  <2>4. w[1] \in Nat /\ w[1] >= 1 /\ w[m] <= Sent(c)
    BY <2>2, <2>3
  <2> HIDE DEF w
  <2>5. QED BY <2>2, <2>4
<1>6. Cursor(c) = first - 1
  BY <1>1, <1>4, <1>5, CursorHere
<1>7. FlightAgrees(c)' /\ Cursor(c)' \in {w[m], -1}
  <2>1. CASE conn'[c] = conn[c] /\ wire'[c] = v
    BY <1>1, <1>2, <1>4, <2>1, CursorHere DEF FlightAgrees
  <2>2. CASE conn'[c] = "none" /\ wire'[c] = <<>>
    <3>1. Cursor(c)' = -1
      BY <2>2, CursorHere DEF CursorOf
    <3>2. InFlight("none", stream[c], <<>>, buffer[c], Sent(c))
      <4>1. PICK e : e = <<>> /\ Len(e) = 0
        BY EmptySeq
      <4>2. InFlight("none", stream[c], e, buffer[c], Sent(c))
        BY <1>1, <4>1 DEF InFlight
      <4>3. QED BY <4>1, <4>2
    <3>3. QED BY <1>2, <2>2, <3>1, <3>2 DEF FlightAgrees
  <2>3. QED BY <2>1, <2>2
<1>8. wire'[c] \in Seq(1..Sent(c)) /\ now \in Seq(1..Sent(c))
  <2>1. v \in Seq(1..Sent(c))
    <3>1. Len(v) \in Nat
      BY LenProperties
    <3>2. ASSUME NEW i \in 1..Len(v) PROVE v[i] \in 1..Sent(c)
      <4>1. PICK n \in Nat, k \in Nat : n = Len(w) /\ k = Len(v) /\ k = n - m
        BY <1>3, <3>1
      <4>2. m + i \in 1..n
        BY <1>3, <4>1
      <4>3. QED BY <1>3, <4>1, <4>2
    <3>3. QED BY <3>2, SeqOfElements
  <2>2. <<>> \in Seq(1..Sent(c))
    BY EmptySeq
  <2>3. Len(now) \in Nat /\ now \in Seq(Nat)
    BY LenProperties
  <2>4. ASSUME NEW i \in 1..Len(now) PROVE now[i] \in 1..Sent(c)
    <3>1. CASE i <= Len(got)
      <4>1. now[i] = got[i] /\ i \in 1..Len(got)
        BY <1>3, <2>3, <3>1
      <4>2. QED BY <1>3, <4>1
    <3>2. CASE ~(i <= Len(got))
      <4>1. i \in Nat /\ i <= Len(got) + m
        BY <1>3
      <4>2. i - Len(got) \in 1..Len(w)
        BY SMTT(30), <1>3, <3>2, <4>1
      <4>3. now[i] = w[i - Len(got)]
        BY <3>2
      <4>4. QED BY <1>3, <4>2, <4>3
    <3>3. QED BY <3>1, <3>2
  <2> HIDE DEF now
  <2>5. now \in Seq(1..Sent(c))
    BY <2>3, <2>4, SeqOfElements
  <2>6. QED BY <2>1, <2>2, <2>5
<1>9. FramesKnown(c)'
  BY <1>1, <1>2, <1>8 DEF FramesKnown
<1>10. FeedStep(c)
  <2> DEFINE n == w[m]
             given == [i \in 1..(n - Cursor(c)) |-> Cursor(c) + i]
  <2>1. /\ n \in 0..Sent(c) /\ n - Cursor(c) = m /\ Cursor(c) <= n
        /\ Cursor(c) # -1 /\ Cursor(c) \in Nat
    <3>1. first + m - 1 \in Nat /\ first + m - 1 <= Sent(c)
      BY <1>3, <1>5
    <3>2. first + m - 1 \in 0..Sent(c)
      BY <1>1, <3>1
    <3>3. /\ first + m - 1 - (first - 1) = m /\ first - 1 <= first + m - 1
          /\ first - 1 # -1 /\ first - 1 \in Nat
      <4>1. m \in Nat /\ m >= 1 /\ first \in Nat /\ first >= 1
        BY <1>3, <1>5
      <4>2. QED BY SMTT(30), <4>1
    <3>4. QED BY <1>5, <1>6, <3>2, <3>3
  <2>2. \A i \in 1..m : Cursor(c) + i \in Nat
    <3>1. PICK k \in Nat : k = Cursor(c)
      BY <2>1
    <3>2. \A i \in 1..m : k + i \in Nat
      OBVIOUS
    <3>3. QED BY <3>1, <3>2
  <2>3. /\ given \in Seq(Nat) /\ Len(given) = m
        /\ \A i \in 1..m : given[i] = Cursor(c) + i
    BY ZenonT(40), <1>3, <2>1, CountUp
  <2> HIDE DEF given
  <2>4. /\ got \o given \in Seq(Nat) /\ Len(got \o given) = Len(got) + m
        /\ \A i \in 1..(Len(got) + m) :
             (got \o given)[i] = IF i <= Len(got) THEN got[i]
                                                  ELSE given[i - Len(got)]
    <3>1. got \in Seq(Nat) /\ given \in Seq(Nat)
      BY <1>1, <2>3
    <3> HIDE DEF got
    <3>2. /\ got \o given \in Seq(Nat)
          /\ Len(got \o given) = Len(got) + Len(given)
          /\ \A i \in 1..(Len(got) + Len(given)) :
               (got \o given)[i] = IF i <= Len(got) THEN got[i]
                                                    ELSE given[i - Len(got)]
      BY <3>1, ConcatProperties
    <3>3. QED BY <2>3, <3>2
  <2>5. ASSUME NEW i \in 1..Len(now) PROVE now[i] = (got \o given)[i]
    <3>1. i \in 1..(Len(got) + m)
      BY <1>3
    <3>2. CASE i <= Len(got)
      BY <2>4, <3>1, <3>2
    <3>3. CASE ~(i <= Len(got))
      <4>1. i - Len(got) \in 1..m /\ i - Len(got) \in 1..Len(w)
        BY SMTT(30), <1>3, <3>1, <3>3
      <4>2. now[i] = w[i - Len(got)]
        BY <3>3
      <4>3. (got \o given)[i] = Cursor(c) + (i - Len(got))
        BY <2>3, <2>4, <3>1, <3>3, <4>1
      <4>4. w[i - Len(got)] = first + (i - Len(got)) - 1
        BY <1>3, <1>5, <4>1
      <4>5. \A x \in 1..m : x \in Nat
        BY <1>3
      <4>6. PICK x \in Nat : x = i - Len(got)
        BY <4>1, <4>5
      <4>7. first - 1 + x = first + x - 1
        OBVIOUS
      <4>8. QED BY <1>6, <4>2, <4>3, <4>4, <4>6, <4>7
    <3>4. QED BY <3>2, <3>3
  <2>6. now = got \o given
    BY ZenonT(40), <2>4, <2>5, SeqEqual
  <2> HIDE DEF n, w, got, now
  <2>7. QED BY <1>2, <1>7, <2>1, <2>6, FeedMoves DEF given, n, w, got, now
<1>11. QED BY <1>7, <1>9, <1>10 DEF Keeps

\* The client leaves, or stays, and reads nothing.
LEMMA IdleKeeps ==
  ASSUME StreamInv, NEW c \in Viewers, UNCHANGED <<published, stream, buffer>>,
         wire'[c] = wire[c], seen'[c] = seen[c],
         \/ conn'[c] = conn[c]
         \/ conn'[c] = "none" /\ wire[c] = <<>>
  PROVE  Keeps(c)
<1>1. Sent(c)' = Sent(c)
  BY DEF Sent
<1>2. CASE conn'[c] = conn[c]
  BY <1>1, <1>2, BystanderKeeps
<1>3. CASE conn'[c] = "none" /\ wire[c] = <<>>
  <2>1. FramesKnown(c)'
    BY <1>1 DEF StreamInv, FramesKnown
  <2>2. FlightAgrees(c)'
    BY <1>1, <1>3 DEF StreamInv, FlightAgrees, InFlight
  <2>3. Cursor(c)' = -1
    BY <1>3, CursorHere DEF CursorOf
  <2>4. FeedStep(c)
    BY <1>1, <2>3, FeedMoves
  <2>5. QED BY <2>1, <2>2, <2>4 DEF Keeps
<1>4. QED BY <1>2, <1>3

\* stream_events reads one frame.
LEMMA DemoReceiveKeeps ==
  ASSUME StreamInv, NEW d \in Demos, DemoReceive(d)
  PROVE  Keeps(d)
<1> DEFINE w == wire[d]
           rest == Tail(w)
           now == Append(seen[d], Head(w))
<1>1. /\ d \in Viewers /\ w # <<>> /\ w \in Seq(Nat) /\ seen[d] \in Seq(Nat)
      /\ Len(w) \in Nat \ {0}
  <2>1. d \in Viewers /\ w # <<>>
    BY DEF Viewers, DemoReceive
  <2>2. w \in Seq(Nat) /\ seen[d] \in Seq(Nat)
    BY <2>1, OneViewer
  <2>3. QED BY <2>1, <2>2, EmptySeq
<1>2. /\ UNCHANGED <<published, stream, buffer>> /\ seen'[d] = now
      /\ \/ conn'[d] = conn[d] /\ wire'[d] = rest
         \/ conn'[d] = "none" /\ wire'[d] = <<>>
  BY <1>1 DEF DemoReceive, Hang, handlerVars, StreamInv, Shapes
<1>3. Head(w) \in Nat /\ Head(w) = w[1]
  <2> HIDE DEF w
  <2>1. Head(w) = w[1]
    BY <1>1
  <2>2. QED BY <1>1, <2>1, HeadTailProperties
<1>4. /\ rest \in Seq(Nat) /\ Len(rest) = Len(w) - 1
      /\ \A i \in 1..Len(rest) : rest[i] = w[1 + i]
  <2>1. ASSUME NEW i \in 1..Len(rest) PROVE rest[i] = w[i + 1] /\ i + 1 = 1 + i
    BY <1>1, HeadTailProperties
  <2>2. QED BY <1>1, <2>1, HeadTailProperties
<1>5. /\ now \in Seq(Nat) /\ Len(now) = Len(seen[d]) + 1 /\ Len(seen[d]) \in Nat
      /\ \A i \in 1..Len(now) :
           now[i] = IF i <= Len(seen[d]) THEN seen[d][i] ELSE w[i - Len(seen[d])]
  <2> HIDE DEF w
  <2>1. /\ now \in Seq(Nat) /\ Len(now) = Len(seen[d]) + 1 /\ Len(seen[d]) \in Nat
        /\ \A i \in 1..Len(now) :
             now[i] = IF i = Len(seen[d]) + 1 THEN Head(w) ELSE seen[d][i]
    BY <1>1, <1>3, AppendProperties, LenProperties
  <2> HIDE DEF now
  <2>2. ASSUME NEW i \in 1..Len(now)
        PROVE  now[i] = IF i <= Len(seen[d]) THEN seen[d][i]
                                            ELSE w[i - Len(seen[d])]
    <3>1. i \in Nat /\ i <= Len(seen[d]) + 1
      BY <2>1
    <3>2. CASE i = Len(seen[d]) + 1
      <4>1. i - Len(seen[d]) = 1 /\ ~(i <= Len(seen[d]))
        BY <2>1, <3>2
      <4>2. QED BY <1>3, <2>1, <3>2, <4>1
    <3>3. CASE i # Len(seen[d]) + 1
      BY <2>1, <3>1, <3>3
    <3>4. QED BY <3>2, <3>3
  <2>3. QED BY <2>1, <2>2
<1>6. 1 \in 1..Len(w) /\ <<>> \in Seq(Nat)
  BY <1>1, EmptySeq
<1> HIDE DEF rest, now
<1>7. QED BY <1>1, <1>2, <1>4, <1>5, <1>6, ReadKeeps

\* poll_events reads all that has arrived.
LEMMA PageDrainKeeps ==
  ASSUME StreamInv, NEW p \in Pages, PageDrain(p)
  PROVE  Keeps(p)
<1> DEFINE w == wire[p]
           now == seen[p] \o w
<1>1. p \in Viewers /\ w \in Seq(Nat) /\ seen[p] \in Seq(Nat)
  <2>1. p \in Viewers
    BY DEF Viewers
  <2>2. QED BY <2>1, OneViewer
<1>2. /\ UNCHANGED <<published, stream, buffer>>
      /\ seen'[p] = now /\ wire'[p] = <<>>
      /\ conn'[p] = conn[p] \/ conn'[p] = "none"
  BY <1>1 DEF PageDrain, handlerVars, StreamInv, Shapes
<1>3. CASE w = <<>>
  <2>1. now = seen[p]
    BY <1>1, <1>3, ConcatEmptySeq
  <2>2. QED BY <1>1, <1>2, <1>3, <2>1, IdleKeeps
<1>4. CASE w # <<>>
  <2>1. /\ Len(w) \in Nat \ {0} /\ Len(w) \in 1..Len(w)
        /\ <<>> \in Seq(Nat) /\ Len(<<>>) = 0
    BY <1>1, <1>4, EmptySeq
  <2>2. /\ now \in Seq(Nat) /\ Len(now) = Len(seen[p]) + Len(w)
        /\ \A i \in 1..Len(now) :
             now[i] = IF i <= Len(seen[p]) THEN seen[p][i]
                                           ELSE w[i - Len(seen[p])]
    BY ZenonT(40), <1>1, ConcatProperties
  <2>3. PICK v \in Seq(Nat) : v = <<>> /\ Len(v) = Len(w) - Len(w)
    <3>1. \A n \in Nat : n - n = 0
      OBVIOUS
    <3>2. QED BY <2>1, <3>1
  <2>4. \A i \in 1..Len(v) : v[i] = w[Len(w) + i]
    BY <2>1, <2>3
  <2> HIDE DEF now
  <2>5. QED BY <1>1, <1>2, <1>4, <2>1, <2>2, <2>3, <2>4, ReadKeeps
<1>5. QED BY <1>3, <1>4

\* The steps of the demo script.
LEMMA DemoKeeps ==
  ASSUME StreamInv, NEW d \in Demos, Demo(d)
  PROVE  \A x \in Viewers : Keeps(x)
<1>1. d \in Viewers
  BY DEF Viewers
<1>2. CASE DemoConnect(d)
  <2>1. Connect(d) /\ UNCHANGED <<published, buffer, seen>>
    BY <1>2 DEF DemoConnect
  <2>2. \A x \in Viewers \ {d} :
          /\ stream'[x] = stream[x] /\ buffer'[x] = buffer[x]
          /\ wire'[x] = wire[x] /\ conn'[x] = conn[x] /\ seen'[x] = seen[x]
    BY <2>1 DEF Connect, StreamInv, Shapes
  <2>3. QED BY <1>1, <2>1, <2>2, ConnectKeeps, OthersKeep
<1>3. CASE DemoReceive(d)
  <2>1. \A x \in Viewers \ {d} :
          /\ stream'[x] = stream[x] /\ buffer'[x] = buffer[x]
          /\ wire'[x] = wire[x] /\ conn'[x] = conn[x] /\ seen'[x] = seen[x]
    BY <1>3 DEF DemoReceive, Hang, handlerVars, StreamInv, Shapes
  <2>2. UNCHANGED published
    BY <1>3 DEF DemoReceive
  <2>3. QED BY <1>1, <1>3, <2>1, <2>2, DemoReceiveKeeps, OthersKeep
<1>4. CASE \/ DemoReadStatus(d) \/ DemoApprove(d) \/ DemoPublish(d)
           \/ DemoPoll(d) \/ DemoDeadline(d) \/ DemoReport(d)
  <2>1. UNCHANGED <<published, stream, buffer, wire, conn, seen>>
    BY <1>4 DEF DemoReadStatus, DemoApprove, DemoPublish, DemoPoll,
                DemoDeadline, DemoReport, DemoStep, handlerVars
  <2>2. QED BY <2>1, BystanderKeeps DEF Sent
<1>5. CASE DemoClosed(d)
  <2>1. /\ \A x \in Viewers \ {d} :
             /\ stream'[x] = stream[x] /\ buffer'[x] = buffer[x]
             /\ wire'[x] = wire[x] /\ conn'[x] = conn[x] /\ seen'[x] = seen[x]
        /\ UNCHANGED <<published, stream, buffer, seen>>
        /\ conn'[d] = "none" /\ wire[d] = <<>> /\ wire'[d] = wire[d]
    BY <1>1, <1>5 DEF DemoClosed, Hang, handlerVars, StreamInv, Shapes
  <2>2. QED BY <1>1, <2>1, IdleKeeps, OthersKeep
<1>6. QED BY <1>2, <1>3, <1>4, <1>5 DEF Demo

\* The steps of the dashboard's page.
LEMMA PageKeeps ==
  ASSUME StreamInv, NEW p \in Pages, PageScript(p) \/ PageReopen(p)
  PROVE  \A x \in Viewers : Keeps(x)
<1>1. p \in Viewers
  BY DEF Viewers
<1>2. CASE PageConnect(p)
  <2>1. Connect(p) /\ UNCHANGED <<published, buffer, seen>>
    BY <1>2 DEF PageConnect
  <2>2. \A x \in Viewers \ {p} :
          /\ stream'[x] = stream[x] /\ buffer'[x] = buffer[x]
          /\ wire'[x] = wire[x] /\ conn'[x] = conn[x] /\ seen'[x] = seen[x]
    BY <2>1 DEF Connect, StreamInv, Shapes
  <2>3. QED BY <1>1, <2>1, <2>2, ConnectKeeps, OthersKeep
<1>3. CASE PageDrain(p)
  <2>1. \A x \in Viewers \ {p} :
          /\ stream'[x] = stream[x] /\ buffer'[x] = buffer[x]
          /\ wire'[x] = wire[x] /\ conn'[x] = conn[x] /\ seen'[x] = seen[x]
    BY <1>3 DEF PageDrain, handlerVars, StreamInv, Shapes
  <2>2. UNCHANGED published
    BY <1>3 DEF PageDrain
  <2>3. QED BY <1>1, <1>3, <2>1, <2>2, PageDrainKeeps, OthersKeep
<1>4. CASE PageLoad(p) \/ PageReopen(p)
  <2>1. UNCHANGED <<published, stream, buffer, wire, conn, seen>>
    BY <1>4 DEF PageLoad, PageReopen, handlerVars
  <2>2. QED BY <2>1, BystanderKeeps DEF Sent
<1>5. QED BY <1>2, <1>3, <1>4 DEF PageScript

-----------------------------------------------------------------------------
(* The invariant of the stream *)

\* The histories are the business of the runs alone.
LEMMA HistoryStands ==
  ASSUME StreamInv, UNCHANGED <<published, lastEvent, redelivered>>
  PROVE  \A b \in Briefs : HistoryAgrees(b)'
BY DEF StreamInv, HistoryAgrees

\* Every step keeps the invariant and is a step, or none, of every feed.
LEMMA StreamStep ==
  ASSUME Known, StoryInv, StreamInv, TypeOK', [StreamNext]_streamVars
  PROVE  StreamInv' /\ \A c \in Viewers : FeedStep(c)
<1> DEFINE Goal == StreamInv' /\ \A c \in Viewers : FeedStep(c)
<1>1. ASSUME Shapes', UNCHANGED <<published, lastEvent, redelivered>>,
             \A c \in Viewers : Keeps(c)
      PROVE  Goal
  <2>1. \A b \in Briefs : HistoryAgrees(b)'
    BY <1>1, HistoryStands
  <2>2. QED BY <1>1, <2>1 DEF StreamInv, Keeps
<1> USE DEF brokerVars
<1>2. ASSUME NEW c \in Viewers, Handler(c) \/ HandlerFails(c) \/ Cut(c)
      PROVE  Goal
  <2>1. UNCHANGED <<published, lastEvent, redelivered>>
    BY <1>2 DEF Handler, SubscribeStream, Forward, HangUp, HandlerFails, Cut, vars
  <2>2. Shapes'
    BY <1>2, HandlerKeepsShapes DEF StreamInv
  <2>3. \A x \in Viewers : Keeps(x)
    BY <1>2, HandlerKeeps
  <2>4. QED BY <1>1, <2>1, <2>2, <2>3
<1>3. ASSUME NEW d \in Demos, Demo(d) PROVE Goal
  <2>1. UNCHANGED <<published, lastEvent, redelivered>>
    BY <1>3 DEF Demo, DemoConnect, DemoReceive, DemoClosed, DemoReadStatus,
                DemoApprove, DemoPublish, DemoPoll, DemoDeadline, DemoReport, DemoStep,
                CheckResume, PublishResume, vars
  <2>2. Shapes'
    BY <1>3, DemoKeepsShapes DEF StreamInv
  <2>3. \A x \in Viewers : Keeps(x)
    BY <1>3, DemoKeeps
  <2>4. QED BY <1>1, <2>1, <2>2, <2>3
<1>4. ASSUME NEW p \in Pages, PageScript(p) \/ PageReopen(p) PROVE Goal
  <2>1. UNCHANGED <<published, lastEvent, redelivered>>
    BY <1>4 DEF PageScript, PageLoad, PageConnect, PageDrain, PageReopen, vars
  <2>2. Shapes'
    BY <1>4, PageKeepsShapes DEF StreamInv
  <2>3. \A x \in Viewers : Keeps(x)
    BY <1>4, PageKeeps
  <2>4. QED BY <1>1, <2>1, <2>2, <2>3
<1>5. CASE UNCHANGED streamVars
  <2>1. UNCHANGED <<published, lastEvent, redelivered, stream, buffer, wire, conn,
                    at, seen, resting, cuts>>
    BY <1>5 DEF streamVars, viewerVars, handlerVars, clientVars, vars
  <2>2. Shapes'
    BY <2>1 DEF StreamInv, Shapes
  <2>3. \A x \in Viewers : Keeps(x)
    BY <2>1, BystanderKeeps DEF Sent
  <2>4. QED BY <1>1, <2>1, <2>2, <2>3
<1>6. CASE System
  BY <1>6, SystemKeeps
<1>7. QED BY <1>2, <1>3, <1>4, <1>5, <1>6 DEF StreamNext

\* Nothing is published, subscribed or seen at first.
LEMMA StreamBegins ==
  ASSUME StreamInit
  PROVE  StreamInv /\ \A c \in Viewers : Feed(c)!Init
<1> USE DEF StreamInit
<1>1. \A S : <<>> \in Seq(S)
  BY EmptySeq
<1>2. Shapes
  <2>1. \E present \in SUBSET Viewers :
          at = [c \in Viewers |-> IF c \in present THEN "connect" ELSE "away"]
    OBVIOUS
  <2>2. cuts \in 0..MaxCuts
    BY ViewersAssumption
  <2>3. QED BY <1>1, <2>1, <2>2 DEF Shapes
<1>3. ASSUME NEW c \in Viewers
      PROVE  FramesKnown(c) /\ FlightAgrees(c) /\ Feed(c)!Init
  <2>1. /\ Sent(c) = 0 /\ buffer[c] = <<>> /\ wire[c] = <<>> /\ seen[c] = <<>>
        /\ conn[c] = "none" /\ stream[c] = "none"
    BY ViewersAssumption, EmptySeq DEF Sent
  <2>2. FramesKnown(c)
    BY <1>1, <2>1 DEF FramesKnown
  <2>3. FlightAgrees(c)
    BY <2>1, FlightEmpty DEF FlightAgrees
  <2>4. Cursor(c) = -1
    BY <2>1 DEF Cursor
  <2>5. QED BY <2>1, <2>2, <2>3, <2>4 DEF Feed!Init, Feed!Off, Sent
<1>4. ASSUME NEW b \in Briefs PROVE HistoryAgrees(b)
  <2>1. published[b] = <<>> /\ lastEvent[b] = "none" /\ Len(published[b]) = 0
    BY EmptySeq DEF Init
  <2>2. QED BY <2>1 DEF HistoryAgrees
<1>5. QED BY <1>2, <1>3, <1>4 DEF StreamInv

\* What is known of the runs holds around the stream.
LEMMA RunsUnderStream == StreamSpec => [](Known /\ StoryInv /\ TypeOK)
BY StreamRefinesRuns, KnownInvariant, StoryInvariant, TypeCorrect, PTL

\* Histories, sockets and wires agree in every behaviour.
LEMMA StreamInvariant == StreamSpec => []StreamInv
<1>1. StreamInit => StreamInv
  BY StreamBegins
<1>2. Known /\ StoryInv /\ StreamInv /\ TypeOK' /\ [StreamNext]_streamVars
        => StreamInv'
  BY StreamStep
<1>3. QED BY <1>1, <1>2, RunsUnderStream, PTL DEF StreamSpec

-----------------------------------------------------------------------------
(* What the runs check *)

\* StreamTypeOK, for every number of viewers, briefs, runs and broken
\* connections: a frame is always an event that was published, and only a
\* subscribed handler has anything in its Redis socket.
THEOREM StreamTyped == StreamSpec => []StreamTypeOK
<1>1. StreamInv => StreamTypeOK
  <2> SUFFICES ASSUME StreamInv PROVE StreamTypeOK
    OBVIOUS
  <2>1. ASSUME NEW c \in Viewers
        PROVE  LET known == 1..Len(published[Watches[c]])
               IN  /\ buffer[c] \in Seq(known)
                   /\ wire[c] \in Seq(known)
                   /\ seen[c] \in Seq(known)
    BY DEF StreamInv, FramesKnown, Sent
  <2>2. ASSUME NEW c \in Viewers PROVE buffer[c] # <<>> => stream[c] = "open"
    BY OneViewer DEF InFlight
  <2>3. QED BY <2>1, <2>2 DEF StreamTypeOK, StreamInv, Shapes
<1>2. QED BY <1>1, StreamInvariant, PTL

\* StreamsImplementFeed, for every number of viewers, briefs and runs: over each
\* connection a viewer is given a gap-free part of the history, nothing twice
\* and nothing out of order (stream_brief subscribes, forwards and unsubscribes
\* one socket per client).
THEOREM FeedsKept == StreamSpec => StreamsImplementFeed
<1>1. StreamInit => \A c \in Viewers : Feed(c)!Init
  BY StreamBegins
<1>2. Known /\ StoryInv /\ StreamInv /\ TypeOK' /\ [StreamNext]_streamVars
        => [\A c \in Viewers : [Feed(c)!Next]_(FeedVars(c))]_streamVars
  BY StreamStep DEF FeedStep
<1>3. QED BY <1>1, <1>2, RunsUnderStream, StreamInvariant, PTL
          DEF StreamSpec, StreamsImplementFeed

-----------------------------------------------------------------------------
(* Inductive invariant: a brief delivered once of which brief_complete was *)
(* ever published is complete for good, its PDF included.                  *)

ToldComplete(b) ==
  \E n \in 1..Len(published[b]) : published[b][n] = "brief_complete"
CompletionStands(b) ==
  redelivered[b] = 0 /\ ToldComplete(b) => completedAt[b] /\ HasPdf(b)

\* No statement of a run takes a PDF away.
LEMMA PdfStays ==
  ASSUME Known, NEW r \in Runs, Progress(r) \/ Raise(r) \/ Crash(r),
         NEW x \in Runs, report[x] \in {"pdf", "emailed"}
  PROVE  report'[x] \in {"pdf", "emailed"}
<1> USE DEF dbVars
<1>1. report \in [Runs -> ReportStates]
  BY DEF Known, RouteInv, TypeOK
<1>2. CASE PersistReport(r)
  <2>1. report[r] = "none"
    BY <1>2 DEF PersistReport, Known, RouteInv, RowsAgree, AfterReport
  <2>2. QED BY <1>1, <1>2, <2>1 DEF PersistReport, ReportStep, ControlStep
<1>3. CASE WritePdf(r)
  <2>1. report' = [report EXCEPT ![target[r]] =
                     IF report[target[r]] = "row" THEN "pdf" ELSE report[target[r]]]
    BY <1>3 DEF WritePdf, ReportStep
  <2>2. QED BY <1>1, <2>1
<1>4. CASE EmailReport(r)
  BY <1>1, <1>4 DEF EmailReport, ReportStep
<1>5. CASE \/ SetPlanning(r) \/ Plan(r) \/ SetAwaitingReview(r)
           \/ SetComplete(r) \/ MarkFailed(r)
  BY <1>5 DEF SetPlanning, Plan, SetAwaitingReview, SetComplete, MarkFailed,
              StatusStep
<1>6. CASE LoadBrief(r) \/ Subscribe(r) \/ CloseConnection(r)
  BY <1>6 DEF LoadBrief, Subscribe, CloseConnection, ControlStep
<1>7. CASE TracePlan(r) \/ Research(r)
  BY <1>7 DEF TracePlan, Research, TraceStep
<1>8. CASE \/ HumanReview(r) \/ PublishResumed(r) \/ PublishReportReady(r)
           \/ PublishComplete(r) \/ PublishFailed(r) \/ RerunHumanReview(r)
           \/ PublishPlan(r) \/ PublishResearch(r)
  BY <1>8 DEF HumanReview, PublishResumed, PublishReportReady, PublishComplete,
              PublishFailed, RerunHumanReview, PublishPlan, PublishResearch,
              EventStep
<1>9. CASE ReceiveResume(r) \/ ReviewTimeout(r)
  BY <1>9 DEF ReceiveResume, ReviewTimeout, WaitReturns
<1>10. CASE IndexBrief(r) \/ LoadReport(r)
  BY <1>10 DEF IndexBrief, LoadReport
<1>11. CASE Raise(r) \/ Crash(r)
  BY <1>11 DEF Raise, Crash, Leave
<1>12. QED BY <1>2, <1>3, <1>4, <1>5, <1>6, <1>7, <1>8, <1>9, <1>10, <1>11
           DEF Progress

\* ... nor the time of completion.
LEMMA CompletedStays ==
  ASSUME Known, NEW r \in Runs, Progress(r) \/ Raise(r) \/ Crash(r),
         NEW b \in Briefs, completedAt[b]
  PROVE  completedAt'[b]
<1> USE DEF dbVars
<1>1. completedAt \in [Briefs -> BOOLEAN]
  BY DEF Known, RouteInv, TypeOK
<1>2. ASSUME NEW from, NEW s, NEW next, StatusStep(r, from, s, next)
      PROVE  completedAt'[b]
  <2>1. completedAt' = [completedAt EXCEPT ![job[r]] =
                          completedAt[job[r]] \/ (s = "complete" /\ Exists(job[r]))]
    BY <1>2 DEF StatusStep
  <2>2. QED BY <1>1, <2>1
<1>3. CASE \/ SetPlanning(r) \/ Plan(r) \/ SetAwaitingReview(r)
           \/ SetComplete(r) \/ MarkFailed(r)
  BY <1>2, <1>3 DEF SetPlanning, Plan, SetAwaitingReview, SetComplete, MarkFailed
<1>4. CASE PersistReport(r) \/ WritePdf(r) \/ EmailReport(r)
  BY <1>4 DEF PersistReport, WritePdf, EmailReport, ReportStep, ControlStep
<1>5. CASE LoadBrief(r) \/ Subscribe(r) \/ CloseConnection(r)
  BY <1>5 DEF LoadBrief, Subscribe, CloseConnection, ControlStep
<1>6. CASE TracePlan(r) \/ Research(r)
  BY <1>6 DEF TracePlan, Research, TraceStep
<1>7. CASE \/ HumanReview(r) \/ PublishResumed(r) \/ PublishReportReady(r)
           \/ PublishComplete(r) \/ PublishFailed(r) \/ RerunHumanReview(r)
           \/ PublishPlan(r) \/ PublishResearch(r)
  BY <1>7 DEF HumanReview, PublishResumed, PublishReportReady, PublishComplete,
              PublishFailed, RerunHumanReview, PublishPlan, PublishResearch,
              EventStep
<1>8. CASE ReceiveResume(r) \/ ReviewTimeout(r)
  BY <1>8 DEF ReceiveResume, ReviewTimeout, WaitReturns
<1>9. CASE IndexBrief(r) \/ LoadReport(r)
  BY <1>9 DEF IndexBrief, LoadReport
<1>10. CASE Raise(r) \/ Crash(r)
  BY <1>10 DEF Raise, Crash, Leave
<1>11. QED BY <1>3, <1>4, <1>5, <1>6, <1>7, <1>8, <1>9, <1>10 DEF Progress

\* Completion, PDF and the count of deliveries only grow.
LEMMA DeliveredStays ==
  ASSUME Known, [Next]_vars, NEW b \in Briefs
  PROVE  /\ completedAt[b] => completedAt'[b]
         /\ HasPdf(b) => HasPdf(b)'
         /\ redelivered'[b] = 0 => redelivered[b] = 0
<1> USE DEF dbVars, apiVars, brokerVars, runVars
<1>1. ASSUME UNCHANGED <<completedAt, report, job>>
      PROVE  /\ completedAt[b] => completedAt'[b]
             /\ HasPdf(b) => HasPdf(b)'
  BY <1>1 DEF HasPdf, ReportsOf
<1>2. CASE Api
  <2>1. UNCHANGED <<completedAt, report, job, redelivered>>
    BY <1>2 DEF Api, CreateBrief, EnqueueBrief, EnqueueFails, DeleteBrief,
                CheckResume, PublishResume
  <2>2. QED BY <1>1, <2>1
<1>3. ASSUME NEW x \in Briefs, Redeliver(x)
      PROVE  /\ UNCHANGED <<completedAt, report, job>>
             /\ redelivered'[b] = 0 => redelivered[b] = 0
  BY <1>3, BoundsAssumption DEF Redeliver, Known, RouteInv, TypeOK
<1>4. ASSUME NEW x \in Briefs, NEW r \in Runs, Accept(r, x)
      PROVE  /\ UNCHANGED <<completedAt, redelivered>>
             /\ HasPdf(b) => HasPdf(b)'
  <2>1. /\ report[r] = "none" /\ report' = report
        /\ \A y \in Runs \ {r} : job'[y] = job[y]
        /\ UNCHANGED <<completedAt, redelivered>>
    BY <1>4 DEF Accept, Known, RouteInv, RowsAgree, AfterReport, TypeOK
  <2>2. \A y \in ReportsOf(b) : y \in ReportsOf(b)'
    BY <2>1 DEF ReportsOf
  <2>3. QED BY <2>1, <2>2 DEF HasPdf
<1>5. ASSUME NEW r \in Runs, Progress(r) \/ Raise(r) \/ Crash(r)
      PROVE  /\ completedAt[b] => completedAt'[b]
             /\ HasPdf(b) => HasPdf(b)'
             /\ UNCHANGED redelivered
  <2>1. UNCHANGED <<job, redelivered>>
    BY <1>5, WorkerMoves DEF Known, RouteInv
  <2>2. ASSUME HasPdf(b) PROVE HasPdf(b)'
    <3>1. PICK x \in ReportsOf(b) : report[x] \in {"pdf", "emailed"}
      BY <2>2 DEF HasPdf
    <3>2. x \in Runs /\ job[x] = b
      BY DEF ReportsOf
    <3>3. report'[x] \in {"pdf", "emailed"}
      BY <1>5, <3>1, <3>2, PdfStays
    <3>4. x \in ReportsOf(b)'
      BY <2>1, <3>2, <3>3 DEF ReportsOf
    <3>5. QED BY <3>3, <3>4 DEF HasPdf
  <2>3. QED BY <1>5, <2>1, <2>2, CompletedStays
<1>6. CASE UNCHANGED vars
  BY <1>1, <1>6 DEF vars
<1>7. QED BY <1>1, <1>2, <1>3, <1>4, <1>5, <1>6 DEF Next, Broker, Worker

\* Only the runs write the history, one event at a time.
LEMMA HistoryGrows ==
  ASSUME StreamInv, TypeOK', [StreamNext]_streamVars, NEW b \in Briefs,
         ToldComplete(b)'
  PROVE  ToldComplete(b) \/ lastEvent'[b] = "brief_complete"
<1>1. CASE UNCHANGED published
  BY <1>1 DEF ToldComplete
<1>2. ASSUME NEW r \in Runs, Publish(r)
      PROVE  ToldComplete(b) \/ lastEvent'[b] = "brief_complete"
  <2>1. published' = [published EXCEPT ![job[r]] = Append(@, lastEvent'[job[r]])]
    BY <1>2 DEF Publish
  <2>2. published \in [Briefs -> Seq(Events)] /\ lastEvent'[b] \in Events
    BY DEF StreamInv, Shapes, TypeOK
  <2>3. CASE job[r] # b
    BY <2>1, <2>2, <2>3 DEF ToldComplete
  <2>4. CASE job[r] = b
    <3>1. /\ published[b] \in Seq(Events)
          /\ published'[b] = Append(published[b], lastEvent'[b])
      BY <2>1, <2>2, <2>4
    <3>2. /\ Len(published[b]) \in Nat
          /\ Len(published'[b]) = Len(published[b]) + 1
          /\ \A i \in 1..Len(published'[b]) :
               published'[b][i] = IF i = Len(published[b]) + 1 THEN lastEvent'[b]
                                                              ELSE published[b][i]
      BY <2>2, <3>1, AppendProperties, LenProperties
    <3>3. PICK n \in 1..Len(published'[b]) : published'[b][n] = "brief_complete"
      BY DEF ToldComplete
    <3>4. n = Len(published[b]) + 1 \/ n \in 1..Len(published[b])
      BY <3>2
    <3>5. QED BY <3>2, <3>3, <3>4 DEF ToldComplete
  <2>5. QED BY <2>3, <2>4
<1>3. UNCHANGED published \/ \E r \in Runs : Publish(r)
  <2>1. CASE System
    BY <2>1 DEF System, Deliver
  <2>2. ASSUME NEW c \in Viewers, Handler(c) \/ HandlerFails(c) \/ Cut(c)
        PROVE  UNCHANGED published
    BY <2>2 DEF Handler, SubscribeStream, Forward, HangUp, HandlerFails, Cut
  <2>3. ASSUME NEW d \in Demos, Demo(d) PROVE UNCHANGED published
    BY <2>3 DEF Demo, DemoConnect, DemoReceive, DemoClosed, DemoReadStatus,
                DemoApprove, DemoPublish, DemoPoll, DemoDeadline, DemoReport,
                DemoStep
  <2>4. ASSUME NEW p \in Pages, PageScript(p) \/ PageReopen(p)
        PROVE  UNCHANGED published
    BY <2>4 DEF PageScript, PageLoad, PageConnect, PageDrain, PageReopen
  <2>5. QED BY <2>1, <2>2, <2>3, <2>4 DEF StreamNext, streamVars
<1>4. QED BY <1>1, <1>2, <1>3

\* What is known of the runs and of the stream holds together.
LEMMA StreamKnown ==
  StreamSpec => [](Known /\ StreamInv /\ TypeOK /\ EventsTellTheTruth)
BY StreamRefinesRuns, StreamInvariant, KnownInvariant, TypeCorrect,
   EventsAreTrue, PTL

CompletionsStand == \A b \in Briefs : CompletionStands(b)

\* No step takes back a completion that was announced.
LEMMA CompletionStep ==
  Known /\ StreamInv /\ TypeOK' /\ EventsTellTheTruth' /\ CompletionsStand
  /\ [StreamNext]_streamVars /\ [Next]_vars
    => CompletionsStand'
<1>1. SUFFICES ASSUME Known, StreamInv, TypeOK', EventsTellTheTruth',
                      CompletionsStand, [StreamNext]_streamVars, [Next]_vars,
                      NEW b \in Briefs, redelivered'[b] = 0, ToldComplete(b)'
               PROVE  (completedAt[b] /\ HasPdf(b))'
  BY DEF CompletionsStand, CompletionStands
<1>2. redelivered[b] = 0
  BY <1>1, DeliveredStays
<1>3. CASE ToldComplete(b)
  <2>1. completedAt[b] /\ HasPdf(b)
    BY <1>1, <1>2, <1>3 DEF CompletionsStand, CompletionStands
  <2>2. QED BY <1>1, <2>1, DeliveredStays
<1>4. CASE lastEvent'[b] = "brief_complete"
  BY <1>1, <1>4 DEF EventsTellTheTruth, HasPdf
<1>5. QED BY <1>1, <1>3, <1>4, HistoryGrows

\* A completion that was announced stands in every behaviour.
LEMMA CompletionInvariant == StreamSpec => []CompletionsStand
<1>1. StreamInit => CompletionsStand
  BY EmptySeq DEF StreamInit, CompletionsStand, CompletionStands, ToldComplete
<1>2. StreamSpec => [][Next]_vars
  BY StreamRefinesRuns, PTL DEF Spec
<1>3. QED BY <1>1, <1>2, CompletionStep, StreamKnown, PTL DEF StreamSpec

-----------------------------------------------------------------------------
(* What a viewer was told *)

\* What ViewersToldTheTruth says of viewer c of a brief delivered once.
ToldTruth(c) ==
  /\ Heard(c, "brief_complete") =>
       /\ HasPdf(Watches[c])
       /\ \/ status[Watches[c]] = "complete"
          \/ /\ status[Watches[c]] = "failed"
             /\ \/ lastEvent[Watches[c]] = "brief_failed"
                \/ Failing(Watches[c])
  /\ Heard(c, "brief_failed") =>
       status[Watches[c]] \in {"failed", "deleted"}

\* ViewersToldTheTruth, for every number of viewers, briefs and runs: what a
\* viewer has read of the end of a brief delivered once is true of its rows
\* (tasks.py publishes brief_complete and brief_failed after its commits), up to
\* the failure of the statement that told it.
THEOREM ViewersTold == StreamSpec => []ViewersToldTheTruth
<1>1. Known /\ StreamInv /\ EventsTellTheTruth /\ CompletionsStand
        => ViewersToldTheTruth
  <2> SUFFICES ASSUME Known, StreamInv, EventsTellTheTruth, CompletionsStand,
                      NEW c \in Viewers, redelivered[Watches[c]] = 0
               PROVE  ToldTruth(c)
    BY DEF ViewersToldTheTruth, ToldTruth
  <2> DEFINE b == Watches[c]
  <2>1. b \in Briefs
    BY ViewersAssumption
  <2>2. ASSUME NEW e, Heard(c, e)
        PROVE  \E n \in 1..Len(published[b]) : published[b][n] = e
    <3>1. PICK i \in 1..Len(seen[c]) : EventOf(c, seen[c][i]) = e
      BY <2>2 DEF Heard
    <3>2. seen[c] \in Seq(1..Len(published[b]))
      BY OneViewer DEF Sent
    <3>3. PICK n \in 1..Len(published[b]) : n = seen[c][i]
      BY <3>1, <3>2, ElementOfSeq
    <3>4. QED BY <3>1, <3>3 DEF EventOf
  <2>3. ASSUME NEW n \in 1..Len(published[b]),
               published[b][n] \in {"brief_complete", "brief_failed"}
        PROVE  \/ lastEvent[b] = "brief_failed"
               \/ published[b][n] = "brief_complete" /\ lastEvent[b] = "brief_complete"
    <3>1. published[b] # <<>>
      <4>1. 1..Len(<<>>) = {}
        BY EmptySeq
      <4>2. QED BY <2>3, <4>1
    <3>2. published[b][Len(published[b])] = lastEvent[b]
      BY <2>1, <3>1 DEF StreamInv, HistoryAgrees
    <3>3. n = Len(published[b]) \/ lastEvent[b] = "brief_failed"
      BY <2>1, <2>3 DEF StreamInv, HistoryAgrees
    <3>4. QED BY <2>3, <3>2, <3>3
  <2>4. /\ lastEvent[b] = "brief_complete" =>
             status[b] = "complete" \/ (status[b] = "failed" /\ Failing(b))
        /\ lastEvent[b] = "brief_failed" => status[b] \in {"failed", "deleted"}
    BY <2>1 DEF EventsTellTheTruth
  <2>5. ASSUME Heard(c, "brief_complete")
        PROVE  /\ HasPdf(b)
               /\ \/ status[b] = "complete"
                  \/ /\ status[b] = "failed"
                     /\ lastEvent[b] = "brief_failed" \/ Failing(b)
    <3>1. ToldComplete(b)
      BY <2>2, <2>5 DEF ToldComplete
    <3>2. completedAt[b] /\ HasPdf(b)
      BY <2>1, <3>1 DEF CompletionsStand, CompletionStands
    <3>3. status[b] # "deleted"
      BY <2>1, <3>2 DEF Known, CompletedHasReport, Exists
    <3>4. lastEvent[b] \in {"brief_complete", "brief_failed"}
      BY <2>3, <3>1 DEF ToldComplete
    <3>5. QED BY <2>4, <3>2, <3>3, <3>4
  <2>6. ASSUME Heard(c, "brief_failed") PROVE status[b] \in {"failed", "deleted"}
    <3>1. lastEvent[b] = "brief_failed"
      BY <2>2, <2>3, <2>6
    <3>2. QED BY <2>4, <3>1
  <2>7. QED BY <2>5, <2>6 DEF ToldTruth
<1>2. QED BY <1>1, StreamKnown, CompletionInvariant, PTL

=============================================================================
