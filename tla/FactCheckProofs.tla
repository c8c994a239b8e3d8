--------------------------- MODULE FactCheckProofs ---------------------------
(* Proofs about FactCheck, for every number of claims, every set of *)
(* confidences and every number of retries.                         *)
EXTENDS FactCheck, FiniteSetTheorems, TLAPS

\* A call that sleeps has attempts left.
CallsAgree == \A i \in Numbers :
  call[i].at = "sleeping" => call[i].attempt < MAX_RETRIES - 1

\* Claims pass the loop in their order, after all checks have answered.
InLoop == {"defense", "verdict", "debated", "judged", "disputed", "sorted", "stored"}
OrderAgrees ==
  \A i \in Numbers : stage[i] \in InLoop =>
    /\ \A j \in Numbers : stage[j] # "check"
    /\ \A j \in 1..i - 1 : stage[j] = "stored"

\* The debate's traces say what the loop made of claim i, and its flags say it
\* up to the one value that rounding lifts.
DebateAgrees(i) ==
  /\ enriched[i].debated <=> HasTrace(i, "debate_defense")
  /\ enriched[i].debated =>
       /\ \/ enriched[i].confidence = 1000 /\ ~HasTrace(i, "debate_verdict")
          \/ \E t \in traces : /\ t.of = i /\ t.type = "debate_verdict"
                               /\ Rounded(t.confidence) = enriched[i].confidence
       /\ enriched[i].verified => enriched[i].confidence >= VERIFIED_THRESHOLD
       /\ enriched[i].disputed => enriched[i].confidence <= VERIFIED_THRESHOLD

\* The lists have claim i where its confidence says.
ListsAgree(i) ==
  IF enriched[i].confidence >= VERIFIED_THRESHOLD
  THEN i \in verified_claims /\ i \notin disputed_claims
  ELSE i \in disputed_claims /\ i \notin verified_claims

\* What has been published about claim i, stage by stage.
Told(i, event) == EventOf(i, event) \in announced
EventsAgree(i) ==
  /\ Told(i, "debate_resolved") <=>
       stage[i] \in {"judged", "disputed", "sorted", "stored"} /\ enriched[i].debated
  /\ Told(i, "claim_disputed") <=>
       stage[i] \in {"sorted", "stored"} /\ i \in disputed_claims

\* What has been left behind of claim i, stage by stage.
Untouched(i) == i \notin rows \cup verified_claims \cup disputed_claims
ClaimAgrees(i) ==
  /\ stage[i] \notin {"disputed", "sorted", "stored"} => Untouched(i)
  /\ stage[i] \in {"check", "checked", "defense"} =>
       ~HasTrace(i, "debate_defense") /\ ~HasTrace(i, "debate_verdict")
  /\ stage[i] = "verdict" =>
       HasTrace(i, "debate_defense") /\ ~HasTrace(i, "debate_verdict")
  /\ stage[i] = "debated" => enriched[i].debated
  /\ stage[i] \in {"debated", "judged", "disputed", "sorted", "stored"} =>
       DebateAgrees(i)
  /\ stage[i] \in {"disputed", "sorted", "stored"} => ListsAgree(i)
  /\ stage[i] = "disputed" => i \in disputed_claims
  /\ stage[i] \in {"disputed", "sorted"} => i \notin rows
  /\ stage[i] = "stored" => i \in rows /\ HasTrace(i, "fact_checker")
  /\ EventsAgree(i)

CheckInv == /\ CheckTypeOK /\ CallsAgree /\ OrderAgrees
            /\ \A i \in Numbers : ClaimAgrees(i)

-----------------------------------------------------------------------------
(* Arithmetic, delays and the states of a call *)

\* The confidences that occur in the code are on the scale.
LEMMA OnScale ==
  /\ Confidences \subseteq Scale
  /\ {0, 1000, 2000, 3000, 5000} \subseteq Scale
  /\ \A x \in Scale : x \in Int /\ Rounded(x) \in Scale
  /\ \A x, y \in Scale : (x + y) \div 2 \in Scale
<1>1. \A x \in Scale : x \in Int /\ 0 <= x /\ x <= One
  <2>1. One \in Int
    BY DEF One
  <2>2. QED BY <2>1 DEF Scale
<1>2. ASSUME NEW x \in Int, 0 <= x, x <= One PROVE x \in Scale
  <2>1. One \in Int
    BY DEF One
  <2>2. QED BY <1>2, <2>1 DEF Scale
<1>3. {0, 1000, 2000, 3000, 5000} \subseteq Scale
  <2>1. 0 <= One /\ 1000 <= One /\ 2000 <= One /\ 3000 <= One /\ 5000 <= One
    BY DEF One
  <2>2. QED BY <1>2, <2>1
<1>4. ASSUME NEW x \in Scale PROVE Rounded(x) \in Scale
  <2>1. x \in Int /\ 0 <= x /\ x <= 10000
    BY <1>1 DEF One
  <2>2. Rounded(x) \in Int /\ 0 <= Rounded(x) /\ Rounded(x) <= 10000
    BY <2>1 DEF Rounded
  <2>3. QED BY <1>2, <2>2 DEF One
<1>5. ASSUME NEW x \in Scale, NEW y \in Scale PROVE (x + y) \div 2 \in Scale
  <2>1. PICK s \in Int : s = x + y /\ 0 <= s /\ s <= 20000
    BY <1>1 DEF One
  <2>2. s \div 2 \in Int /\ 0 <= s \div 2 /\ s \div 2 <= 10000
    BY <2>1
  <2>3. QED BY <1>2, <2>1, <2>2 DEF One
<1>6. Confidences \subseteq Scale
  BY ConfidencesAssumption
<1>7. QED BY <1>1, <1>3, <1>4, <1>5, <1>6

\* round(x, 3) moves nothing across the threshold, but to it.
LEMMA RoundedSides ==
  ASSUME NEW x \in Scale
  PROVE  /\ x >= VERIFIED_THRESHOLD => Rounded(x) >= VERIFIED_THRESHOLD
         /\ x < VERIFIED_THRESHOLD => Rounded(x) <= VERIFIED_THRESHOLD
<1>1. x \in Int
  BY OnScale
<1>2. QED BY <1>1 DEF Rounded, VERIFIED_THRESHOLD

\* A claim's confidence, with a default.
LEMMA ConfidenceTyped ==
  ASSUME NEW c \in ClaimRecords, NEW d \in Scale
  PROVE  ConfidenceOr(c, d) \in Scale
<1>1. c.confidence \in Confidences \cup {Missing}
  BY DEF ClaimRecords
<1>2. CASE c.confidence = Missing
  BY <1>2 DEF ConfidenceOr
<1>3. CASE c.confidence # Missing
  BY <1>1, <1>3, OnScale DEF ConfidenceOr
<1>4. QED BY <1>2, <1>3

\* A debate ends at a confidence.
LEMMA OutcomesBounded ==
  ASSUME NEW c \in ClaimRecords
  PROVE  DebateOutcomes(c) \subseteq Scale
<1> DEFINE original == ConfidenceOr(c, 5000)
<1>1. original \in Scale
  BY ConfidenceTyped, OnScale
<1>2. DebateOutcomes(c) =
        {original} \cup Confidences
          \cup {(original + x) \div 2 : x \in Confidences \cup {3000}}
  BY DEF DebateOutcomes
<1> HIDE DEF original
<1>3. QED BY <1>1, <1>2, OnScale

\* One more doubling.
LEMMA DoubledAgain ==
  ASSUME NEW delay \in Nat \ {0}, NEW n \in Nat, Doubled(delay, n)
  PROVE  Doubled(2 * delay, n + 1)
<1>1. PICK d \in [0..n -> 1..delay] :
        d[0] = 1 /\ d[n] = delay /\ \A k \in 1..n : d[k] = 2 * d[k - 1]
  BY DEF Doubled
<1> DEFINE e == [k \in 0..n + 1 |-> IF k = n + 1 THEN 2 * delay ELSE d[k]]
<1>2. e \in [0..n + 1 -> 1..2 * delay]
  <2>1. \A k \in 0..n + 1 : k # n + 1 => k \in 0..n
    OBVIOUS
  <2>2. \A k \in 0..n : d[k] \in 1..2 * delay
    <3>1. \A k \in 0..n : d[k] \in 1..delay
      BY <1>1
    <3>2. QED BY <3>1
  <2>3. QED BY <2>1, <2>2
<1>3. e[0] = 1 /\ e[n + 1] = 2 * delay
  BY <1>1
<1>4. \A k \in 1..n + 1 : e[k] = 2 * e[k - 1]
  <2>1. ASSUME NEW k \in 1..n + 1 PROVE e[k] = 2 * e[k - 1]
    <3>1. CASE k = n + 1
      BY <1>1, <3>1
    <3>2. CASE k # n + 1
      <4>1. k \in 1..n /\ k \in 0..n + 1 /\ k - 1 \in 0..n + 1 /\ k - 1 # n + 1
        BY <3>2
      <4>2. QED BY <1>1, <3>2, <4>1
    <3>3. QED BY <3>1, <3>2
  <2>2. QED BY <2>1
<1>5. QED BY <1>2, <1>3, <1>4 DEF Doubled

\* A new call has not slept.
LEMMA NewCallTyped == NewCall \in CallStates /\ Doubled(NewCall.delay, NewCall.attempt)
<1>1. NewCall \in CallStates
  BY RetriesAssumption DEF NewCall, CallStates
<1> DEFINE d == [k \in 0..0 |-> 1]
<1>2. /\ d \in [0..0 -> 1..1] /\ d[0] = 1
      /\ \A k \in 1..0 : d[k] = 2 * d[k - 1]
  OBVIOUS
<1>3. Doubled(1, 0)
  BY <1>2, Zenon DEF Doubled
<1>4. QED BY <1>1, <1>3 DEF NewCall

-----------------------------------------------------------------------------
(* One step of one claim *)

\* A claim stays as it is if nothing of its own changes.
LEMMA ClaimKept ==
  ASSUME NEW j \in Numbers, ClaimAgrees(j),
         stage'[j] = stage[j], enriched'[j] = enriched[j],
         j \in rows' <=> j \in rows,
         j \in verified_claims' <=> j \in verified_claims,
         j \in disputed_claims' <=> j \in disputed_claims,
         \A event : Told(j, event)' <=> Told(j, event),
         \A t : t.of = j => (t \in traces' <=> t \in traces)
  PROVE  ClaimAgrees(j)'
<1>1. \A type : HasTrace(j, type)' <=> HasTrace(j, type)
  BY DEF HasTrace
<1>2. Untouched(j)' <=> Untouched(j)
  BY DEF Untouched
<1>3. ListsAgree(j)' <=> ListsAgree(j)
  BY DEF ListsAgree
<1>4. DebateAgrees(j)' <=> DebateAgrees(j)
  BY <1>1 DEF DebateAgrees
<1>5. EventsAgree(j)' <=> EventsAgree(j)
  BY DEF EventsAgree
<1>6. QED BY <1>1, <1>2, <1>3, <1>4, <1>5 DEF ClaimAgrees

\* A claim in the loop moves on in its turn: the order stays.
LEMMA OrderKept ==
  ASSUME OrderAgrees, stage \in [Numbers -> Stages],
         NEW i \in Numbers, NEW label \in InLoop, Goto(i, label),
         \A j \in Numbers : stage[j] # "check",
         \A j \in 1..i - 1 : stage[j] = "stored",
         stage[i] # "stored"
  PROVE  OrderAgrees'
<1>1. \A j \in Numbers : stage'[j] = IF j = i THEN label ELSE stage[j]
  BY DEF Goto
<1>2. label # "check"
  BY DEF InLoop
<1>3. \A k \in Numbers : \A j \in 1..k - 1 : j \in Numbers /\ j < k
  BY SizeAssumption DEF Numbers
<1>4. ASSUME NEW k \in Numbers, stage'[k] \in InLoop
      PROVE  /\ \A j \in Numbers : stage'[j] # "check"
             /\ \A j \in 1..k - 1 : stage'[j] = "stored"
  <2>1. \A j \in Numbers : stage'[j] # "check"
    BY <1>1, <1>2
  <2>2. CASE k = i
    <3>1. \A j \in 1..i - 1 : j \in Numbers /\ j # i
      BY <1>3
    <3>2. QED BY <1>1, <2>1, <2>2, <3>1
  <2>3. CASE k # i
    <3>1. stage[k] \in InLoop /\ \A j \in 1..k - 1 : stage[j] = "stored"
      BY <1>1, <1>4, <2>3 DEF OrderAgrees
    <3>2. \A j \in 1..k - 1 : j # i
      BY <3>1
    <3>3. QED BY <1>1, <1>3, <2>1, <3>1, <3>2
  <2>4. QED BY <2>2, <2>3
<1>5. QED BY <1>4 DEF OrderAgrees

\* The claim whose stage is in the loop is at its turn.
LEMMA InTurn ==
  ASSUME OrderAgrees, NEW i \in Numbers, stage[i] \in InLoop
  PROVE  /\ \A j \in Numbers : stage[j] # "check"
         /\ \A j \in 1..i - 1 : stage[j] = "stored"
BY DEF OrderAgrees

\* Before the first answer nothing is judged, listed or stored.
LEMMA CheckInit == Init => CheckInv
<1> SUFFICES ASSUME Init PROVE CheckInv
  OBVIOUS
<1>1. CheckTypeOK
  <2>1. NoVerdict \in Verdicts /\ NoOutcome \in Outcomes
    BY OnScale DEF NoVerdict, NoOutcome, Verdicts, Outcomes
  <2>2. \A i \in Numbers : Doubled(call[i].delay, call[i].attempt)
    BY NewCallTyped DEF Init
  <2>3. QED BY <2>1, <2>2, NewCallTyped DEF Init, CheckTypeOK, Stages, Calling
<1>2. CallsAgree
  BY DEF Init, CallsAgree, NewCall
<1>3. OrderAgrees
  BY DEF Init, OrderAgrees, InLoop
<1>4. \A i \in Numbers : ClaimAgrees(i)
  BY DEF Init, ClaimAgrees, EventsAgree, Told, Untouched, HasTrace
<1>5. QED BY <1>1, <1>2, <1>3, <1>4 DEF CheckInv

\* A step of a model call leaves everything else alone.
LEMMA CallStep ==
  ASSUME CheckInv, NEW i \in Numbers, NEW new \in CallStates,
         Doubled(new.delay, new.attempt),
         new.at = "sleeping" => new.attempt < MAX_RETRIES - 1,
         call' = [call EXCEPT ![i] = new],
         UNCHANGED <<claims, stage, verdict, enriched, loopVars, dbVars, result>>
  PROVE  CheckInv'
<1> USE DEF CheckInv, loopVars, dbVars
<1>1. \A j \in Numbers : call'[j] = IF j = i THEN new ELSE call[j]
  BY DEF CheckTypeOK
<1>2. CheckTypeOK'
  <2>1. call' \in [Numbers -> CallStates]
    BY DEF CheckTypeOK
  <2>2. (\A j \in Numbers : Doubled(call[j].delay, call[j].attempt))'
    BY <1>1 DEF CheckTypeOK
  <2>3. QED BY <2>1, <2>2 DEF CheckTypeOK
<1>3. CallsAgree'
  BY <1>1 DEF CallsAgree
<1>4. OrderAgrees'
  BY DEF OrderAgrees
<1>5. (\A j \in Numbers : ClaimAgrees(j))'
  <2>1. ASSUME NEW j \in Numbers PROVE ClaimAgrees(j)'
    BY ClaimKept DEF Told
  <2>2. QED BY <2>1
<1>6. QED BY <1>2, <1>3, <1>4, <1>5

\* A rate limit puts a call to sleep or, at the last attempt, raises.
LEMMA ProviderBusyStep ==
  ASSUME CheckInv, NEW i \in Numbers, ProviderBusy(i)
  PROVE  CheckInv'
<1>1. call[i] \in CallStates /\ Doubled(call[i].delay, call[i].attempt)
  BY DEF CheckInv, CheckTypeOK
<1>2. ASSUME NEW error \in {RateLimited(call[i]), Refused(call[i])}
      PROVE  /\ error \in CallStates
             /\ error.delay = call[i].delay /\ error.attempt = call[i].attempt
             /\ error.at = "sleeping" => error.attempt < MAX_RETRIES - 1
  BY <1>1, RetriesAssumption DEF CallStates, RateLimited, Refused
<1>3. PICK error \in {RateLimited(call[i]), Refused(call[i])} :
        call' = [call EXCEPT ![i] = error]
  BY DEF ProviderBusy
<1>4. QED BY <1>1, <1>2, <1>3, CallStep DEF ProviderBusy

\* A call that has slept tries again.
LEMMA WakeStep ==
  ASSUME CheckInv, NEW i \in Numbers, Wake(i)
  PROVE  CheckInv'
<1>1. /\ call[i] \in CallStates /\ Doubled(call[i].delay, call[i].attempt)
      /\ call[i].attempt < MAX_RETRIES - 1
  BY DEF CheckInv, CheckTypeOK, CallsAgree, Wake
<1> DEFINE new == AskAgain(call[i])
<1>2. /\ new \in CallStates /\ new.at # "sleeping"
      /\ new.delay = 2 * call[i].delay /\ new.attempt = call[i].attempt + 1
  BY <1>1, RetriesAssumption DEF CallStates, AskAgain
<1>3. Doubled(new.delay, new.attempt)
  BY <1>1, <1>2, DoubledAgain DEF CallStates
<1>4. call' = [call EXCEPT ![i] = new]
  BY DEF Wake
<1> HIDE DEF new
<1>5. QED BY <1>2, <1>3, <1>4, CallStep DEF Wake

\* A step of claim i: the other claims see none of it.
LEMMA ClaimStep ==
  ASSUME CheckInv, NEW i \in Numbers, NEW label, Goto(i, label),
         CheckTypeOK', CallsAgree', OrderAgrees', ClaimAgrees(i)',
         \A j \in Numbers : j # i =>
           /\ enriched'[j] = enriched[j]
           /\ j \in rows' <=> j \in rows
           /\ j \in verified_claims' <=> j \in verified_claims
           /\ j \in disputed_claims' <=> j \in disputed_claims
           /\ \A event : Told(j, event)' <=> Told(j, event),
         \A t : t.of # i => (t \in traces' <=> t \in traces)
  PROVE  CheckInv'
<1>1. ASSUME NEW j \in Numbers, j # i PROVE ClaimAgrees(j)'
  <2>1. ClaimAgrees(j) /\ stage'[j] = stage[j]
    BY <1>1 DEF CheckInv, CheckTypeOK, Goto
  <2>2. \A t : t.of = j => (t \in traces' <=> t \in traces)
    BY <1>1
  <2>3. QED BY <1>1, <2>1, <2>2, ClaimKept
<1>2. (\A j \in Numbers : ClaimAgrees(j))'
  BY <1>1
<1>3. QED BY <1>2 DEF CheckInv

\* The answer to a check is kept until the loop comes to its claim.
LEMMA AnswerCheckStep ==
  ASSUME CheckInv, NEW i \in Numbers, AnswerCheck(i)
  PROVE  CheckInv'
<1>1. stage[i] = "check" /\ Goto(i, "checked")
  BY DEF AnswerCheck, Asking
<1>2. PICK v \in Answers \cup {Unparseable(claims[i])} :
        verdict' = [verdict EXCEPT ![i] = v]
  BY DEF AnswerCheck
<1>3. UNCHANGED <<claims, call, enriched, verified_claims, disputed_claims,
                  announced, rows, traces, result>>
  BY DEF AnswerCheck, loopVars, dbVars
<1>4. v \in Verdicts
  <2>1. CASE v \in Answers
    BY <2>1, OnScale DEF Answers, Verdicts
  <2>2. CASE v = Unparseable(claims[i])
    <3>1. /\ claims[i] \in ClaimRecords /\ claims[i].sourced \in BOOLEAN
          /\ 2000 \in Scale /\ 3000 \in Scale
      BY OnScale DEF CheckInv, CheckTypeOK, ClaimRecords
    <3>2. ConfidenceOr(claims[i], 3000) \in Scale
      BY <3>1, ConfidenceTyped
    <3>3. QED BY <2>2, <3>1, <3>2 DEF Unparseable, Verdicts
  <2>3. QED BY <1>2, <2>1, <2>2
<1>5. CheckTypeOK'
  BY <1>1, <1>2, <1>3, <1>4 DEF CheckInv, CheckTypeOK, Goto, Stages
<1>6. CallsAgree'
  BY <1>3 DEF CheckInv, CallsAgree
<1>7. \A j \in Numbers : stage'[j] = IF j = i THEN "checked" ELSE stage[j]
  BY <1>1 DEF Goto, CheckInv, CheckTypeOK
<1>8. OrderAgrees'
  <2>1. \A j \in Numbers : stage[j] \notin InLoop
    BY <1>1 DEF CheckInv, OrderAgrees
  <2>2. \A j \in Numbers : stage'[j] \notin InLoop
    BY <1>7, <2>1 DEF InLoop
  <2>3. QED BY <2>2 DEF OrderAgrees
<1>9. ClaimAgrees(i)'
  <2>1. ClaimAgrees(i) /\ stage'[i] = "checked"
    BY <1>7 DEF CheckInv
  <2>2. EventsAgree(i)'
    BY <1>1, <1>3, <2>1 DEF ClaimAgrees, EventsAgree, Told
  <2>3. QED BY <1>1, <1>3, <2>1, <2>2 DEF ClaimAgrees, Untouched, HasTrace
<1>10. QED BY <1>1, <1>3, <1>5, <1>6, <1>8, <1>9, ClaimStep DEF Told

\* The loop takes the next claim: it goes to a debate or is judged as checked.
LEMMA JudgeStep ==
  ASSUME CheckInv, NEW i \in Numbers, Judge(i)
  PROVE  CheckInv'
<1> DEFINE v == verdict[i]
           plain == [verified |-> v.verified, disputed |-> v.disputed,
                     confidence |-> v.confidence, debated |-> FALSE]
<1>1. /\ stage[i] = "checked"
      /\ \A j \in Numbers : stage[j] # "check"
      /\ \A j \in 1..i - 1 : stage[j] = "stored"
      /\ UNCHANGED <<claims, verdict, verified_claims, disputed_claims,
                     announced, rows, traces, result>>
  BY DEF Judge, AtTurn, loopVars, dbVars
<1>2. \/ /\ Goto(i, "defense") /\ call' = [call EXCEPT ![i] = NewCall]
         /\ UNCHANGED enriched
      \/ /\ Goto(i, "judged") /\ enriched' = [enriched EXCEPT ![i] = plain]
         /\ UNCHANGED call
  BY DEF Judge
<1>3. plain \in Outcomes
  BY DEF CheckInv, CheckTypeOK, Verdicts, Outcomes
<1> HIDE DEF plain
<1>4. PICK label \in {"defense", "judged"} : Goto(i, label)
  BY <1>2
<1>5. CheckTypeOK'
  <2>1. stage' \in [Numbers -> Stages] /\ enriched' \in [Numbers -> Outcomes]
    BY <1>2, <1>3 DEF CheckInv, CheckTypeOK, Goto, Stages, Calling
  <2>2. call' \in [Numbers -> CallStates]
    BY <1>2, NewCallTyped DEF CheckInv, CheckTypeOK
  <2>3. (\A j \in Numbers : Doubled(call[j].delay, call[j].attempt))'
    BY <1>2, NewCallTyped DEF CheckInv, CheckTypeOK
  <2>4. QED BY <1>1, <2>1, <2>2, <2>3 DEF CheckInv, CheckTypeOK
<1>6. CallsAgree'
  BY <1>2 DEF CheckInv, CheckTypeOK, CallsAgree, NewCall
<1>7. OrderAgrees'
  BY <1>1, <1>4, OrderKept DEF InLoop, CheckInv, CheckTypeOK
<1>8. ClaimAgrees(i)'
  <2>1. ClaimAgrees(i)
    BY DEF CheckInv
  <2>2. CASE Goto(i, "defense") /\ UNCHANGED enriched
    <3>1. stage'[i] = "defense"
      BY <2>2 DEF CheckInv, CheckTypeOK, Goto
    <3>2. EventsAgree(i)'
      BY <1>1, <2>1, <3>1 DEF ClaimAgrees, EventsAgree, Told
    <3>3. QED BY <1>1, <2>1, <3>1, <3>2 DEF ClaimAgrees, Untouched, HasTrace
  <2>3. CASE Goto(i, "judged") /\ enriched' = [enriched EXCEPT ![i] = plain]
    <3>1. stage'[i] = "judged" /\ enriched'[i] = plain
      BY <2>3 DEF CheckInv, CheckTypeOK, Goto
    <3>2. ~plain.debated
      BY DEF plain
    <3>3. DebateAgrees(i)'
      BY <1>1, <2>1, <3>1, <3>2 DEF DebateAgrees, ClaimAgrees, HasTrace
    <3>4. EventsAgree(i)'
      BY <1>1, <2>1, <3>1, <3>2 DEF ClaimAgrees, EventsAgree, Told
    <3>5. QED BY <1>1, <2>1, <3>1, <3>3, <3>4 DEF ClaimAgrees, Untouched
  <2>4. QED BY <1>2, <2>2, <2>3
<1>9. \A j \in Numbers : j # i => enriched'[j] = enriched[j]
  BY <1>2 DEF CheckInv, CheckTypeOK
<1>10. QED BY <1>1, <1>4, <1>5, <1>6, <1>7, <1>8, <1>9, ClaimStep DEF Told

\* What a debate that ends at x leaves in the claim.
LEMMA DebatedOutcome ==
  ASSUME NEW x \in Scale
  PROVE  /\ Debated(x) \in Outcomes /\ Debated(x).debated
         /\ Debated(x).confidence = Rounded(x)
         /\ Debated(x).verified => Rounded(x) >= VERIFIED_THRESHOLD
         /\ Debated(x).disputed => Rounded(x) <= VERIFIED_THRESHOLD
<1>1. Rounded(x) \in Scale /\ x \in Int
  BY OnScale
<1>2. /\ x >= VERIFIED_THRESHOLD => Rounded(x) >= VERIFIED_THRESHOLD
      /\ x < VERIFIED_THRESHOLD => Rounded(x) <= VERIFIED_THRESHOLD
  BY RoundedSides
<1>3. /\ Debated(x).debated /\ Debated(x).confidence = Rounded(x)
      /\ Debated(x).verified = (x >= VERIFIED_THRESHOLD)
      /\ Debated(x).disputed = (x < VERIFIED_THRESHOLD)
  BY DEF Debated
<1>4. Debated(x) \in Outcomes
  BY <1>1 DEF Debated, Outcomes
<1>5. QED BY <1>2, <1>3, <1>4

\* A retraction ends at a value that rounding keeps.
LEMMA RetractedOutcome == Debated(1000).confidence = 1000
BY DEF Debated, Rounded

\* The author defends or retracts, and the trace of it is committed.
LEMMA DefendStep ==
  ASSUME CheckInv, NEW i \in Numbers, Defend(i)
  PROVE  CheckInv'
<1> DEFINE defense == TraceOf(i, "debate_defense", 0)
           retracted == Debated(1000)
<1>1. /\ stage[i] = "defense"
      /\ traces' = traces \cup {defense}
      /\ UNCHANGED <<claims, verdict, verified_claims, disputed_claims,
                     announced, rows, result>>
  BY DEF Defend, Asking, TraceDefense, loopVars
<1>2. \/ /\ Goto(i, "debated") /\ enriched' = [enriched EXCEPT ![i] = retracted]
         /\ UNCHANGED call
      \/ /\ Goto(i, "verdict") /\ call' = [call EXCEPT ![i] = NewCall]
         /\ UNCHANGED enriched
  BY DEF Defend
<1>3. /\ retracted \in Outcomes /\ retracted.debated
      /\ retracted.confidence = 1000
      /\ retracted.verified => retracted.confidence >= VERIFIED_THRESHOLD
      /\ retracted.disputed => retracted.confidence <= VERIFIED_THRESHOLD
  BY OnScale, DebatedOutcome, RetractedOutcome
<1>4. /\ defense \in TraceRecords /\ defense.of = i
      /\ defense.type = "debate_defense"
  BY OnScale DEF TraceOf, TraceRecords
<1> HIDE DEF retracted, defense
<1>5. PICK label \in {"verdict", "debated"} : Goto(i, label)
  BY <1>2
<1>6. CheckTypeOK'
  <2>1. stage' \in [Numbers -> Stages] /\ enriched' \in [Numbers -> Outcomes]
    BY <1>2, <1>3 DEF CheckInv, CheckTypeOK, Goto, Stages, Calling
  <2>2. call' \in [Numbers -> CallStates]
    BY <1>2, NewCallTyped DEF CheckInv, CheckTypeOK
  <2>3. (\A j \in Numbers : Doubled(call[j].delay, call[j].attempt))'
    BY <1>2, NewCallTyped DEF CheckInv, CheckTypeOK
  <2>4. traces' \subseteq TraceRecords
    BY <1>1, <1>4 DEF CheckInv, CheckTypeOK
  <2>5. QED BY <1>1, <2>1, <2>2, <2>3, <2>4 DEF CheckInv, CheckTypeOK
<1>7. CallsAgree'
  BY <1>2 DEF CheckInv, CheckTypeOK, CallsAgree, NewCall
<1>8. OrderAgrees'
  <2>1. stage[i] \in InLoop /\ stage[i] # "stored" /\ label \in InLoop
    BY <1>1 DEF InLoop
  <2>2. OrderAgrees /\ stage \in [Numbers -> Stages]
    BY DEF CheckInv, CheckTypeOK
  <2>3. QED BY <1>5, <2>1, <2>2, InTurn, OrderKept
<1>9. ClaimAgrees(i)'
  <2>1. /\ Untouched(i)' /\ HasTrace(i, "debate_defense")'
        /\ ~HasTrace(i, "debate_verdict")'
    BY <1>1, <1>4 DEF CheckInv, ClaimAgrees, Untouched, HasTrace
  <2>2. CASE Goto(i, "verdict")
    <3>1. stage'[i] = "verdict"
      BY <2>2 DEF CheckInv, CheckTypeOK, Goto
    <3>2. EventsAgree(i)'
      BY <1>1, <3>1 DEF CheckInv, ClaimAgrees, EventsAgree, Told
    <3>3. QED BY <2>1, <3>1, <3>2 DEF ClaimAgrees
  <2>3. CASE Goto(i, "debated") /\ enriched' = [enriched EXCEPT ![i] = retracted]
    <3>1. stage'[i] = "debated" /\ enriched'[i] = retracted
      BY <2>3 DEF CheckInv, CheckTypeOK, Goto
    <3>2. DebateAgrees(i)'
      BY <1>3, <2>1, <3>1 DEF DebateAgrees
    <3>3. EventsAgree(i)'
      BY <1>1, <3>1 DEF CheckInv, ClaimAgrees, EventsAgree, Told
    <3>4. QED BY <1>3, <2>1, <3>1, <3>2, <3>3 DEF ClaimAgrees
  <2>4. QED BY <1>2, <2>2, <2>3
<1>10. \A j \in Numbers : j # i => enriched'[j] = enriched[j]
  BY <1>2 DEF CheckInv, CheckTypeOK
<1>11. \A t : t.of # i => (t \in traces' <=> t \in traces)
  BY <1>1, <1>4
<1>12. QED BY <1>1, <1>5, <1>6, <1>7, <1>8, <1>9, <1>10, <1>11, ClaimStep
  DEF Told

\* The verdict of a debate is committed with the outcome it gives.
LEMMA RenderVerdictStep ==
  ASSUME CheckInv, NEW i \in Numbers, RenderVerdict(i)
  PROVE  CheckInv'
<1>1. PICK x \in DebateOutcomes(claims[i]) :
        /\ enriched' = [enriched EXCEPT ![i] = Debated(x)]
        /\ traces' = traces \cup {TraceOf(i, "debate_verdict", x)}
  BY DEF RenderVerdict
<1> DEFINE ruling == TraceOf(i, "debate_verdict", x)
           outcome == Debated(x)
<1>2. /\ stage[i] = "verdict" /\ Goto(i, "debated")
      /\ UNCHANGED <<claims, call, verdict, verified_claims, disputed_claims,
                     announced, rows, result>>
  BY DEF RenderVerdict, Asking, loopVars
<1>3. x \in Scale
  BY OutcomesBounded DEF CheckInv, CheckTypeOK
<1>4. /\ outcome \in Outcomes /\ outcome.debated
      /\ outcome.confidence = Rounded(x)
      /\ outcome.verified => outcome.confidence >= VERIFIED_THRESHOLD
      /\ outcome.disputed => outcome.confidence <= VERIFIED_THRESHOLD
  BY <1>3, DebatedOutcome
<1>5. /\ ruling \in TraceRecords /\ ruling.of = i /\ ruling.confidence = x
      /\ ruling.type = "debate_verdict"
  BY <1>3 DEF TraceOf, TraceRecords
<1>6. /\ enriched' = [enriched EXCEPT ![i] = outcome]
      /\ traces' = traces \cup {ruling}
  BY <1>1
<1> HIDE DEF outcome, ruling
<1>7. CheckTypeOK'
  BY <1>2, <1>4, <1>5, <1>6
     DEF CheckInv, CheckTypeOK, Goto, Stages
<1>8. CallsAgree'
  BY <1>2 DEF CheckInv, CallsAgree
<1>9. OrderAgrees'
  <2>1. stage[i] \in InLoop /\ stage[i] # "stored" /\ "debated" \in InLoop
    BY <1>2 DEF InLoop
  <2>2. OrderAgrees /\ stage \in [Numbers -> Stages]
    BY DEF CheckInv, CheckTypeOK
  <2>3. QED BY <1>2, <2>1, <2>2, InTurn, OrderKept
<1>10. ClaimAgrees(i)'
  <2>1. stage'[i] = "debated" /\ enriched'[i] = outcome
    BY <1>2, <1>6 DEF CheckInv, CheckTypeOK, Goto
  <2>2. Untouched(i)' /\ HasTrace(i, "debate_defense")'
    BY <1>2, <1>6 DEF CheckInv, ClaimAgrees, Untouched, HasTrace
  <2>3. \E t \in traces' : /\ t.of = i /\ t.type = "debate_verdict"
                           /\ Rounded(t.confidence) = outcome.confidence
    BY <1>4, <1>5, <1>6
  <2>4. DebateAgrees(i)'
    BY <1>4, <2>1, <2>2, <2>3 DEF DebateAgrees
  <2>5. EventsAgree(i)'
    BY <1>2, <2>1 DEF CheckInv, ClaimAgrees, EventsAgree, Told
  <2>6. QED BY <1>4, <2>1, <2>2, <2>4, <2>5 DEF ClaimAgrees
<1>11. \A j \in Numbers : j # i => enriched'[j] = enriched[j]
  BY <1>6 DEF CheckInv, CheckTypeOK
<1>12. \A t : t.of # i => (t \in traces' <=> t \in traces)
  BY <1>5, <1>6
<1>13. QED BY <1>2, <1>7, <1>8, <1>9, <1>10, <1>11, <1>12, ClaimStep
   DEF Told

\* An event about claim i is news of claim i alone.
LEMMA EventsApart ==
  ASSUME NEW i, NEW e, announced' = announced \cup {EventOf(i, e)}
  PROVE  /\ \A j, x : j # i => (Told(j, x)' <=> Told(j, x))
         /\ \A x : Told(i, x)' <=> Told(i, x) \/ x = e
<1>1. \A j, x : EventOf(j, x) = EventOf(i, e) <=> j = i /\ x = e
  <2>1. \A j, x : EventOf(j, x).of = j /\ EventOf(j, x).event = x
    BY DEF EventOf
  <2>2. QED BY <2>1
<1>2. QED BY <1>1 DEF Told

\* A publication between two stages of the loop.
LEMMA PublishMoves ==
  ASSUME CheckInv, NEW i \in Numbers, NEW from, NEW to \in InLoop \cap Stages,
         NEW e \in {"debate_resolved", "claim_disputed"},
         from \in InLoop, from # "stored",
         PublishStep(i, from, e, to), ClaimAgrees(i)'
  PROVE  CheckInv'
<1>1. /\ stage[i] = from /\ Goto(i, to)
      /\ announced' = announced \cup {EventOf(i, e)}
      /\ UNCHANGED <<claims, call, verdict, enriched, verified_claims,
                     disputed_claims, rows, traces, result>>
  BY DEF PublishStep, dbVars
<1>2. EventOf(i, e) \in [of : Numbers, event : {"debate_resolved", "claim_disputed"}]
  BY DEF EventOf
<1>3. CheckTypeOK'
  <2>1. stage' \in [Numbers -> Stages]
    BY <1>1 DEF CheckInv, CheckTypeOK, Goto
  <2>2. announced' \subseteq [of : Numbers,
                              event : {"debate_resolved", "claim_disputed"}]
    BY <1>1, <1>2 DEF CheckInv, CheckTypeOK
  <2>3. QED BY <1>1, <2>1, <2>2 DEF CheckInv, CheckTypeOK
<1>4. CallsAgree'
  BY <1>1 DEF CheckInv, CallsAgree
<1>5. OrderAgrees'
  <2>1. OrderAgrees /\ stage \in [Numbers -> Stages]
    BY DEF CheckInv, CheckTypeOK
  <2>2. QED BY <1>1, <2>1, InTurn, OrderKept
<1>6. QED BY <1>1, <1>3, <1>4, <1>5, EventsApart, ClaimStep

\* The end of a debate is published after its last trace, a dispute after its
\* claim is in the list.
LEMMA PublishClaimStep ==
  ASSUME CheckInv, NEW i \in Numbers, PublishDebate(i) \/ PublishDispute(i)
  PROVE  CheckInv'
<1>1. ClaimAgrees(i) /\ stage \in [Numbers -> Stages]
  BY DEF CheckInv, CheckTypeOK
<1>2. CASE PublishDebate(i)
  <2>1. /\ stage[i] = "debated" /\ stage'[i] = "judged"
        /\ announced' = announced \cup {EventOf(i, "debate_resolved")}
        /\ UNCHANGED <<enriched, verified_claims, disputed_claims, rows, traces>>
    BY <1>1, <1>2 DEF PublishDebate, PublishStep, Goto, dbVars
  <2>2. EventsAgree(i)'
    BY <1>1, <2>1, EventsApart DEF ClaimAgrees, EventsAgree
  <2>3. DebateAgrees(i)' /\ Untouched(i)'
    BY <1>1, <2>1 DEF ClaimAgrees, DebateAgrees, HasTrace, Untouched
  <2>4. ClaimAgrees(i)'
    BY <2>1, <2>2, <2>3 DEF ClaimAgrees
  <2>5. "judged" \in InLoop \cap Stages /\ "debated" \in InLoop
    BY DEF InLoop, Stages
  <2>6. QED BY <1>2, <2>4, <2>5, PublishMoves DEF PublishDebate
<1>3. CASE PublishDispute(i)
  <2>1. /\ stage[i] = "disputed" /\ stage'[i] = "sorted"
        /\ announced' = announced \cup {EventOf(i, "claim_disputed")}
        /\ UNCHANGED <<enriched, verified_claims, disputed_claims, rows, traces>>
    BY <1>1, <1>3 DEF PublishDispute, PublishStep, Goto, dbVars
  <2>2. EventsAgree(i)'
    BY <1>1, <2>1, EventsApart DEF ClaimAgrees, EventsAgree
  <2>3. DebateAgrees(i)' /\ ListsAgree(i)'
    BY <1>1, <2>1 DEF ClaimAgrees, DebateAgrees, HasTrace, ListsAgree
  <2>4. ClaimAgrees(i)'
    BY <1>1, <2>1, <2>2, <2>3 DEF ClaimAgrees
  <2>5. "sorted" \in InLoop \cap Stages /\ "disputed" \in InLoop
    BY DEF InLoop, Stages
  <2>6. QED BY <1>3, <2>4, <2>5, PublishMoves DEF PublishDispute
<1>4. QED BY <1>2, <1>3

\* A judged claim enters one list.
LEMMA SortStep ==
  ASSUME CheckInv, NEW i \in Numbers, Sort(i)
  PROVE  CheckInv'
<1>1. /\ stage[i] = "judged"
      /\ UNCHANGED <<claims, call, verdict, enriched, announced, rows, traces,
                     result>>
  BY DEF Sort, dbVars
<1>2. IF enriched[i].confidence >= VERIFIED_THRESHOLD
      THEN /\ verified_claims' = verified_claims \cup {i}
           /\ Goto(i, "sorted")
           /\ UNCHANGED disputed_claims
      ELSE /\ disputed_claims' = disputed_claims \cup {i}
           /\ Goto(i, "disputed")
           /\ UNCHANGED verified_claims
  BY DEF Sort
<1>3. PICK label \in {"sorted", "disputed"} : Goto(i, label)
  BY <1>2
<1>4. CheckTypeOK'
  BY <1>1, <1>2 DEF CheckInv, CheckTypeOK, Goto, Stages
<1>5. CallsAgree'
  BY <1>1 DEF CheckInv, CallsAgree
<1>6. OrderAgrees'
  <2>1. stage[i] \in InLoop /\ stage[i] # "stored" /\ label \in InLoop
    BY <1>1 DEF InLoop
  <2>2. OrderAgrees /\ stage \in [Numbers -> Stages]
    BY DEF CheckInv, CheckTypeOK
  <2>3. QED BY <1>3, <2>1, <2>2, InTurn, OrderKept
<1>7. ClaimAgrees(i)'
  <2>1. stage'[i] = IF enriched[i].confidence >= VERIFIED_THRESHOLD
                    THEN "sorted" ELSE "disputed"
    BY <1>2 DEF CheckInv, CheckTypeOK, Goto
  <2>2. Untouched(i) /\ DebateAgrees(i) /\ EventsAgree(i)
    BY <1>1 DEF CheckInv, ClaimAgrees
  <2>3. DebateAgrees(i)'
    BY <1>1, <2>2 DEF DebateAgrees, HasTrace
  <2>4. ListsAgree(i)' /\ (stage'[i] = "disputed" => i \in disputed_claims')
    BY <1>1, <1>2, <2>1, <2>2 DEF ListsAgree, Untouched
  <2>5. (i \notin rows)'
    BY <1>1, <2>2 DEF Untouched
  <2>6. EventsAgree(i)'
    BY <1>1, <1>2, <2>1, <2>2 DEF EventsAgree, Told, Untouched
  <2>7. QED BY <2>1, <2>3, <2>4, <2>5, <2>6 DEF ClaimAgrees
<1>8. \A j \in Numbers : j # i =>
        /\ enriched'[j] = enriched[j]
        /\ j \in rows' <=> j \in rows
        /\ j \in verified_claims' <=> j \in verified_claims
        /\ j \in disputed_claims' <=> j \in disputed_claims
        /\ \A event : Told(j, event)' <=> Told(j, event)
  BY <1>1, <1>2 DEF Told
<1>9. QED BY <1>1, <1>3, <1>4, <1>5, <1>6, <1>7, <1>8, ClaimStep

\* The row of a sorted claim is committed with its trace.
LEMMA StoreClaimStep ==
  ASSUME CheckInv, NEW i \in Numbers, StoreClaim(i)
  PROVE  CheckInv'
<1> DEFINE checked == TraceOf(i, "fact_checker", verdict[i].confidence)
<1>1. /\ stage[i] = "sorted" /\ Goto(i, "stored")
      /\ rows' = rows \cup {i} /\ traces' = traces \cup {checked}
      /\ UNCHANGED <<claims, call, verdict, enriched, verified_claims,
                     disputed_claims, announced, result>>
  BY DEF StoreClaim, loopVars
<1>2. /\ checked \in TraceRecords /\ checked.of = i
      /\ checked.type = "fact_checker"
  BY DEF TraceOf, TraceRecords, CheckInv, CheckTypeOK, Verdicts
<1> HIDE DEF checked
<1>3. CheckTypeOK'
  BY <1>1, <1>2 DEF CheckInv, CheckTypeOK, Goto, Stages
<1>4. CallsAgree'
  BY <1>1 DEF CheckInv, CallsAgree
<1>5. OrderAgrees'
  <2>1. stage[i] \in InLoop /\ stage[i] # "stored" /\ "stored" \in InLoop
    BY <1>1 DEF InLoop
  <2>2. OrderAgrees /\ stage \in [Numbers -> Stages]
    BY DEF CheckInv, CheckTypeOK
  <2>3. QED BY <1>1, <2>1, <2>2, InTurn, OrderKept
<1>6. ClaimAgrees(i)'
  <2>1. stage'[i] = "stored"
    BY <1>1 DEF CheckInv, CheckTypeOK, Goto
  <2>2. ListsAgree(i) /\ DebateAgrees(i)
    BY <1>1 DEF CheckInv, ClaimAgrees
  <2>3. /\ HasTrace(i, "debate_defense")' <=> HasTrace(i, "debate_defense")
        /\ HasTrace(i, "debate_verdict")' <=> HasTrace(i, "debate_verdict")
    BY <1>1, <1>2 DEF HasTrace
  <2>4. DebateAgrees(i)'
    BY <1>1, <2>2, <2>3 DEF DebateAgrees
  <2>5. ListsAgree(i)'
    BY <1>1, <2>2 DEF ListsAgree
  <2>6. (i \in rows /\ HasTrace(i, "fact_checker"))'
    BY <1>1, <1>2 DEF HasTrace
  <2>7. EventsAgree(i)'
    BY <1>1, <2>1 DEF CheckInv, ClaimAgrees, EventsAgree, Told
  <2>8. QED BY <2>1, <2>4, <2>5, <2>6, <2>7 DEF ClaimAgrees
<1>7. \A j \in Numbers : j # i => (j \in rows' <=> j \in rows)
  BY <1>1
<1>8. \A t : t.of # i => (t \in traces' <=> t \in traces)
  BY <1>1, <1>2
<1>9. QED BY <1>1, <1>3, <1>4, <1>5, <1>6, <1>7, <1>8, ClaimStep DEF Told

\* The end of the node, either way, is a step of result alone.
LEMMA EndStep ==
  ASSUME CheckInv, result' \in {"none", "lists", "failed"},
         UNCHANGED <<claims, stage, call, verdict, enriched, loopVars, dbVars>>
  PROVE  CheckInv'
<1> USE DEF loopVars, dbVars
<1>1. CheckTypeOK' /\ CallsAgree' /\ OrderAgrees'
  BY DEF CheckInv, CheckTypeOK, CallsAgree, OrderAgrees
<1>2. ASSUME NEW j \in Numbers PROVE ClaimAgrees(j)'
  BY ClaimKept DEF CheckInv, Told
<1>3. QED BY <1>1, <1>2 DEF CheckInv

\* Every step of the check keeps the invariant.
LEMMA CheckNext == CheckInv /\ [Next]_vars => CheckInv'
<1> SUFFICES ASSUME CheckInv, [Next]_vars PROVE CheckInv'
  OBVIOUS
<1>1. ASSUME NEW i \in Numbers, Progress(i) PROVE CheckInv'
  BY <1>1, ProviderBusyStep, WakeStep, AnswerCheckStep, JudgeStep, DefendStep,
     RenderVerdictStep, PublishClaimStep, SortStep, StoreClaimStep DEF Progress
<1>2. CASE Return
  BY <1>2, EndStep DEF Return
<1>3. CASE Fail
  BY <1>3, EndStep DEF Fail
<1>4. CASE UNCHANGED vars
  BY <1>4, EndStep DEF vars, CheckInv, CheckTypeOK
<1>5. QED BY <1>1, <1>2, <1>3, <1>4 DEF Next

\* The invariant holds in every behaviour of the check.
THEOREM CheckInvariant == Spec => []CheckInv
<1>1. QED BY CheckInit, CheckNext, PTL DEF Spec

-----------------------------------------------------------------------------
(* What the runs check *)

\* CheckTypeOK, for every number of claims and of retries.
THEOREM CheckTyped == Spec => []CheckTypeOK
<1>1. CheckInv => CheckTypeOK
  BY DEF CheckInv
<1>2. QED BY <1>1, CheckInvariant, PTL

\* Only stored claims have rows.
LEMMA RowsAreStored ==
  ASSUME CheckInv, NEW i \in Numbers
  PROVE  i \in rows <=> stage[i] = "stored"
BY DEF CheckInv, ClaimAgrees, Untouched

\* RowsAgreeWithLists, for every number of claims and every confidence: a row
\* is in the list its confidence says, and its debate and its dispute, and no
\* other, were announced.
THEOREM RowsAgree == Spec => []RowsAgreeWithLists
<1>1. CheckInv => RowsAgreeWithLists
  <2> SUFFICES ASSUME CheckInv PROVE RowsAgreeWithLists
    OBVIOUS
  <2>1. ASSUME NEW i \in rows
        PROVE  /\ i \in Numbers /\ ListsAgree(i) /\ DebateAgrees(i)
               /\ enriched[i].debated <=> Told(i, "debate_resolved")
               /\ i \in disputed_claims <=> Told(i, "claim_disputed")
               /\ enriched[i].confidence \in Int
    <3>1. i \in Numbers /\ enriched[i].confidence \in Scale
      BY <2>1 DEF CheckInv, CheckTypeOK, Outcomes
    <3>2. stage[i] = "stored" /\ ClaimAgrees(i)
      BY <3>1, RowsAreStored DEF CheckInv
    <3>3. QED BY <3>1, <3>2, OnScale DEF ClaimAgrees, EventsAgree
  <2>2. VERIFIED_THRESHOLD \in Int
    BY DEF VERIFIED_THRESHOLD
  <2>3. \A x, y \in Int : /\ (x < y <=> ~(x >= y))
                          /\ (x >= y /\ x <= y => x = y)
    OBVIOUS
  <2>4. QED BY <2>1, <2>2, <2>3 DEF RowsAgreeWithLists, ListsAgree, DebateAgrees, Told
<1>2. QED BY <1>1, CheckInvariant, PTL

\* DebatesAreTraced, for every number of claims: traces and rows tell the same
\* story of a debate, and only the claim in turn has one without a row.
THEOREM DebatesTraced == Spec => []DebatesAreTraced
<1>1. ASSUME CheckInv, NEW i \in Numbers
      PROVE  HasTrace(i, "debate_defense") /\ i \notin rows =>
               /\ \A j \in 1..i - 1 : j \in rows
               /\ \A j \in i + 1..Size : j \notin rows /\ stage[j] = "checked"
  <2> SUFFICES ASSUME HasTrace(i, "debate_defense"), i \notin rows
               PROVE  /\ \A j \in 1..i - 1 : j \in rows
                      /\ \A j \in i + 1..Size :
                           j \notin rows /\ stage[j] = "checked"
    OBVIOUS
  <2>1. stage \in [Numbers -> Stages] /\ OrderAgrees /\ ClaimAgrees(i)
    BY <1>1 DEF CheckInv, CheckTypeOK
  <2>2. stage[i] # "stored" /\ stage[i] \in InLoop
    BY <1>1, <2>1, RowsAreStored DEF ClaimAgrees, Stages, Calling, InLoop
  <2>3. \A j \in 1..i - 1 : j \in Numbers /\ stage[j] = "stored"
    BY <2>1, <2>2, SizeAssumption DEF OrderAgrees, Numbers
  <2>4. ASSUME NEW j \in i + 1..Size
        PROVE  j \notin rows /\ stage[j] = "checked"
    <3>1. j \in Numbers /\ i \in 1..j - 1
      BY SizeAssumption DEF Numbers
    <3>2. stage[j] \notin InLoop /\ stage[j] # "check"
      BY <2>1, <2>2, <3>1 DEF OrderAgrees
    <3>3. stage[j] = "checked"
      BY <2>1, <3>1, <3>2 DEF Stages, Calling, InLoop
    <3>4. QED BY <1>1, <3>1, <3>3, RowsAreStored
  <2>5. QED BY <1>1, <2>3, <2>4, RowsAreStored
<1>2. ASSUME CheckInv, NEW i \in Numbers
      PROVE  /\ stage[i] = "stored" => (i \in rows /\ HasTrace(i, "fact_checker"))
             /\ i \in rows => DebateAgrees(i)
  BY <1>2, RowsAreStored DEF CheckInv, ClaimAgrees
<1>3. CheckInv => DebatesAreTraced
  BY <1>1, <1>2 DEF DebatesAreTraced, DebateAgrees
<1>4. QED BY <1>3, CheckInvariant, PTL

-----------------------------------------------------------------------------
(* The check implements ClaimVerdicts *)

Stored == {i \in Numbers : stage[i] = "stored"}

\* The claim at its turn is the one after all settled claims.
LEMMA SettledBefore ==
  ASSUME CheckInv, NEW i \in Numbers, stage[i] = "sorted"
  PROVE  Stored = 1..i - 1 /\ Cardinality(Stored) = i - 1
<1>1. \A j \in 1..i - 1 : j \in Numbers /\ stage[j] = "stored"
  BY SizeAssumption DEF CheckInv, OrderAgrees, InLoop, Numbers
<1>2. \A j \in Numbers : j > i => i \in 1..j - 1
  BY DEF Numbers
<1>3. \A j \in Numbers : j > i => stage[j] # "stored"
  BY <1>2 DEF CheckInv, OrderAgrees, InLoop
<1>4. \A j \in Stored : j \in 1..i - 1
  BY <1>3 DEF Stored, Numbers
<1>5. Stored = 1..i - 1
  BY <1>1, <1>4 DEF Stored
<1>6. QED BY <1>5, FS_Interval DEF Numbers

\* A step that stores no claim and leaves the lists of stored claims alone is
\* a stutter of ClaimVerdicts.
LEMMA NothingSettled ==
  ASSUME CheckInv, NEW i \in Numbers, NEW label, Goto(i, label),
         stage[i] # "stored", label # "stored", UNCHANGED result,
         \A j \in Numbers : j # i =>
           /\ j \in verified_claims' <=> j \in verified_claims
           /\ j \in disputed_claims' <=> j \in disputed_claims,
         verified_claims' \subseteq Numbers, disputed_claims' \subseteq Numbers
  PROVE  UNCHANGED Verdict!verdictVars
<1>1. \A j \in Numbers : stage'[j] = IF j = i THEN label ELSE stage[j]
  BY DEF CheckInv, CheckTypeOK, Goto
<1>2. Stored' = Stored
  BY <1>1 DEF Stored
<1>3. verified_claims \subseteq Numbers /\ disputed_claims \subseteq Numbers
  BY DEF CheckInv, CheckTypeOK
<1>4. UNCHANGED <<{j \in verified_claims : stage[j] = "stored"},
                  {j \in disputed_claims : stage[j] = "stored"}>>
  BY <1>1, <1>3
<1>5. QED BY <1>2, <1>4 DEF Verdict!verdictVars, Stored

\* Storing a claim settles the next one, into the list the loop put it in.
LEMMA StoreSettles ==
  ASSUME CheckInv, NEW i \in Numbers, StoreClaim(i)
  PROVE  Verdict!Settle
<1> DEFINE upheld == {j \in verified_claims : stage[j] = "stored"}
           rejected == {j \in disputed_claims : stage[j] = "stored"}
<1>1. /\ stage[i] = "sorted" /\ result = "none" /\ Goto(i, "stored")
      /\ UNCHANGED <<verified_claims, disputed_claims, result>>
  BY DEF StoreClaim, AtTurn, loopVars
<1>2. \A j \in Numbers : stage'[j] = IF j = i THEN "stored" ELSE stage[j]
  BY <1>1 DEF CheckInv, CheckTypeOK, Goto
<1>3. Stored = 1..i - 1 /\ Cardinality(Stored) = i - 1
  BY <1>1, SettledBefore
<1>4. Stored' = Stored \cup {i}
  BY <1>2 DEF Stored
<1>5. Cardinality(Stored') = i
  <2>1. Stored' = 1..i /\ i \in Nat /\ i >= 1
    BY <1>3, <1>4 DEF Numbers
  <2>2. QED BY <2>1, FS_Interval
<1>6. /\ verified_claims \subseteq Numbers /\ disputed_claims \subseteq Numbers
      /\ ListsAgree(i)
  BY <1>1 DEF CheckInv, CheckTypeOK, ClaimAgrees
<1>7. \/ upheld' = upheld \cup {i} /\ UNCHANGED rejected
      \/ rejected' = rejected \cup {i} /\ UNCHANGED upheld
  <2>1. CASE i \in verified_claims /\ i \notin disputed_claims
    <3>1. upheld' = upheld \cup {i}
      BY <1>1, <1>2, <1>6, <2>1
    <3>2. UNCHANGED rejected
      BY <1>1, <1>2, <1>6, <2>1
    <3>3. QED BY <3>1, <3>2
  <2>2. CASE i \in disputed_claims /\ i \notin verified_claims
    <3>1. rejected' = rejected \cup {i}
      BY <1>1, <1>2, <1>6, <2>2
    <3>2. UNCHANGED upheld
      BY <1>1, <1>2, <1>6, <2>2
    <3>3. QED BY <3>1, <3>2
  <2>3. QED BY <1>6, <2>1, <2>2 DEF ListsAgree
<1>8. i - 1 < Size /\ i = i - 1 + 1
  BY SizeAssumption DEF Numbers
<1>9. QED BY <1>1, <1>3, <1>5, <1>7, <1>8 DEF Verdict!Settle, Stored

\* The lists are handed on when every claim is settled.
LEMMA ReturnHandsOn == Return => Verdict!HandOn
<1> SUFFICES ASSUME Return PROVE Verdict!HandOn
  OBVIOUS
<1>1. Stored = 1..Size /\ Cardinality(Stored) = Size
  <2>1. Stored = 1..Size
    BY DEF Return, Stored, Numbers
  <2>2. QED BY <2>1, SizeAssumption, FS_Interval
<1>2. QED BY <1>1 DEF Return, Verdict!HandOn, Stored, loopVars

\* A step of the loop settles its claim or, seen from the graph, none.
LEMMA ProgressSettles ==
  ASSUME CheckInv, CheckInv', NEW i \in Numbers, Progress(i)
  PROVE  Verdict!Settle \/ UNCHANGED Verdict!verdictVars
<1>1. /\ stage \in [Numbers -> Stages]
      /\ verified_claims' \subseteq Numbers /\ disputed_claims' \subseteq Numbers
  BY DEF CheckInv, CheckTypeOK
<1>2. CASE ProviderBusy(i) \/ Wake(i)
  <2>1. UNCHANGED <<stage, verified_claims, disputed_claims, result>>
    BY <1>2 DEF ProviderBusy, Wake, loopVars
  <2>2. QED BY <2>1 DEF Verdict!verdictVars
<1>3. CASE AnswerCheck(i)
  BY <1>1, <1>3, NothingSettled DEF AnswerCheck, Asking, loopVars
<1>4. CASE Judge(i)
  BY <1>1, <1>4, NothingSettled DEF Judge, loopVars
<1>5. CASE Defend(i)
  BY <1>1, <1>5, NothingSettled DEF Defend, Asking, loopVars
<1>6. CASE RenderVerdict(i)
  BY <1>1, <1>6, NothingSettled DEF RenderVerdict, Asking, loopVars
<1>7. CASE Sort(i)
  <2>1. stage[i] = "judged" /\ UNCHANGED result
    BY <1>7 DEF Sort
  <2>2. Goto(i, "sorted") \/ Goto(i, "disputed")
    BY <1>7 DEF Sort
  <2>3. \A j \in Numbers : j # i =>
          /\ j \in verified_claims' <=> j \in verified_claims
          /\ j \in disputed_claims' <=> j \in disputed_claims
    BY <1>7 DEF Sort
  <2>4. QED BY <1>1, <2>1, <2>2, <2>3, NothingSettled
<1>8. CASE PublishDebate(i) \/ PublishDispute(i)
  BY <1>1, <1>8, NothingSettled DEF PublishDebate, PublishDispute, PublishStep
<1>9. CASE StoreClaim(i)
  BY <1>9, StoreSettles
<1>10. QED BY <1>2, <1>3, <1>4, <1>5, <1>6, <1>7, <1>8, <1>9 DEF Progress

\* SettlesClaims, for every number of claims: the check settles them in order,
\* each once, for good and into one list, and hands on all or nothing.
THEOREM ClaimsSettled == Spec => SettlesClaims
<1>1. Init => Verdict!Init
  <2> SUFFICES ASSUME Init PROVE Verdict!Init
    OBVIOUS
  <2>1. Stored = {}
    BY DEF Init, Stored
  <2>2. QED BY <2>1, FS_EmptySet DEF Init, Verdict!Init, Stored
<1>2. CheckInv /\ CheckInv' /\ [Next]_vars => [Verdict!Next]_(Verdict!verdictVars)
  <2> SUFFICES ASSUME CheckInv, CheckInv', [Next]_vars
               PROVE  Verdict!Next \/ UNCHANGED Verdict!verdictVars
    BY DEF Verdict!verdictVars
  <2>1. CASE \E i \in Numbers : Progress(i)
    BY <2>1, ProgressSettles DEF Verdict!Next
  <2>2. CASE Return
    BY <2>2, ReturnHandsOn DEF Verdict!Next
  <2>3. CASE Fail
    BY <2>3 DEF Fail, loopVars, Verdict!Next, Verdict!Fail
  <2>4. CASE UNCHANGED vars
    BY <2>4 DEF vars, loopVars, Verdict!verdictVars
  <2>5. QED BY <2>1, <2>2, <2>3, <2>4 DEF Next
<1>3. QED BY <1>1, <1>2, CheckInvariant, PTL DEF Spec, SettlesClaims, Verdict!Spec

=============================================================================
