------------------------------ MODULE FactCheck ------------------------------
(***************************************************************************)
(* fact_checker.check, opened: one model call per claim, all at once, each *)
(* with its rate-limit retries; then, claim after claim, the verdict or a  *)
(* debate with the claim's author, the events, the row and the trace.  An  *)
(* error anywhere ends the node, and with it the brief.  ResearchGraph has *)
(* each claim's check as one step.                                         *)
(*                                                                         *)
(* Confidences are integers, in ten-thousandths, so that the rounding to   *)
(* three digits shows.                                                     *)
(***************************************************************************)
EXTENDS LLMClient, FiniteSets

CONSTANTS
  Size,         \* claims of the pass
  Confidences,  \* confidences a model can answer with
  Missing       \* a field the model left out
\* Confidences lie between 0 and 1.
One == 10000
Scale == 0..One
ASSUME SizeAssumption == Size \in Nat \ {0}
ASSUME ConfidencesAssumption == /\ Confidences \subseteq Scale
                                /\ Missing \notin Confidences
Numbers == 1..Size

VARIABLES
  claims,     \* [Numbers -> [confidence, sourced]]: all_claims, in order
  stage,      \* [Numbers -> ...]: how far a claim is
  call,       \* [Numbers -> CallStates]: the model call made for it
  verdict,    \* [Numbers -> Verdicts]: answered by the fact checker
  enriched,   \* [Numbers -> Outcomes]: what the loop makes of it
  verified_claims, disputed_claims,
  announced,  \* events published about claims: [of, event]
  rows,       \* committed rows of claims: numbers of claims
  traces,     \* committed rows of agent_traces: [of, type, confidence]
  result

loopVars == <<verified_claims, disputed_claims, announced>>
dbVars == <<rows, traces>>
vars == <<claims, stage, call, verdict, enriched, loopVars, dbVars, result>>

VERIFIED_THRESHOLD == 5000
DEBATE_CONFIDENCE_THRESHOLD == 4000
ORIGINAL_CONFIDENCE_THRESHOLD == 7000

ClaimRecords == [confidence : Confidences \cup {Missing}, sourced : BOOLEAN]
Verdicts == [verified : BOOLEAN, disputed : BOOLEAN, confidence : Scale]
Outcomes == [verified : BOOLEAN, disputed : BOOLEAN, confidence : Scale,
             debated : BOOLEAN]
NoVerdict == [verified |-> FALSE, disputed |-> FALSE, confidence |-> 0]
NoOutcome == [verified |-> FALSE, disputed |-> FALSE, confidence |-> 0,
              debated |-> FALSE]

\* claim.get("confidence", default).
ConfidenceOr(c, default) ==
  IF c.confidence = Missing THEN default ELSE c.confidence

Init ==
  /\ claims \in [Numbers -> ClaimRecords]
  /\ stage = [i \in Numbers |-> "check"]
  /\ call = [i \in Numbers |-> NewCall]
  /\ verdict = [i \in Numbers |-> NoVerdict]
  /\ enriched = [i \in Numbers |-> NoOutcome]
  /\ verified_claims = {} /\ disputed_claims = {} /\ announced = {}
  /\ rows = {} /\ traces = {}
  /\ result = "none"

Goto(i, label) == stage' = [stage EXCEPT ![i] = label]
Calling == {"check", "defense", "verdict"}
\* Mutant: the loop's bodies are gathered like the checks.
AtAnyTurn(i) == result = "none" /\ \A j \in Numbers : stage[j] # "check"
\* The claim the loop is at: asyncio.gather has returned, the earlier claims
\* are through.
AtTurn(i) == /\ result = "none"
             /\ \A j \in Numbers : stage[j] # "check"
             /\ \A j \in 1..i - 1 : stage[j] = "stored"

-----------------------------------------------------------------------------
(* The model calls *)

Asking(i, label) ==
  /\ result = "none" /\ stage[i] = label /\ call[i].at = "asking"

ProviderBusy(i) ==
  /\ \E label \in Calling : Asking(i, label)
  /\ \E error \in {RateLimited(call[i]), Refused(call[i])} :
       call' = [call EXCEPT ![i] = error]
  /\ UNCHANGED <<claims, stage, verdict, enriched, loopVars, dbVars, result>>

Wake(i) ==
  /\ result = "none" /\ call[i].at = "sleeping"
  /\ call' = [call EXCEPT ![i] = AskAgain(@)]
  /\ UNCHANGED <<claims, stage, verdict, enriched, loopVars, dbVars, result>>

-----------------------------------------------------------------------------
(* _check_claim *)

\* What _check_claim makes of an answer it cannot use.
Unparseable(c) ==
  [verified |-> c.sourced, disputed |-> ~c.sourced,
   confidence |-> IF c.sourced THEN ConfidenceOr(c, 3000) ELSE 2000]
Answers ==
  [verified : BOOLEAN, disputed : BOOLEAN, confidence : Confidences]

AnswerCheck(i) ==
  /\ Asking(i, "check")
  /\ \E v \in Answers \cup {Unparseable(claims[i])} :
       verdict' = [verdict EXCEPT ![i] = v]
  /\ Goto(i, "checked")
  /\ UNCHANGED <<claims, call, enriched, loopVars, dbVars, result>>

-----------------------------------------------------------------------------
(* The loop of check, and run_debate_round *)

should_debate(checked, original) ==
  /\ checked < DEBATE_CONFIDENCE_THRESHOLD
  /\ original > ORIGINAL_CONFIDENCE_THRESHOLD

\* round(x, 3).
Rounded(x) == 10 * ((x + 5) \div 10)

\* Mutant: the flags follow the debate's threshold.
DebatedLow(x) ==
  [verified |-> x >= DEBATE_CONFIDENCE_THRESHOLD,
   disputed |-> x < DEBATE_CONFIDENCE_THRESHOLD,
   confidence |-> Rounded(x), debated |-> TRUE]
\* What a debate that ends at confidence x returns.
Debated(x) ==
  [verified |-> x >= VERIFIED_THRESHOLD, disputed |-> x < VERIFIED_THRESHOLD,
   confidence |-> Rounded(x), debated |-> TRUE]

Judge(i) ==
  /\ AtTurn(i) /\ stage[i] = "checked"
  /\ IF should_debate(verdict[i].confidence, ConfidenceOr(claims[i], 0))
     THEN /\ Goto(i, "defense")
          /\ call' = [call EXCEPT ![i] = NewCall]
          /\ UNCHANGED enriched
     ELSE /\ Goto(i, "judged")
          /\ enriched' = [enriched EXCEPT ![i] =
               [verified |-> verdict[i].verified,
                disputed |-> verdict[i].disputed,
                confidence |-> verdict[i].confidence, debated |-> FALSE]]
          /\ UNCHANGED call
  /\ UNCHANGED <<claims, verdict, loopVars, dbVars, result>>

TraceOf(i, type, x) == [of |-> i, type |-> type, confidence |-> x]

\* Mutant: the defense is logged with the verdict.
TraceDefenseLate(i) == UNCHANGED traces
\* record_trace commits before anything is decided about the claim.
TraceDefense(i) == traces' = traces \cup {TraceOf(i, "debate_defense", 0)}

\* The author answers.  An answer that is no JSON at all parses to {}, which
\* does not retract; one that is JSON but no object retracts.
Defend(i) ==
  /\ Asking(i, "defense")
  /\ TraceDefense(i)
  /\ \/ /\ Goto(i, "debated")
        /\ enriched' = [enriched EXCEPT ![i] = Debated(1000)]
        /\ UNCHANGED call
     \/ /\ Goto(i, "verdict")
        /\ call' = [call EXCEPT ![i] = NewCall]
        /\ UNCHANGED enriched
  /\ UNCHANGED <<claims, verdict, loopVars, rows, result>>

\* final_confidence after an answer that upholds, meets half way, or neither;
\* an unparseable one meets half way at 0.3.
DebateOutcomes(c) ==
  LET original == ConfidenceOr(c, 5000)
  IN  {original} \cup Confidences
        \cup {(original + x) \div 2 : x \in Confidences \cup {3000}}

RenderVerdict(i) ==
  /\ Asking(i, "verdict")
  /\ \E x \in DebateOutcomes(claims[i]) :
       /\ enriched' = [enriched EXCEPT ![i] = Debated(x)]
       /\ traces' = traces \cup {TraceOf(i, "debate_verdict", x)}
  /\ Goto(i, "debated")
  /\ UNCHANGED <<claims, call, verdict, loopVars, rows, result>>

\* publish_event, between two other steps of claim i.
EventOf(i, event) == [of |-> i, event |-> event]
PublishStep(i, from, event, to) ==
  /\ AtTurn(i) /\ stage[i] = from
  /\ announced' = announced \cup {EventOf(i, event)}
  /\ Goto(i, to)
  /\ UNCHANGED <<claims, call, verdict, enriched, verified_claims,
                 disputed_claims, dbVars, result>>

PublishDebate(i) == PublishStep(i, "debated", "debate_resolved", "judged")

\* The lists; the claim's row waits in the session for a commit.
Sort(i) ==
  /\ AtTurn(i) /\ stage[i] = "judged"
  /\ IF enriched[i].confidence >= VERIFIED_THRESHOLD
     THEN /\ verified_claims' = verified_claims \cup {i}
          /\ Goto(i, "sorted")
          /\ UNCHANGED disputed_claims
     ELSE /\ disputed_claims' = disputed_claims \cup {i}
          /\ Goto(i, "disputed")
          /\ UNCHANGED verified_claims
  /\ UNCHANGED <<claims, call, verdict, enriched, announced, dbVars, result>>

PublishDispute(i) == PublishStep(i, "disputed", "claim_disputed", "sorted")

\* The trace of the check: record_trace commits the claim's row with its own.
StoreClaim(i) ==
  /\ AtTurn(i) /\ stage[i] = "sorted"
  /\ rows' = rows \cup {i}
  /\ traces' = traces \cup {TraceOf(i, "fact_checker", verdict[i].confidence)}
  /\ Goto(i, "stored")
  /\ UNCHANGED <<claims, call, verdict, enriched, loopVars, result>>

Return ==
  /\ result = "none"
  /\ \A i \in Numbers : stage[i] = "stored"
  /\ result' = "lists"
  /\ UNCHANGED <<claims, stage, call, verdict, enriched, loopVars, dbVars>>

\* A call that raised; or a search, the database or Redis does, anywhere.
Fail ==
  /\ result = "none"
  /\ result' = "failed"
  /\ UNCHANGED <<claims, stage, call, verdict, enriched, loopVars, dbVars>>

Progress(i) ==
  \/ ProviderBusy(i) \/ Wake(i) \/ AnswerCheck(i) \/ Judge(i)
  \/ Defend(i) \/ RenderVerdict(i) \/ PublishDebate(i)
  \/ Sort(i) \/ PublishDispute(i) \/ StoreClaim(i)

Propagate == (\E i \in Numbers : call[i].at = "raised") /\ Fail

Next == (\E i \in Numbers : Progress(i)) \/ Return \/ Fail
Spec == Init /\ [][Next]_vars

\* Calls answer or fail, sleeps end, the loop goes on; nothing has to fail
\* except the node whose call raised.
Fairness == /\ \A i \in Numbers : WF_vars(Progress(i))
            /\ WF_vars(Return) /\ WF_vars(Propagate)
FairSpec == Spec /\ Fairness

-----------------------------------------------------------------------------
(* Properties *)

Stages == Calling \cup {"checked", "debated", "judged", "disputed", "sorted",
                       "stored"}
TraceRecords == [of : Numbers, confidence : Scale,
                 type : {"debate_defense", "debate_verdict", "fact_checker"}]
\* A delay that has doubled n times since the first second.
Doubled(delay, n) ==
  \E d \in [0..n -> 1..delay] :
    d[0] = 1 /\ d[n] = delay /\ \A k \in 1..n : d[k] = 2 * d[k - 1]

\* Every variable keeps its type; a call is retried at most MAX_RETRIES - 1
\* times, and its delay has doubled before every attempt after the first.
CheckTypeOK ==
  /\ claims \in [Numbers -> ClaimRecords]
  /\ stage \in [Numbers -> Stages]
  /\ call \in [Numbers -> CallStates]
  /\ \A i \in Numbers : Doubled(call[i].delay, call[i].attempt)
  /\ verdict \in [Numbers -> Verdicts]
  /\ enriched \in [Numbers -> Outcomes]
  /\ verified_claims \subseteq Numbers /\ disputed_claims \subseteq Numbers
  /\ announced \subseteq [of : Numbers,
                          event : {"debate_resolved", "claim_disputed"}]
  /\ rows \subseteq Numbers /\ traces \subseteq TraceRecords
  /\ result \in {"none", "lists", "failed"}

HasTrace(i, type) == \E t \in traces : t.of = i /\ t.type = type

\* The row of a claim agrees with the list that goes on to the report and with
\* what viewers were told: it is in exactly the list its final_confidence says,
\* its dispute and its debate, if any, were announced before, and after a debate
\* its flags say the same as the list, except for the one value that only
\* rounding lifts to the threshold.
RowsAgreeWithLists ==
  \A i \in rows :
    /\ enriched[i].debated <=> EventOf(i, "debate_resolved") \in announced
    /\ i \in disputed_claims <=> EventOf(i, "claim_disputed") \in announced
    /\ i \in verified_claims \/ i \in disputed_claims
    /\ i \in verified_claims => enriched[i].confidence >= VERIFIED_THRESHOLD
    /\ i \in disputed_claims => enriched[i].confidence < VERIFIED_THRESHOLD
    /\ enriched[i].debated =>
         /\ enriched[i].verified => i \in verified_claims
         /\ enriched[i].disputed =>
              i \in disputed_claims \/ enriched[i].confidence = VERIFIED_THRESHOLD

\* The log of debates and the rows tell one story, wherever the check stops:
\* only the claim in turn can have debate traces without a row, a debated row
\* has its defense, and its verdict unless the author retracted, at the
\* confidence the row has.
DebatesAreTraced ==
  \A i \in Numbers :
    /\ stage[i] = "stored" => (i \in rows /\ HasTrace(i, "fact_checker"))
    /\ HasTrace(i, "debate_defense") /\ i \notin rows =>
         /\ \A j \in 1..i - 1 : j \in rows
         /\ \A j \in i + 1..Size : j \notin rows /\ stage[j] = "checked"
    /\ i \in rows =>
         (enriched[i].debated <=> HasTrace(i, "debate_defense"))
    /\ i \in rows /\ enriched[i].debated =>
         \/ enriched[i].confidence = 1000 /\ ~HasTrace(i, "debate_verdict")
         \/ \E t \in traces : /\ t.of = i /\ t.type = "debate_verdict"
                              /\ Rounded(t.confidence) = enriched[i].confidence

\* However often the providers are busy, the check ends.
CheckEnds == <>(result # "none")

-----------------------------------------------------------------------------
(* Refinement *)

\* A claim is settled when its row is committed; before that the lists of the
\* loop are nobody's.
Verdict == INSTANCE ClaimVerdicts
  WITH settled <- Cardinality({i \in Numbers : stage[i] = "stored"}),
       upheld <- {i \in verified_claims : stage[i] = "stored"},
       rejected <- {i \in disputed_claims : stage[i] = "stored"}

\* The check settles claims in order, each once and for good.
SettlesClaims == Verdict!Spec

=============================================================================
