------------------------------ MODULE LLMClient ------------------------------
(***************************************************************************)
(* One call of groq_client.call or gemini_client.call: the provider is     *)
(* asked again, after a delay that doubles, while it answers that its rate *)
(* limit is reached and attempts are left; every other error raises.       *)
(***************************************************************************)
EXTENDS Integers

CONSTANT MAX_RETRIES
ASSUME RetriesAssumption == MAX_RETRIES \in Nat \ {0}

CallStates == [at : {"asking", "sleeping", "raised"},
               attempt : 0..MAX_RETRIES - 1, delay : Nat \ {0}]
NewCall == [at |-> "asking", attempt |-> 0, delay |-> 1]

\* What becomes of a call whose attempt met the rate limit: the last attempt
\* does not sleep.
RateLimited(call) ==
  [call EXCEPT !.at = IF call.attempt = MAX_RETRIES - 1 THEN "raised"
                                                        ELSE "sleeping"]
Refused(call) == [call EXCEPT !.at = "raised"]
\* Mutant: the delay stays.
AskAgainSoon(call) ==
  [at |-> "asking", attempt |-> call.attempt + 1, delay |-> call.delay]
\* Mutant: every round of the loop starts the count again.
AskAnew(call) == NewCall
AskAgain(call) ==
  [at |-> "asking", attempt |-> call.attempt + 1, delay |-> call.delay * 2]

=============================================================================
