---------------------------- MODULE ClaimVerdicts ----------------------------
(***************************************************************************)
(* What the rest of the pipeline relies on when it hands its claims to the *)
(* fact checker: claims are settled one after the other, each for good and *)
(* into one of two lists; the lists are handed on when all are settled, or *)
(* the check fails as a whole and hands on nothing.                        *)
(***************************************************************************)
EXTENDS Naturals

CONSTANT Size      \* number of claims
VARIABLES settled, \* claims settled so far, in the order of the claims
          upheld, rejected, result

verdictVars == <<settled, upheld, rejected, result>>

Init == /\ settled = 0 /\ upheld = {} /\ rejected = {}
        /\ result = "none"

Settle == /\ result = "none" /\ settled < Size
          /\ settled' = settled + 1
          /\ \/ upheld' = upheld \cup {settled + 1} /\ UNCHANGED rejected
             \/ rejected' = rejected \cup {settled + 1} /\ UNCHANGED upheld
          /\ UNCHANGED result

HandOn == /\ result = "none" /\ settled = Size
          /\ result' = "lists"
          /\ UNCHANGED <<settled, upheld, rejected>>

Fail == /\ result = "none"
        /\ result' = "failed"
        /\ UNCHANGED <<settled, upheld, rejected>>

Next == Settle \/ HandOn \/ Fail
Spec == Init /\ [][Next]_verdictVars

=============================================================================
