------------------------------ MODULE EventFeed ------------------------------
(***************************************************************************)
(* What one viewer of a brief may expect of its live event stream: from    *)
(* the moment it is subscribed it is given the events that follow, each    *)
(* once, in the order they were published and without a gap.  What was     *)
(* published before is never shown, and a viewer may be cut off or leave   *)
(* at any time.  EventStream implements it for every viewer.               *)
(***************************************************************************)
EXTENDS Integers, Sequences

VARIABLES
  sent,     \* how many events the brief has published
  cursor,   \* number of the last event given over this connection, or Off
  got       \* the numbers of all events the viewer was given

Off == -1

Init == sent = 0 /\ cursor = Off /\ got = <<>>

Publish == sent' = sent + 1 /\ UNCHANGED <<cursor, got>>

\* Nothing of the past is replayed.
Join == cursor = Off /\ cursor' = sent /\ UNCHANGED <<sent, got>>

Give == \E n \in 0..sent :
          /\ cursor # Off /\ cursor <= n
          /\ got' = got \o [i \in 1..(n - cursor) |-> cursor + i]
          /\ cursor' \in {n, Off}
          /\ UNCHANGED sent

Leave == cursor' = Off /\ UNCHANGED <<sent, got>>

Next == Publish \/ Join \/ Give \/ Leave

Spec == Init /\ [][Next]_<<sent, cursor, got>>

=============================================================================
