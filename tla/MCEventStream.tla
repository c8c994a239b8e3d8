---------------------------- MODULE MCEventStream ----------------------------
(* Instances of EventStream for TLC: every viewer looks at the one brief. *)
EXTENDS EventStream

CONSTANT b1
WatchesOne == [c \in Viewers |-> b1]

=============================================================================
