-------------------------- MODULE MCPortableExchange -------------------------
(* Values for TLC: a batch of events, all for one Central of two. *)
EXTENDS PortableExchange

CONSTANTS core, sis, e1, e2

AllForCore == [e \in Events |-> core]

ClockErrors == {-1, 0, 1}
=============================================================================
