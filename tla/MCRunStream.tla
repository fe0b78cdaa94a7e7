---------------------------- MODULE MCRunStream ----------------------------
(* Finite instances of RunStream for TLC. *)
EXTENDS RunStream

\* Two streams of one session, the first with a timeout.
TwoStreams == {1, 2}
FirstTimed == {1}
OnlyFirst  == {1}
OneStream  == {1}
Nobody     == 0

\* The events of each turn: two show an order, one is enough to follow it.
TwoThenOne == [s \in TwoStreams |-> IF s = 1 THEN 2 ELSE 1]
OneEvent   == [s \in OneStream |-> 1]
=============================================================================
