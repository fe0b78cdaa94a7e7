-------------------------- MODULE MCProtocolEngine --------------------------
(* Finite instances of ProtocolEngine for TLC. *)
EXTENDS ProtocolEngine, TLC

\* uuid4() gives every call an id of its own.
OwnId == [c \in Calls |-> c]

Symmetry == Permutations(Calls) \cup Permutations(Requests) \cup Permutations(Closers)
=============================================================================
