------------------------------- MODULE Stream -------------------------------
(***************************************************************************)
(* Bytes are told apart by their position in the buffer or stream they     *)
(* come from: what a loop has moved is a sequence of positions.            *)
(***************************************************************************)
EXTENDS Integers, Sequences

\* The n consecutive positions from a on.
Span(a, n) == [k \in 1 .. n |-> a + k - 1]
=============================================================================
