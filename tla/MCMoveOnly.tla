----------------------------- MODULE MCMoveOnly -----------------------------
(* MoveOnlyFunction for TLC: which callable types there are.                *)
EXTENDS MoveOnlyFunction, TLC

CONSTANTS full, over

\* On a 64-bit target: a callable that fills the buffer to the last byte and one
\* a byte too large.
MCSize == [t \in Types |-> IF t = over THEN 41 ELSE 40]
MCAlign == [t \in Types |-> 8]

Interchangeable ==
  Permutations(Wrappers) \cup Permutations(Threads) \cup Permutations(Heap)
=============================================================================
