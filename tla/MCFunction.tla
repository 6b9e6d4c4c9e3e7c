----------------------------- MODULE MCFunction -----------------------------
(* Function for TLC: which callable types there are.                        *)
EXTENDS FunctionInvariant, TLC

CONSTANTS full, over, wide

\* On a 64-bit target: a callable that fills the buffer to the last byte and
\* changes when called, one a byte too large, and one that is small enough but
\* over-aligned.
MCSize == [t \in Types |-> CASE t = full -> 40 [] t = over -> 41 [] t = wide -> 16]
MCAlign == [t \in Types |-> IF t = wide THEN 16 ELSE 8]

Interchangeable ==
  Permutations(Wrappers) \cup Permutations(Threads) \cup Permutations(Heap)
=============================================================================
