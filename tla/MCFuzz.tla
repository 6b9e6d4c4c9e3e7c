------------------------------- MODULE MCFuzz -------------------------------
(* The fuzz harnesses of the owning wrappers for TLC.  On a 64-bit target    *)
(* the small callable of fuzz_function.cpp has 4 bytes, the large one 68.    *)
EXTENDS FuzzInvariant

MCSize == [t \in Types |-> IF t = Small THEN 4 ELSE 68]
MCAlign == [t \in Types |-> 4]
=============================================================================
