-------------------------- MODULE MoveOnlyFunction --------------------------
(***************************************************************************)
(* FunctionPro::MoveOnlyFunction (include/FunctionPro/MoveOnlyFunction.h   *)
(* and .tpp).                                                              *)
(*                                                                         *)
(* Its fields, its constructors from a callable and by move, its           *)
(* destructor, move assignment, reset and swap are Function's, line by     *)
(* line, so the actions of Function are used for them.  It differs in two  *)
(* ways: both copy operations are deleted (the vtable's `copy` is null),   *)
(* and operator() is not const, so a call needs the object for itself,     *)
(* whatever the callable does to itself.                                   *)
(***************************************************************************)
EXTENDS Function, FiniteSets

\* MoveOnlyFunction(), MoveOnlyFunction(nullptr), MoveOnlyFunction(T&&).
MoveOnlyConstruct(a, w) ==
  /\ Apart(a, {w}, {})
  /\ \/ DefaultConstruct(a, w)
     \/ \E t \in Types, v \in Vals : Construct(a, w, t, v)

\* ~MoveOnlyFunction() and reset().
MoveOnlyEmpty(a, w) ==
  /\ Apart(a, {w}, {})
  /\ Destroy(a, w) \/ Reset(a, w)

\* Mutant: operator() is const, and calls may share the object.
MoveOnlyCallConst(a, w) ==
  /\ Apart(a, {}, {w})
  /\ Call(a, w)

\* operator().
MoveOnlyCall(a, w) ==
  /\ Apart(a, {w}, {})
  /\ Call(a, w)

\* Mutant: the copy constructor is not deleted.
MoveOnlyMoveOrCopy(a, w, o) ==
  /\ Apart(a, {w, o}, {})
  /\ \/ MoveConstruct(a, w, o) \/ CopyConstruct(a, w, o)
     \/ MoveAssign(a, w, o)
     \/ Swap(a, w, o)

\* The move constructor, move assignment and swap.
MoveOnlyMove(a, w, o) ==
  /\ Apart(a, {w, o}, {})
  /\ \/ MoveConstruct(a, w, o)
     \/ MoveAssign(a, w, o)
     \/ Swap(a, w, o)

MoveOnlyBegin(a) ==
  /\ act[a] = Idle
  /\ \E w \in Wrappers :
       \/ MoveOnlyConstruct(a, w)
       \/ MoveOnlyEmpty(a, w)
       \/ MoveOnlyCall(a, w)
       \/ \E o \in Wrappers : MoveOnlyMove(a, w, o)

MoveOnlyNext == \E a \in Threads : MoveOnlyBegin(a) \/ Continue(a)

MoveOnlySpec == Init /\ [][MoveOnlyNext]_vars /\ Fairness

-----------------------------------------------------------------------------
\* The slots that hold a callable of type t.
Holders(t) == {s \in Slots : Kept(s) = t}

\* A callable is never duplicated: there is one more of a type only when the
\* construction of one from the client's callable ends.  Moves and swaps, their
\* intermediate states included, neither copy nor revive one.
NeverCopied ==
  [][\A t \in Types :
       Cardinality(Holders(t)') <=
         Cardinality(Holders(t)) +
           Cardinality({a \in Threads : /\ act[a].op = "construct" /\ act[a].ty = t
                                        /\ act'[a] = Idle})]_vars
=============================================================================
