------------------------- MODULE ReentrantInvariant -------------------------
(***************************************************************************)
(* The inductive invariant of ReentrantFunction.                           *)
(*                                                                         *)
(* Every operation in progress relies on the same facts as in              *)
(* FunctionInvariant (Frames), but no longer has its Functions to itself:  *)
(* operations within it may use them.  Respectful is what is left of the   *)
(* client rule, the rule of the callables' code, kept by every step; with  *)
(* it at most one operation has a given Function between two states, so    *)
(* what a slot holds is well defined.                                      *)
(***************************************************************************)
EXTENDS ReentrantFunction, FunctionInvariant

\* The Functions operation f gives another callable or none.
Alters(f) == IF f.op = "call" THEN {} ELSE Writes(f)

\* Operation g, begun by code of a callable that operation f runs, leaves f what
\* it relies on.
Respects(g, f) ==
  /\ Uses(g) \cap Between(f) = {}
  /\ Alters(g) \cap Pinned(f) = {}
  /\ g.op = "destroy" => g.this \notin Awaited(f)

Respectful ==
  \A i, j \in DOMAIN stack : i < j => Respects(act[stack[j]], act[stack[i]])

\* The stack is the levels in use, each once.
Stacked ==
  /\ stack \in Seq(Threads)
  /\ \A i, j \in DOMAIN stack : i # j => stack[i] # stack[j]
  /\ \A a \in Threads : act[a] # Idle <=> \E i \in DOMAIN stack : stack[i] = a
  /\ \A i \in DOMAIN stack : i < Len(stack) => InCallable(act[stack[i]])

NestedKeepers == [s \in Slots |-> Holds(s)]

Sound == /\ Framed
         /\ Consistent(mem, NestedKeepers, Cells, Lives, Kinds)
         /\ defined

NestedInv == Sound /\ Stacked /\ Respectful

-----------------------------------------------------------------------------
(* What the values seen by the callables rest on                            *)

\* What w holds by its own vtable_, whatever has it between two states.
Standing == [w \in Wrappers |-> Under(mem, vt[w], w)]

\* A copy in progress has the value of its source.
CopiesHold ==
  \A b \in Threads :
    act[b].at = "build" /\ act[b].op # "construct" =>
      mem.obj[act[b].cell].val = Standing[act[b].other].val

\* A callable under destruction is still the one its Function's vtable_ finds.
KillsHold ==
  \A b \in Threads :
    act[b].at = "kill" => act[b].cell = Place(mem, vt[act[b].this], act[b].this)

\* Call g does not change a callable that operation f is copying.
Spares(g, f) == g.op = "call" /\ g.ty \in Mutable => g.this \notin BeingCopied(f)

Sparing == \A i, j \in DOMAIN stack : i < j => Spares(act[stack[j]], act[stack[i]])

\* However operations nest, no step of one acts on what another has left stale: a
\* copy in progress still equals its source, and a callable whose destructor is
\* about to run is the one its Function's vtable_ finds (clone and destroy,
\* Function.tpp).  Inductive, and what ImplementsNested is proved from.
NestedValuesInv == NestedInv /\ CopiesHold /\ KillsHold /\ Sparing
=============================================================================
