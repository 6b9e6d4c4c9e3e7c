--------------------------- MODULE FuzzInvariant ---------------------------
(***************************************************************************)
(* The inductive invariant of the fuzz harnesses of the owning wrappers.   *)
(*                                                                         *)
(* A harness and its oracle change at different times: the oracle when an  *)
(* operation begins, the wrappers one task after the other.  The invariant *)
(* therefore runs what is left to do on the values the wrappers have as    *)
(* FunctionRefinement shows them: every check on the way passes, and at    *)
(* the end each wrapper holds what its oracle says.                        *)
(***************************************************************************)
EXTENDS FuzzOwning, FunctionRefinement, FunctionInvariant

Contents == [Wrappers -> Callables \cup {NoObject, Null}]

Counted(x) == [type |-> x.type, val |-> x.val + 1]

\* What the wrappers hold once the operation in progress is over.
WhenOver ==
  LET f == act[Main]
  IN  IF f.at = "run" THEN [val EXCEPT ![f.this] = Counted(val[f.this])]
      ELSE IF f.at # "build" THEN val
      ELSE IF f.op = "construct"
        THEN [val EXCEPT ![f.this] = [type |-> f.ty, val |-> mem.obj[f.cell].val]]
        ELSE [val EXCEPT ![f.this] = val[f.other]]

\* What they hold, being V, after task k.
TaskEffect(V, k) ==
  CASE k.do = "default" -> [V EXCEPT ![k.w] = NoObject]
    [] k.do \in Types -> [V EXCEPT ![k.w] = [type |-> k.do, val |-> k.x]]
    [] k.do = "copy" -> [V EXCEPT ![k.w] = V[k.o]]
    [] k.do = "move" -> [V EXCEPT ![k.o] = NoObject, ![k.w] = V[k.o]]
    [] k.do = "swap" -> [V EXCEPT ![k.w] = V[k.o], ![k.o] = V[k.w]]
    [] k.do = "reset" -> [V EXCEPT ![k.w] = NoObject]
    [] k.do = "destroy" -> [V EXCEPT ![k.w] = Null]
    [] k.do = "call" -> IF V[k.w] = NoObject THEN V ELSE [V EXCEPT ![k.w] = Counted(V[k.w])]
    [] OTHER -> V

\* Task k can be done when they hold V and the oracles are e; if it is a check
\* it passes.
Allowed(e, V, k) ==
  /\ k.w \in Wrappers /\ k.o \in Wrappers /\ k.do \in Types \cup Calls \cup Checks
  /\ IF k.do \in Types \cup {"default"} THEN V[k.w] = Null ELSE Null \notin {V[k.w], V[k.o]}
  /\ k.do \in Types => k.x \in Vals
  /\ k.do = "call" /\ V[k.w] # NoObject => V[k.w].val + 1 \in Vals
  /\ k.do = "emptied" => V[k.w] = NoObject
  /\ k.do = "same" => (V[k.w] = NoObject <=> k.x # 1)
  /\ k.do \in {"agree", "result"} => k.w # Temp
  /\ k.do = "agree" => e[k.w] # Unspecified /\ (V[k.w] = NoObject <=> e[k.w] = Empty)
  /\ k.do = "result" /\ V[k.w] # NoObject => V[k.w].val = e[k.w]

\* A wrapper that holds x and an oracle y that agree.
Matches(x, y) == IF y = Empty THEN x = NoObject ELSE x \in Callables /\ x.val = y

\* Wrappers and oracles agree, or the wrappers are gone with the harness h.
Agree(h, e, V) ==
  /\ V[Temp] = Null
  /\ \A w \in {A, B} : IF h = "over" THEN V[w] = Null ELSE Matches(V[w], e[w])

\* The tasks q, of which there are never more than three, lead from V to where
\* wrappers and oracles agree.
Leads0(h, e, V, q) == q = <<>> /\ Agree(h, e, V)
Leads1(h, e, V, q) == /\ q # <<>> /\ Allowed(e, V, Head(q))
                      /\ Leads0(h, e, TaskEffect(V, Head(q)), Tail(q))
Leads2(h, e, V, q) == /\ q # <<>> /\ Allowed(e, V, Head(q))
                      /\ Leads1(h, e, TaskEffect(V, Head(q)), Tail(q))
Leads3(h, e, V, q) == /\ q # <<>> /\ Allowed(e, V, Head(q))
                      /\ Leads2(h, e, TaskEffect(V, Head(q)), Tail(q))
Leads(h, e, V, q) == \/ Leads0(h, e, V, q) \/ Leads1(h, e, V, q)
                     \/ Leads2(h, e, V, q) \/ Leads3(h, e, V, q)

\* In the middle of every operation the library's invariant holds, and what the
\* harness still has to do makes the wrappers agree with their oracles, without
\* a failing check.
FuzzInv ==
  /\ IInv /\ CopiesItsSource
  /\ harness \in {"function", "move_only", "over"}
  /\ oracle \in [{A, B} -> Vals \cup {Empty}]
  /\ ~aborted
  /\ act[Main].op # "copyctor"
  /\ WhenOver \in Contents
  /\ act[Main].at = "run" => Counted(val[act[Main].this]) \in Callables
  /\ Leads(harness, oracle, WhenOver, todo)
=============================================================================
