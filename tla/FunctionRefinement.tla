------------------------- MODULE FunctionRefinement -------------------------
(***************************************************************************)
(* Function implements FunctionValues: the refinement mapping.             *)
(*                                                                         *)
(* An operation that cannot throw takes effect when it begins, although    *)
(* its callables are still being moved and destroyed; one that copies      *)
(* takes effect when the copy is complete.  While an operation is past     *)
(* that instant, the value of a Function is the callable it will hold,     *)
(* wherever it lies: in the source, in `tmp`, or in the Function itself.   *)
(***************************************************************************)
EXTENDS Function

Callables == [type : Types, val : Vals]

\* Three values that stand for the absence of a callable, of a Function and of
\* an operation are none of these.
ASSUME MappingAssumption ==
  /\ {NoObject, Null} \cap Callables = {} /\ NoObject # Null
  /\ NoType \notin [op : Ops, this : Wrappers \cup {Null}, other : Wrappers \cup {Null},
                   done : BOOLEAN]

\* The callables a call may leave: the same or, if it changes, the next.
Runs == [x \in Callables |->
           {x} \cup {y \in Callables : /\ x.type \in Mutable /\ y.type = x.type
                                       /\ y.val = x.val + 1}]

\* What slot s of memory m holds under the vtable of t.
Under(m, t, s) ==
  IF t = NoType THEN NoObject
  ELSE [type |-> m.obj[Place(m, t, s)].type, val |-> m.obj[Place(m, t, s)].val]

Shown(s) == Under(mem, Kept(s), s)

\* The operation of frame f has taken effect and is not over.
InEffect(f) == f.at \in {"kill", "move", "retire"}

\* Where the callable is that a vtable's move takes from f.src to f.dst.
Spot(f) == IF f.at = "move" THEN f.src ELSE f.dst

\* The slot where the callable lies that w will hold when operation f of thread
\* b, in effect, is over; Null if w will hold none.
Home(f, b, w) ==
  CASE f.op = "copyassign" -> IF f.at = "kill" THEN b ELSE Spot(f)
    [] f.op \in {"movector", "moveassign"} ->
         IF w = f.other THEN Null ELSE IF f.at = "kill" THEN f.other ELSE Spot(f)
    [] f.op = "swap" /\ w = f.this ->
         IF f.src = f.other THEN Spot(f)
         ELSE IF f.theirs = NoType THEN Null
         ELSE IF f.src = b THEN f.this ELSE f.other
    [] f.op = "swap" /\ w = f.other ->
         IF f.src # f.other THEN Spot(f) ELSE IF f.mine = NoType THEN Null ELSE b
    [] OTHER -> Null

\* What w will hold then.
Outcome(f, b, w) ==
  LET h == Home(f, b, w)
  IN  IF f.op = "destroy" THEN Null ELSE IF h = Null THEN NoObject ELSE Shown(h)

\* Thread b decides what w holds.
Decides(b, w) == InEffect(act[b]) /\ w \in Writes(act[b])

val == [w \in Wrappers |->
          IF \E b \in Threads : Decides(b, w)
            THEN LET b == CHOOSE b \in Threads : Decides(b, w) IN Outcome(act[b], b, w)
            ELSE IF w \in alive THEN Shown(w) ELSE Null]

call == [a \in Threads |->
           IF act[a] = Idle THEN NoType
           ELSE [op |-> act[a].op, this |-> act[a].this, other |-> act[a].other,
                 done |-> InEffect(act[a])]]

Values == INSTANCE FunctionValues
            WITH Empty <- NoObject, Raw <- Null, NoCall <- NoType, NoOne <- Null

\* Every Function behaves as a value: copies are independent of their source,
\* a move leaves its source empty, a swap exchanges the two callables, a move
\* or copy to itself changes nothing, and an assignment whose copy throws leaves
\* its target as it was.
BehavesAsValues == Values!Behaves

\* Every operation that was called returns or ends with an exception.
OperationsEnd == Values!Fairness

\* A copy in progress reads its source as it is: until the copy constructor
\* returns, nobody changes the callable that is copied.
CopiesItsSource ==
  \A b \in Threads :
    act[b].at = "build" /\ act[b].op # "construct" =>
      mem.obj[act[b].cell].val = Shown(act[b].other).val
=============================================================================
