------------------------- MODULE ReentrantFunction -------------------------
(***************************************************************************)
(* Function used by the code it calls.  The constructors, destructors and  *)
(* operator() of a stored callable run in the middle of an operation and   *)
(* may use any Function, the one that called them included: a callable     *)
(* that calls itself, replaces itself while it is being copied, or uses    *)
(* the Function it is being destroyed in.                                  *)
(*                                                                         *)
(* One thread: the operations in progress form a stack, every member of    *)
(* Threads stands for one level of it, with that call's local `tmp`, and   *)
(* only the innermost proceeds.  What the outer ones still rely on is the  *)
(* rule the client's callables must keep.                                  *)
(***************************************************************************)
EXTENDS FunctionRefinement, Sequences

VARIABLE stack   \* the levels in use, the innermost last

nvars == <<vars, stack>>

-----------------------------------------------------------------------------
(* What an operation in progress relies on                                  *)

\* The Functions that are between two states while frame f is suspended in a
\* callable's code: under construction, with a vtable_ whose callable is being
\* destroyed, or taking part in a move.
Between(f) ==
  CASE f.op \in {"construct", "copyctor"} -> {f.this}
    [] f.at = "kill" -> {f.this}
    [] f.at \in {"move", "retire"} -> IF f.op = "copyassign" THEN {f.this} ELSE Uses(f)
    [] OTHER -> {}

\* Those whose vtable_ it will read again, or whose callable is running.
Pinned(f) == CASE f.op \in {"copyctor", "copyassign"} -> {f.other}
               [] f.at = "run" -> {f.this}
               [] OTHER -> {}

\* Those it will look at afresh, so that they may change but not go away:
\* the target of a copy assignment until the clone is complete, the source of
\* a move assignment until the target's old callable is gone.
Awaited(f) == CASE f.op = "copyassign" /\ f.at = "build" -> {f.this}
                [] f.op = "moveassign" /\ f.at = "kill" -> {f.other}
                [] OTHER -> {}

\* The Function whose callable is the source of a copy that is not complete.
BeingCopied(f) == IF f.at = "build" THEN {f.other} ELSE {}

InProgress == {act[stack[i]] : i \in DOMAIN stack}
Readable(w) == \A f \in InProgress : w \notin Between(f)
Writable(w) == Readable(w) /\ \A f \in InProgress : w \notin Pinned(f)
Endable(w) == Writable(w) /\ \A f \in InProgress : w \notin Awaited(f)

-----------------------------------------------------------------------------
(* Operations within operations                                             *)

\* Mutant: an assignment to an empty Function clones into its storage at once.
CopyAssignInPlace(a, w, o) ==
  /\ {w, o} \subseteq alive /\ w # o
  /\ CASE vt[o] = NoType -> vt[w] # NoType /\ BeginKill(a, "reset", w, o, NoType, mem)
       [] vt[o] # NoType /\ vt[w] = NoType -> Clone(a, "copyctor", w, o, w)
       [] OTHER -> Clone(a, "copyassign", w, o, a)
  /\ UNCHANGED <<alive, vt>>

NestedCopyAssign(a, w, o) == CopyAssign(a, w, o)

\* A callable may be called by itself, not while a copy of it is being made if
\* the call changes it.
NestedCall(a, w) ==
  /\ vt[w] \in Mutable => \A f \in InProgress : w \notin BeingCopied(f)
  /\ Call(a, w)

Operate(a) ==
  \E w \in Wrappers :
    \/ /\ Readable(w)
       /\ \/ DefaultConstruct(a, w)
          \/ \E t \in Types, v \in Vals : Construct(a, w, t, v)
          \/ NestedCall(a, w)
          \/ \E o \in Wrappers : Readable(o) /\ CopyConstruct(a, w, o)
          \/ \E o \in Wrappers : Writable(o) /\ MoveConstruct(a, w, o)
    \/ Writable(w) /\ Reset(a, w)
    \/ Endable(w) /\ Destroy(a, w)
    \/ \E o \in Wrappers : Writable(w) /\ Readable(o) /\ NestedCopyAssign(a, w, o)
    \/ \E o \in Wrappers :
         Writable(w) /\ Writable(o) /\ (MoveAssign(a, w, o) \/ Swap(a, w, o))

Innermost == stack[Len(stack)]

\* A callable's code is running: its constructor, destructor or operator(), or
\* its move constructor, which a move between heap pointers has none of.
InCallable(f) == f.at = "move" => fits(f.ty)

\* The client, or the innermost callable's code, starts an operation at a free
\* level: which one does not matter.
NestedBegin ==
  LET free == {a \in Threads : act[a] = Idle}
      a == CHOOSE b \in free : TRUE
  IN  /\ free # {}
      /\ stack # <<>> => InCallable(act[Innermost])
      /\ Operate(a)
      /\ stack' = IF act'[a] = Idle THEN stack ELSE Append(stack, a)

\* The innermost callable's code ends.
NestedContinue(a) ==
  /\ stack # <<>> /\ a = Innermost
  /\ Continue(a)
  /\ stack' = IF act'[a] = Idle THEN SubSeq(stack, 1, Len(stack) - 1) ELSE stack

NestedInit == Init /\ stack = <<>>

NestedNext == NestedBegin \/ \E a \in Threads : NestedContinue(a)

\* A callable's code uses Functions finitely often before it ends.
NestedFairness == \A a \in Threads : SF_nvars(NestedContinue(a))

NestedSpec == NestedInit /\ [][NestedNext]_nvars /\ NestedFairness

-----------------------------------------------------------------------------
(* Safety                                                                   *)

\* What slot s holds, A being what the levels do and V the vtables, given that at
\* most one operation has it between states.
HoldsIn(A, V, s) ==
  LET In == {b \in Threads : A[b] # Idle /\ s \in Between(A[b])}
      b == CHOOSE x \in In : TRUE
  IN  CASE s \in Threads -> Keeps(A[s], s, s, NoType)
        [] s \notin Threads /\ In # {} -> Keeps(A[b], b, s, V[s])
        [] OTHER -> V[s]

Holds(s) == HoldsIn(act, vt, s)

\* Function's Ownership and NoLeak, for operations within operations: every
\* slot's callable is alive, of the type its vtable was generated for and not
\* shared, and every callable in memory has an owner or is the one whose
\* constructor or destructor is running.
NestedOwnership ==
  /\ \A s \in Slots :
       Holds(s) # NoType =>
         /\ Live(mem, Holds(s), s)
         /\ \A r \in Slots \ {s} :
              Holds(r) # NoType => Place(mem, Holds(r), r) # Place(mem, Holds(s), s)
  /\ \A l \in Loc :
       mem.obj[l] # NoObject =>
         \/ \E s \in Slots : Holds(s) # NoType /\ Place(mem, Holds(s), s) = l
         \/ \E f \in InProgress : f.cell = l /\ f.at \in {"build", "kill", "retire"}

\* The stack is the operations in progress, and a suspended one is never moving
\* heap pointers, which runs no code.
TypeOKNested ==
  /\ TypeOK
  /\ {stack[i] : i \in DOMAIN stack} = {a \in Threads : act[a] # Idle}
  /\ \A i \in DOMAIN stack : i < Len(stack) => InCallable(act[stack[i]])

-----------------------------------------------------------------------------
(* The values seen by the callables                                         *)

\* Unlike in FunctionRefinement, a move assignment takes effect only when the
\* old callable is gone: its destructor may still use the source.
NestedInEffect(f) == InEffect(f) /\ ~(f.op = "moveassign" /\ f.at = "kill")

HeldIn(s) == Under(mem, Holds(s), s)

nestedVal ==
  [w \in Wrappers |->
     LET In == {b \in Threads : NestedInEffect(act[b]) /\ w \in Writes(act[b])}
         b == CHOOSE x \in In : TRUE
         home == Home(act[b], b, w)
     IN  CASE In = {} -> IF w \in alive THEN Under(mem, vt[w], w) ELSE Null
           [] In # {} /\ act[b].op = "destroy" -> Null
           [] OTHER -> IF home = Null THEN NoObject ELSE HeldIn(home)]

nestedCall ==
  [a \in Threads |->
     IF act[a] = Idle THEN NoType
     ELSE [op |-> act[a].op, this |-> act[a].this, other |-> act[a].other,
           done |-> NestedInEffect(act[a])]]

NestedValues ==
  INSTANCE FunctionValues WITH val <- nestedVal, call <- nestedCall,
    Empty <- NoObject, Raw <- Null, NoCall <- NoType, NoOne <- Null

\* Seen from the callables' code too, every operation takes effect at one
\* instant: a callable that uses Functions while it is constructed, destroyed,
\* moved or called sees each of them before or after the operations it is
\* nested in.
ImplementsNested == NestedValues!Behaves

\* Every operation, nested or not, returns when the callables' code does.
NestedOperationsEnd == \A a \in Threads : act[a] # Idle ~> act[a] = Idle
=============================================================================
