------------------------------ MODULE Function ------------------------------
(***************************************************************************)
(* FunctionPro::Function (include/FunctionPro/Function.h and Function.tpp).*)
(*                                                                         *)
(* A Function is a vtable pointer and a CallableStorage.  Its operations   *)
(* are sequences of vtable calls, and every vtable call may run code of    *)
(* the stored callable: a copy constructor that may throw, a move          *)
(* constructor, a destructor, operator().  A step of the model is the      *)
(* library's code from the return of one such call to the entry of the     *)
(* next, so an operation spans several steps and the threads' operations   *)
(* interleave at the callables' code.                                      *)
(*                                                                         *)
(* Threads follow the rule of the standard library: an operation that      *)
(* changes a Function has it to itself, operations that only read one may  *)
(* share it.                                                               *)
(***************************************************************************)
EXTENDS CallableStorage

CONSTANT ShareCalls  \* TRUE: operator() const counts as reading, whatever it runs

ASSUME ShareCallsAssumption == ShareCalls \in BOOLEAN

VARIABLES
  alive,    \* the Functions whose lifetime has begun and not ended
  vt,       \* vtable_ of every Function
  mem,      \* the storages and the heap
  act,      \* what every thread is doing
  defined   \* TRUE while no step had undefined behaviour

vars == <<alive, vt, mem, act, defined>>

Ops == {"construct", "copyctor", "movector", "copyassign", "moveassign",
        "reset", "destroy", "swap", "call"}

\* Where a thread is inside its operation: the callable's constructor runs at
\* "build", its destructor at "kill" (a replaced callable) and "retire" (a
\* moved-from one), its move constructor at "move", its operator() at "run".
Frame == [op: Ops \cup {"none"},
          at: {"build", "kill", "move", "retire", "run", "idle"},
          this: Wrappers \cup {Null},
          other: Wrappers \cup {Null},
          ty: Types \cup {NoType},        \* the vtable whose operation runs
          cell: Loc \cup {Null, Junk},    \* the callable it runs on
          dst: Slots \cup {Null},         \* of a move
          src: Slots \cup {Null},
          mine: Types \cup {NoType},      \* swap's thisVt
          theirs: Types \cup {NoType}]    \* swap's otherVt

\* An operation op on w (and o) that runs code of a callable at cell, or moves
\* one of type t; swap also keeps the two vtables it read.
Doing(op, at, w, o, t, cell) ==
  [op |-> op, at |-> at, this |-> w, other |-> o, ty |-> t, cell |-> cell,
   dst |-> Null, src |-> Null, mine |-> NoType, theirs |-> NoType]

Moving(op, w, o, t, dst, src, mine, theirs) ==
  [op |-> op, at |-> "move", this |-> w, other |-> o, ty |-> t, cell |-> Null,
   dst |-> dst, src |-> src, mine |-> mine, theirs |-> theirs]

Idle == Doing("none", "idle", Null, Null, NoType, Null)

TypeOK == /\ alive \subseteq Wrappers
          /\ vt \in [Wrappers -> Types \cup {NoType}]
          /\ mem \in Memory
          /\ act \in [Threads -> Frame]
          /\ defined \in BOOLEAN

Init == /\ alive = {}
        /\ vt = [w \in Wrappers |-> NoType]
        /\ mem = EmptyMemory
        /\ act = [a \in Threads |-> Idle]
        /\ defined = TRUE

-----------------------------------------------------------------------------
(* The client: which operations may overlap                                 *)

\* An operation changes its own Function, and the source of a move or a swap.
\* A call changes its Function when the callable it runs changes itself.
Writes(f) ==
  CASE f.op \in {"construct", "copyctor", "copyassign", "reset", "destroy"} -> {f.this}
    [] f.op \in {"movector", "moveassign", "swap"} -> {f.this, f.other}
    [] f.op = "call" /\ f.ty \in Mutable /\ ~ShareCalls -> {f.this}
    [] OTHER -> {}

Uses(f) == {f.this, f.other} \ {Null}

\* Beside the operations in progress, thread a may change the Functions W and
\* read the Functions R.
Apart(a, W, R) ==
  \A b \in Threads \ {a} : /\ W \cap Uses(act[b]) = {}
                           /\ R \cap Writes(act[b]) = {}

-----------------------------------------------------------------------------
(* What the operations are made of                                          *)

Go(a, f) == act' = [act EXCEPT ![a] = f]

Must(p) == defined' = (defined /\ p)

\* reset() of w, when there is a callable: destroy(storage_) enters its
\* destructor.  vtable_ still points to the vtable meanwhile.
BeginKill(a, op, w, o, t, m) ==
  LET l == Place(m, vt[w], w)
  IN  /\ Must(LiveAt(m, vt[w], l))
      /\ mem' = Mark(m, l, "dying")
      /\ Go(a, Doing(op, "kill", w, o, t, l))

-----------------------------------------------------------------------------
(* Construction, destruction and reset                                      *)

\* Function() and Function(nullptr).
DefaultConstruct(a, w) ==
  /\ w \notin alive
  /\ alive' = alive \cup {w}
  /\ mem' = Fresh(mem, w)
  /\ UNCHANGED <<vt, act, defined>>

\* Function(T&&): the callable's constructor is entered in the buffer or in a
\* new heap cell.  No cell, no change: `new` throws and the step is a stutter.
Construct(a, w, t, v) ==
  /\ w \notin alive
  /\ \E c \in Room(mem, t, w) :
       /\ mem' = BeginNew(Fresh(mem, w), t, w, c, v)
       /\ Go(a, Doing("construct", "build", w, Null, t, c))
  /\ UNCHANGED <<alive, vt, defined>>

\* copy(s, o.storage_): the callable's copy constructor is entered.
Clone(a, op, w, o, s) ==
  /\ \E c \in Room(mem, vt[o], s) :
       /\ mem' = BeginNew(Fresh(mem, s), vt[o], s, c, mem.obj[Place(mem, vt[o], o)].val)
       /\ Go(a, Doing(op, "build", w, o, vt[o], c))
  /\ Must(Live(mem, vt[o], o))

\* Function(const Function&): copy() into the new object's storage.
CopyConstruct(a, w, o) ==
  /\ w \notin alive /\ o \in alive
  /\ IF vt[o] = NoType
       THEN /\ alive' = alive \cup {w}
            /\ mem' = Fresh(mem, w)
            /\ UNCHANGED <<act, defined>>
       ELSE /\ Clone(a, "copyctor", w, o, w)
            /\ UNCHANGED alive
  /\ UNCHANGED vt

\* Function(Function&&).
MoveConstruct(a, w, o) ==
  /\ w \notin alive /\ o \in alive
  /\ mem' = Fresh(mem, w)
  /\ IF vt[o] = NoType
       THEN alive' = alive \cup {w} /\ UNCHANGED act
       ELSE Go(a, Moving("movector", w, o, vt[o], w, o, NoType, NoType)) /\ UNCHANGED alive
  /\ UNCHANGED <<vt, defined>>

\* reset().  On an empty Function it does nothing.
Reset(a, w) ==
  /\ w \in alive /\ vt[w] # NoType
  /\ BeginKill(a, "reset", w, Null, NoType, mem)
  /\ UNCHANGED <<alive, vt>>

\* Mutant: a destructor that forgets reset().
DestroyWithoutReset(a, w) ==
  /\ w \in alive
  /\ alive' = alive \ {w}
  /\ vt' = [vt EXCEPT ![w] = NoType]
  /\ UNCHANGED <<mem, act, defined>>

\* ~Function().
Destroy(a, w) ==
  /\ w \in alive
  /\ IF vt[w] = NoType
       THEN alive' = alive \ {w} /\ UNCHANGED <<mem, act, defined>>
       ELSE BeginKill(a, "destroy", w, Null, NoType, mem) /\ UNCHANGED alive
  /\ UNCHANGED vt

-----------------------------------------------------------------------------
(* Assignment, swap and invocation                                          *)

\* Mutant: copy assignment without `if (this != &other)`.
CopyAssignUnguarded(a, w, o) ==
  /\ {w, o} \subseteq alive
  /\ IF vt[o] = NoType
       THEN vt[w] # NoType /\ BeginKill(a, "reset", w, o, NoType, mem)
       ELSE Clone(a, "copyassign", w, o, a)
  /\ UNCHANGED <<alive, vt>>

\* Mutant: copy assignment that takes the source's callable with the vtable's
\* move where it should copy.
CopyAssignBySteal(a, w, o) ==
  /\ {w, o} \subseteq alive /\ w # o /\ vt[o] # NoType
  /\ mem' = Fresh(mem, a)
  /\ Go(a, Moving("copyassign", w, o, vt[o], a, o, NoType, NoType))
  /\ UNCHANGED <<alive, vt, defined>>

\* operator=(const Function&): the clone is built in the local `tmp` first.
\* Assigning an empty Function is reset().
CopyAssign(a, w, o) ==
  /\ {w, o} \subseteq alive /\ w # o
  /\ IF vt[o] = NoType
       THEN vt[w] # NoType /\ BeginKill(a, "reset", w, o, NoType, mem)
       ELSE Clone(a, "copyassign", w, o, a)
  /\ UNCHANGED <<alive, vt>>

\* Mutant: move assignment without `if (this != &other)`.
MoveAssignUnguarded(a, w, o) ==
  /\ {w, o} \subseteq alive
  /\ IF vt[w] # NoType
       THEN BeginKill(a, "moveassign", w, o, NoType, mem)
       ELSE /\ vt[o] # NoType
            /\ Go(a, Moving("moveassign", w, o, vt[o], w, o, NoType, NoType))
            /\ UNCHANGED <<mem, defined>>
  /\ UNCHANGED <<alive, vt>>

\* operator=(Function&&): reset() first, then the source is looked at.
MoveAssign(a, w, o) ==
  /\ {w, o} \subseteq alive /\ w # o
  /\ IF vt[w] # NoType
       THEN BeginKill(a, "moveassign", w, o, NoType, mem)
       ELSE /\ vt[o] # NoType
            /\ Go(a, Moving("moveassign", w, o, vt[o], w, o, NoType, NoType))
            /\ UNCHANGED <<mem, defined>>
  /\ UNCHANGED <<alive, vt>>

\* swap(Function&): both vtables are read once, before any move.
Swap(a, w, o) ==
  LET Leg(t, dst, src) == Go(a, Moving("swap", w, o, t, dst, src, vt[w], vt[o]))
  IN  /\ {w, o} \subseteq alive /\ w # o
      /\ \/ /\ vt[w] # NoType /\ vt[o] # NoType
            /\ mem' = Fresh(mem, a)
            /\ Leg(vt[w], a, w)
         \/ /\ vt[w] # NoType /\ vt[o] = NoType
            /\ Leg(vt[w], o, w)
            /\ UNCHANGED mem
         \/ /\ vt[w] = NoType /\ vt[o] # NoType
            /\ Leg(vt[o], w, o)
            /\ UNCHANGED mem
      /\ UNCHANGED <<alive, vt, defined>>

\* operator() const.  An empty Function throws and nothing changes.
Call(a, w) ==
  LET l == Place(mem, vt[w], w)
  IN  /\ w \in alive /\ vt[w] # NoType
      /\ Must(LiveAt(mem, vt[w], l))
      /\ Go(a, Doing("call", "run", w, Null, vt[w], l))
      /\ UNCHANGED <<alive, vt, mem>>

-----------------------------------------------------------------------------
(* The callable's code returns                                              *)

\* The operation of frame f calls a vtable's move(dst, src).
Onward(f, t, dst, src) == Moving(f.op, f.this, f.other, t, dst, src, f.mine, f.theirs)

\* The constructor of a new callable returns.
FinishBuild(a) ==
  LET f == act[a]
      m == EndNew(mem, f.ty, IF f.op = "copyassign" THEN a ELSE f.this, f.cell)
  IN  /\ f.at = "build"
      /\ \/ /\ f.op \in {"construct", "copyctor"}
            /\ mem' = m
            /\ vt' = [vt EXCEPT ![f.this] = IF f.op = "construct" THEN f.ty ELSE vt[f.other]]
            /\ alive' = alive \cup {f.this}
            /\ Go(a, Idle)
            /\ UNCHANGED defined
         \/ /\ f.op = "copyassign"
            /\ IF vt[f.this] # NoType
                 THEN BeginKill(a, f.op, f.this, f.other, f.ty, m)
                 ELSE /\ mem' = m
                      /\ Go(a, Onward(f, vt[f.other], f.this, a))
                      /\ UNCHANGED defined
            /\ UNCHANGED <<alive, vt>>

\* It throws: the operation ends with the exception, before vtable_ was set.
ThrowBuild(a) ==
  /\ act[a].at = "build"
  /\ mem' = Erase(mem, act[a].cell)
  /\ Go(a, Idle)
  /\ UNCHANGED <<alive, vt, defined>>

\* The destructor called by reset() returns; vtable_ becomes null and the
\* operation goes on.
FinishKill(a) ==
  LET f == act[a]
  IN  /\ f.at = "kill"
      /\ mem' = Erase(mem, f.cell)
      /\ vt' = [vt EXCEPT ![f.this] = NoType]
      /\ alive' = IF f.op = "destroy" THEN alive \ {f.this} ELSE alive
      /\ Go(a, CASE f.op = "copyassign" ->
                      Onward(f, vt'[f.other], f.this, a)
                 [] f.op = "moveassign" /\ vt'[f.other] # NoType ->
                      Onward(f, vt'[f.other], f.this, f.other)
                 [] OTHER -> Idle)
      /\ UNCHANGED defined

\* Mutant: a move that leaves the source's vtable_ set.
AfterMoveSourceKept(a, f) ==
  /\ vt' = IF f.op = "swap" THEN [vt EXCEPT ![f.this] = f.theirs, ![f.other] = f.mine]
                            ELSE [vt EXCEPT ![f.this] = vt[f.other]]
  /\ alive' = alive \cup {f.this}
  /\ Go(a, Idle)

\* What follows a completed move from f.src to f.dst.
AfterMove(a, f) ==
  CASE f.op = "copyassign" ->
         /\ vt' = [vt EXCEPT ![f.this] = vt[f.other]]
         /\ Go(a, Idle) /\ UNCHANGED alive
    [] f.op \in {"movector", "moveassign"} ->
         /\ vt' = [vt EXCEPT ![f.this] = vt[f.other], ![f.other] = NoType]
         /\ alive' = alive \cup {f.this}
         /\ Go(a, Idle)
    [] f.op = "swap" /\ f.dst = a ->
         /\ Go(a, Onward(f, f.theirs, f.this, f.other))
         /\ UNCHANGED <<alive, vt>>
    [] f.op = "swap" /\ f.src = f.other /\ f.mine # NoType ->
         /\ Go(a, Onward(f, f.mine, f.other, a))
         /\ UNCHANGED <<alive, vt>>
    [] OTHER ->
         /\ vt' = [vt EXCEPT ![f.this] = f.theirs, ![f.other] = f.mine]
         /\ Go(a, Idle) /\ UNCHANGED alive

\* A vtable's move: the callable's move constructor returns and its destructor
\* is entered on the source (inline), or the pointer is handed over (heap).
StepMove(a) ==
  LET f == act[a]
  IN  /\ f.at = "move"
      /\ Must(Live(mem, f.ty, f.src) /\ mem.obj[f.dst] = NoObject)
      /\ IF fits(f.ty)
           THEN /\ mem' = Relocate(mem, f.dst, f.src)
                /\ Go(a, [f EXCEPT !.at = "retire", !.cell = f.src])
                /\ UNCHANGED <<alive, vt>>
           ELSE /\ mem' = Transfer(mem, f.dst, f.src)
                /\ AfterMove(a, f)

\* Mutant: a move that ends only when no callable is being called, as a lock
\* shared with operator() would have it.
FinishRetireLocked(a) ==
  /\ act[a].at = "retire" /\ \A b \in Threads : act[b].at # "run"
  /\ mem' = Erase(mem, act[a].cell)
  /\ AfterMove(a, act[a])
  /\ UNCHANGED defined

\* The destructor of the moved-from callable returns.
FinishRetire(a) ==
  /\ act[a].at = "retire"
  /\ mem' = Erase(mem, act[a].cell)
  /\ AfterMove(a, act[a])
  /\ UNCHANGED defined

\* operator() of the callable returns or throws, having changed it or not.
FinishCall(a) ==
  LET f == act[a]
  IN  /\ f.at = "run"
      /\ Must(LiveAt(mem, f.ty, f.cell))
      /\ mem' \in {mem, Called(mem, f.cell)}
      /\ Go(a, Idle)
      /\ UNCHANGED <<alive, vt>>

Begin(a) ==
  /\ act[a] = Idle
  /\ \E w \in Wrappers :
       \/ /\ Apart(a, {w}, {})
          /\ \/ DefaultConstruct(a, w)
             \/ \E t \in Types, v \in Vals : Construct(a, w, t, v)
             \/ Reset(a, w)
             \/ Destroy(a, w)
       \/ /\ IF vt[w] \in Mutable /\ ~ShareCalls THEN Apart(a, {w}, {}) ELSE Apart(a, {}, {w})
          /\ Call(a, w)
       \/ \E o \in Wrappers : /\ Apart(a, {w}, {o})
                              /\ CopyConstruct(a, w, o) \/ CopyAssign(a, w, o)
       \/ \E o \in Wrappers :
            /\ Apart(a, {w, o}, {})
            /\ MoveConstruct(a, w, o) \/ MoveAssign(a, w, o) \/ Swap(a, w, o)

Continue(a) == \/ FinishBuild(a)
               \/ ThrowBuild(a)
               \/ FinishKill(a)
               \/ StepMove(a)
               \/ FinishRetire(a)
               \/ FinishCall(a)

Next == \E a \in Threads : Begin(a) \/ Continue(a)

\* Operations finish if the callables' code does: nothing in the library waits.
Fairness == \A a \in Threads : WF_vars(Continue(a))

Spec == Init /\ [][Next]_vars /\ Fairness

-----------------------------------------------------------------------------
(* Who owns which callable                                                  *)

\* The type of the callable slot s holds (NoType: none) while frame f of thread
\* b works on it, v being the slot's vtable_.  Outside an operation that is v;
\* inside one, storages and vtables disagree for a while: a callable under
\* destruction counts no more, `tmp` holds the clone of a copy assignment or
\* swap's first callable, and in the last leg of a swap `this` already holds
\* the other's.
Keeps(f, b, s, v) ==
  LET parked == CASE f.op = "swap" /\ f.src = f.other /\ s = b -> f.mine
                  [] f.op = "swap" /\ f.src = b /\ s = f.this -> f.theirs
                  [] OTHER -> v
  IN  CASE f.at = "kill" -> IF s = f.this THEN NoType
                            ELSE IF s = b /\ f.op = "copyassign" THEN f.ty ELSE v
        [] f.at = "move" -> IF s = f.src THEN f.ty
                            ELSE IF s = f.dst THEN NoType ELSE parked
        [] f.at = "retire" -> IF s = f.src THEN NoType
                              ELSE IF s = f.dst THEN f.ty ELSE parked
        [] OTHER -> v

\* The same for any slot, A being what the threads do and V the vtables.  At
\* most one thread has an operation that changes a given Function.
Writer(A, w) == CHOOSE b \in Threads : w \in Writes(A[b])

KeptIn(A, V, s) ==
  IF s \in Threads THEN Keeps(A[s], s, s, NoType)
  ELSE IF \E b \in Threads : s \in Writes(A[b])
    THEN Keeps(A[Writer(A, s)], Writer(A, s), s, V[s])
    ELSE V[s]

Kept(s) == KeptIn(act, vt, s)

-----------------------------------------------------------------------------
(* Safety                                                                   *)

\* No operation runs a callable, destroys one or moves one that is not alive,
\* dereferences a null vtable, or constructs over a callable that is still
\* there: VTableFactory's casts and placement news rely on it.
Defined == defined

\* A slot that holds a callable holds a live one of the type its vtable was
\* generated for, where that vtable looks for it, and no two slots share one:
\* the union has no discriminant, so only this makes the casts right.
Ownership ==
  \A s \in Slots :
    Kept(s) # NoType =>
      /\ Live(mem, Kept(s), s)
      /\ \A r \in Slots \ {s} :
           Kept(r) # NoType => Place(mem, Kept(r), r) # Place(mem, Kept(s), s)

\* Every callable in memory is owned: by the slot it can be reached from, or by
\* the operation whose constructor or destructor call is running on it.  A
\* failed copy, a replaced or a moved-from callable leaves nothing behind.
NoLeak ==
  \A l \in Loc :
    mem.obj[l] # NoObject =>
      CASE mem.obj[l].life = "live" ->
             \E s \in Slots : Kept(s) # NoType /\ Place(mem, Kept(s), s) = l
        [] mem.obj[l].life = "raw" ->
             \E b \in Threads : act[b].at = "build" /\ act[b].cell = l
        [] mem.obj[l].life = "dying" ->
             \E b \in Threads : act[b].at \in {"kill", "retire"} /\ act[b].cell = l

\* An internal pointer of a callable refers to the callable itself, wherever
\* moves and swaps have taken it.
OwnAddress == \A l \in Loc : mem.obj[l] # NoObject => mem.obj[l].self = l

\* The inline buffer is never written past its 32 + sizeof(void*) bytes nor
\* misaligned, and what it can hold never costs an allocation.
BufferHolds ==
  \A l \in Loc :
    mem.obj[l] # NoObject =>
      LET t == mem.obj[l].type
      IN  l \in Slots <=> (Size[t] \in 0 .. (32 + PointerSize) /\ Align[t] \in 0 .. 8)

\* The callables whose state thread a's operation reads, and those it changes.
Changing(a) ==
  LET f == act[a]
  IN  CASE f.at \in {"build", "kill", "retire"} -> {f.cell}
        [] f.at = "move" -> {Place(mem, f.ty, f.src)}
        [] f.at = "run" /\ f.ty \in Mutable -> {f.cell}
        [] OTHER -> {}
Reading(a) ==
  LET f == act[a]
  IN  CASE f.at = "build" /\ f.other # Null -> {Place(mem, vt[f.other], f.other)}
        [] f.at = "run" -> {f.cell}
        [] OTHER -> {}

\* No two threads use the same callable at once when one of them changes it.
NoDataRace ==
  \A a, b \in Threads :
    a # b => Changing(a) \cap (Changing(b) \cup Reading(b)) = {}
=============================================================================
