-------------------------- MODULE CallableStorage --------------------------
(***************************************************************************)
(* The storage of one type-erased callable and the operations its vtable   *)
(* holds (include/FunctionPro/Detail).                                     *)
(*                                                                         *)
(* A slot is one CallableStorage: a union of an inline buffer and a heap   *)
(* pointer, with no field that says which is active.  Only the vtable in   *)
(* use knows, from the type it was generated for.  A callable therefore    *)
(* lives at a location: the slot itself (inline) or a heap cell its slot   *)
(* points to.  User code (a constructor, a destructor) runs inside the     *)
(* operations, so each is split where such code runs: the operators below  *)
(* say what the memory is before and after it.                             *)
(***************************************************************************)
EXTENDS Naturals

CONSTANTS
  Types,        \* the concrete callable types
  Size, Align,  \* sizeof and alignof of every type
  PointerSize,  \* sizeof(void*)
  Mutable,      \* the types whose operator() changes the callable
  Vals,         \* the values of a callable's captured state, 0 the least
  Wrappers,     \* the places where a Function object can be
  Threads,      \* the threads, each with one local CallableStorage `tmp`
  Heap,         \* the heap cells, each able to hold one callable
  Null,         \* nullptr
  Junk,         \* what the heap pointer reads as once the buffer was written
  NoType,       \* the null vtable pointer
  NoObject      \* a location where no callable lives

ASSUME SizesAssumption ==
  /\ PointerSize \in Nat
  /\ Size \in [Types -> Nat]
  /\ Align \in [Types -> Nat]
  /\ Mutable \subseteq Types
  /\ Vals \subseteq Nat

ASSUME DistinctAssumption ==
  /\ Wrappers \cap Threads = {}
  /\ (Wrappers \cup Threads) \cap Heap = {}
  /\ {Null, Junk} \cap (Wrappers \cup Threads \cup Heap) = {}
  /\ Null # Junk
  /\ NoType \notin Types

-----------------------------------------------------------------------------
(* Detail/CallableStorage.h and Detail/SBOTraits.h                          *)

SBO_ALIGNMENT == 8
SBO_SIZE == 32 + PointerSize

\* Mutant: the alignment is not looked at.
fitsSizeOnly(t) == t \in Types /\ Size[t] <= SBO_SIZE

\* A type is stored inline iff its size and its alignment both fit.  The null
\* vtable fits nothing.
fits(t) == /\ t \in Types
           /\ Size[t] <= SBO_SIZE
           /\ Align[t] <= SBO_ALIGNMENT

\* Every CallableStorage there is, and every location of a callable.
Slots == Wrappers \cup Threads
Loc == Slots \cup Heap

\* "raw" while its constructor runs, "dying" while its destructor runs.
\* "self" is the address an internal pointer of the callable refers to.
Object == [type: Types, val: Vals, self: Loc, life: {"raw", "live", "dying"}]

ASSUME NoObjectAssumption == NoObject \notin Object

Memory == [obj: [Loc -> Object \cup {NoObject}],
           ptr: [Slots -> Heap \cup {Null, Junk}]]

EmptyMemory == [obj |-> [l \in Loc |-> NoObject], ptr |-> [s \in Slots |-> Null]]

\* Where the vtable of t looks for its callable in slot s.
Place(m, t, s) == IF fits(t) THEN s ELSE m.ptr[s]

\* The callable at location l, of type t, between the end of its constructor
\* and the start of its destructor.
LiveAt(m, t, l) == /\ l \in Loc
                   /\ m.obj[l] # NoObject
                   /\ m.obj[l].type = t
                   /\ m.obj[l].life = "live"

Live(m, t, s) == LiveAt(m, t, Place(m, t, s))

\* Where a callable of type t for slot s can be constructed: in the buffer, or
\* in any free heap cell.
Room(m, t, s) == IF fits(t) THEN {s} ELSE {h \in Heap : m.obj[h] = NoObject}

-----------------------------------------------------------------------------
(* Memory updates the operations are made of                                *)

Put(m, l, o) == [m EXCEPT !.obj = [k \in Loc |-> IF k = l THEN o ELSE m.obj[k]]]

Mark(m, l, life) ==
  [m EXCEPT !.obj = [k \in Loc |-> IF k = l /\ m.obj[k] # NoObject
                                     THEN [m.obj[k] EXCEPT !.life = life]
                                     ELSE m.obj[k]]]

Point(m, s, p) == [m EXCEPT !.ptr[s] = p]

\* CallableStorage(): the heap pointer is null.
Fresh(m, s) == Point(m, s, Null)

-----------------------------------------------------------------------------
(* Detail/VTableFactory.h                                                   *)

\* Mutant: a copy is default-constructed, whatever its source holds.
BeginNewDefault(m, t, s, c, v) ==
  LET raw == Put(m, c, [type |-> t, val |-> 0, self |-> c, life |-> "raw"])
  IN  IF fits(t) THEN Point(raw, s, Junk) ELSE raw

\* `new (inlineSlot()) T(...)` or `new T(...)` enters the constructor at c.
BeginNew(m, t, s, c, v) ==
  LET raw == Put(m, c, [type |-> t, val |-> v, self |-> c, life |-> "raw"])
  IN  IF fits(t) THEN Point(raw, s, Junk) ELSE raw

\* Mutant: the pointer `new` returned is not stored.
EndNewUnstored(m, t, s, c) == Mark(m, c, "live")

\* The constructor returns; for a heap callable the pointer is stored now.
EndNew(m, t, s, c) ==
  LET live == Mark(m, c, "live")
  IN  IF fits(t) THEN live ELSE Point(live, s, c)

\* A constructor that throws leaves no callable behind, and a new-expression
\* gives its cell back.
Erase(m, l) == Put(m, l, NoObject)

\* Mutant: the callable's bytes are copied instead of move-constructed.
RelocateBytes(m, dst, src) == Point(Mark(Put(m, dst, m.obj[src]), src, "dying"), dst, Junk)

\* move, inline: T's move constructor builds the callable at dst (its internal
\* pointers follow), then the destructor of the one at src is entered.
Relocate(m, dst, src) ==
  Point(Mark(Put(m, dst, [m.obj[src] EXCEPT !.self = dst]), src, "dying"), dst, Junk)

\* move, heap: the pointer changes hands.
Transfer(m, dst, src) == Point(Point(m, dst, m.ptr[src]), src, Null)

\* invoke: a mutable callable counts its calls, up to the largest value.
Called(m, l) ==
  Put(m, l, [m.obj[l] EXCEPT
       !.val = IF m.obj[l].type \in Mutable /\ @ + 1 \in Vals THEN @ + 1 ELSE @])
=============================================================================
