------------------------- MODULE FunctionInvariant -------------------------
(***************************************************************************)
(* The inductive invariant of Function.                                    *)
(*                                                                         *)
(* Frames says what an operation relies on at each of its points: which    *)
(* vtables are set, which slots it moves between.  Exclusive is the client *)
(* rule, kept by every step.  Consistent relates the memory to who keeps   *)
(* which callable and which thread is constructing or destroying one.      *)
(***************************************************************************)
EXTENDS Function

\* Where a callable of type t for slot s can lie.
CellFor(t, c, s) == IF fits(t) THEN c = s ELSE c \in Heap

\* Thread a is moving a callable of type t from src to dst, or destroying what
\* is left of it at src.
Moves(f, t, dst, src) ==
  /\ t \in Types /\ f.ty = t /\ f.dst = dst /\ f.src = src
  /\ \/ f.at = "move"
     \/ f.at = "retire" /\ fits(t) /\ f.cell = src

\* Thread a is destroying the callable of w.
Kills(f, V, w) == f.at = "kill" /\ V[w] \in Types /\ CellFor(V[w], f.cell, w)

\* The three legs of a swap of two callables and the two of one-sided swaps.
Legs(a, f, w, o) ==
  \/ f.theirs \in Types /\ Moves(f, f.mine, a, w)
  \/ Moves(f, f.theirs, w, o)
  \/ f.theirs \in Types /\ Moves(f, f.mine, o, a)
  \/ f.theirs = NoType /\ Moves(f, f.mine, o, w)

\* Frame f of thread a, for the living Functions al, vtables V and memory m.
FrameOK(a, f, al, V, m) ==
  LET w == f.this
      o == f.other
  IN  \/ f = Idle
      \/ /\ f.op = "construct" /\ f.at = "build"
         /\ w \in Wrappers \ al /\ o = Null
         /\ f.ty \in Types /\ CellFor(f.ty, f.cell, w)
      \/ /\ f.op = "copyctor" /\ f.at = "build"
         /\ w \in Wrappers \ al /\ o \in al
         /\ f.ty \in Types /\ f.ty = V[o] /\ CellFor(f.ty, f.cell, w)
      \/ /\ f.op = "copyassign"
         /\ w \in al /\ o \in al /\ w # o
         /\ f.ty \in Types /\ f.ty = V[o]
         /\ \/ f.at = "build" /\ CellFor(f.ty, f.cell, a)
            \/ Kills(f, V, w)
            \/ V[w] = NoType /\ Moves(f, V[o], w, a)
      \/ /\ f.op \in {"reset", "destroy"}
         /\ w \in al /\ Kills(f, V, w)
      \/ /\ f.op = "moveassign"
         /\ w \in al /\ o \in al /\ w # o
         /\ \/ Kills(f, V, w)
            \/ V[w] = NoType /\ Moves(f, V[o], w, o)
      \/ /\ f.op = "movector"
         /\ w \in Wrappers \ al /\ o \in al
         /\ Moves(f, V[o], w, o)
      \/ /\ f.op = "swap"
         /\ w \in al /\ o \in al /\ w # o
         /\ f.mine = V[w] /\ f.theirs = V[o] /\ Legs(a, f, w, o)
      \/ /\ f.op = "call" /\ f.at = "run"
         /\ w \in al /\ o = Null
         /\ f.ty \in Types /\ f.ty = V[w] /\ f.cell = Place(m, f.ty, w)

Frames == \A a \in Threads : FrameOK(a, act[a], alive, vt, mem)

Exclusive(A) == \A a, b \in Threads : a # b => Writes(A[a]) \cap Uses(A[b]) = {}

Unborn == \A w \in Wrappers \ alive : vt[w] = NoType

\* The callable a thread is constructing or destroying, if any.
CellOf(f) == IF f.at \in {"build", "kill", "retire"} THEN f.cell ELSE Null
LifeOf(f) == IF f.at = "build" THEN "raw" ELSE "dying"

\* Memory m, when slot s keeps a callable of type K[s] and thread a constructs or
\* destroys the one at C[a], of life L[a] and, if raw, type T[a].
Consistent(m, K, C, L, T) ==
  /\ m \in Memory
  /\ \A s \in Slots : K[s] # NoType => K[s] \in Types /\ Live(m, K[s], s)
  /\ \A s, r \in Slots :
       s # r /\ K[s] # NoType /\ K[r] # NoType => Place(m, K[s], s) # Place(m, K[r], r)
  /\ \A a \in Threads :
       C[a] # Null => /\ C[a] \in Loc
                      /\ m.obj[C[a]] # NoObject
                      /\ m.obj[C[a]].life = L[a] /\ L[a] # "live"
                      /\ L[a] = "raw" => m.obj[C[a]].type = T[a]
  /\ \A a, b \in Threads : a # b /\ C[a] # Null => C[a] # C[b]
  /\ \A l \in Loc :
       m.obj[l] # NoObject =>
         /\ m.obj[l].self = l
         /\ l \in Slots <=> fits(m.obj[l].type)
         /\ \/ m.obj[l].life = "live"
               /\ \E s \in Slots : K[s] # NoType /\ Place(m, K[s], s) = l
            \/ m.obj[l].life # "live" /\ \E a \in Threads : C[a] = l

Keepers == [s \in Slots |-> Kept(s)]
Cells == [a \in Threads |-> CellOf(act[a])]
Lives == [a \in Threads |-> LifeOf(act[a])]
Kinds == [a \in Threads |-> act[a].ty]

\* What holds of the Functions and of the operations in progress, one by one.
Framed == TypeOK /\ Frames /\ Unborn

IInv == /\ TypeOK
        /\ Frames
        /\ Exclusive(act)
        /\ Unborn
        /\ Consistent(mem, Keepers, Cells, Lives, Kinds)
        /\ defined
=============================================================================
