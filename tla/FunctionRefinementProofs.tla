---------------------- MODULE FunctionRefinementProofs ----------------------
(***************************************************************************)
(* Proof that Function implements FunctionValues, for any number of        *)
(* Functions, threads, callable types and heap cells.                      *)
(*                                                                         *)
(* The invariant of FunctionProofs says which slot keeps which callable;   *)
(* here the callables' contents are followed.  Section 1 shows what every  *)
(* memory update does to the contents a slot shows, section 2 what the     *)
(* mapped value of a Function depends on, and section 3 maps the steps of  *)
(* Function, one by one, to steps of FunctionValues.                       *)
(***************************************************************************)
EXTENDS FunctionRefinement, FunctionProofs

-----------------------------------------------------------------------------
(* 1. Contents                                                              *)

\* Memory n holds at l the callable, as a user sees it, that m holds there.
SameAt(m, n, l) == n.obj[l].type = m.obj[l].type /\ n.obj[l].val = m.obj[l].val

\* A constructor entered changes no callable but the one it makes.
LEMMA BeginNewContents ==
  ASSUME mem \in Memory, NEW t, NEW s \in Slots, NEW c \in Loc, NEW v,
         mem' = BeginNew(Fresh(mem, s), t, s, c, v)
  PROVE  /\ \A l \in Loc \ {c} : SameAt(mem, mem', l)
         /\ mem'.obj[c].val = v
         /\ \A r \in Slots \ {s} : mem'.ptr[r] = mem.ptr[r]
<1> DEFINE p == Fresh(mem, s)
           o == [type |-> t, val |-> v, self |-> c, life |-> "raw"]
           q == Put(p, c, o)
<1>1. p.obj = mem.obj /\ p.ptr = [mem.ptr EXCEPT ![s] = Null]
  BY PointFields DEF Fresh
<1>2. p = [obj |-> mem.obj, ptr |-> [mem.ptr EXCEPT ![s] = Null]]
  BY DEF Fresh, Point, Memory
<1> HIDE DEF p
<1>3. q = [obj |-> [k \in Loc |-> IF k = c THEN o ELSE mem.obj[k]], ptr |-> [mem.ptr EXCEPT ![s] = Null]]
  BY <1>2 DEF Put
<1>4. mem' = IF fits(t) THEN Point(q, s, Junk) ELSE q
  BY DEF BeginNew, p
<1> HIDE DEF q, o
<1>5. mem'.obj = q.obj /\ \A r \in Slots \ {s} : mem'.ptr[r] = q.ptr[r]
  BY <1>3, <1>4 DEF Point, Memory
<1>6. o.val = v
  BY DEF o
<1>7. /\ \A l \in Loc \ {c} : mem'.obj[l] = mem.obj[l]
      /\ mem'.obj[c].val = v
      /\ \A r \in Slots \ {s} : mem'.ptr[r] = mem.ptr[r]
  BY <1>3, <1>5, <1>6 DEF Memory
<1> QED BY <1>7 DEF SameAt

\* A constructor that returns and a destructor that is entered change no callable.
LEMMA MarkContents ==
  ASSUME NEW m \in Memory, NEW c, NEW life
  PROVE  \A l \in Loc : SameAt(m, Mark(m, c, life), l)
<1> SUFFICES ASSUME NEW l \in Loc PROVE SameAt(m, Mark(m, c, life), l)
  OBVIOUS
<1>1. m.obj[l] # NoObject => m.obj[l] \in Object
  BY DEF Memory
<1>2. Mark(m, c, life).obj[l] = IF l = c /\ m.obj[l] # NoObject
                                  THEN [m.obj[l] EXCEPT !.life = life] ELSE m.obj[l]
  BY DEF Mark, Memory
<1> QED BY <1>1, <1>2 DEF SameAt, Object

\* The slot of a complete callable finds it.
LEMMA EndNewContents ==
  ASSUME NEW m \in Memory, NEW t, NEW s \in Slots, NEW c \in Loc, CellFor(t, c, s),
         NEW n, n = EndNew(m, t, s, c)
  PROVE  /\ \A l \in Loc : SameAt(m, n, l)
         /\ \A r \in Slots \ {s} : n.ptr[r] = m.ptr[r]
         /\ Place(n, t, s) = c
         /\ n \in Memory
<1> DEFINE q == Mark(m, c, "live")
<1>1. \A l \in Loc : SameAt(m, q, l)
  BY MarkContents
<1>2. q = [obj |-> q.obj, ptr |-> m.ptr]
  BY DEF Mark, Memory
<1>3. n = IF fits(t) THEN q ELSE Point(q, s, c)
  BY DEF EndNew
<1> HIDE DEF q
<1>4. n.obj = q.obj /\ n.ptr = IF fits(t) THEN m.ptr ELSE [m.ptr EXCEPT ![s] = c]
  BY <1>2, <1>3 DEF Point
<1>5. /\ \A l \in Loc : SameAt(m, n, l)
      /\ \A r \in Slots \ {s} : n.ptr[r] = m.ptr[r]
      /\ Place(n, t, s) = c
  BY <1>1, <1>4 DEF SameAt, Place, CellFor, Memory
<1>6. n \in Memory
  <2>1. \A k \in Loc : m.obj[k] # NoObject => [m.obj[k] EXCEPT !.life = "live"] \in Object
    BY DEF Memory, Object
  <2>2. q.obj = [k \in Loc |-> IF k = c /\ m.obj[k] # NoObject
                                 THEN [m.obj[k] EXCEPT !.life = "live"] ELSE m.obj[k]]
    BY DEF q, Mark, Memory
  <2>3. n.obj \in [Loc -> Object \cup {NoObject}]
    BY <1>4, <2>1, <2>2 DEF Memory
  <2>4. n.ptr \in [Slots -> Heap \cup {Null, Junk}]
    BY <1>4 DEF Memory, CellFor
  <2>5. n = [obj |-> n.obj, ptr |-> n.ptr]
    BY <1>2, <1>3 DEF Point
  <2> QED BY <2>3, <2>4, <2>5 DEF Memory
<1> QED BY <1>5, <1>6

\* Freeing a location changes no callable elsewhere.
LEMMA EraseContents ==
  ASSUME NEW m \in Memory, NEW c
  PROVE  \A l \in Loc \ {c} : SameAt(m, Erase(m, c), l)
BY DEF Erase, Put, Memory, SameAt

\* Memory m after the move of the vtable of t.
Moved(m, t, dst, src) == IF fits(t) THEN Relocate(m, dst, src) ELSE Transfer(m, dst, src)

\* After a vtable's move the target shows what the source showed.
LEMMA MoveContents ==
  ASSUME NEW m \in Memory, NEW dst \in Slots, NEW src \in Slots, dst # src,
         NEW t, Live(m, t, src), NEW n, n = Moved(m, t, dst, src)
  PROVE  /\ \A l \in Loc \ {dst} : SameAt(m, n, l)
         /\ ~fits(t) => \A l \in Loc : SameAt(m, n, l)
         /\ \A r \in Slots \ {dst, src} : n.ptr[r] = m.ptr[r]
         /\ Under(n, t, dst) = Under(m, t, src)
<1>1. CASE fits(t)
  <2> DEFINE o == [m.obj[src] EXCEPT !.self = dst]
             p == Put(m, dst, o)
             q == Mark(p, src, "dying")
  <2>1. m.obj[src] \in Object /\ src \in Loc /\ dst \in Loc
    BY <1>1 DEF Live, LiveAt, Place, Memory, Loc
  <2>2. o \in Object /\ o.type = m.obj[src].type /\ o.val = m.obj[src].val
    BY <2>1 DEF Object, Loc
  <2> HIDE DEF o
  <2>3. p \in Memory /\ p.obj[dst] = o /\ p.ptr = m.ptr /\ \A l \in Loc \ {dst} : p.obj[l] = m.obj[l]
    BY <2>1, <2>2 DEF Put, Memory
  <2> HIDE DEF p
  <2>4. \A l \in Loc : SameAt(p, q, l)
    BY <2>3, MarkContents
  <2>5. q = [obj |-> q.obj, ptr |-> m.ptr]
    BY <2>3 DEF Mark, Memory
  <2>6. n = Point(q, dst, Junk)
    BY <1>1 DEF Moved, Relocate, p, o
  <2> HIDE DEF q
  <2>7. n.obj = q.obj /\ n.ptr = [m.ptr EXCEPT ![dst] = Junk]
    BY <2>5, <2>6 DEF Point
  <2>8. /\ \A l \in Loc \ {dst} : SameAt(m, n, l)
        /\ n.obj[dst].type = m.obj[src].type /\ n.obj[dst].val = m.obj[src].val
        /\ \A r \in Slots \ {dst, src} : n.ptr[r] = m.ptr[r]
    BY <2>1, <2>2, <2>3, <2>4, <2>7 DEF SameAt, Memory
  <2> QED BY <1>1, <2>8 DEF Under, Place
<1>2. CASE ~fits(t)
  <2>1. n = Transfer(m, dst, src)
    BY <1>2 DEF Moved
  <2>2. n.obj = m.obj /\ n.ptr[dst] = m.ptr[src] /\ \A r \in Slots \ {src, dst} : n.ptr[r] = m.ptr[r]
    BY <2>1 DEF Transfer, Point, Memory
  <2> QED BY <1>2, <2>2 DEF SameAt, Under, Place
<1> QED BY <1>1, <1>2

\* A call may count in the callable it runs.
LEMMA CalledContents ==
  ASSUME NEW m \in Memory, NEW c \in Loc, m.obj[c] # NoObject, NEW n, n = Called(m, c)
  PROVE  /\ \A l \in Loc \ {c} : SameAt(m, n, l)
         /\ n.obj[c].type = m.obj[c].type
         /\ \/ n.obj[c].val = m.obj[c].val
            \/ m.obj[c].type \in Mutable /\ n.obj[c].val = m.obj[c].val + 1
         /\ n.ptr = m.ptr
<1> DEFINE v == IF m.obj[c].type \in Mutable /\ m.obj[c].val + 1 \in Vals
                  THEN m.obj[c].val + 1 ELSE m.obj[c].val
           o == [m.obj[c] EXCEPT !.val = v]
<1>1. m.obj[c] \in Object
  BY DEF Memory
<1>2. n = Put(m, c, o)
  BY DEF Called
<1>3. o.type = m.obj[c].type /\ o.val = v
  BY <1>1 DEF Object
<1> HIDE DEF o
<1>4. n.obj[c] = o /\ n.ptr = m.ptr /\ \A l \in Loc \ {c} : n.obj[l] = m.obj[l]
  BY <1>2 DEF Put, Memory
<1> QED BY <1>3, <1>4 DEF SameAt

-----------------------------------------------------------------------------
(* 2. What a step shows                                                     *)

\* What every slot holds, as a function, so that it can be primed as a whole.
Shows == [s \in Slots |-> Shown(s)]

\* Outcome, with S for what the slots hold.
Result(f, b, w, S) ==
  IF f.op = "destroy" THEN Null ELSE IF Home(f, b, w) = Null THEN NoObject ELSE S[Home(f, b, w)]

\* What w holds as far as operation f of thread b, the living Functions al and
\* the contents S tell.
Seen(f, b, w, al, S) ==
  IF InEffect(f) /\ w \in Writes(f) THEN Result(f, b, w, S)
  ELSE IF w \in al THEN S[w] ELSE Null

\* The operation of frame f, as the abstract specification knows it.
CallOf(f) == IF f = Idle THEN NoType
             ELSE [op |-> f.op, this |-> f.this, other |-> f.other, done |-> InEffect(f)]

\* The slots show what lies where their keepers' vtables look for it.
LEMMA ShowsFrom ==
  ASSUME NEW s \in Slots
  PROVE  /\ Shown(s) = Shows[s] /\ Shows[s] = Under(mem, Keepers[s], s)
         /\ Shown(s)' = Shows'[s] /\ Shows'[s] = Under(mem', Keepers'[s], s)
BY DEF Shows, Shown, Keepers

\* A slot shows a callable exactly if it keeps one, and then one of that type.
ShowsKinds ==
  \A s \in Slots :
    /\ Keepers[s] = NoType => Shows[s] = NoObject
    /\ Keepers[s] # NoType => Shows[s] \in Callables /\ Shows[s].type = Keepers[s]

LEMMA ShowsKind == IInv => ShowsKinds
<1> SUFFICES ASSUME IInv, NEW s \in Slots
             PROVE  /\ Keepers[s] = NoType => Shows[s] = NoObject
                    /\ Keepers[s] # NoType => Shows[s] \in Callables /\ Shows[s].type = Keepers[s]
  BY DEF ShowsKinds
<1>1. Shows[s] = Under(mem, Keepers[s], s)
  BY ShowsFrom
<1>2. CASE Keepers[s] # NoType
  <2>1. Live(mem, Keepers[s], s) /\ mem \in Memory
    BY <1>2 DEF IInv, Consistent
  <2>2. /\ mem.obj[Place(mem, Keepers[s], s)] \in Object
        /\ mem.obj[Place(mem, Keepers[s], s)].type = Keepers[s]
    BY <2>1 DEF Live, LiveAt, Memory
  <2> QED BY <1>1, <1>2, <2>2 DEF Under, Object, Callables
<1> QED BY <1>1, <1>2 DEF Under

LEMMA ShowsKindNext == (IInv => ShowsKinds)'
BY ShowsKind, PTL

\* The callable of a Function that an operation in effect changes lies in one of
\* the operation's own slots.
LEMMA HomeIsOwn ==
  ASSUME Framed, NEW b \in Threads, InEffect(act[b]), NEW w \in Writes(act[b])
  PROVE  Home(act[b], b, w) \in {Null} \cup Writes(act[b]) \cup {b}
<1> DEFINE f == act[b]
<1>1. CASE f.at = "kill"
  <2>1. /\ f.op \in {"copyassign", "reset", "destroy", "moveassign"}
        /\ Writes(f) = (IF f.op = "moveassign" THEN {f.this, f.other} ELSE {f.this})
    BY <1>1, KillFrame
  <2> QED BY <1>1, <2>1 DEF Home
<1>2. CASE f.at \in {"move", "retire"}
  <2>1. /\ f.op \in {"copyassign", "movector", "moveassign", "swap"}
        /\ Writes(f) = (IF f.op = "copyassign" THEN {f.this} ELSE {f.this, f.other})
        /\ OneWay(f, b) \/ IntoTmp(f, b) \/ Across(f, b) \/ OutOf(f, b)
    BY <1>2, MoveFrame
  <2>2. Spot(f) \in Writes(f) \cup {b}
    BY <2>1 DEF Spot, OneWay, IntoTmp, Across, OutOf
  <2> QED BY <1>2, <2>1, <2>2 DEF Home
<1> QED BY <1>1, <1>2 DEF InEffect

\* The value of a Function, as seen from any thread b if no other decides it.
ValueForm ==
  \A b \in Threads, w \in Wrappers :
    (\A d \in Threads \ {b} : ~Decides(d, w)) => val[w] = Seen(act[b], b, w, alive, Shows)

HomeForm ==
  \A b \in Threads : \A w \in Wrappers :
    Decides(b, w) => Home(act[b], b, w) \in {Null} \cup Writes(act[b]) \cup {b}

LEMMA HomesAreOwn == IInv => HomeForm
BY HomeIsOwn, IsFramed DEF HomeForm, Decides

LEMMA ValueIsSeen == IInv => ValueForm
<1> SUFFICES ASSUME IInv, NEW b \in Threads, NEW w \in Wrappers,
                    \A d \in Threads \ {b} : ~Decides(d, w)
             PROVE  val[w] = Seen(act[b], b, w, alive, Shows)
  BY DEF ValueForm
<1>1. CASE Decides(b, w)
  <2> DEFINE c == CHOOSE d \in Threads : Decides(d, w)
  <2>1. c \in Threads /\ Decides(c, w)
    BY <1>1
  <2>2. c = b
    BY <2>1
  <2>3. val[w] = Outcome(act[c], c, w)
    BY <1>1 DEF val
  <2> HIDE DEF c
  <2>4. Home(act[b], b, w) \in {Null} \cup Slots
    <3>1. Home(act[b], b, w) \in {Null} \cup Writes(act[b]) \cup {b}
      BY <1>1, HomeIsOwn, IsFramed DEF Decides
    <3>2. Writes(act[b]) \subseteq Wrappers \cup {Null}
      BY DEF Writes, IInv, TypeOK, Frame
    <3> QED BY <3>1, <3>2 DEF Slots
  <2>5. Outcome(act[b], b, w) = Result(act[b], b, w, Shows)
    BY <2>4, ShowsFrom DEF Outcome, Result
  <2> QED BY <1>1, <2>2, <2>3, <2>5 DEF Seen, Decides
<1>2. CASE ~Decides(b, w)
  <2>1. val[w] = IF w \in alive THEN Shown(w) ELSE Null
    BY <1>2 DEF val
  <2>2. Shown(w) = Shows[w]
    BY ShowsFrom DEF Slots
  <2> QED BY <1>2, <2>1, <2>2 DEF Seen, Decides
<1> QED BY <1>1, <1>2

LEMMA ValueIsSeenNext == (IInv => ValueForm)'
BY ValueIsSeen, PTL

\* Thread a goes from its frame to frame g, changing no Functions but W, no
\* other slot than its own and theirs, and no callable another thread works on.
StepTo(a, g, W) ==
  /\ IInv /\ IInv'
  /\ act'[a] = g /\ \A b \in Threads \ {a} : act'[b] = act[b]
  /\ W \subseteq Wrappers /\ Writes(act[a]) \subseteq W /\ Writes(g) \subseteq W
  /\ \A b \in Threads \ {a} : W \cap Uses(act[b]) = {}
  /\ \A w \in Wrappers \ W : w \in alive' <=> w \in alive
  /\ \A s \in Slots \ (W \cup {a}) : Shows'[s] = Shows[s]
  /\ \A b \in Threads \ {a} : Cells[b] # Null => SameAt(mem, mem', Cells[b])

\* The values of the other Functions stay; those of W are what a's frames tell.
LEMMA StepValues ==
  ASSUME NEW a \in Threads, NEW g, NEW W, StepTo(a, g, W)
  PROVE  /\ \A w \in Wrappers \ W : val'[w] = val[w]
         /\ \A w \in W : /\ val[w] = Seen(act[a], a, w, alive, Shows)
                         /\ val'[w] = Seen(g, a, w, alive', Shows')
<1>1. /\ \A b \in Threads, w \in Wrappers :
           (\A d \in Threads \ {b} : ~Decides(d, w)) => val[w] = Seen(act[b], b, w, alive, Shows)
      /\ \A b \in Threads, w \in Wrappers :
           (\A d \in Threads \ {b} : ~Decides(d, w)') => val'[w] = Seen(act'[b], b, w, alive', Shows')
  BY ValueIsSeen, ValueIsSeenNext DEF StepTo, ValueForm
<1>2. /\ act'[a] = g /\ \A b \in Threads \ {a} : act'[b] = act[b]
      /\ Writes(act[a]) \subseteq W /\ Writes(g) \subseteq W /\ W \subseteq Wrappers
  BY DEF StepTo
<1>3. \A b \in Threads \ {a} : \A w \in W : ~Decides(b, w) /\ ~Decides(b, w)'
  BY <1>2, WritesAreUses DEF StepTo, Decides
<1>4. ASSUME NEW w \in Wrappers \ W PROVE val'[w] = val[w]
  <2>1. ~Decides(a, w) /\ ~Decides(a, w)'
    BY <1>2 DEF Decides
  <2>2. CASE \E b \in Threads : Decides(b, w)
    <3>1. PICK b \in Threads : Decides(b, w)
      BY <2>2
    <3>2. b # a /\ act'[b] = act[b] /\ InEffect(act[b]) /\ w \in Writes(act[b])
      BY <1>2, <2>1, <3>1 DEF Decides
    <3>3. \A d \in Threads \ {b} : ~Decides(d, w)
      BY <3>2, WritesAreUses DEF StepTo, IInv, Exclusive, Decides
    <3>4. \A d \in Threads \ {b} : ~Decides(d, w)'
      BY <1>2, <2>1, <3>3 DEF Decides
    <3>5. val[w] = Result(act[b], b, w, Shows) /\ val'[w] = Result(act[b], b, w, Shows')
      BY <1>1, <3>2, <3>3, <3>4 DEF Seen
    <3>6. Home(act[b], b, w) \in {Null} \cup Writes(act[b]) \cup {b}
      BY <3>1, HomesAreOwn DEF HomeForm, StepTo
    <3>7. \A u \in Writes(act[b]) : u # Null => u \in Slots \ (W \cup {a})
      BY <3>2, WritesAreUses, DistinctAssumption
      DEF StepTo, Slots, IInv, TypeOK, Frame, Writes, Uses
    <3>8. b \in Slots \ (W \cup {a})
      BY <1>2, <3>2, DistinctAssumption DEF Slots
    <3>9. Home(act[b], b, w) # Null => Shows'[Home(act[b], b, w)] = Shows[Home(act[b], b, w)]
      BY <3>6, <3>7, <3>8 DEF StepTo
    <3> QED BY <3>5, <3>9 DEF Result
  <2>3. CASE \A b \in Threads : ~Decides(b, w)
    <3>1. \A b \in Threads : ~Decides(b, w)'
      BY <1>2, <2>1, <2>3 DEF Decides
    <3>2. val[w] = Seen(act[a], a, w, alive, Shows) /\ val'[w] = Seen(g, a, w, alive', Shows')
      BY <1>1, <1>2, <2>3, <3>1
    <3>3. w \notin Writes(act[a]) /\ w \notin Writes(g)
      BY <1>2
    <3>4. (w \in alive' <=> w \in alive) /\ Shows'[w] = Shows[w]
      BY DistinctAssumption DEF StepTo, Slots
    <3> QED BY <3>2, <3>3, <3>4 DEF Seen
  <2> QED BY <2>2, <2>3
<1>5. ASSUME NEW w \in W
      PROVE  val[w] = Seen(act[a], a, w, alive, Shows) /\ val'[w] = Seen(g, a, w, alive', Shows')
  BY <1>1, <1>2, <1>3
<1> QED BY <1>4, <1>5

\* A Function no operation changes is worth what its slot shows.
LEMMA ValueAtRest ==
  ASSUME IInv, NEW w \in Wrappers, \A b \in Threads : w \notin Writes(act[b]), Threads # {}
  PROVE  val[w] = IF w \in alive THEN Shows[w] ELSE Null
<1>1. \A b \in Threads : ~Decides(b, w)
  BY DEF Decides
<1>2. PICK b \in Threads : TRUE
  OBVIOUS
<1> QED BY <1>1, <1>2, ValueIsSeen DEF ValueForm, Seen

\* The domains of the mapped variables, and how the calls follow the frames.
LEMMA MappedDomains ==
  /\ val = [w \in Wrappers |-> val[w]] /\ val' = [w \in Wrappers |-> val'[w]]
  /\ call = [a \in Threads |-> CallOf(act[a])] /\ call' = [a \in Threads |-> CallOf(act'[a])]
<1>1. val = [w \in Wrappers |-> val[w]] /\ val' = [w \in Wrappers |-> val'[w]]
  BY DEF val
<1>2. call = [a \in Threads |-> CallOf(act[a])]
  BY DEF call, CallOf
<1>3. call' = [a \in Threads |-> CallOf(act'[a])]
  BY DEF call, CallOf, InEffect
<1> QED BY <1>1, <1>2, <1>3

LEMMA StepCalls ==
  ASSUME NEW a \in Threads, NEW g, NEW W, StepTo(a, g, W)
  PROVE  /\ call[a] = CallOf(act[a]) /\ call' = [call EXCEPT ![a] = CallOf(g)]
         /\ act[a] # Idle => call[a] # NoType
<1>1. call[a] = CallOf(act[a])
  BY MappedDomains
<1>2. call' = [call EXCEPT ![a] = CallOf(g)]
  <2>1. \A b \in Threads : call'[b] = [call EXCEPT ![a] = CallOf(g)][b]
    BY MappedDomains DEF StepTo
  <2> QED BY <2>1, MappedDomains
<1>3. ASSUME act[a] # Idle PROVE call[a] # NoType
  <2>1. FrameOK(a, act[a], alive, vt, mem) /\ act[a] \in Frame
    BY DEF StepTo, IInv, Frames, TypeOK
  <2>2. act[a].op \in Ops /\ act[a].this \in Wrappers
    BY <1>3, <2>1 DEF FrameOK, Ops, StepTo, IInv, TypeOK
  <2>3. CallOf(act[a]) \in [op : Ops, this : Wrappers \cup {Null},
                            other : Wrappers \cup {Null}, done : BOOLEAN]
    BY <1>3, <2>1, <2>2 DEF CallOf, Frame, InEffect
  <2> QED BY <1>1, <2>3, MappingAssumption
<1> QED BY <1>1, <1>2, <1>3

\* A slot that keeps what it kept shows it too, if it was not touched.
LEMMA ShowsSteady ==
  ASSUME NEW s \in Slots, Keepers'[s] = Keepers[s],
         Keepers[s] # NoType => /\ fits(Keepers[s]) \/ mem'.ptr[s] = mem.ptr[s]
                                /\ SameAt(mem, mem', Place(mem, Keepers[s], s))
  PROVE  Shows'[s] = Shows[s]
<1>1. Shows[s] = Under(mem, Keepers[s], s) /\ Shows'[s] = Under(mem', Keepers[s], s)
  BY ShowsFrom
<1>2. CASE Keepers[s] # NoType
  <2>1. Place(mem', Keepers[s], s) = Place(mem, Keepers[s], s)
    BY <1>2 DEF Place
  <2> QED BY <1>1, <1>2, <2>1 DEF Under, SameAt
<1> QED BY <1>1, <1>2 DEF Under

\* What the invariant says of where the callables of slots and threads lie.
LEMMA PlacesApart ==
  ASSUME IInv
  PROVE  /\ \A s \in Slots : Keepers[s] # NoType =>
              /\ Place(mem, Keepers[s], s) \in Loc
              /\ mem.obj[Place(mem, Keepers[s], s)] # NoObject
              /\ mem.obj[Place(mem, Keepers[s], s)].type = Keepers[s]
              /\ \A b \in Threads : Place(mem, Keepers[s], s) # Cells[b]
              /\ \A r \in Slots \ {s} : Keepers[r] # NoType =>
                   Place(mem, Keepers[r], r) # Place(mem, Keepers[s], s)
         /\ \A b \in Threads : Cells[b] # Null =>
              /\ Cells[b] \in Loc /\ mem.obj[Cells[b]] # NoObject
              /\ \A d \in Threads \ {b} : Cells[d] # Cells[b]
BY DistinctAssumption DEF IInv, Consistent, Live, LiveAt, Loc, Slots

\* CopiesItsSource, by what the slots show.
CopyForm ==
  \A b \in Threads :
    act[b].at = "build" /\ act[b].op # "construct" =>
      /\ act[b].other \in Slots /\ act[b].other \in Uses(act[b])
      /\ mem.obj[act[b].cell].val = Shows[act[b].other].val

LEMMA CopiesShown == IInv => (CopiesItsSource <=> CopyForm)
<1> SUFFICES ASSUME IInv PROVE CopiesItsSource <=> CopyForm
  OBVIOUS
<1>1. ASSUME NEW b \in Threads, act[b].at = "build", act[b].op # "construct"
      PROVE  act[b].other \in Slots /\ act[b].other \in Uses(act[b])
  <2>1. FrameOK(b, act[b], alive, vt, mem) /\ act[b] # Idle /\ alive \subseteq Wrappers
    BY <1>1 DEF IInv, Frames, TypeOK, Idle, Doing
  <2>2. act[b].other \in Wrappers
    BY <1>1, <2>1 DEF FrameOK, Kills, Moves, Legs
  <2> QED BY <2>2, DistinctAssumption DEF Slots, Uses
<1>2. \A s \in Slots : Shown(s) = Shows[s]
  BY ShowsFrom
<1> QED BY <1>1, <1>2 DEF CopiesItsSource, CopyForm

LEMMA CopiesShownNext == (IInv => (CopiesItsSource <=> CopyForm))'
BY CopiesShown, PTL

\* A step keeps CopiesItsSource if it does so for the copy it begins.
LEMMA StepCopies ==
  ASSUME NEW a \in Threads, NEW g, NEW W, StepTo(a, g, W), CopiesItsSource,
         g.at = "build" /\ g.op # "construct" =>
           /\ g.other \in Slots /\ g.other \in Uses(g)
           /\ mem'.obj[g.cell].val = Shows'[g.other].val
  PROVE  CopiesItsSource'
<1>1. CopyForm
  BY CopiesShown DEF StepTo
<1>2. ASSUME NEW b \in Threads, act'[b].at = "build", act'[b].op # "construct"
      PROVE  /\ act'[b].other \in Slots /\ act'[b].other \in Uses(act'[b])
             /\ mem'.obj[act'[b].cell].val = Shows'[act'[b].other].val
  <2>1. CASE b = a
    BY <1>2, <2>1 DEF StepTo
  <2>2. CASE b # a
    <3>1. act'[b] = act[b]
      BY <2>2 DEF StepTo
    <3>2. /\ act[b].other \in Slots /\ act[b].other \in Uses(act[b])
          /\ mem.obj[act[b].cell].val = Shows[act[b].other].val
      BY <1>1, <1>2, <3>1 DEF CopyForm
    <3>3. Cells[b] = act[b].cell /\ Cells[b] # Null
      BY <1>2, <3>1, BuildFrame, IsFramed DEF StepTo
    <3>4. mem'.obj[act[b].cell].val = mem.obj[act[b].cell].val
      BY <2>2, <3>3 DEF StepTo, SameAt
    <3>5. act[b].other \notin W /\ act[b].other # a
      BY <2>2, <3>2, DistinctAssumption DEF StepTo, IInv, TypeOK, Frame, Uses
    <3>6. Shows'[act[b].other] = Shows[act[b].other]
      BY <3>2, <3>5 DEF StepTo
    <3> QED BY <3>1, <3>2, <3>4, <3>6
  <2> QED BY <2>1, <2>2
<1>3. CopyForm'
  BY <1>2 DEF CopyForm
<1> QED BY <1>3, CopiesShownNext DEF StepTo

-----------------------------------------------------------------------------
(* 3. The steps                                                             *)

\* The step is one of FunctionValues or none, and keeps CopiesItsSource.
Maps == (Values!Next \/ UNCHANGED <<val, call>>) /\ CopiesItsSource'

\* An empty Function appears or disappears at one instant.
LEMMA AppearsMaps ==
  ASSUME IInv, CopiesItsSource, NEW a \in Threads, act[a] = Idle, NEW w \in Wrappers,
         Apart(a, {w}, {}), Appears(w)
  PROVE  Maps
<1>1. IInv' /\ Keepers' = Keepers /\ Keepers[w] = NoType
  BY AppearsStep
<1>2. mem'.obj = mem.obj /\ \A s \in Slots \ {w} : mem'.ptr[s] = mem.ptr[s]
  <2>1. mem \in Memory /\ w \in Slots
    BY DEF IInv, TypeOK, Slots
  <2>2. mem' = Point(mem, w, Null) \/ mem' = mem
    BY DEF Appears, Fresh
  <2>3. /\ Point(mem, w, Null).obj = mem.obj
        /\ Point(mem, w, Null).ptr = [mem.ptr EXCEPT ![w] = Null]
    BY <2>1, PointFields
  <2>4. \A s \in Slots \ {w} : [mem.ptr EXCEPT ![w] = Null][s] = mem.ptr[s]
    BY <2>1 DEF Memory
  <2> QED BY <2>2, <2>3, <2>4
<1>3. \A s \in Slots : Shows'[s] = Shows[s]
  BY <1>1, <1>2, ShowsSteady DEF SameAt
<1>4. StepTo(a, Idle, {w})
  BY <1>1, <1>2, <1>3, IdleFrame DEF StepTo, Appears, Apart, SameAt
<1>5. CopiesItsSource'
  BY <1>4, StepCopies DEF Idle, Doing
<1>6. /\ \A u \in Wrappers \ {w} : val'[u] = val[u]
      /\ val[w] = Seen(Idle, a, w, alive, Shows) /\ val'[w] = Seen(Idle, a, w, alive', Shows')
  BY <1>4, StepValues
<1>7. Shows[w] = NoObject /\ Shows'[w] = NoObject
  BY <1>1, <1>3, ShowsKind DEF ShowsKinds, Slots
<1>8. val[w] \in {Null, NoObject} /\ val'[w] \in {Null, NoObject}
  BY <1>6, <1>7, IdleFrame DEF Seen
<1>9. val' = [val EXCEPT ![w] = val'[w]] /\ (val'[w] = val[w] => val' = val)
  BY <1>6, MappedDomains
<1>10. call[a] = NoType /\ call' = call
  <2>1. call[a] = NoType /\ call' = [call EXCEPT ![a] = NoType]
    BY <1>4, StepCalls DEF CallOf
  <2> QED BY <2>1, MappedDomains
<1>11. CASE val'[w] = val[w]
  BY <1>5, <1>9, <1>10, <1>11 DEF Maps
<1>12. CASE val'[w] # val[w]
  <2>1. Values!Instant(a, w)
    BY <1>8, <1>9, <1>10, <1>12 DEF Values!Instant
  <2> QED BY <1>5, <2>1 DEF Maps, Values!Next
<1> QED BY <1>11, <1>12

\* An operation that may fail, or that runs user code before it changes
\* anything, is entered: nothing has changed yet.
LEMMA EnterQuietly ==
  ASSUME NEW a \in Threads, NEW g, NEW W, StepTo(a, g, W), act[a] = Idle,
         g.op \in {"construct", "copyctor", "copyassign", "call"}, ~InEffect(g), g # Idle,
         g.this \in Wrappers, g.other \in Wrappers \cup {Null},
         \A w \in W : (w \in alive' <=> w \in alive) /\ Shows'[w] = Shows[w],
         g.op \in {"construct", "copyctor"} <=> val[g.this] = Null,
         g.op \in {"copyctor", "copyassign"} => g.other \in Wrappers /\ val[g.other] # Null,
         g.op = "call" => val[g.this] \in Callables
  PROVE  Values!Next
<1>1. val' = val
  <2>1. \A w \in W : val'[w] = val[w]
    BY StepValues, IdleFrame DEF Seen
  <2>2. \A w \in Wrappers : val'[w] = val[w]
    BY <2>1, StepValues
  <2> QED BY <2>2, MappedDomains
<1>2. /\ call[a] = NoType
      /\ call' = [call EXCEPT ![a] = [op |-> g.op, this |-> g.this, other |-> g.other,
                                      done |-> FALSE]]
  <2>1. InEffect(g) = FALSE
    BY DEF InEffect
  <2> QED BY <2>1, StepCalls DEF CallOf
<1>3. Values!Enter(a, g.op, g.this, g.other)
  BY <1>1, <1>2 DEF Values!Enter, Values!Sensible, Values!Start
<1> QED BY <1>3 DEF Values!Next

\* An operation that cannot fail takes effect as it is entered.
LEMMA EnterInEffect ==
  ASSUME NEW a \in Threads, NEW g, NEW W, StepTo(a, g, W), act[a] = Idle, InEffect(g),
         g.op \in {"movector", "moveassign", "swap", "reset", "destroy"},
         g.this \in Wrappers, g.other \in Wrappers \cup {Null},
         g.op = "movector" <=> val[g.this] = Null,
         g.op \in {"movector", "moveassign", "swap"} => g.other \in Wrappers /\ val[g.other] # Null,
         val' \in Values!Effects(Values!Start(g.op, g.this, g.other))
  PROVE  Values!Next
<1>1. /\ call[a] = NoType
      /\ call' = [call EXCEPT ![a] = [op |-> g.op, this |-> g.this, other |-> g.other,
                                      done |-> TRUE]]
  <2>1. g # Idle /\ InEffect(g) = TRUE
    BY DEF InEffect, Idle, Doing
  <2> QED BY <2>1, StepCalls DEF CallOf
<1>2. Values!Enter(a, g.op, g.this, g.other)
  <2>1. Values!Sensible(Values!Start(g.op, g.this, g.other))
    BY DEF Values!Sensible, Values!Start
  <2>2. call' = [call EXCEPT ![a] = Values!Done(Values!Start(g.op, g.this, g.other))]
    BY <1>1 DEF Values!Done, Values!Start
  <2> QED BY <1>1, <2>1, <2>2 DEF Values!Enter
<1> QED BY <1>2 DEF Values!Next

\* A constructor is entered.
LEMMA BuildsMaps ==
  ASSUME IInv, CopiesItsSource, NEW a \in Threads, act[a] = Idle, NEW w \in Wrappers,
         Apart(a, {w}, {}), NEW op \in {"construct", "copyctor", "copyassign"},
         NEW o \in Wrappers \cup {Null}, NEW t \in Types, NEW s, NEW c, NEW v,
         IInv', Entered(s, c), Builds(a, op, w, o, t, s, c, v),
         op = "construct" => w \notin alive /\ o = Null,
         op = "copyctor" => w \notin alive /\ o \in alive,
         op = "copyassign" => w \in alive /\ o \in alive /\ w # o,
         op # "construct" => v = Shows[o].val /\ Apart(a, {}, {o})
  PROVE  Maps
<1> DEFINE g == Doing(op, "build", w, o, t, c)
<1>1. g = [op |-> op, at |-> "build", this |-> w, other |-> o, ty |-> t, cell |-> c,
           dst |-> Null, src |-> Null, mine |-> NoType, theirs |-> NoType]
  BY DEF Doing
<1>2. /\ act'[a] = g /\ \A b \in Threads \ {a} : act'[b] = act[b]
      /\ alive' = alive /\ alive \subseteq Wrappers
  BY DEF Builds, Go, IInv, TypeOK
<1> HIDE DEF g
<1>3. Writes(g) = {w} /\ g # Idle /\ ~InEffect(g) /\ (o # Null => o \in Uses(g))
  BY <1>1 DEF Writes, Uses, InEffect, Idle, Doing
<1>4. /\ \A l \in Loc \ {c} : SameAt(mem, mem', l)
      /\ mem'.obj[c].val = v
      /\ \A r \in Slots \ {s} : mem'.ptr[r] = mem.ptr[r]
  <2>1. mem' = BeginNew(Fresh(mem, s), t, s, c, v) /\ mem \in Memory /\ s \in Slots /\ c \in Loc
    BY DEF Builds, IInv, TypeOK, Entered
  <2> QED BY <2>1, BeginNewContents
<1>5. \A r \in Slots : Shows'[r] = Shows[r]
  BY <1>4, PlacesApart, ShowsSteady DEF Entered
<1>6. StepTo(a, g, {w})
  BY <1>2, <1>3, <1>4, <1>5, IdleFrame, PlacesApart DEF StepTo, Apart, Entered
<1>7. CopiesItsSource'
  BY <1>1, <1>2, <1>3, <1>4, <1>5, <1>6, StepCopies, DistinctAssumption DEF Slots
<1>8. ASSUME NEW u \in Wrappers, \A b \in Threads \ {a} : u \notin Writes(act[b])
      PROVE  val[u] = Null <=> u \notin alive
  <2>1. val[u] = IF u \in alive THEN Shows[u] ELSE Null
    BY <1>8, IdleFrame, ValueAtRest
  <2>2. Shows[u] \in Callables \cup {NoObject}
    BY ShowsKind DEF ShowsKinds, Slots
  <2> QED BY <2>1, <2>2, MappingAssumption
<1>9. val[w] = Null <=> w \notin alive
  BY <1>8, WritesAreUses DEF Apart
<1>10. op # "construct" => o \in Wrappers /\ val[o] # Null
  BY <1>2, <1>8 DEF Apart
<1>11. Values!Next
  BY <1>1, <1>2, <1>3, <1>5, <1>6, <1>9, <1>10, EnterQuietly, DistinctAssumption DEF Slots
<1> QED BY <1>7, <1>11 DEF Maps

\* An idle thread's view of Functions only it may touch.
LEMMA IdleValues ==
  ASSUME NEW a \in Threads, NEW g, NEW W, StepTo(a, g, W), act[a] = Idle
  PROVE  \A w \in W : /\ val[w] = IF w \in alive THEN Shows[w] ELSE Null
                      /\ val[w] = Null <=> w \notin alive
<1>1. \A w \in W : val[w] = IF w \in alive THEN Shows[w] ELSE Null
  BY StepValues, IdleFrame DEF Seen
<1>2. \A w \in W : Shows[w] \in Callables \cup {NoObject}
  BY ShowsKind DEF ShowsKinds, StepTo, Slots
<1> QED BY <1>1, <1>2, MappingAssumption

\* reset() enters the destructor of the Function's callable.
LEMMA KillMaps ==
  ASSUME IInv, CopiesItsSource, NEW a \in Threads, act[a] = Idle, NEW w \in alive, vt[w] # NoType,
         NEW op \in {"reset", "destroy", "moveassign"},
         NEW o \in Wrappers \cup {Null}, op = "moveassign" => o \in alive /\ w # o,
         op = "moveassign" => Apart(a, {w, o}, {}),
         Apart(a, {w}, {o} \ {Null}),
         BeginKill(a, op, w, o, NoType, mem), UNCHANGED <<alive, vt>>
  PROVE  Maps
<1> DEFINE l == Place(mem, vt[w], w)
           g == Doing(op, "kill", w, o, NoType, l)
           W == IF op = "moveassign" THEN {w, o} ELSE {w}
<1>1. g = [op |-> op, at |-> "kill", this |-> w, other |-> o, ty |-> NoType, cell |-> l,
           dst |-> Null, src |-> Null, mine |-> NoType, theirs |-> NoType]
  BY DEF Doing
<1>2. /\ IInv' /\ Keepers'[w] = NoType /\ \A r \in Slots \ {w} : Keepers'[r] = Keepers[r]
      /\ alive \subseteq Wrappers /\ w \in Wrappers
  BY KillBegins DEF IInv, TypeOK
<1>3. /\ act'[a] = g /\ \A b \in Threads \ {a} : act'[b] = act[b]
      /\ mem' = Mark(mem, l, "dying")
  BY DEF BeginKill, Go, IInv, TypeOK
<1> HIDE DEF g, l
<1>4. Writes(g) = W /\ InEffect(g)
  BY <1>1 DEF Writes, InEffect
<1>5. (\A k \in Loc : SameAt(mem, mem', k)) /\ mem'.ptr = mem.ptr
  <2>1. mem \in Memory
    BY DEF IInv, TypeOK
  <2> QED BY <1>3, <2>1, MarkContents, PtrFields
<1>6. \A r \in Slots \ {w} : Shows'[r] = Shows[r]
  BY <1>2, <1>5, PlacesApart, ShowsSteady
<1>7. Shows'[w] = NoObject
  BY <1>2, ShowsKindNext DEF ShowsKinds, Slots
<1>8. StepTo(a, g, W)
  <2>1. W \subseteq Wrappers /\ \A b \in Threads \ {a} : W \cap Uses(act[b]) = {}
    BY <1>2 DEF Apart
  <2> HIDE DEF W
  <2>2. w \in W
    BY DEF W
  <2> QED BY <1>2, <1>3, <1>4, <1>5, <1>6, <2>1, <2>2, IdleFrame, PlacesApart DEF StepTo
<1>9. CopiesItsSource'
  BY <1>1, <1>8, StepCopies
<1>10. /\ \A u \in Wrappers \ W : val'[u] = val[u]
       /\ \A u \in W : val'[u] = Result(g, a, u, Shows')
  BY <1>4, <1>8, StepValues DEF Seen
<1>11. \A u \in W : val[u] = (IF u \in alive THEN Shows[u] ELSE Null) /\ (val[u] = Null <=> u \notin alive)
  BY <1>8, IdleValues
<1>12. val' \in Values!Effects(Values!Start(op, w, o))
  <2>1. CASE op = "reset"
    <3>1. val'[w] = NoObject
      BY <1>1, <1>10, <2>1 DEF Result, Home
    <3>2. val' = [val EXCEPT ![w] = NoObject]
      BY <1>10, <2>1, <3>1, MappedDomains
    <3> QED BY <2>1, <3>2 DEF Values!Effects, Values!Start
  <2>2. CASE op = "destroy"
    <3>1. val'[w] = Null
      BY <1>1, <1>10, <2>2 DEF Result
    <3>2. val' = [val EXCEPT ![w] = Null]
      BY <1>10, <2>2, <3>1, MappedDomains
    <3> QED BY <2>2, <3>2 DEF Values!Effects, Values!Start
  <2>3. CASE op = "moveassign"
    <3>1. /\ o \in Wrappers /\ o # Null /\ w # o /\ val[o] = Shows[o]
          /\ Shows'[o] = Shows[o]
      BY <1>2, <1>6, <1>11, <2>3, DistinctAssumption DEF Slots
    <3>2. val'[o] = NoObject /\ val'[w] = val[o]
      BY <1>1, <1>10, <2>3, <3>1 DEF Result, Home
    <3>3. val' = [val EXCEPT ![o] = NoObject, ![w] = val[o]]
      BY <1>10, <2>3, <3>1, <3>2, MappedDomains
    <3> QED BY <2>3, <3>3 DEF Values!Effects, Values!Start
  <2> QED BY <2>1, <2>2, <2>3
<1>13. Values!Next
  <2>1. val[w] # Null /\ (op = "moveassign" => o \in Wrappers /\ val[o] # Null)
    BY <1>2, <1>11
  <2> QED BY <1>1, <1>2, <1>4, <1>8, <1>12, <2>1, EnterInEffect
<1> QED BY <1>9, <1>13 DEF Maps

\* A vtable's move is entered, from Idle.
LEMMA MoveMaps ==
  ASSUME IInv, CopiesItsSource, NEW a \in Threads, act[a] = Idle,
         NEW w \in Wrappers, NEW o \in Wrappers, w # o, Apart(a, {w, o}, {}),
         NEW op \in {"movector", "moveassign", "swap"}, NEW t \in Types,
         NEW dst \in {a, w, o}, NEW src \in {w, o}, dst # src,
         vt[src] = t, dst # a => vt[dst] = NoType, dst = a => op = "swap" /\ src = w,
         NEW mine \in Types \cup {NoType}, NEW theirs \in Types \cup {NoType},
         op = "swap" => mine = vt[w] /\ theirs = vt[o] /\ (dst = a => theirs # NoType),
         op # "swap" => dst = w /\ src = o,
         o \in alive, op = "movector" <=> w \notin alive,
         BeginsMove(a, op, w, o, t, dst, src, mine, theirs),
         FrameOK(a, Moving(op, w, o, t, dst, src, mine, theirs), alive, vt, mem'),
         defined'
  PROVE  Maps
<1> DEFINE g == Moving(op, w, o, t, dst, src, mine, theirs)
<1>1. g = [op |-> op, at |-> "move", this |-> w, other |-> o, ty |-> t, cell |-> Null,
           dst |-> dst, src |-> src, mine |-> mine, theirs |-> theirs]
  BY DEF Moving
<1>2. IInv' /\ Keepers' = Keepers /\ Keepers[dst] = NoType
  BY MoveBegins
<1>3. /\ act'[a] = g /\ \A b \in Threads \ {a} : act'[b] = act[b]
      /\ alive' = alive /\ mem' \in {mem, Fresh(mem, dst)}
  BY DEF BeginsMove, Go, IInv, TypeOK
<1> HIDE DEF g
<1>4. Writes(g) = {w, o} /\ InEffect(g)
  BY <1>1 DEF Writes, InEffect
<1>5. a \notin Wrappers /\ Null \notin Wrappers /\ Null # a /\ a \in Slots /\ Wrappers \subseteq Slots
  BY DistinctAssumption DEF Slots
<1>6. mem'.obj = mem.obj /\ \A s \in Slots \ {dst} : mem'.ptr[s] = mem.ptr[s]
  <2>1. mem \in Memory /\ dst \in Slots
    BY <1>5 DEF IInv, TypeOK
  <2>2. /\ Point(mem, dst, Null).obj = mem.obj
        /\ Point(mem, dst, Null).ptr = [mem.ptr EXCEPT ![dst] = Null]
    BY <2>1, PointFields
  <2>3. \A s \in Slots \ {dst} : [mem.ptr EXCEPT ![dst] = Null][s] = mem.ptr[s]
    BY <2>1 DEF Memory
  <2> QED BY <1>3, <2>2, <2>3 DEF Fresh
<1>7. \A s \in Slots : Shows'[s] = Shows[s]
  BY <1>2, <1>6, ShowsSteady DEF SameAt
<1>8. StepTo(a, g, {w, o})
  BY <1>2, <1>3, <1>4, <1>6, <1>7, IdleFrame DEF StepTo, Apart, SameAt
<1>9. CopiesItsSource'
  BY <1>1, <1>8, StepCopies
<1>10. /\ \A u \in Wrappers \ {w, o} : val'[u] = val[u]
       /\ val'[w] = Result(g, a, w, Shows') /\ val'[o] = Result(g, a, o, Shows')
  BY <1>4, <1>8, StepValues DEF Seen
<1>11. /\ val[o] = Shows[o] /\ val[o] # Null
       /\ val[w] = Null <=> w \notin alive
       /\ w \in alive => val[w] = Shows[w]
  BY <1>8, IdleValues
<1>12. (vt[w] = NoType => Shows[w] = NoObject) /\ (vt[o] = NoType => Shows[o] = NoObject)
  <2>1. \A b \in Threads : w \notin Writes(act[b]) /\ o \notin Writes(act[b])
    BY IdleFrame, WritesAreUses DEF Apart
  <2> QED BY <1>5, <2>1, NotWritten, ShowsKind DEF ShowsKinds
<1>13. CASE op # "swap"
  <2>1. val'[o] = NoObject /\ val'[w] = val[o]
    BY <1>1, <1>5, <1>7, <1>10, <1>11, <1>13 DEF Result, Home, Spot
  <2>2. val' = [val EXCEPT ![o] = NoObject, ![w] = val[o]]
    BY <1>10, <2>1, MappedDomains
  <2>3. val' \in Values!Effects(Values!Start(op, w, o))
    BY <1>13, <2>2 DEF Values!Effects, Values!Start
  <2> QED BY <1>1, <1>4, <1>8, <1>9, <1>11, <1>13, <2>3, EnterInEffect DEF Maps
<1>14. CASE op = "swap"
  <2>1. dst = o => src = w
    OBVIOUS
  <2>2. dst = w => src = o
    OBVIOUS
  <2>3. val'[w] = val[o]
    BY <1>1, <1>5, <1>7, <1>10, <1>11, <1>12, <1>14, <2>1, <2>2, DistinctAssumption
    DEF Result, Home, Spot
  <2>4. val'[o] = val[w]
    BY <1>1, <1>5, <1>7, <1>10, <1>11, <1>12, <1>14, <2>1, <2>2, DistinctAssumption
    DEF Result, Home, Spot
  <2>5. val' = [val EXCEPT ![w] = val[o], ![o] = val[w]]
    BY <1>10, <2>3, <2>4, MappedDomains
  <2>6. val' \in Values!Effects(Values!Start(op, w, o))
    BY <1>14, <2>5 DEF Values!Effects, Values!Start
  <2> QED BY <1>1, <1>4, <1>8, <1>9, <1>11, <1>14, <2>6, EnterInEffect DEF Maps
<1> QED BY <1>13, <1>14

\* operator() is entered.
LEMMA CallMaps ==
  ASSUME IInv, CopiesItsSource, NEW a \in Threads, act[a] = Idle, NEW w \in Wrappers,
         IF vt[w] \in Mutable /\ ~ShareCalls THEN Apart(a, {w}, {}) ELSE Apart(a, {}, {w}),
         Call(a, w)
  PROVE  Maps
<1> DEFINE g == Doing("call", "run", w, Null, vt[w], Place(mem, vt[w], w))
           W == IF vt[w] \in Mutable /\ ~ShareCalls THEN {w} ELSE {}
<1>1. g = [op |-> "call", at |-> "run", this |-> w, other |-> Null, ty |-> vt[w],
           cell |-> Place(mem, vt[w], w), dst |-> Null, src |-> Null,
           mine |-> NoType, theirs |-> NoType]
  BY DEF Doing
<1>2. /\ act'[a] = g /\ \A b \in Threads \ {a} : act'[b] = act[b]
      /\ alive' = alive /\ mem' = mem /\ w \in alive /\ vt[w] # NoType
  BY DEF Call, Go, IInv, TypeOK
<1>3. IInv' /\ Keepers' = Keepers /\ Keepers[w] = vt[w]
  BY CallBegins
<1> HIDE DEF g
<1>4. Writes(g) = W /\ ~InEffect(g) /\ g # Idle
  BY <1>1 DEF Writes, InEffect, Idle, Doing
<1>5. \A s \in Slots : Shows'[s] = Shows[s]
  BY <1>2, <1>3, ShowsSteady DEF SameAt
<1>6. StepTo(a, g, W)
  BY <1>2, <1>3, <1>4, <1>5, IdleFrame DEF StepTo, Apart, SameAt
<1>7. CopiesItsSource'
  BY <1>1, <1>6, StepCopies
<1>8. val[w] \in Callables
  <2>1. \A b \in Threads : w \notin Writes(act[b])
    BY IdleFrame, WritesAreUses DEF Apart
  <2>2. val[w] = Shows[w]
    BY <1>2, <2>1, ValueAtRest
  <2> QED BY <1>2, <1>3, <2>2, ShowsKind DEF ShowsKinds, Slots
<1>9. Values!Next
  <2>1. val[w] # Null
    BY <1>8, MappingAssumption
  <2>2. \A u \in W : Shows'[u] = Shows[u]
    BY <1>5 DEF Slots
  <2> QED BY <1>1, <1>2, <1>4, <1>6, <1>8, <2>1, <2>2, EnterQuietly
<1> QED BY <1>7, <1>9 DEF Maps

\* An operation that was entered takes effect, and ends or goes on.
LEMMA TakesEffect ==
  ASSUME NEW a \in Threads, NEW g, NEW W, StepTo(a, g, W), act[a] # Idle, ~InEffect(act[a]),
         \/ g = Idle
         \/ /\ InEffect(g) /\ g.op = act[a].op
            /\ g.this = act[a].this /\ g.other = act[a].other,
         val' \in Values!Effects(CallOf(act[a]))
  PROVE  Values!Next
<1> DEFINE c == [op |-> act[a].op, this |-> act[a].this, other |-> act[a].other, done |-> FALSE]
<1>1. CallOf(act[a]) = c
  <2>1. InEffect(act[a]) = FALSE
    BY DEF InEffect
  <2> QED BY <2>1 DEF CallOf
<1>2. call[a] = c /\ call[a] # NoType /\ call' = [call EXCEPT ![a] = CallOf(g)]
  BY <1>1, StepCalls
<1>3. \/ CallOf(g) = NoType
      \/ CallOf(g) = [op |-> act[a].op, this |-> act[a].this, other |-> act[a].other,
                      done |-> TRUE]
  <2>1. CASE g = Idle
    BY <2>1 DEF CallOf
  <2>2. CASE g # Idle
    <3>1. InEffect(g) = TRUE
      BY <2>2 DEF InEffect
    <3> QED BY <2>2, <3>1 DEF CallOf
  <2> QED BY <2>1, <2>2
<1>4. call[a].done = FALSE
  BY <1>2
<1>5. val' \in Values!Effects(call[a])
  BY <1>1, <1>2
<1>6. call' \in {[call EXCEPT ![a] = Values!Done(c)], [call EXCEPT ![a] = NoType]}
  BY <1>2, <1>3 DEF Values!Done
<1>7. Values!TakeEffect(a)
  BY <1>2, <1>4, <1>5, <1>6 DEF Values!TakeEffect
<1> QED BY <1>7 DEF Values!Next

\* An operation that took effect goes on or returns, and nothing is seen of it.
LEMMA GoesOn ==
  ASSUME NEW a \in Threads, NEW g, NEW W, StepTo(a, g, W), InEffect(act[a]),
         \/ g = Idle
         \/ /\ InEffect(g) /\ g.op = act[a].op
            /\ g.this = act[a].this /\ g.other = act[a].other,
         \A w \in W : val'[w] = val[w]
  PROVE  Values!Next \/ UNCHANGED <<val, call>>
<1>1. act[a] # Idle /\ InEffect(act[a]) = TRUE
  BY DEF InEffect, Idle, Doing
<1>2. /\ call[a] = [op |-> act[a].op, this |-> act[a].this, other |-> act[a].other,
                    done |-> TRUE]
      /\ call[a] # NoType /\ call' = [call EXCEPT ![a] = CallOf(g)]
  <2>1. CallOf(act[a]) = [op |-> act[a].op, this |-> act[a].this, other |-> act[a].other,
                          done |-> TRUE]
    BY <1>1 DEF CallOf
  <2> QED BY <1>1, <2>1, StepCalls
<1>3. val' = val
  <2>1. \A w \in Wrappers : val'[w] = val[w]
    BY StepValues
  <2> QED BY <2>1, MappedDomains
<1>4. CASE g = Idle
  <2>1. Values!Return(a)
    BY <1>2, <1>3, <1>4 DEF Values!Return, CallOf
  <2> QED BY <2>1 DEF Values!Next
<1>5. CASE g # Idle
  <2>1. InEffect(g) = TRUE
    BY <1>5 DEF InEffect
  <2>2. CallOf(g) = call[a]
    BY <1>2, <1>5, <2>1 DEF CallOf
  <2> HIDE DEF CallOf
  <2>3. call' = call
    BY <1>2, <2>2, MappedDomains
  <2> QED BY <1>3, <2>3
<1> QED BY <1>4, <1>5

\* A complete clone is what its source is.
LEMMA CloneIsSource ==
  ASSUME IInv, CopiesItsSource, NEW a \in Threads, act[a].at = "build", act[a].op # "construct"
  PROVE  /\ act[a].other \in Wrappers /\ act[a].other # act[a].this
         /\ val[act[a].other] = Shows[act[a].other]
         /\ Shows[act[a].other] = [type |-> mem.obj[act[a].cell].type,
                                   val |-> mem.obj[act[a].cell].val]
<1> DEFINE f == act[a]
           o == act[a].other
<1>1. /\ o \in Slots /\ o \in Uses(f) /\ mem.obj[f.cell].val = Shows[o].val
  BY CopiesShown DEF CopyForm
<1>2. /\ o \in alive /\ o # f.this /\ vt[o] = f.ty /\ f.ty \in Types /\ alive \subseteq Wrappers
      /\ Writes(f) = {f.this} /\ f.ty # NoType
      /\ Cells[a] = f.cell /\ Lives[a] = "raw" /\ Kinds[a] = f.ty /\ f.cell # Null
  <2>1. FrameOK(a, f, alive, vt, mem) /\ f # Idle /\ alive \subseteq Wrappers
    BY DEF IInv, Frames, TypeOK, Idle, Doing
  <2>2. o \in alive /\ o # f.this /\ vt[o] = f.ty
    BY <2>1 DEF FrameOK, Kills, Moves, Legs
  <2> QED BY <2>1, <2>2, BuildFrame, IsFramed
<1>3. \A b \in Threads : o \notin Writes(act[b])
  BY <1>1, <1>2 DEF IInv, Exclusive
<1>4. Keepers[o] = f.ty /\ val[o] = Shows[o]
  BY <1>2, <1>3, NotWritten, ValueAtRest
<1>5. mem.obj[f.cell].type = f.ty
  BY <1>2 DEF IInv, Consistent
<1>6. Shows[o] \in Callables /\ Shows[o].type = f.ty
  BY <1>1, <1>2, <1>4, ShowsKind DEF ShowsKinds
<1>7. Shows[o] = [type |-> Shows[o].type, val |-> Shows[o].val]
  BY <1>6 DEF Callables
<1> QED BY <1>1, <1>2, <1>4, <1>5, <1>6, <1>7

\* The constructor of a new Function's callable returns.
LEMMA ConstructedMaps ==
  ASSUME IInv, CopiesItsSource, NEW a \in Threads, FinishBuild(a), act[a].op # "copyassign"
  PROVE  Maps
<1> DEFINE f == act[a]
           w == act[a].this
           x == [type |-> mem.obj[f.cell].type, val |-> mem.obj[f.cell].val]
<1>1. /\ f.at = "build" /\ mem' = EndNew(mem, f.ty, w, f.cell)
      /\ act'[a] = Idle /\ \A b \in Threads \ {a} : act'[b] = act[b]
      /\ alive' = alive \cup {w}
  BY DEF FinishBuild, Go, IInv, TypeOK
<1>2. /\ IInv' /\ Keepers'[w] = f.ty /\ \A r \in Slots \ {w} : Keepers'[r] = Keepers[r]
  BY ConstructedStep
<1>3. /\ f.op \in {"construct", "copyctor"} /\ w \in Wrappers /\ w \in Slots
      /\ f.ty \in Types /\ f.ty # NoType /\ f.cell \in Loc
      /\ Writes(f) = {w} /\ CellFor(f.ty, f.cell, w)
      /\ f # Idle /\ ~InEffect(f)
  BY <1>1, BuildFrame, IsFramed DEF Slots, Idle, Doing, InEffect
<1>4. /\ \A l \in Loc : SameAt(mem, mem', l)
      /\ \A r \in Slots \ {w} : mem'.ptr[r] = mem.ptr[r]
      /\ Place(mem', f.ty, w) = f.cell
  <2>1. mem \in Memory
    BY DEF IInv, TypeOK
  <2>2. \A t, c : c \in Loc /\ CellFor(t, c, w) /\ mem' = EndNew(mem, t, w, c) =>
          /\ \A l \in Loc : SameAt(mem, mem', l)
          /\ \A r \in Slots \ {w} : mem'.ptr[r] = mem.ptr[r]
          /\ Place(mem', t, w) = c
    BY <1>3, <2>1, EndNewContents
  <2> QED BY <1>1, <1>3, <2>2
<1>5. \A r \in Slots \ {w} : Shows'[r] = Shows[r]
  BY <1>2, <1>4, PlacesApart, ShowsSteady
<1>6. Shows'[w] = x
  <2>1. Shows'[w] = Under(mem', f.ty, w)
    BY <1>2, <1>3, ShowsFrom
  <2> QED BY <1>3, <1>4, <2>1 DEF Under, SameAt
<1>7. StepTo(a, Idle, {w})
  <2>1. \A b \in Threads \ {a} : {w} \cap Uses(act[b]) = {}
    BY <1>3 DEF IInv, Exclusive
  <2> QED BY <1>1, <1>2, <1>3, <1>4, <1>5, <2>1, IdleFrame, PlacesApart DEF StepTo
<1>8. CopiesItsSource'
  BY <1>7, StepCopies DEF Idle, Doing
<1>9. (\A u \in Wrappers \ {w} : val'[u] = val[u]) /\ val'[w] = x
  <2>1. val'[w] = Seen(Idle, a, w, alive', Shows')
    BY <1>7, StepValues
  <2>2. val'[w] = Shows'[w]
    BY <1>1, <2>1, IdleFrame DEF Seen
  <2> QED BY <1>6, <1>7, <2>2, StepValues
<1>10. val' = [val EXCEPT ![w] = x]
  BY <1>9, MappedDomains
<1>11. x \in Callables
  <2>1. Shows'[w] \in Callables
    BY <1>2, <1>3, ShowsKindNext DEF ShowsKinds
  <2> QED BY <1>6, <2>1
<1>12. CallOf(f).op = f.op /\ CallOf(f).this = w /\ CallOf(f).other = f.other
  BY <1>3 DEF CallOf
<1> HIDE DEF x, w
<1>13. val' \in Values!Effects(CallOf(f))
  <2>1. CASE f.op = "construct"
    BY <1>10, <1>11, <1>12, <2>1 DEF Values!Effects
  <2>2. CASE f.op = "copyctor"
    <3>1. x = val[f.other]
      BY <1>1, <2>2, CloneIsSource DEF x
    <3> QED BY <1>10, <1>12, <2>2, <3>1 DEF Values!Effects
  <2> QED BY <1>3, <2>1, <2>2
<1>14. Values!Next
  BY <1>3, <1>7, <1>13, TakesEffect
<1> QED BY <1>8, <1>14 DEF Maps

\* The constructor throws: the operation fails without effect.
LEMMA ThrowMaps ==
  ASSUME IInv, CopiesItsSource, NEW a \in Threads, ThrowBuild(a)
  PROVE  Maps
<1> DEFINE f == act[a]
           w == act[a].this
<1>1. /\ f.at = "build" /\ mem' = Erase(mem, f.cell) /\ alive' = alive
      /\ act'[a] = Idle /\ \A b \in Threads \ {a} : act'[b] = act[b]
  BY DEF ThrowBuild, Go, IInv, TypeOK
<1>2. IInv' /\ Keepers' = Keepers
  BY ThrowBuildStep
<1>3. /\ f.op \in {"construct", "copyctor", "copyassign"} /\ w \in Wrappers /\ w \in Slots
      /\ Writes(f) = {w} /\ f # Idle /\ InEffect(f) = FALSE
      /\ Cells[a] = f.cell /\ f.cell # Null
  BY <1>1, BuildFrame, IsFramed DEF Slots, Idle, Doing, InEffect
<1>4. (\A l \in Loc \ {f.cell} : SameAt(mem, mem', l)) /\ mem'.ptr = mem.ptr
  BY <1>1, EraseContents, PtrFields DEF IInv, TypeOK
<1>5. \A r \in Slots : Shows'[r] = Shows[r]
  BY <1>2, <1>3, <1>4, PlacesApart, ShowsSteady
<1>6. StepTo(a, Idle, {w})
  <2>1. \A b \in Threads \ {a} : {w} \cap Uses(act[b]) = {}
    BY <1>3 DEF IInv, Exclusive
  <2> QED BY <1>1, <1>2, <1>3, <1>4, <1>5, <2>1, IdleFrame, PlacesApart DEF StepTo
<1>7. CopiesItsSource'
  BY <1>6, StepCopies DEF Idle, Doing
<1>8. val' = val
  <2>1. val[w] = Seen(f, a, w, alive, Shows) /\ val'[w] = Seen(Idle, a, w, alive', Shows')
    BY <1>6, StepValues
  <2>2. val'[w] = val[w]
    BY <1>1, <1>3, <1>5, <2>1, IdleFrame DEF Seen
  <2>3. \A u \in Wrappers : val'[u] = val[u]
    BY <1>6, <2>2, StepValues
  <2> QED BY <2>3, MappedDomains
<1>9. /\ call[a] # NoType /\ call[a].done = FALSE
      /\ call[a].op \in {"construct", "copyctor", "copyassign"}
      /\ call' = [call EXCEPT ![a] = NoType]
  <2>1. call[a] = CallOf(f) /\ call[a] # NoType /\ call' = [call EXCEPT ![a] = CallOf(Idle)]
    BY <1>3, <1>6, StepCalls
  <2> QED BY <1>3, <2>1 DEF CallOf
<1>10. Values!Fail(a)
  BY <1>8, <1>9 DEF Values!Fail
<1> QED BY <1>7, <1>10 DEF Maps, Values!Next

\* The clone of a copy assignment is complete: the assignment takes effect.
LEMMA ClonedMaps ==
  ASSUME IInv, CopiesItsSource, NEW a \in Threads, FinishBuild(a), act[a].op = "copyassign"
  PROVE  Maps
<1> DEFINE f == act[a]
           w == act[a].this
           o == act[a].other
           m == EndNew(mem, f.ty, a, f.cell)
           l == Place(m, vt[w], w)
           g == IF vt[w] # NoType THEN Doing("copyassign", "kill", w, o, f.ty, l)
                ELSE Onward(f, vt[o], w, a)
           x == [type |-> mem.obj[f.cell].type, val |-> mem.obj[f.cell].val]
<1>1. /\ f.at = "build" /\ mem' = (IF vt[w] # NoType THEN Mark(m, l, "dying") ELSE m)
      /\ act' = [act EXCEPT ![a] = g] /\ alive' = alive
  BY DEF FinishBuild, BeginKill, Go
<1>2. act'[a] = g /\ \A b \in Threads \ {a} : act'[b] = act[b]
  BY <1>1 DEF IInv, TypeOK
<1>3. /\ IInv' /\ Keepers'[a] = f.ty /\ \A r \in Slots \ {a, w} : Keepers'[r] = Keepers[r]
  BY ClonedStep
<1>4. /\ w \in Wrappers /\ f.ty \in Types /\ f.ty # NoType /\ f.cell \in Loc
      /\ Writes(f) = {w} /\ CellFor(f.ty, f.cell, a)
      /\ f # Idle /\ ~InEffect(f) /\ a \in Slots /\ a # Null /\ a # w
  <2>1. /\ w \in Wrappers /\ f.ty \in Types /\ f.ty # NoType /\ f.cell \in Loc
        /\ Writes(f) = {w} /\ CellFor(f.ty, f.cell, a)
    BY <1>1, BuildFrame, IsFramed
  <2>2. f # Idle /\ ~InEffect(f)
    BY <1>1 DEF Idle, Doing, InEffect
  <2> QED BY <2>1, <2>2, DistinctAssumption DEF Slots
<1>5. /\ g.op = "copyassign" /\ g.this = w /\ g.other = o /\ InEffect(g) /\ Writes(g) = {w}
      /\ Home(g, a, w) = a
  BY DEF Doing, Onward, Moving, InEffect, Writes, Home, Spot
<1> HIDE DEF g
<1>6. /\ \A k \in Loc : SameAt(mem, mem', k)
      /\ \A r \in Slots \ {a} : mem'.ptr[r] = mem.ptr[r]
      /\ Place(mem', f.ty, a) = f.cell
  <2>1. mem \in Memory /\ mem' \in Memory
    BY <1>3 DEF IInv, TypeOK
  <2>2. /\ \A k \in Loc : SameAt(mem, m, k)
        /\ \A r \in Slots \ {a} : m.ptr[r] = mem.ptr[r]
        /\ Place(m, f.ty, a) = f.cell /\ m \in Memory
    BY <1>4, <2>1, EndNewContents
  <2>3. CASE vt[w] = NoType
    BY <1>1, <2>2, <2>3
  <2>4. CASE vt[w] # NoType
    <3> HIDE DEF m, l
    <3>1. mem' = Mark(m, l, "dying")
      BY <1>1, <2>4
    <3>2. (\A k \in Loc : SameAt(m, mem', k)) /\ mem'.ptr = m.ptr
      BY <2>2, <3>1, MarkContents, PtrFields
    <3> QED BY <2>2, <3>2 DEF SameAt, Place
  <2> QED BY <2>3, <2>4
<1> HIDE DEF m, l
<1>7. \A r \in Slots \ {a, w} : Shows'[r] = Shows[r]
  BY <1>3, <1>6, PlacesApart, ShowsSteady
<1>8. Shows'[a] = x
  <2>1. Shows'[a] = Under(mem', f.ty, a)
    BY <1>3, <1>4, ShowsFrom
  <2> QED BY <1>4, <1>6, <2>1 DEF Under, SameAt
<1>9. StepTo(a, g, {w})
  <2>1. \A b \in Threads \ {a} : {w} \cap Uses(act[b]) = {}
    BY <1>4 DEF IInv, Exclusive
  <2> QED BY <1>1, <1>2, <1>3, <1>4, <1>5, <1>6, <1>7, <2>1, PlacesApart DEF StepTo
<1>10. CopiesItsSource'
  BY <1>5, <1>9, StepCopies DEF InEffect
<1>11. val[o] = x
  BY <1>1, CloneIsSource
<1>12. val'[w] = x /\ \A u \in Wrappers \ {w} : val'[u] = val[u]
  <2>1. val'[w] = Seen(g, a, w, alive', Shows')
    BY <1>9, StepValues
  <2> QED BY <1>4, <1>5, <1>8, <1>9, <2>1, StepValues DEF Seen, Result
<1>13. val' = [val EXCEPT ![w] = val[o]]
  BY <1>11, <1>12, MappedDomains
<1>14. CallOf(f).op = "copyassign" /\ CallOf(f).this = w /\ CallOf(f).other = o
  BY <1>4 DEF CallOf
<1> HIDE DEF x, w, o
<1>15. val' \in Values!Effects(CallOf(f))
  BY <1>13, <1>14 DEF Values!Effects
<1>16. Values!Next
  BY <1>4, <1>5, <1>9, <1>15, TakesEffect DEF w, o
<1> QED BY <1>10, <1>16 DEF Maps

\* A step of an operation in effect that leaves every value as it is.
LEMMA QuietMaps ==
  ASSUME NEW a \in Threads, NEW g, StepTo(a, g, Writes(act[a])), InEffect(act[a]), CopiesItsSource,
         \/ g = Idle
         \/ /\ InEffect(g) /\ g.op = act[a].op
            /\ g.this = act[a].this /\ g.other = act[a].other,
         \A w \in Writes(act[a]) :
           Result(act[a], a, w, Shows) = Seen(g, a, w, alive', Shows')
  PROVE  Maps
<1>1. \A w \in Writes(act[a]) : val'[w] = val[w]
  BY StepValues DEF Seen
<1>2. Values!Next \/ UNCHANGED <<val, call>>
  BY <1>1, GoesOn
<1>3. CopiesItsSource'
  BY StepCopies DEF InEffect, Idle, Doing
<1> QED BY <1>2, <1>3 DEF Maps

\* What the slots keep while a thread destroys a callable.
LEMMA KillKeepers ==
  ASSUME IInv, NEW a \in Threads, act[a].at = "kill"
  PROVE  /\ Keepers[act[a].this] = NoType
         /\ act[a].op = "moveassign" => Keepers[act[a].other] = vt[act[a].other]
<1>1. /\ alive \subseteq Wrappers /\ act[a].this \in alive
      /\ act[a].op = "moveassign" => act[a].other \in alive /\ act[a].this # act[a].other
      /\ Writes(act[a]) = IF act[a].op = "moveassign" THEN {act[a].this, act[a].other}
                          ELSE {act[a].this}
      /\ \A r, x : Keeps(act[a], a, r, x) =
           IF r = act[a].this THEN NoType
           ELSE IF r = a /\ act[a].op = "copyassign" THEN act[a].ty ELSE x
  BY KillFrame, IsFramed DEF IInv, TypeOK
<1>2. ASSUME NEW w \in Wrappers, w \in Writes(act[a])
      PROVE  Keepers[w] = Keeps(act[a], a, w, vt[w])
  <2>1. KeptIn(act, vt, w) = Keeps(act[a], a, w, vt[w])
    BY <1>2, WriterIsUnique, DistinctAssumption DEF KeptIn, IInv
  <2> QED BY <2>1 DEF Keepers, Kept, Slots
<1>3. a # act[a].other
  BY DistinctAssumption DEF IInv, TypeOK, Frame
<1> QED BY <1>1, <1>2, <1>3

\* The destructor called by reset() returns.
LEMMA FinishKillMaps ==
  ASSUME IInv, CopiesItsSource, NEW a \in Threads, FinishKill(a)
  PROVE  Maps
<1> DEFINE f == act[a]
           w == act[a].this
           o == act[a].other
           g == CASE f.op = "copyassign" -> Onward(f, vt'[o], w, a)
                  [] f.op = "moveassign" /\ vt'[o] # NoType -> Onward(f, vt'[o], w, o)
                  [] OTHER -> Idle
<1>1. /\ f.at = "kill" /\ mem' = Erase(mem, f.cell)
      /\ vt' = [vt EXCEPT ![w] = NoType]
      /\ alive' = (IF f.op = "destroy" THEN alive \ {w} ELSE alive)
      /\ act' = [act EXCEPT ![a] = g]
  BY DEF FinishKill, Go
<1>2. act'[a] = g /\ \A b \in Threads \ {a} : act'[b] = act[b]
  BY <1>1 DEF IInv, TypeOK
<1>3. IInv' /\ Keepers' = Keepers
  BY FinishKillStep
<1>4. /\ f.op \in {"copyassign", "reset", "destroy", "moveassign"}
      /\ w \in alive /\ w \in Wrappers /\ f.cell # Null /\ Cells[a] = f.cell
      /\ f.op \in {"copyassign", "moveassign"} => o \in alive /\ o \in Wrappers /\ w # o
      /\ Writes(f) = (IF f.op = "moveassign" THEN {w, o} ELSE {w})
      /\ Keepers[w] = NoType /\ (f.op = "moveassign" => Keepers[o] = vt[o])
      /\ a \in Slots /\ a # Null /\ a \notin Wrappers
  BY <1>1, KillFrame, IsFramed, KillKeepers, DistinctAssumption DEF IInv, TypeOK, Slots
<1>5. (\A l \in Loc \ {f.cell} : SameAt(mem, mem', l)) /\ mem'.ptr = mem.ptr
  BY <1>1, EraseContents, PtrFields DEF IInv, TypeOK
<1>6. \A r \in Slots : Shows'[r] = Shows[r]
  BY <1>3, <1>4, <1>5, PlacesApart, ShowsSteady
<1>7. /\ f.op = "copyassign" => g = Onward(f, vt'[o], w, a)
      /\ f.op = "moveassign" /\ vt[o] # NoType => g = Onward(f, vt'[o], w, o)
      /\ f.op \in {"reset", "destroy"} \/ (f.op = "moveassign" /\ vt[o] = NoType) => g = Idle
  BY <1>1, <1>4 DEF IInv, TypeOK
<1> HIDE DEF g, w, o
<1>8. \/ g = Idle
      \/ /\ InEffect(g) /\ g.op = f.op /\ g.this = w /\ g.other = o /\ Writes(g) = Writes(f)
         /\ g.at = "move"
         /\ g.src = IF f.op = "copyassign" THEN a ELSE o
  BY <1>4, <1>7 DEF Onward, Moving, InEffect, Writes, w, o
<1>9. StepTo(a, g, Writes(f))
  <2>1. Writes(f) \subseteq Wrappers /\ w \in Writes(f) /\ alive \subseteq Wrappers
    BY <1>4 DEF IInv, TypeOK
  <2>2. \A b \in Threads \ {a} : Writes(f) \cap Uses(act[b]) = {}
    BY DEF IInv, Exclusive
  <2>3. Writes(g) \subseteq Writes(f)
    BY <1>8, IdleFrame
  <2> QED BY <1>1, <1>2, <1>3, <1>4, <1>5, <1>6, <2>1, <2>2, <2>3, PlacesApart DEF StepTo
<1>10. /\ Shows[w] = NoObject
       /\ f.op = "moveassign" /\ vt[o] = NoType => Shows[o] = NoObject
  BY <1>4, ShowsKind DEF ShowsKinds, Slots
<1>11. ASSUME NEW u \in Writes(f)
       PROVE  Result(f, a, u, Shows) = Seen(g, a, u, alive', Shows')
  <2>1. CASE f.op = "copyassign"
    <3>1. Result(f, a, u, Shows) = Shows[a]
      BY <1>1, <1>4, <2>1 DEF Result, Home
    <3>2. g = Onward(f, vt'[o], w, a)
      BY <1>7, <2>1
    <3>3. /\ InEffect(g) /\ Writes(g) = Writes(f) /\ g.op = "copyassign" /\ g.at = "move"
          /\ g.src = a
      BY <2>1, <3>2 DEF Onward, Moving, InEffect, Writes, w
    <3>4. Seen(g, a, u, alive', Shows') = Shows'[a]
      BY <1>4, <3>3 DEF Seen, Result, Home, Spot
    <3> QED BY <1>4, <1>6, <3>1, <3>4
  <2>2. CASE f.op = "moveassign" /\ vt[o] # NoType
    <3>1. Result(f, a, u, Shows) = IF u = o THEN NoObject ELSE Shows[o]
      BY <1>1, <1>4, <2>2, DistinctAssumption DEF Result, Home, o
    <3>2. g = Onward(f, vt'[o], w, o)
      BY <1>7, <2>2
    <3>3. /\ InEffect(g) /\ Writes(g) = Writes(f) /\ g.op = "moveassign" /\ g.at = "move"
          /\ g.src = o /\ g.other = o
      BY <2>2, <3>2 DEF Onward, Moving, InEffect, Writes, w, o
    <3>4. Seen(g, a, u, alive', Shows') = IF u = o THEN NoObject ELSE Shows'[o]
      BY <1>4, <2>2, <3>3, DistinctAssumption DEF Seen, Result, Home, Spot
    <3> QED BY <1>4, <1>6, <2>2, <3>1, <3>4 DEF Slots
  <2>3. CASE f.op = "moveassign" /\ vt[o] = NoType
    <3>1. Result(f, a, u, Shows) = NoObject
      BY <1>1, <1>4, <1>10, <2>3 DEF Result, Home, o
    <3>2. Seen(g, a, u, alive', Shows') = Shows[u]
      BY <1>1, <1>4, <1>6, <1>7, <2>3, IdleFrame DEF Seen, Slots
    <3> QED BY <1>4, <1>10, <2>3, <3>1, <3>2
  <2>4. CASE f.op = "reset"
    <3>1. Result(f, a, u, Shows) = NoObject
      BY <2>4 DEF Result, Home
    <3>2. Seen(g, a, u, alive', Shows') = Shows[u]
      BY <1>1, <1>4, <1>6, <1>7, <2>4, IdleFrame DEF Seen, Slots
    <3> QED BY <1>4, <1>10, <2>4, <3>1, <3>2
  <2>5. CASE f.op = "destroy"
    <3>1. Result(f, a, u, Shows) = Null
      BY <2>5 DEF Result
    <3>2. Seen(g, a, u, alive', Shows') = Null
      BY <1>1, <1>4, <1>7, <2>5, IdleFrame DEF Seen
    <3> QED BY <3>1, <3>2
  <2> QED BY <1>4, <2>1, <2>2, <2>3, <2>4, <2>5
<1>12. InEffect(f)
  BY <1>1 DEF InEffect
<1> QED BY <1>8, <1>9, <1>11, <1>12, QuietMaps DEF w, o

\* A vtable's move takes the callable to where every Function of the operation
\* will look for it.
LEMMA MoveHomes ==
  ASSUME Framed, NEW a \in Threads, act[a].at = "move",
         act[a].src \in Slots, act[a].dst \in Slots, act[a].src # act[a].dst,
         NEW r, r = [act[a] EXCEPT !.at = "retire"],
         NEW S, NEW T, T[act[a].dst] = S[act[a].src],
         \A s \in Slots \ {act[a].dst, act[a].src} : T[s] = S[s],
         NEW u \in Writes(act[a])
  PROVE  Result(act[a], a, u, S) = Result(r, a, u, T)
<1> DEFINE f == act[a]
<1>1. /\ f \in Frame /\ f.this \in Wrappers /\ f.other \in Wrappers /\ f.this # f.other
      /\ Writes(f) = (IF f.op = "copyassign" THEN {f.this} ELSE {f.this, f.other})
      /\ f.ty \in Types /\ f.ty # NoType
      /\ f.op \in {"copyassign", "movector", "moveassign", "swap"}
      /\ OneWay(f, a) \/ IntoTmp(f, a) \/ Across(f, a) \/ OutOf(f, a)
      /\ a \notin Wrappers /\ a # Null /\ Null \notin Wrappers /\ a \in Slots
  BY MoveFrame, DistinctAssumption DEF Slots
<1>2. /\ r.at = "retire" /\ r.op = f.op /\ r.this = f.this /\ r.other = f.other
      /\ r.dst = f.dst /\ r.src = f.src /\ r.mine = f.mine /\ r.theirs = f.theirs
  BY <1>1 DEF Frame
<1>3. u \in {f.this, f.other}
  BY <1>1
<1>4. Spot(f) = f.src /\ Spot(r) = f.dst
  BY <1>2 DEF Spot
<1>5. \/ Home(f, a, u) = f.src /\ Home(r, a, u) = f.dst
      \/ Home(f, a, u) = Home(r, a, u) /\ Home(f, a, u) \in {Null} \cup (Slots \ {f.src, f.dst})
  <2>1. CASE OneWay(f, a)
    BY <1>1, <1>2, <1>3, <1>4, <2>1 DEF Home, OneWay
  <2>2. CASE IntoTmp(f, a)
    BY <1>1, <1>2, <1>3, <1>4, <2>2, DistinctAssumption DEF Home, IntoTmp, Slots
  <2>3. CASE Across(f, a)
    BY <1>1, <1>2, <1>3, <1>4, <2>3, DistinctAssumption DEF Home, Across, Slots
  <2>4. CASE OutOf(f, a)
    BY <1>1, <1>2, <1>3, <1>4, <2>4, DistinctAssumption DEF Home, OutOf, Slots
  <2> QED BY <1>1, <2>1, <2>2, <2>3, <2>4
<1>6. f.src # Null /\ f.dst # Null
  BY DistinctAssumption DEF Slots
<1> QED BY <1>2, <1>5, <1>6 DEF Result

\* Whatever follows a completed move, every Function of the operation will hold
\* what it would have held if the operation had stopped to look.
LEMMA AfterMoveSeen ==
  ASSUME Framed, NEW a \in Threads, act[a].at \in {"move", "retire"}, AfterMove(a, act[a]),
         NEW r, r = [act[a] EXCEPT !.at = "retire"],
         NEW S, S[act[a].src] = NoObject
  PROVE  /\ \/ act'[a] = Idle
            \/ /\ InEffect(act'[a]) /\ act'[a].op = act[a].op
               /\ act'[a].this = act[a].this /\ act'[a].other = act[a].other
         /\ \A u \in Writes(act[a]) : Result(r, a, u, S) = Seen(act'[a], a, u, alive', S)
<1> DEFINE f == act[a]
           w == act[a].this
           o == act[a].other
           g == act'[a]
<1>1. /\ f \in Frame /\ w \in Wrappers /\ o \in alive /\ o \in Wrappers /\ w # o
      /\ f.op # "movector" => w \in alive
      /\ f.op \in {"copyassign", "movector", "moveassign", "swap"}
      /\ Writes(f) = (IF f.op = "copyassign" THEN {w} ELSE {w, o}) /\ f.ty \in Types
      /\ f.op = "swap" => f.mine = vt[w] /\ f.theirs = vt[o]
      /\ OneWay(f, a) \/ IntoTmp(f, a) \/ Across(f, a) \/ OutOf(f, a)
  BY MoveFrame
<1>2. /\ a \notin Wrappers /\ NoType \notin Types /\ a # Null /\ w # Null /\ o # Null
      /\ act \in [Threads -> Frame] /\ NoType \notin Types
  BY <1>1, DistinctAssumption DEF Framed, TypeOK
<1>3. /\ r.at = "retire" /\ r.op = f.op /\ r.this = w /\ r.other = o
      /\ r.dst = f.dst /\ r.src = f.src /\ r.mine = f.mine /\ r.theirs = f.theirs
  BY <1>1 DEF Frame
<1>4. AfterMove(a, f)
  OBVIOUS
<1> HIDE DEF w, o, g
<1>5. CASE OneWay(f, a)
  <2>1. /\ f.dst = w /\ f.src = (IF f.op = "copyassign" THEN a ELSE o)
        /\ f.op \in {"copyassign", "movector", "moveassign"}
    BY <1>5 DEF OneWay, w, o
  <2>2. /\ alive' = (IF f.op = "copyassign" THEN alive ELSE alive \cup {w})
        /\ g = Idle
    BY <1>1, <1>2, <1>4, <2>1 DEF AfterMove, Go, w, o, g
  <2>3. ASSUME NEW u \in Writes(f) PROVE Result(r, a, u, S) = Seen(g, a, u, alive', S)
    <3>1. Seen(g, a, u, alive', S) = S[u]
      BY <1>1, <2>1, <2>2, IdleFrame DEF Seen
    <3>2. Result(r, a, u, S) = S[u]
      BY <1>1, <1>2, <1>3, <2>1 DEF Result, Home, Spot
    <3> QED BY <3>1, <3>2
  <2> QED BY <2>2, <2>3 DEF g
<1>6. CASE IntoTmp(f, a)
  <2>1. f.op = "swap" /\ f.dst = a /\ f.src = w /\ f.ty = f.mine /\ f.theirs \in Types
    BY <1>6 DEF IntoTmp, w
  <2>2. g = Onward(f, f.theirs, w, o) /\ alive' = alive
    <3>1. act' = [act EXCEPT ![a] = Onward(f, f.theirs, w, o)] /\ alive' = alive
      BY <1>1, <1>2, <1>4, <2>1 DEF AfterMove, Go, w, o
    <3> QED BY <1>2, <3>1 DEF g
  <2>3. /\ g.op = f.op /\ g.at = "move" /\ g.this = w /\ g.other = o /\ g.src = o /\ g.dst = w
        /\ g.mine = f.mine /\ g.theirs = f.theirs /\ InEffect(g) /\ Writes(g) = Writes(f)
    BY <2>1, <2>2 DEF Onward, Moving, InEffect, Writes, w, o
  <2>4. ASSUME NEW u \in Writes(f) PROVE Result(r, a, u, S) = Seen(g, a, u, alive', S)
    <3>1. Seen(g, a, u, alive', S) = Result(g, a, u, S)
      BY <2>3 DEF Seen
    <3>2. u \in {w, o} /\ f.mine # NoType /\ f.theirs # NoType
      BY <1>1, <1>2, <2>1
    <3>3. Home(r, a, u) = Home(g, a, u)
      BY <1>1, <1>2, <1>3, <2>1, <2>3, <3>2 DEF Home, Spot
    <3> QED BY <1>3, <2>3, <3>1, <3>3 DEF Result
  <2> QED BY <2>3, <2>4 DEF g, w, o
<1>7. CASE Across(f, a) /\ f.mine # NoType
  <2>1. f.op = "swap" /\ f.dst = w /\ f.src = o /\ f.ty = f.theirs
    BY <1>7 DEF Across, w, o
  <2>2. g = Onward(f, f.mine, o, a) /\ alive' = alive
    BY <1>1, <1>2, <1>4, <1>7, <2>1 DEF AfterMove, Go, w, o, g
  <2>3. /\ g.op = f.op /\ g.at = "move" /\ g.this = w /\ g.other = o /\ g.src = a /\ g.dst = o
        /\ g.mine = f.mine /\ g.theirs = f.theirs /\ InEffect(g) /\ Writes(g) = Writes(f)
    BY <2>1, <2>2 DEF Onward, Moving, InEffect, Writes, w, o
  <2>4. ASSUME NEW u \in Writes(f) PROVE Result(r, a, u, S) = Seen(g, a, u, alive', S)
    <3>1. Seen(g, a, u, alive', S) = Result(g, a, u, S)
      BY <2>3 DEF Seen
    <3>2. u \in {w, o} /\ f.mine # NoType /\ f.theirs # NoType
      BY <1>1, <1>2, <1>7, <2>1
    <3>3. Home(r, a, u) = Home(g, a, u)
      BY <1>1, <1>2, <1>3, <2>1, <2>3, <3>2 DEF Home, Spot
    <3> QED BY <1>3, <2>3, <3>1, <3>3 DEF Result
  <2> QED BY <2>3, <2>4 DEF g, w, o
<1>8. CASE (Across(f, a) /\ f.mine = NoType) \/ OutOf(f, a)
  <2>1. f.op = "swap"
    BY <1>8 DEF Across, OutOf
  <2>2. \/ f.dst = w /\ f.src = o /\ f.ty = f.theirs /\ f.mine = NoType
        \/ f.dst = o /\ f.src = w /\ f.ty = f.mine /\ f.theirs = NoType
        \/ f.dst = o /\ f.src = a /\ f.ty = f.mine /\ f.theirs # NoType
    BY <1>8 DEF Across, OutOf, w, o
  <2>3. alive' = alive /\ g = Idle
    BY <1>1, <1>2, <1>4, <2>1, <2>2 DEF AfterMove, Go, w, o, g
  <2>4. ASSUME NEW u \in Writes(f) PROVE Result(r, a, u, S) = Seen(g, a, u, alive', S)
    <3>1. Seen(g, a, u, alive', S) = S[u]
      BY <1>1, <2>1, <2>3, IdleFrame DEF Seen
    <3>2. u \in {w, o}
      BY <1>1, <2>1
    <3>3. Home(r, a, u) = u \/ (Home(r, a, u) = Null /\ u = f.src)
      BY <1>1, <1>2, <1>3, <2>1, <2>2, <3>2 DEF Home, Spot
    <3> QED BY <1>2, <1>3, <2>1, <3>1, <3>2, <3>3 DEF Result
  <2> QED BY <2>3, <2>4 DEF g
<1> QED BY <1>1, <1>5, <1>6, <1>7, <1>8

\* The destructor of a moved-from callable returns.
LEMMA FinishRetireMaps ==
  ASSUME IInv, CopiesItsSource, NEW a \in Threads, FinishRetire(a)
  PROVE  Maps
<1> DEFINE f == act[a]
           g == act'[a]
           r == [act[a] EXCEPT !.at = "retire"]
<1>1. /\ f.at = "retire" /\ mem' = Erase(mem, f.cell) /\ AfterMove(a, f)
  BY DEF FinishRetire
<1>2. IInv' /\ Keepers' = Keepers
  BY FinishRetireStep
<1>3. PICK h : After(a, h)
  BY <1>1, AfterMoveFrame, IsFramed
<1>4. /\ g = h /\ \A b \in Threads \ {a} : act'[b] = act[b]
      /\ h = Idle \/ Writes(h) = Writes(f)
      /\ \A u \in Wrappers \ Writes(f) : u \in alive' <=> u \in alive
  BY <1>3 DEF After, IInv, TypeOK
<1>5. /\ f \in Frame /\ f.cell = f.src /\ Writes(f) \subseteq Wrappers
      /\ f.src \in Slots /\ f.src \in Writes(f) \cup {a}
      /\ Cells[a] = f.cell /\ f.cell # Null /\ a \in Slots
  <2>1. /\ f \in Frame /\ f.this \in Wrappers /\ f.other \in Wrappers /\ f.cell = f.src
        /\ Writes(f) = IF f.op = "copyassign" THEN {f.this} ELSE {f.this, f.other}
        /\ OneWay(f, a) \/ IntoTmp(f, a) \/ Across(f, a) \/ OutOf(f, a)
    BY <1>1, MoveFrame, IsFramed
  <2>2. f.src \in Writes(f) \cup {a}
    BY <2>1 DEF OneWay, IntoTmp, Across, OutOf
  <2> QED BY <1>1, <2>1, <2>2, DistinctAssumption DEF Slots, Cells, CellOf
<1>6. Shows[f.src] = NoObject
  <2>1. \A v : Keeps(f, a, f.src, v) = NoType
    BY <1>1 DEF Keeps
  <2>2. Keepers[f.src] = NoType
    BY <1>1, <1>5, <2>1, MoveKeepers
  <2> QED BY <1>5, <2>2, ShowsKind DEF ShowsKinds
<1>7. (\A l \in Loc \ {f.cell} : SameAt(mem, mem', l)) /\ mem'.ptr = mem.ptr
  BY <1>1, EraseContents, PtrFields DEF IInv, TypeOK
<1>8. \A s \in Slots : Shows'[s] = Shows[s]
  BY <1>2, <1>5, <1>7, PlacesApart, ShowsSteady
<1>9. StepTo(a, g, Writes(f))
  <2>1. \A b \in Threads \ {a} : Writes(f) \cap Uses(act[b]) = {}
    BY DEF IInv, Exclusive
  <2> QED BY <1>2, <1>4, <1>5, <1>7, <1>8, <2>1, IdleFrame, PlacesApart DEF StepTo
<1>10. r = f
  BY <1>1, <1>5 DEF Frame
<1>11. Shows' = Shows
  BY <1>8 DEF Shows
<1>12. /\ \/ g = Idle
          \/ InEffect(g) /\ g.op = f.op /\ g.this = f.this /\ g.other = f.other
       /\ \A u \in Writes(f) : Result(r, a, u, Shows) = Seen(g, a, u, alive', Shows)
  BY <1>1, <1>6, AfterMoveSeen, IsFramed
<1>13. InEffect(f)
  BY <1>1 DEF InEffect
<1> QED BY <1>9, <1>10, <1>11, <1>12, <1>13, QuietMaps

\* A vtable's move: the callable is now at its target.
LEMMA StepMoveMaps ==
  ASSUME IInv, CopiesItsSource, NEW a \in Threads, StepMove(a)
  PROVE  Maps
<1> DEFINE f == act[a]
           g == act'[a]
           r == [act[a] EXCEPT !.at = "retire"]
<1>1. /\ f.at = "move"
      /\ mem' = (IF fits(f.ty) THEN Relocate(mem, f.dst, f.src) ELSE Transfer(mem, f.dst, f.src))
      /\ IF fits(f.ty)
           THEN /\ act' = [act EXCEPT ![a] = [f EXCEPT !.at = "retire", !.cell = f.src]]
                /\ alive' = alive
           ELSE AfterMove(a, f)
  BY DEF StepMove, Go
<1>2. IInv' /\ MovedKeepers(a)
  BY StepMoveStep
<1>3. /\ f.src \in Slots /\ f.dst \in Slots /\ f.src # f.dst
      /\ f.src \in Writes(f) \cup {a} /\ f.dst \in Writes(f) \cup {a}
      /\ Keepers[f.src] = f.ty /\ Keepers[f.dst] = NoType
      /\ Live(mem, f.ty, f.src) /\ mem.obj[f.dst] = NoObject
  BY <1>1, MoveIsDefined
<1>4. /\ f \in Frame /\ f.this \in Wrappers /\ f.other \in Wrappers /\ f.this # f.other
      /\ Writes(f) = (IF f.op = "copyassign" THEN {f.this} ELSE {f.this, f.other})
      /\ f.ty \in Types /\ f.ty # NoType
      /\ f.op \in {"copyassign", "movector", "moveassign", "swap"}
      /\ OneWay(f, a) \/ IntoTmp(f, a) \/ Across(f, a) \/ OutOf(f, a)
      /\ a \notin Wrappers /\ a # Null /\ Null \notin Wrappers /\ a \in Slots
      /\ f.op = "swap" => f.mine = vt[f.this] /\ f.theirs = vt[f.other]
  BY <1>1, MoveFrame, IsFramed, DistinctAssumption DEF Slots
<1>5. /\ \A l \in Loc \ {f.dst} : SameAt(mem, mem', l)
      /\ ~fits(f.ty) => \A l \in Loc : SameAt(mem, mem', l)
      /\ \A s \in Slots \ {f.dst, f.src} : mem'.ptr[s] = mem.ptr[s]
      /\ Under(mem', f.ty, f.dst) = Under(mem, f.ty, f.src)
  <2>1. mem \in Memory
    BY DEF IInv, TypeOK
  <2>2. \A t, dst, src :
          (/\ dst \in Slots /\ src \in Slots /\ dst # src /\ Live(mem, t, src)
           /\ mem' = Moved(mem, t, dst, src)) =>
          /\ \A l \in Loc \ {dst} : SameAt(mem, mem', l)
          /\ ~fits(t) => \A l \in Loc : SameAt(mem, mem', l)
          /\ \A s \in Slots \ {dst, src} : mem'.ptr[s] = mem.ptr[s]
          /\ Under(mem', t, dst) = Under(mem, t, src)
    BY <2>1, MoveContents
  <2>3. mem' = Moved(mem, f.ty, f.dst, f.src)
    BY <1>1 DEF Moved
  <2> QED BY <1>3, <2>2, <2>3
<1>6. /\ Shows'[f.dst] = Shows[f.src] /\ Shows'[f.src] = NoObject
      /\ \A s \in Slots \ {f.dst, f.src} : Shows'[s] = Shows[s]
  <2>1. Shows'[f.dst] = Under(mem', f.ty, f.dst) /\ Shows[f.src] = Under(mem, f.ty, f.src)
    BY <1>2, <1>3, ShowsFrom DEF MovedKeepers
  <2>2. Shows'[f.src] = NoObject
    BY <1>2, <1>3, ShowsKindNext DEF ShowsKinds, MovedKeepers
  <2>3. \A s \in Slots \ {f.dst, f.src} :
          /\ Keepers'[s] = Keepers[s]
          /\ Keepers[s] # NoType => Place(mem, Keepers[s], s) # f.dst
    BY <1>2, <1>3, PlacesApart DEF MovedKeepers
  <2>4. \A s \in Slots \ {f.dst, f.src} : Shows'[s] = Shows[s]
    BY <1>5, <2>3, PlacesApart, ShowsSteady
  <2> QED BY <1>5, <2>1, <2>2, <2>4
<1>7. ASSUME NEW u \in Writes(f)
      PROVE  Result(f, a, u, Shows) = Result(r, a, u, Shows')
  BY <1>1, <1>3, <1>6, <1>7, MoveHomes, IsFramed
<1>8. InEffect(f)
  BY <1>1 DEF InEffect
<1>9. \A b \in Threads \ {a} : Cells[b] # Null => Cells[b] # f.dst
  <2>1. \A b \in Threads \ {a} : f.dst \notin Uses(act[b]) \cup {b}
    BY <1>3, <1>4, WritesAreUses, DistinctAssumption
    DEF IInv, Exclusive, TypeOK, Frame, Uses
  <2> QED BY <1>3, <2>1, CellsAreOwn DEF IInv
<1>10. \A b \in Threads \ {a} : Cells[b] # Null => SameAt(mem, mem', Cells[b])
  BY <1>5, <1>9, PlacesApart
<1>11. CASE fits(f.ty)
  <2>1. /\ g = [f EXCEPT !.at = "retire", !.cell = f.src] /\ alive' = alive
        /\ \A b \in Threads \ {a} : act'[b] = act[b]
    BY <1>1, <1>11 DEF IInv, TypeOK
  <2>2. /\ g.at = "retire" /\ g.op = f.op /\ g.this = f.this /\ g.other = f.other
        /\ g.dst = f.dst /\ g.src = f.src /\ g.mine = f.mine /\ g.theirs = f.theirs
        /\ g.ty = f.ty
    BY <1>4, <2>1 DEF Frame
  <2>3. InEffect(g) /\ Writes(g) = Writes(f)
    BY <2>2 DEF InEffect, Writes
  <2>4. StepTo(a, g, Writes(f))
    <3>1. \A b \in Threads \ {a} : Writes(f) \cap Uses(act[b]) = {}
      BY DEF IInv, Exclusive
    <3> QED BY <1>2, <1>3, <1>4, <1>6, <1>10, <2>1, <2>3, <3>1 DEF StepTo
  <2>5. \A u \in Writes(f) : Seen(g, a, u, alive', Shows') = Result(r, a, u, Shows')
    <3>1. /\ r.at = "retire" /\ r.op = f.op /\ r.this = f.this /\ r.other = f.other
          /\ r.dst = f.dst /\ r.src = f.src /\ r.mine = f.mine /\ r.theirs = f.theirs
      BY <1>4 DEF Frame
    <3>2. \A u : Home(g, a, u) = Home(r, a, u)
      BY <2>2, <3>1 DEF Home, Spot
    <3> QED BY <2>2, <2>3, <3>1, <3>2 DEF Seen, Result
  <2> QED BY <1>7, <1>8, <2>2, <2>3, <2>4, <2>5, QuietMaps
<1>12. CASE ~fits(f.ty)
  <2>1. AfterMove(a, f)
    BY <1>1, <1>12
  <2>2. PICK h : After(a, h)
    BY <1>1, <2>1, AfterMoveFrame, IsFramed
  <2>3. /\ g = h /\ \A b \in Threads \ {a} : act'[b] = act[b]
        /\ h = Idle \/ Writes(h) = Writes(f)
        /\ \A u \in Wrappers \ Writes(f) : u \in alive' <=> u \in alive
    BY <2>2 DEF After, IInv, TypeOK
  <2>4. StepTo(a, g, Writes(f))
    <3>1. \A b \in Threads \ {a} : Writes(f) \cap Uses(act[b]) = {}
      BY DEF IInv, Exclusive
    <3> QED BY <1>2, <1>3, <1>4, <1>6, <1>10, <2>3, <3>1, IdleFrame DEF StepTo
  <2>5. /\ \/ g = Idle
           \/ InEffect(g) /\ g.op = f.op /\ g.this = f.this /\ g.other = f.other
        /\ \A u \in Writes(f) : Result(r, a, u, Shows') = Seen(g, a, u, alive', Shows')
    BY <1>1, <1>6, <2>1, AfterMoveSeen, IsFramed
  <2> QED BY <1>7, <1>8, <2>4, <2>5, QuietMaps
<1> QED BY <1>11, <1>12

\* operator() returns: the Function holds what the call left.
LEMMA FinishCallMaps ==
  ASSUME IInv, CopiesItsSource, NEW a \in Threads, FinishCall(a), ~ShareCalls
  PROVE  Maps
<1> DEFINE f == act[a]
           w == act[a].this
           x == Shows'[w]
<1>1. /\ f.at = "run" /\ mem' \in {mem, Called(mem, f.cell)} /\ alive' = alive
      /\ act'[a] = Idle /\ \A b \in Threads \ {a} : act'[b] = act[b]
  BY DEF FinishCall, Go, IInv, TypeOK
<1>2. /\ IInv' /\ Keepers' = Keepers /\ w \in Wrappers /\ w \in Slots /\ w # Null
      /\ f.ty \in Types /\ f.ty # NoType /\ Keepers[w] = f.ty
      /\ f.cell = Place(mem, f.ty, w) /\ f.op = "call" /\ w \in alive
  BY FinishCallStep, DistinctAssumption DEF Slots
<1>3. /\ Writes(f) = (IF f.ty \in Mutable THEN {w} ELSE {}) /\ w \in Uses(f)
      /\ ~InEffect(f) /\ f # Idle
  BY <1>1, <1>2 DEF Writes, Uses, InEffect, Idle, Doing
<1>4. /\ f.cell \in Loc /\ mem.obj[f.cell] # NoObject /\ mem.obj[f.cell].type = f.ty
      /\ \A b \in Threads : f.cell # Cells[b]
      /\ \A r \in Slots \ {w} : Keepers[r] # NoType => Place(mem, Keepers[r], r) # f.cell
  BY <1>2, PlacesApart
<1>5. /\ \A l \in Loc \ {f.cell} : SameAt(mem, mem', l)
      /\ mem'.obj[f.cell].type = f.ty
      /\ \/ mem'.obj[f.cell].val = mem.obj[f.cell].val
         \/ f.ty \in Mutable /\ mem'.obj[f.cell].val = mem.obj[f.cell].val + 1
      /\ mem'.ptr = mem.ptr
  <2>1. CASE mem' = mem
    BY <1>4, <2>1 DEF SameAt
  <2>2. CASE mem' = Called(mem, f.cell)
    <3>1. mem \in Memory
      BY DEF IInv, TypeOK
    <3>2. \A c \in Loc : mem.obj[c] # NoObject /\ mem' = Called(mem, c) =>
            /\ \A l \in Loc \ {c} : SameAt(mem, mem', l)
            /\ mem'.obj[c].type = mem.obj[c].type
            /\ \/ mem'.obj[c].val = mem.obj[c].val
               \/ mem.obj[c].type \in Mutable /\ mem'.obj[c].val = mem.obj[c].val + 1
            /\ mem'.ptr = mem.ptr
      BY <3>1, CalledContents
    <3> QED BY <1>4, <2>2, <3>2
  <2> QED BY <1>1, <2>1, <2>2
<1>6. \A r \in Slots \ {w} : Shows'[r] = Shows[r]
  BY <1>2, <1>4, <1>5, PlacesApart, ShowsSteady
<1>7. /\ Shows[w] = [type |-> f.ty, val |-> mem.obj[f.cell].val]
      /\ Shows'[w] = [type |-> f.ty, val |-> mem'.obj[f.cell].val]
  <2>1. Shows[w] = Under(mem, f.ty, w) /\ Shows'[w] = Under(mem', f.ty, w)
    BY <1>2, ShowsFrom
  <2>2. Place(mem', f.ty, w) = f.cell
    BY <1>2, <1>5 DEF Place
  <2> QED BY <1>2, <1>4, <1>5, <2>1, <2>2 DEF Under
<1>8. Shows[w] \in Callables /\ Shows'[w] \in Callables
  BY <1>2, ShowsKind, ShowsKindNext DEF ShowsKinds
<1>9. Shows'[w] \in Runs[Shows[w]] /\ (f.ty \notin Mutable => Shows'[w] = Shows[w])
  <2>1. f.ty \notin Mutable => Shows'[w] = Shows[w]
    BY <1>5, <1>7
  <2>2. Shows'[w].type = Shows[w].type /\ Shows[w].type = f.ty
    BY <1>7
  <2>3. \/ Shows'[w] = Shows[w]
        \/ f.ty \in Mutable /\ Shows'[w].val = Shows[w].val + 1
    BY <1>5, <1>7
  <2> QED BY <1>8, <2>1, <2>2, <2>3 DEF Runs
<1>10. StepTo(a, Idle, Writes(f))
  <2>1. \A b \in Threads \ {a} : Writes(f) \cap Uses(act[b]) = {}
    BY DEF IInv, Exclusive
  <2>2. \A s \in Slots \ (Writes(f) \cup {a}) : Shows'[s] = Shows[s]
    BY <1>3, <1>6, <1>9
  <2>3. \A b \in Threads \ {a} : Cells[b] # Null => SameAt(mem, mem', Cells[b])
    BY <1>4, <1>5, PlacesApart
  <2> QED BY <1>1, <1>2, <1>3, <2>1, <2>2, <2>3, IdleFrame DEF StepTo
<1>11. CopiesItsSource'
  BY <1>10, StepCopies DEF Idle, Doing
<1>12. val[w] = Shows[w] /\ val'[w] = x
  <2> PICK u \in Wrappers : u = w
    BY <1>2
  <2>1. \A b \in Threads \ {a} : u \notin Writes(act[b])
    BY <1>3 DEF IInv, Exclusive
  <2>2. \A b \in Threads \ {a} : ~Decides(b, u) /\ ~Decides(b, u)'
    BY <1>1, <2>1 DEF Decides
  <2>3. /\ val[u] = Seen(f, a, u, alive, Shows)
        /\ val'[u] = Seen(act'[a], a, u, alive', Shows')
    BY <1>2, <2>2, ValueIsSeen, ValueIsSeenNext DEF ValueForm
  <2> QED BY <1>1, <1>2, <1>3, <2>3, IdleFrame DEF Seen
<1>13. \A u \in Wrappers \ {w} : val'[u] = val[u]
  BY <1>3, <1>10, StepValues
<1>14. val' = [val EXCEPT ![w] = x]
  BY <1>12, <1>13, MappedDomains
<1>15. CallOf(f).op = "call" /\ CallOf(f).this = w
  BY <1>2, <1>3 DEF CallOf
<1>16. x \in Runs[val[w]]
  BY <1>9, <1>12
<1> HIDE DEF x, w
<1>17. val' \in Values!Effects(CallOf(f))
  BY <1>14, <1>15, <1>16 DEF Values!Effects
<1>18. Values!Next
  BY <1>3, <1>10, <1>17, TakesEffect
<1> QED BY <1>11, <1>18 DEF Maps

\* A copy constructor is entered.
LEMMA CloneMaps ==
  ASSUME IInv, CopiesItsSource, NEW a \in Threads, act[a] = Idle, NEW w \in Wrappers,
         NEW o \in alive, Apart(a, {w}, {o}), NEW op \in {"copyctor", "copyassign"}, vt[o] # NoType,
         op = "copyctor" => w \notin alive, op = "copyassign" => w \in alive /\ w # o,
         NEW s, s = IF op = "copyassign" THEN a ELSE w,
         Clone(a, op, w, o, s), UNCHANGED <<alive, vt>>
  PROVE  Maps
<1> DEFINE v == mem.obj[Place(mem, vt[o], o)].val
<1>1. IInv' /\ \E c : Builds(a, op, w, o, vt[o], s, c, v) /\ Entered(s, c)
  BY CloneStep
<1>2. PICK c : Builds(a, op, w, o, vt[o], s, c, v) /\ Entered(s, c)
  BY <1>1
<1>3. o \in Wrappers /\ vt[o] \in Types /\ o # Null
  BY DistinctAssumption DEF IInv, TypeOK
<1>4. v = Shows[o].val
  <2>1. \A b \in Threads : o \notin Writes(act[b])
    BY IdleFrame DEF Apart
  <2>2. Keepers[o] = vt[o]
    BY <1>3, <2>1, NotWritten
  <2>3. Shows[o] = Under(mem, vt[o], o)
    BY <1>3, <2>2, ShowsFrom DEF Slots
  <2> QED BY <2>3 DEF Under
<1>5. Apart(a, {w}, {}) /\ Apart(a, {}, {o})
  BY DEF Apart
<1> HIDE DEF v
<1> QED BY <1>1, <1>2, <1>3, <1>4, <1>5, BuildsMaps

\* Every operation a thread can begin maps to a step of FunctionValues.
LEMMA BeginMaps ==
  ASSUME IInv, CopiesItsSource, NEW a \in Threads, Begin(a)
  PROVE  Maps
<1>1. /\ act[a] = Idle /\ alive \subseteq Wrappers /\ mem \in Memory
      /\ vt \in [Wrappers -> Types \cup {NoType}]
      /\ \A u \in Wrappers \ alive : vt[u] = NoType
  BY DEF Begin, IInv, TypeOK, Unborn
<1>2. Null \notin Wrappers /\ a \notin Wrappers /\ NoType \notin Types /\ {Null} \ {Null} = {}
  BY DistinctAssumption
<1>3. ASSUME NEW w \in Wrappers, Apart(a, {w}, {}), DefaultConstruct(a, w)
      PROVE  Maps
  <2>1. Appears(w)
    BY <1>1, <1>3 DEF DefaultConstruct, Appears
  <2> QED BY <1>1, <1>3, <2>1, AppearsMaps
<1>4. ASSUME NEW w \in Wrappers, Apart(a, {w}, {}),
             NEW t \in Types, NEW v \in Vals, Construct(a, w, t, v)
      PROVE  Maps
  <2>1. w \notin alive /\ defined'
    BY <1>4 DEF Construct, IInv
  <2>2. PICK c : Builds(a, "construct", w, Null, t, w, c, v)
    BY <1>4 DEF Construct, Builds
  <2>3. IInv' /\ Entered(w, c)
    BY <1>1, <1>2, <1>4, <2>1, <2>2, BuildsStep
  <2> QED BY <1>1, <1>2, <1>4, <2>1, <2>2, <2>3, BuildsMaps
<1>5. ASSUME NEW w \in Wrappers, Apart(a, {w}, {}), Reset(a, w)
      PROVE  Maps
  <2>1. /\ w \in alive /\ vt[w] # NoType
        /\ BeginKill(a, "reset", w, Null, NoType, mem) /\ UNCHANGED <<alive, vt>>
    BY <1>5 DEF Reset
  <2> QED BY <1>1, <1>2, <1>5, <2>1, KillMaps
<1>6. ASSUME NEW w \in Wrappers, Apart(a, {w}, {}), Destroy(a, w)
      PROVE  Maps
  <2>1. CASE vt[w] = NoType
    <3>1. Appears(w)
      BY <1>6, <2>1 DEF Destroy, Appears
    <3> QED BY <1>1, <1>6, <3>1, AppearsMaps
  <2>2. CASE vt[w] # NoType
    <3>1. /\ w \in alive
          /\ BeginKill(a, "destroy", w, Null, NoType, mem) /\ UNCHANGED <<alive, vt>>
      BY <1>6, <2>2 DEF Destroy
    <3> QED BY <1>1, <1>2, <1>6, <2>2, <3>1, KillMaps
  <2> QED BY <2>1, <2>2
<1>7. ASSUME NEW w \in Wrappers, NEW o \in Wrappers, Apart(a, {w}, {o}), CopyConstruct(a, w, o)
      PROVE  Maps
  <2>1. w \notin alive /\ o \in alive
    BY <1>7 DEF CopyConstruct
  <2>2. CASE vt[o] = NoType
    <3>1. Appears(w) /\ Apart(a, {w}, {})
      BY <1>1, <1>7, <2>1, <2>2 DEF CopyConstruct, Appears, Apart
    <3> QED BY <1>1, <3>1, AppearsMaps
  <2>3. CASE vt[o] # NoType
    <3>1. Clone(a, "copyctor", w, o, w) /\ UNCHANGED <<alive, vt>>
      BY <1>7, <2>3 DEF CopyConstruct
    <3> QED BY <1>1, <1>7, <2>1, <2>3, <3>1, CloneMaps
  <2> QED BY <2>2, <2>3
<1>8. ASSUME NEW w \in Wrappers, NEW o \in Wrappers, Apart(a, {w}, {o}), CopyAssign(a, w, o)
      PROVE  Maps
  <2>1. w \in alive /\ o \in alive /\ w # o
    BY <1>8 DEF CopyAssign
  <2>2. CASE vt[o] = NoType
    <3>1. /\ vt[w] # NoType /\ UNCHANGED <<alive, vt>>
          /\ BeginKill(a, "reset", w, o, NoType, mem)
      BY <1>8, <2>2 DEF CopyAssign
    <3>2. {o} \ {Null} = {o}
      BY <1>2
    <3> QED BY <1>1, <1>8, <2>1, <3>1, <3>2, KillMaps
  <2>3. CASE vt[o] # NoType
    <3>1. Clone(a, "copyassign", w, o, a) /\ UNCHANGED <<alive, vt>>
      BY <1>8, <2>3 DEF CopyAssign
    <3> QED BY <1>1, <1>8, <2>1, <2>3, <3>1, CloneMaps
  <2> QED BY <2>2, <2>3
<1>9. ASSUME NEW w \in Wrappers, NEW o \in Wrappers, Apart(a, {w, o}, {}),
             MoveConstruct(a, w, o)
      PROVE  Maps
  <2>1. w \notin alive /\ o \in alive /\ mem' = Fresh(mem, w) /\ vt[w] = NoType /\ w # o
    BY <1>1, <1>9 DEF MoveConstruct
  <2>2. CASE vt[o] = NoType
    <3>1. Appears(w) /\ Apart(a, {w}, {})
      BY <1>9, <2>1, <2>2 DEF MoveConstruct, Appears, Apart
    <3> QED BY <1>1, <3>1, AppearsMaps
  <2>3. CASE vt[o] # NoType
    <3>1. /\ BeginsMove(a, "movector", w, o, vt[o], w, o, NoType, NoType)
          /\ defined'
      BY <1>9, <2>1, <2>3 DEF MoveConstruct, BeginsMove, IInv
    <3>2. vt[o] \in Types
      BY <1>1, <2>1, <2>3
    <3>3. FrameOK(a, Moving("movector", w, o, vt[o], w, o, NoType, NoType), alive, vt, mem')
      BY <3>2, <2>1 DEF FrameOK, Moving, Moves
    <3> QED BY <1>1, <1>2, <1>9, <2>1, <3>1, <3>2, <3>3, MoveMaps
  <2> QED BY <2>2, <2>3
<1>10. ASSUME NEW w \in Wrappers, NEW o \in Wrappers, Apart(a, {w, o}, {}),
              MoveAssign(a, w, o)
       PROVE  Maps
  <2>1. w \in alive /\ o \in alive /\ w # o
    BY <1>10 DEF MoveAssign
  <2>2. CASE vt[w] # NoType
    <3>1. BeginKill(a, "moveassign", w, o, NoType, mem) /\ UNCHANGED <<alive, vt>>
      BY <1>10, <2>2 DEF MoveAssign
    <3>2. Apart(a, {w}, {o} \ {Null})
      BY <1>10, WritesAreUses DEF Apart
    <3> QED BY <1>1, <1>10, <2>1, <2>2, <3>1, <3>2, KillMaps
  <2>3. CASE vt[w] = NoType
    <3>1. /\ BeginsMove(a, "moveassign", w, o, vt[o], w, o, NoType, NoType)
          /\ vt[o] # NoType /\ defined'
      BY <1>10, <2>3 DEF MoveAssign, BeginsMove, IInv
    <3>2. vt[o] \in Types
      BY <1>1, <2>1, <3>1
    <3>3. FrameOK(a, Moving("moveassign", w, o, vt[o], w, o, NoType, NoType), alive, vt, mem')
      BY <3>2, <2>1, <2>3 DEF FrameOK, Moving, Moves
    <3> QED BY <1>1, <1>2, <1>10, <2>1, <2>3, <3>1, <3>2, <3>3, MoveMaps
  <2> QED BY <2>2, <2>3
<1>11. ASSUME NEW w \in Wrappers, NEW o \in Wrappers, Apart(a, {w, o}, {}), Swap(a, w, o)
       PROVE  Maps
  <2>1. /\ w \in alive /\ o \in alive /\ w # o /\ defined'
        /\ vt[w] \in Types \cup {NoType} /\ vt[o] \in Types \cup {NoType}
    BY <1>1, <1>11 DEF Swap, IInv
  <2>2. CASE /\ vt[w] # NoType /\ vt[o] # NoType
             /\ BeginsMove(a, "swap", w, o, vt[w], a, w, vt[w], vt[o])
    <3>1. FrameOK(a, Moving("swap", w, o, vt[w], a, w, vt[w], vt[o]), alive, vt, mem')
      BY <2>1, <2>2 DEF FrameOK, Moving, Legs, Moves
    <3> QED BY <1>1, <1>2, <1>11, <2>1, <2>2, <3>1, MoveMaps
  <2>3. CASE /\ vt[w] # NoType /\ vt[o] = NoType
             /\ BeginsMove(a, "swap", w, o, vt[w], o, w, vt[w], vt[o])
    <3>1. FrameOK(a, Moving("swap", w, o, vt[w], o, w, vt[w], vt[o]), alive, vt, mem')
      BY <2>1, <2>3 DEF FrameOK, Moving, Legs, Moves
    <3> QED BY <1>1, <1>2, <1>11, <2>1, <2>3, <3>1, MoveMaps
  <2>4. CASE /\ vt[w] = NoType /\ vt[o] # NoType
             /\ BeginsMove(a, "swap", w, o, vt[o], w, o, vt[w], vt[o])
    <3>1. FrameOK(a, Moving("swap", w, o, vt[o], w, o, vt[w], vt[o]), alive, vt, mem')
      BY <2>1, <2>4 DEF FrameOK, Moving, Legs, Moves
    <3> QED BY <1>1, <1>2, <1>11, <2>1, <2>4, <3>1, MoveMaps
  <2> QED BY <1>11, <2>2, <2>3, <2>4 DEF Swap, BeginsMove
<1>12. ASSUME NEW w \in Wrappers, Call(a, w),
              IF vt[w] \in Mutable /\ ~ShareCalls THEN Apart(a, {w}, {}) ELSE Apart(a, {}, {w})
       PROVE  Maps
  BY <1>1, <1>12, CallMaps
<1> QED
  BY <1>3, <1>4, <1>5, <1>6, <1>7, <1>8, <1>9, <1>10, <1>11, <1>12 DEF Begin

-----------------------------------------------------------------------------
(* 4. The theorems                                                          *)

\* Before any Function exists every place is raw and no thread is in an operation.
LEMMA InitMaps == Init => Values!Init /\ CopiesItsSource
<1> SUFFICES ASSUME Init PROVE Values!Init /\ CopiesItsSource
  OBVIOUS
<1>1. alive = {} /\ act = [a \in Threads |-> Idle]
  BY DEF Init
<1>2. \A a \in Threads : /\ act[a] = Idle /\ CallOf(act[a]) = NoType
                         /\ act[a].at # "build" /\ Writes(act[a]) = {}
  BY <1>1, IdleFrame DEF CallOf, Idle, Doing
<1>3. val = [w \in Wrappers |-> Null]
  BY <1>1, <1>2 DEF val, Decides
<1>4. call = [a \in Threads |-> NoType]
  BY <1>2, MappedDomains
<1> QED BY <1>2, <1>3, <1>4 DEF Values!Init, CopiesItsSource

\* Every step maps to a step of FunctionValues or to none.
LEMMA StepMaps ==
  ASSUME ~ShareCalls
  PROVE  IInv /\ CopiesItsSource /\ [Next]_vars =>
           [Values!Next]_(Values!vars) /\ CopiesItsSource'
<1> SUFFICES ASSUME IInv, CopiesItsSource, [Next]_vars
             PROVE  [Values!Next]_(Values!vars) /\ CopiesItsSource'
  OBVIOUS
<1>1. CASE Next
  <2>1. ASSUME NEW a \in Threads, Begin(a) PROVE Maps
    BY <2>1, BeginMaps
  <2>2. ASSUME NEW a \in Threads, FinishBuild(a) PROVE Maps
    BY <2>2, ConstructedMaps, ClonedMaps
  <2>3. ASSUME NEW a \in Threads, ThrowBuild(a) PROVE Maps
    BY <2>3, ThrowMaps
  <2>4. ASSUME NEW a \in Threads, FinishKill(a) PROVE Maps
    BY <2>4, FinishKillMaps
  <2>5. ASSUME NEW a \in Threads, StepMove(a) PROVE Maps
    BY <2>5, StepMoveMaps
  <2>6. ASSUME NEW a \in Threads, FinishRetire(a) PROVE Maps
    BY <2>6, FinishRetireMaps
  <2>7. ASSUME NEW a \in Threads, FinishCall(a) PROVE Maps
    BY <2>7, FinishCallMaps
  <2>8. Maps
    BY <1>1, <2>1, <2>2, <2>3, <2>4, <2>5, <2>6, <2>7 DEF Next, Continue
  <2> QED BY <2>8 DEF Maps, Values!vars
<1>2. CASE UNCHANGED vars
  <2>1. alive' = alive /\ vt' = vt /\ mem' = mem /\ act' = act
    BY <1>2 DEF vars
  <2>2. val' = val /\ call' = call
    BY <2>1 DEF val, call, Decides, Outcome, Shown, Kept
  <2>3. CopiesItsSource'
    BY <2>1 DEF CopiesItsSource, Shown, Kept
  <2> QED BY <2>2, <2>3 DEF Values!vars
<1> QED BY <1>1, <1>2

\* While a copy is being made nobody changes its source, for any callables,
\* Functions and threads that follow the standard library's rule.
THEOREM CopiesAreOfTheSource ==
  ASSUME ~ShareCalls
  PROVE  Spec => []CopiesItsSource
<1>1. Init => CopiesItsSource
  BY InitMaps
<1>2. IInv /\ CopiesItsSource /\ [Next]_vars => CopiesItsSource'
  BY StepMaps
<1> QED BY <1>1, <1>2, Invariance, PTL DEF Spec

\* Function implements FunctionValues: whatever the interleaving of the threads,
\* every Function is a variable that holds a callable by value.
THEOREM FunctionIsValue ==
  ASSUME ~ShareCalls
  PROVE  Spec => BehavesAsValues
<1>1. Init => Values!Init
  BY InitMaps
<1>2. IInv /\ CopiesItsSource /\ [Next]_vars => [Values!Next]_(Values!vars)
  BY StepMaps
<1>3. Spec => []CopiesItsSource
  BY CopiesAreOfTheSource
<1> QED BY <1>1, <1>2, <1>3, Invariance, PTL DEF Spec, BehavesAsValues, Values!Behaves
=============================================================================
