----------------------------- MODULE FuzzProofs -----------------------------
(***************************************************************************)
(* Proofs about the fuzz harnesses of the owning wrappers: over inputs of  *)
(* any length neither aborts, wrapper and oracle agree between two bytes,  *)
(* and nothing is left at the end.                                         *)
(*                                                                         *)
(* A harness is a client of Function with one thread, so FunctionValues    *)
(* says what each of its steps does to the values of the wrappers: section *)
(* 1 reads the values off the memory where the harness does, section 2     *)
(* follows them through the steps of an operation.  Section 3 shows that   *)
(* every step leads on, by one task, to where wrappers and oracles agree,  *)
(* and section 4 that every operation of the input starts on such a way.   *)
(***************************************************************************)
EXTENDS FuzzInvariant, FunctionRefinementProofs

\* The harness has one thread and three different wrappers.
LEMMA Cast ==
  /\ Threads = {Main} /\ ~ShareCalls /\ Mutable = Types
  /\ Wrappers = {A, B, Temp} /\ A # B /\ Temp # A /\ Temp # B
  /\ Main \in Slots /\ Wrappers \subseteq Slots /\ Main \notin Wrappers /\ Null \notin Wrappers
  /\ Vals \subseteq Nat /\ Empty \notin Vals /\ Unspecified \notin Vals /\ Empty # Unspecified
  /\ NoObject \notin Callables /\ Null \notin Callables /\ NoObject # Null
BY FuzzAssumption, SizesAssumption, DistinctAssumption, MappingAssumption DEF Slots

-----------------------------------------------------------------------------
(* 1. What the memory shows                                                 *)

\* While no operation is in effect the values are what the slots show.
LEMMA ValuesShown ==
  ASSUME IInv, ~InEffect(act[Main]), NEW w \in Wrappers
  PROVE  val[w] = IF w \in alive THEN Shows[w] ELSE Null
<1>1. \A d \in Threads \ {Main} : ~Decides(d, w)
  BY Cast
<1>2. val[w] = Seen(act[Main], Main, w, alive, Shows)
  BY <1>1, Cast, ValueIsSeen DEF ValueForm
<1> QED BY <1>2 DEF Seen

\* What w holds, read off its vtable and the memory.
Read(w) ==
  IF w \notin alive THEN Null ELSE IF vt[w] = NoType THEN NoObject
  ELSE [type |-> vt[w], val |-> mem.obj[Place(mem, vt[w], w)].val]

Readable == \A w \in Wrappers : /\ val[w] = Read(w)
                                /\ vt[w] # NoType => val[w] \in Callables

\* Between two tasks a harness could read the values off the memory.
LEMMA IdleReads ==
  IInv /\ act[Main].at \in {"idle", "run"} => Readable
<1> SUFFICES ASSUME IInv, act[Main].at \in {"idle", "run"}, NEW w \in Wrappers
             PROVE  val[w] = Read(w) /\ (vt[w] # NoType => val[w] \in Callables)
  BY DEF Readable
<1>1. val[w] = IF w \in alive THEN Shows[w] ELSE Null
  BY ValuesShown DEF InEffect
<1>2. Keepers[w] = vt[w]
  <2>1. \A x : Keeps(act[Main], Main, w, x) = x
    BY DEF Keeps
  <2>2. KeptIn(act, vt, w) = vt[w]
    <3>1. CASE w \in Writes(act[Main])
      <4>1. Writer(act, w) = Main
        BY <3>1, Cast, WriterIsUnique DEF IInv
      <4> QED BY <2>1, <3>1, <4>1, Cast DEF KeptIn
    <3>2. CASE w \notin Writes(act[Main])
      BY <3>2, Cast DEF KeptIn
    <3> QED BY <3>1, <3>2
  <2> QED BY <2>2, Cast DEF Keepers, Kept
<1>3. Shows[w] = Under(mem, vt[w], w)
  BY <1>2, ShowsFrom, Cast
<1>4. vt[w] # NoType => w \in alive /\ Shows[w] \in Callables
  <2>1. vt[w] # NoType => Shows[w] \in Callables /\ Shows[w].type = vt[w]
    BY <1>2, ShowsKind, Cast DEF ShowsKinds
  <2> QED BY <2>1 DEF IInv, Unborn
<1>5. vt[w] # NoType => mem.obj[Place(mem, vt[w], w)].type = vt[w]
  BY <1>2, PlacesApart, Cast
<1> QED BY <1>1, <1>3, <1>4, <1>5 DEF Under, Read

LEMMA IdleReadsNext == (IInv /\ act[Main].at \in {"idle", "run"} => Readable)'
BY IdleReads, PTL

-----------------------------------------------------------------------------
(* 2. What the steps of an operation do to the values                       *)

\* The call of a busy thread, as FunctionValues sees it.
LEMMA BusyCall ==
  ASSUME IInv, act[Main] # Idle
  PROVE  /\ CallOf(act[Main]) # NoType
         /\ CallOf(act[Main]).op = act[Main].op
         /\ CallOf(act[Main]).this = act[Main].this
         /\ CallOf(act[Main]).other = act[Main].other
         /\ CallOf(act[Main]).done = InEffect(act[Main])
         /\ act[Main].op \in Ops /\ act[Main].this \in Wrappers
<1>1. FrameOK(Main, act[Main], alive, vt, mem) /\ act[Main] \in Frame
  BY Cast DEF IInv, Frames, TypeOK
<1>2. act[Main].op \in Ops /\ act[Main].this \in Wrappers
  BY <1>1 DEF FrameOK, Ops, IInv, TypeOK
<1>3. CallOf(act[Main]) \in [op : Ops, this : Wrappers \cup {Null},
                             other : Wrappers \cup {Null}, done : BOOLEAN]
  BY <1>1, <1>2 DEF CallOf, Frame, InEffect
<1> QED BY <1>2, <1>3, MappingAssumption DEF CallOf

\* An operation that has taken effect returns; one that has not takes effect,
\* or fails if it makes a callable; a new one may take effect at once.
LEMMA Transition ==
  ASSUME [Values!Next]_(Values!vars),
         NEW c, c = CallOf(act[Main]), NEW d, d = CallOf(act'[Main])
  PROVE  /\ c = NoType /\ d # NoType =>
              /\ d.done = TRUE => val' \in Values!Effects(Values!Start(d.op, d.this, d.other))
              /\ d.done = FALSE => val' = val
         /\ c # NoType /\ c.done = TRUE => val' = val
         /\ c # NoType /\ c.done = FALSE /\ d # c =>
              \/ val' \in Values!Effects(c)
              \/ d = NoType /\ val' = val /\ c.op \in {"construct", "copyctor", "copyassign"}
         /\ c = NoType /\ d = NoType =>
              \/ val' = val
              \/ \E w \in Wrappers : \/ val[w] = Null /\ val' = [val EXCEPT ![w] = NoObject]
                                     \/ val[w] = NoObject /\ val' = [val EXCEPT ![w] = Null]
<1>1. /\ call = [a \in Threads |-> CallOf(act[a])] /\ call[Main] = c /\ Main \in Threads
      /\ call' = [a \in Threads |-> CallOf(act'[a])] /\ call'[Main] = d
      /\ \A a \in Threads : a = Main
  BY MappedDomains, Cast
<1>2. CASE UNCHANGED <<val, call>>
  BY <1>1, <1>2
<1>3. ASSUME NEW w \in Wrappers, NEW o \in Wrappers \cup {Null}, NEW op \in Ops,
             Values!Enter(Main, op, w, o)
      PROVE  /\ c = NoType /\ d # NoType
             /\ d.done = TRUE => val' \in Values!Effects(Values!Start(d.op, d.this, d.other))
             /\ d.done = FALSE => val' = val
  <2>1. CASE d = Values!Start(op, w, o) /\ val' = val
    <3>1. d = [op |-> op, this |-> w, other |-> o, done |-> FALSE]
      BY <2>1 DEF Values!Start
    <3>2. d \in [op : Ops, this : Wrappers \cup {Null}, other : Wrappers \cup {Null},
                   done : BOOLEAN]
      BY <3>1
    <3>3. d.done = FALSE
      BY <3>1
    <3>4. d # NoType
      BY <3>2, MappingAssumption
    <3> QED BY <1>1, <1>3, <2>1, <3>3, <3>4 DEF Values!Enter
  <2>2. CASE /\ d = Values!Done(Values!Start(op, w, o))
             /\ val' \in Values!Effects(Values!Start(op, w, o))
    <3>1. d = [op |-> op, this |-> w, other |-> o, done |-> TRUE]
      BY <2>2 DEF Values!Done, Values!Start
    <3>2. d \in [op : Ops, this : Wrappers \cup {Null}, other : Wrappers \cup {Null},
                   done : BOOLEAN]
      BY <3>1
    <3>3. d.done = TRUE /\ d.op = op /\ d.this = w /\ d.other = o
      BY <3>1
    <3>4. d # NoType
      BY <3>2, MappingAssumption
    <3> QED BY <1>1, <1>3, <2>2, <3>3, <3>4 DEF Values!Enter
  <2> QED BY <1>1, <1>3, <2>1, <2>2 DEF Values!Enter
<1>4. ASSUME NEW w \in Wrappers, Values!Instant(Main, w)
      PROVE  /\ c = NoType /\ d = NoType
             /\ \/ val[w] = Null /\ val' = [val EXCEPT ![w] = NoObject]
                \/ val[w] = NoObject /\ val' = [val EXCEPT ![w] = Null]
  BY <1>1, <1>4 DEF Values!Instant
<1>5. ASSUME Values!TakeEffect(Main)
      PROVE  c # NoType /\ c.done # TRUE /\ val' \in Values!Effects(c)
  BY <1>1, <1>5 DEF Values!TakeEffect
<1>6. ASSUME Values!Return(Main)
      PROVE  c # NoType /\ c.done # FALSE /\ val' = val
  BY <1>1, <1>6 DEF Values!Return
<1>7. ASSUME Values!Fail(Main)
      PROVE  /\ c # NoType /\ c.done # TRUE /\ d = NoType /\ val' = val
             /\ c.op \in {"construct", "copyctor", "copyassign"}
  BY <1>1, <1>7 DEF Values!Fail
<1>8. CASE Values!Next
  <2>1. \/ \E w \in Wrappers, o \in Wrappers \cup {Null}, op \in Ops : Values!Enter(Main, op, w, o)
        \/ \E w \in Wrappers : Values!Instant(Main, w)
        \/ Values!TakeEffect(Main) \/ Values!Return(Main) \/ Values!Fail(Main)
    BY <1>1, <1>8 DEF Values!Next, Ops
  <2>2. CASE \E w \in Wrappers, o \in Wrappers \cup {Null}, op \in Ops : Values!Enter(Main, op, w, o)
    BY <1>3, <2>2
  <2>3. CASE \E w \in Wrappers : Values!Instant(Main, w)
    BY <1>4, <2>3
  <2>4. CASE Values!TakeEffect(Main)
    BY <1>5, <2>4
  <2>5. CASE Values!Return(Main)
    BY <1>6, <2>5
  <2>6. CASE Values!Fail(Main)
    BY <1>7, <2>6
  <2> QED BY <2>1, <2>2, <2>3, <2>4, <2>5, <2>6
<1> QED BY <1>2, <1>8 DEF Values!vars

\* A step of the library keeps its invariant and is one of FunctionValues.
LEMMA LibraryStep ==
  ASSUME IInv, CopiesItsSource, [Next]_vars
  PROVE  IInv' /\ CopiesItsSource' /\ [Values!Next]_(Values!vars)
BY StepInvariant, StepMaps, Cast

\* Where the operation of the harness is after a step that has a frame g for it.
LEMMA Goes ==
  ASSUME IInv, NEW g, Go(Main, g)
  PROVE  act'[Main] = g
BY Cast DEF Go, IInv, TypeOK

LEMMA IdleHasNoCall == /\ CallOf(Idle) = NoType /\ ~InEffect(Idle)
                       /\ Idle.at = "idle" /\ Idle.op = "none"
BY DEF CallOf, Idle, Doing, InEffect

\* What BeginKill and the other beginnings leave the thread with.
LEMMA DoingCall ==
  ASSUME NEW op, NEW at, NEW w, NEW o, NEW t, NEW l, at # "idle"
  PROVE  LET g == Doing(op, at, w, o, t, l)
         IN  /\ g # Idle /\ g.op = op /\ g.at = at /\ g.this = w /\ g.other = o
             /\ g.ty = t /\ g.cell = l
BY DEF Doing, Idle

LEMMA MovingCall ==
  ASSUME NEW op, NEW w, NEW o, NEW t, NEW dst, NEW src, NEW mine, NEW theirs
  PROVE  LET g == Moving(op, w, o, t, dst, src, mine, theirs)
         IN  /\ g # Idle /\ g.op = op /\ g.at = "move" /\ g.this = w /\ g.other = o
BY DEF Moving, Doing, Idle

\* A step that enters an operation at once in effect has that effect.
LEMMA EntersInEffect ==
  ASSUME IInv', [Values!Next]_(Values!vars), act[Main] = Idle,
         act'[Main] # Idle, act'[Main].at \in {"kill", "move"}
  PROVE  /\ val' \in Values!Effects(Values!Start(act'[Main].op, act'[Main].this, act'[Main].other))
         /\ WhenOver' = val'
<1> DEFINE d == CallOf(act'[Main])
<1>1. /\ d # NoType /\ d.op = act'[Main].op /\ d.this = act'[Main].this
      /\ d.other = act'[Main].other /\ d.done = TRUE
  <2>1. (IInv /\ act[Main] # Idle => /\ CallOf(act[Main]) # NoType
                                    /\ CallOf(act[Main]).op = act[Main].op
                                    /\ CallOf(act[Main]).this = act[Main].this
                                    /\ CallOf(act[Main]).other = act[Main].other
                                    /\ CallOf(act[Main]).done = InEffect(act[Main]))'
    BY BusyCall, PTL
  <2>2. InEffect(act'[Main]) = TRUE
    BY DEF InEffect
  <2> QED BY <2>1, <2>2 DEF CallOf, InEffect
<1>2. CallOf(act[Main]) = NoType
  BY IdleHasNoCall
<1> HIDE DEF d
<1>3. val' \in Values!Effects(Values!Start(d.op, d.this, d.other))
  BY <1>1, <1>2, Transition DEF d
<1> QED BY <1>1, <1>3 DEF WhenOver

\* A step that enters an operation before its effect leaves the values alone.
LEMMA EntersQuietly ==
  ASSUME IInv', [Values!Next]_(Values!vars), act[Main] = Idle,
         act'[Main] # Idle, act'[Main].at \in {"build", "run"}
  PROVE  val' = val
<1> DEFINE d == CallOf(act'[Main])
<1>1. d # NoType /\ d.done = FALSE
  <2>1. (IInv /\ act[Main] # Idle => /\ CallOf(act[Main]) # NoType
                                    /\ CallOf(act[Main]).done = InEffect(act[Main]))'
    BY BusyCall, PTL
  <2>2. InEffect(act'[Main]) = FALSE
    BY DEF InEffect
  <2> QED BY <2>1, <2>2 DEF CallOf, InEffect
<1>2. CallOf(act[Main]) = NoType
  BY IdleHasNoCall
<1> HIDE DEF d
<1> QED BY <1>1, <1>2, Transition DEF d

\* Where no callable's code runs an empty wrapper appears or is gone.
LEMMA TurnsAtOnce ==
  ASSUME [Values!Next]_(Values!vars), act[Main] = Idle, act'[Main] = Idle,
         NEW w \in Wrappers, val'[w] # val[w]
  PROVE  val' = [val EXCEPT ![w] = val'[w]] /\ WhenOver' = val'
<1>1. \/ val' = val
      \/ \E u \in Wrappers : \/ val[u] = Null /\ val' = [val EXCEPT ![u] = NoObject]
                             \/ val[u] = NoObject /\ val' = [val EXCEPT ![u] = Null]
  BY IdleHasNoCall, Transition
<1>2. val = [u \in Wrappers |-> val[u]]
  BY MappedDomains
<1>3. val' = [val EXCEPT ![w] = val'[w]]
  BY <1>1, <1>2
<1> QED BY <1>3, IdleHasNoCall DEF WhenOver

\* The values a task leaves, kind by kind.
LEMMA TaskEffects ==
  ASSUME NEW V, NEW k
  PROVE  /\ k.do = "default" => TaskEffect(V, k) = [V EXCEPT ![k.w] = NoObject]
         /\ k.do \in Types => TaskEffect(V, k) = [V EXCEPT ![k.w] = [type |-> k.do, val |-> k.x]]
         /\ k.do = "copy" => TaskEffect(V, k) = [V EXCEPT ![k.w] = V[k.o]]
         /\ k.do = "move" => TaskEffect(V, k) = [V EXCEPT ![k.o] = NoObject, ![k.w] = V[k.o]]
         /\ k.do = "swap" => TaskEffect(V, k) = [V EXCEPT ![k.w] = V[k.o], ![k.o] = V[k.w]]
         /\ k.do = "reset" => TaskEffect(V, k) = [V EXCEPT ![k.w] = NoObject]
         /\ k.do = "destroy" => TaskEffect(V, k) = [V EXCEPT ![k.w] = Null]
         /\ k.do = "call" => TaskEffect(V, k) = IF V[k.w] = NoObject THEN V
                                                ELSE [V EXCEPT ![k.w] = Counted(V[k.w])]
         /\ k.do \in Checks => TaskEffect(V, k) = V
<1>1. Types \cap (Calls \cup Checks) = {}
  BY FuzzAssumption
<1> QED BY <1>1 DEF TaskEffect, Calls, Checks

\* What an operation of the library has to do for the task k.
Serves(k) ==
  /\ WhenOver' = TaskEffect(val, k)
  /\ act'[Main].op # "copyctor"
  /\ act'[Main].at = "run" => Counted(val'[act'[Main].this]) \in Callables

\* The operations begin in a state like this.
Poised(k) ==
  /\ IInv /\ IInv' /\ [Values!Next]_(Values!vars)
  /\ act[Main] = Idle /\ Allowed(oracle, val, k) /\ Readable

LEMMA DefaultServes ==
  ASSUME NEW k, Poised(k), k.do = "default", DefaultConstruct(Main, k.w)
  PROVE  Serves(k)
<1>1. k.w \in Wrappers /\ val[k.w] = Null
  BY DEF Poised, Allowed, Calls
<1>2. /\ k.w \notin alive /\ k.w \in alive' /\ act'[Main] = Idle
      /\ vt' = vt /\ vt[k.w] = NoType
  BY <1>1 DEF DefaultConstruct, Poised, IInv, Unborn
<1>3. Readable'
  BY <1>2, IdleReadsNext, IdleHasNoCall DEF Poised
<1>4. val'[k.w] = NoObject
  BY <1>1, <1>2, <1>3 DEF Readable, Read
<1>5. val' = [val EXCEPT ![k.w] = NoObject] /\ WhenOver' = val'
  BY <1>1, <1>2, <1>4, TurnsAtOnce, Cast DEF Poised
<1> QED BY <1>2, <1>5, TaskEffects, IdleHasNoCall DEF Serves

LEMMA ConstructServes ==
  ASSUME NEW k, Poised(k), k.do \in Types, Construct(Main, k.w, k.do, k.x)
  PROVE  Serves(k)
<1>1. PICK c \in Room(mem, k.do, k.w) :
        /\ mem' = BeginNew(Fresh(mem, k.w), k.do, k.w, c, k.x)
        /\ Go(Main, Doing("construct", "build", k.w, Null, k.do, c))
  BY DEF Construct
<1>2. k.w \in Slots /\ c \in Loc
  BY Cast DEF Room, Loc, Poised, Allowed
<1> DEFINE g == Doing("construct", "build", k.w, Null, k.do, c)
<1>3. /\ act'[Main] = g /\ g # Idle /\ g.op = "construct" /\ g.at = "build"
      /\ g.this = k.w /\ g.ty = k.do /\ g.cell = c
  BY <1>1, DoingCall, Goes DEF Poised
<1> HIDE DEF g
<1>4. val' = val
  BY <1>3, EntersQuietly DEF Poised
<1>5. mem'.obj[c].val = k.x
  BY <1>1, <1>2, BeginNewContents DEF Poised, IInv, TypeOK
<1>6. WhenOver' = [val EXCEPT ![k.w] = [type |-> k.do, val |-> k.x]]
  BY <1>3, <1>4, <1>5 DEF WhenOver
<1> QED BY <1>3, <1>6, TaskEffects DEF Serves

\* A callable is destroyed first, or a source moved from at once: the operation
\* is in effect.
LEMMA EffectServes ==
  ASSUME NEW k, Poised(k), NEW w, NEW o, act'[Main] # Idle, act'[Main].at \in {"kill", "move"},
         act'[Main].this = w, act'[Main].other = o,
         \/ /\ act'[Main].op = "reset"
            /\ TaskEffect(val, k) = [val EXCEPT ![w] = NoObject]
         \/ /\ act'[Main].op = "destroy"
            /\ TaskEffect(val, k) = [val EXCEPT ![w] = Null]
         \/ /\ act'[Main].op = "moveassign"
            /\ TaskEffect(val, k) = [val EXCEPT ![o] = NoObject, ![w] = val[o]]
         \/ /\ act'[Main].op = "swap"
            /\ TaskEffect(val, k) = [val EXCEPT ![w] = val[o], ![o] = val[w]]
  PROVE  Serves(k)
<1> DEFINE op == act'[Main].op
<1>1. val' \in Values!Effects(Values!Start(op, w, o)) /\ WhenOver' = val'
  BY EntersInEffect DEF Poised
<1>2. /\ op = "reset" => val' = [val EXCEPT ![w] = NoObject]
      /\ op = "destroy" => val' = [val EXCEPT ![w] = Null]
      /\ op = "moveassign" => val' = [val EXCEPT ![o] = NoObject, ![w] = val[o]]
      /\ op = "swap" => val' = [val EXCEPT ![w] = val[o], ![o] = val[w]]
  <2> HIDE DEF op
  <2> QED BY <1>1 DEF Values!Effects, Values!Start
<1> QED BY <1>1, <1>2 DEF Serves

LEMMA ResetServes ==
  ASSUME NEW k, Poised(k), k.do = "reset", Reset(Main, k.w)
  PROVE  Serves(k)
<1> DEFINE g == Doing("reset", "kill", k.w, Null, NoType, Place(mem, vt[k.w], k.w))
<1>1. /\ act'[Main] = g /\ g # Idle /\ g.op = "reset" /\ g.at = "kill"
      /\ g.this = k.w /\ g.other = Null
  BY DoingCall, Goes DEF Poised, Reset, BeginKill
<1> HIDE DEF g
<1>2. TaskEffect(val, k) = [val EXCEPT ![k.w] = NoObject]
  BY TaskEffects
<1> QED BY <1>1, <1>2, EffectServes

LEMMA DestroyServes ==
  ASSUME NEW k, Poised(k), k.do = "destroy", Destroy(Main, k.w)
  PROVE  Serves(k)
<1>1. CASE vt[k.w] # NoType
  <2> DEFINE g == Doing("destroy", "kill", k.w, Null, NoType, Place(mem, vt[k.w], k.w))
  <2>1. /\ act'[Main] = g /\ g # Idle /\ g.op = "destroy" /\ g.at = "kill"
        /\ g.this = k.w /\ g.other = Null
    BY <1>1, DoingCall, Goes DEF Poised, Destroy, BeginKill
  <2> HIDE DEF g
  <2>2. TaskEffect(val, k) = [val EXCEPT ![k.w] = Null]
    BY TaskEffects
  <2> QED BY <2>1, <2>2, EffectServes
<1>2. CASE vt[k.w] = NoType
  <2>1. k.w \in Wrappers /\ val[k.w] # Null
    BY FuzzAssumption DEF Poised, Allowed, Calls
  <2>2. k.w \notin alive' /\ act'[Main] = Idle
    BY <1>2 DEF Destroy, Poised
  <2>3. Readable'
    BY <2>2, IdleReadsNext, IdleHasNoCall DEF Poised
  <2>4. val'[k.w] = Null
    BY <2>1, <2>2, <2>3 DEF Readable, Read
  <2>5. val' = [val EXCEPT ![k.w] = Null] /\ WhenOver' = val'
    BY <2>1, <2>2, <2>4, TurnsAtOnce DEF Poised
  <2> QED BY <2>2, <2>5, TaskEffects, IdleHasNoCall DEF Serves
<1> QED BY <1>1, <1>2

LEMMA CopyServes ==
  ASSUME NEW k, Poised(k), k.do = "copy", CopyAssign(Main, k.w, k.o)
  PROVE  Serves(k)
<1>1. CASE vt[k.o] = NoType
  <2> DEFINE g == Doing("reset", "kill", k.w, k.o, NoType, Place(mem, vt[k.w], k.w))
  <2>1. /\ act'[Main] = g /\ g # Idle /\ g.op = "reset" /\ g.at = "kill"
        /\ g.this = k.w /\ g.other = k.o
    BY <1>1, DoingCall, Goes DEF Poised, CopyAssign, BeginKill
  <2> HIDE DEF g
  <2>2. val[k.o] = NoObject
    BY <1>1 DEF Poised, Allowed, CopyAssign, Readable, Read
  <2>3. TaskEffect(val, k) = [val EXCEPT ![k.w] = NoObject]
    BY <2>2, TaskEffects
  <2> QED BY <2>1, <2>3, EffectServes
<1>2. CASE vt[k.o] # NoType
  <2>1. PICK c : Go(Main, Doing("copyassign", "build", k.w, k.o, vt[k.o], c))
    BY <1>2 DEF CopyAssign, Clone
  <2> DEFINE g == Doing("copyassign", "build", k.w, k.o, vt[k.o], c)
  <2>2. /\ act'[Main] = g /\ g # Idle /\ g.op = "copyassign" /\ g.at = "build"
        /\ g.this = k.w /\ g.other = k.o
    BY <2>1, DoingCall, Goes DEF Poised
  <2> HIDE DEF g
  <2>3. val' = val
    BY <2>2, EntersQuietly DEF Poised
  <2>4. WhenOver' = [val EXCEPT ![k.w] = val[k.o]]
    BY <2>2, <2>3 DEF WhenOver
  <2> QED BY <2>2, <2>4, TaskEffects DEF Serves
<1> QED BY <1>1, <1>2

LEMMA MoveServes ==
  ASSUME NEW k, Poised(k), k.do = "move", MoveAssign(Main, k.w, k.o)
  PROVE  Serves(k)
<1>1. /\ act'[Main] # Idle /\ act'[Main].op = "moveassign" /\ act'[Main].at \in {"kill", "move"}
      /\ act'[Main].this = k.w /\ act'[Main].other = k.o
  <2>1. CASE vt[k.w] # NoType
    BY <2>1, DoingCall, Goes DEF Poised, MoveAssign, BeginKill
  <2>2. CASE vt[k.w] = NoType
    BY <2>2, MovingCall, Goes DEF Poised, MoveAssign
  <2> QED BY <2>1, <2>2
<1>2. TaskEffect(val, k) = [val EXCEPT ![k.o] = NoObject, ![k.w] = val[k.o]]
  BY TaskEffects
<1> QED BY <1>1, <1>2, EffectServes

LEMMA SwapServes ==
  ASSUME NEW k, Poised(k), k.do = "swap", Swap(Main, k.w, k.o)
  PROVE  Serves(k)
<1>1. \E t, dst, src : Go(Main, Moving("swap", k.w, k.o, t, dst, src, vt[k.w], vt[k.o]))
  BY DEF Swap
<1>2. /\ act'[Main] # Idle /\ act'[Main].op = "swap" /\ act'[Main].at = "move"
      /\ act'[Main].this = k.w /\ act'[Main].other = k.o
  BY <1>1, MovingCall, Goes DEF Poised
<1>3. TaskEffect(val, k) = [val EXCEPT ![k.w] = val[k.o], ![k.o] = val[k.w]]
  BY TaskEffects
<1> QED BY <1>2, <1>3, EffectServes

LEMMA CallServes ==
  ASSUME NEW k, Poised(k), k.do = "call", Call(Main, k.w)
  PROVE  Serves(k)
<1> DEFINE g == Doing("call", "run", k.w, Null, vt[k.w], Place(mem, vt[k.w], k.w))
<1>1. /\ act'[Main] = g /\ g # Idle /\ g.op = "call" /\ g.at = "run" /\ g.this = k.w
  BY DoingCall, Goes DEF Poised, Call
<1> HIDE DEF g
<1>2. val' = val
  BY <1>1, EntersQuietly DEF Poised
<1>3. WhenOver' = [val EXCEPT ![k.w] = Counted(val[k.w])]
  BY <1>1, <1>2 DEF WhenOver
<1>4. val[k.w] \in Callables /\ k.w \in Wrappers
  BY DEF Poised, Allowed, Readable, Call
<1>5. Counted(val[k.w]) \in Callables
  BY <1>4, Cast DEF Poised, Allowed, Callables, Counted
<1> QED BY <1>1, <1>2, <1>3, <1>4, <1>5, TaskEffects, Cast DEF Serves

LEMMA OperationServes ==
  ASSUME NEW k, Poised(k), k.do \notin Checks, Operation(k)
  PROVE  Serves(k)
<1>1. k.do \in Types \cup Calls /\ Types \cap Calls = {}
  BY FuzzAssumption DEF Poised, Allowed
<1>2. CASE k.do \in Types
  <2>1. Construct(Main, k.w, k.do, k.x)
    BY <1>1, <1>2 DEF Operation, Calls
  <2> QED BY <1>2, <2>1, ConstructServes
<1>3. CASE k.do = "default"
  BY <1>1, <1>3, DefaultServes DEF Operation, Calls
<1>4. CASE k.do = "copy"
  BY <1>1, <1>4, CopyServes DEF Operation, Calls
<1>5. CASE k.do = "move"
  BY <1>1, <1>5, MoveServes DEF Operation, Calls
<1>6. CASE k.do = "swap"
  BY <1>1, <1>6, SwapServes DEF Operation, Calls
<1>7. CASE k.do = "reset"
  BY <1>1, <1>7, ResetServes DEF Operation, Calls
<1>8. CASE k.do = "destroy"
  BY <1>1, <1>8, DestroyServes DEF Operation, Calls
<1>9. CASE k.do = "call"
  BY <1>1, <1>9, CallServes DEF Operation, Calls
<1> QED BY <1>1, <1>2, <1>3, <1>4, <1>5, <1>6, <1>7, <1>8, <1>9 DEF Calls

\* What a step leaves that changes nothing in the library.
LEMMA Stands ==
  ASSUME UNCHANGED vars
  PROVE  act' = act /\ val' = val /\ WhenOver' = WhenOver
<1>1. alive' = alive /\ vt' = vt /\ mem' = mem /\ act' = act
  BY DEF vars
<1>2. val' = val
  BY <1>1 DEF val, Decides, Outcome, Shown, Kept
<1> QED BY <1>1, <1>2 DEF WhenOver

\* An operation without work has none to do on the values either.
LEMMA NoWorkServes ==
  ASSUME NEW k, Poised(k), k.do \notin Checks, ~HasWork(k), UNCHANGED vars
  PROVE  Serves(k)
<1>1. act' = act /\ val' = val
  BY Stands
<1>2. WhenOver' = val
  BY <1>1, IdleHasNoCall DEF WhenOver, Poised
<1>3. /\ k.w \in Wrappers /\ k.o \in Wrappers /\ val = [w \in Wrappers |-> val[w]]
      /\ k.do \in Calls \ {"default"} => Null \notin {val[k.w], val[k.o]}
  BY MappedDomains, FuzzAssumption DEF Poised, Allowed, Calls
<1>4. \A w \in Wrappers : ~Holding(w) /\ val[w] # Null => val[w] = NoObject
  BY DEF Poised, Readable, Read, Holding
<1>5. CASE k.do \in {"copy", "move", "swap"}
  <2> DEFINE w == k.w
             o == k.o
  <2>1. k.w = k.o \/ (val[k.w] = NoObject /\ val[k.o] = NoObject)
    <3>1. w = o \/ (~Holding(w) /\ ~Holding(o))
      BY <1>5 DEF HasWork
    <3>2. w \in Wrappers /\ o \in Wrappers /\ Null \notin {val[w], val[o]}
      BY <1>3, <1>5 DEF Calls
    <3> HIDE DEF w, o
    <3>3. w = o \/ (val[w] = NoObject /\ val[o] = NoObject)
      BY <1>4, <3>1, <3>2
    <3> QED BY <3>3 DEF w, o
  <2>2. /\ [val EXCEPT ![k.w] = val[k.o]] = val
        /\ [val EXCEPT ![k.o] = NoObject, ![k.w] = val[k.o]] = val
        /\ [val EXCEPT ![k.w] = val[k.o], ![k.o] = val[k.w]] = val
    BY <1>3, <2>1
  <2>3. TaskEffect(val, k) = val
    BY <1>5, <2>2, TaskEffects
  <2> QED BY <1>1, <1>2, <2>3, IdleHasNoCall DEF Serves, Poised
<1>6. CASE k.do \in {"reset", "call"}
  <2>1. val[k.w] = NoObject
    BY <1>3, <1>4, <1>6 DEF HasWork, Calls
  <2>2. [val EXCEPT ![k.w] = NoObject] = val
    BY <1>3, <2>1
  <2>3. TaskEffect(val, k) = val
    BY <1>6, <2>1, <2>2, TaskEffects
  <2> QED BY <1>1, <1>2, <2>3, IdleHasNoCall DEF Serves, Poised
<1> QED BY <1>5, <1>6 DEF HasWork

\* Every step of a harness is one of the library's, or leaves it alone.
LEMMA TaskIsAClient ==
  ASSUME FuzzInv, act[Main] = Idle, NEW k, Allowed(oracle, val, k), k.do \notin Checks, Operation(k)
  PROVE  [Next]_vars
<1>1. /\ k.w \in Wrappers /\ k.o \in Wrappers /\ (k.do \in Types => k.x \in Vals)
      /\ k.do \in Types \cup Calls /\ Types \cap Calls = {}
  BY FuzzAssumption DEF Allowed
<1>2. \A W, R : Apart(Main, W, R)
  BY Cast DEF Apart
<1>3. \/ DefaultConstruct(Main, k.w)
      \/ k.do \in Types /\ Construct(Main, k.w, k.do, k.x)
      \/ CopyAssign(Main, k.w, k.o) \/ MoveAssign(Main, k.w, k.o) \/ Swap(Main, k.w, k.o)
      \/ Reset(Main, k.w) \/ Destroy(Main, k.w) \/ Call(Main, k.w)
  BY <1>1 DEF Operation, Calls
<1>4. Begin(Main)
  BY <1>1, <1>2, <1>3 DEF Begin
<1> QED BY <1>4, Cast DEF Next

\* A library call in progress goes on as it was meant to end.
GoesOnAsMeant ==
  /\ WhenOver' = WhenOver
  /\ act'[Main].op # "copyctor" /\ act'[Main].at # "run"

\* A callable that is complete is found where it was made.
LEMMA BuiltInPlace ==
  ASSUME mem \in Memory, NEW w \in Slots
  PROVE  \A t, c : c \in Loc /\ CellFor(t, c, w) /\ mem' = EndNew(mem, t, w, c) =>
           /\ \A l \in Loc : SameAt(mem, mem', l)
           /\ \A r \in Slots \ {w} : mem'.ptr[r] = mem.ptr[r]
           /\ Place(mem', t, w) = c
BY EndNewContents

\* A callable is constructed: the wrapper holds it.
LEMMA ConstructedAsMeant ==
  ASSUME FuzzInv, FinishBuild(Main), act[Main].op # "copyassign",
         IInv', [Values!Next]_(Values!vars)
  PROVE  GoesOnAsMeant
<1> DEFINE f == act[Main]
<1>1. /\ f.at = "build" /\ f.op = "construct" /\ f.this \in Wrappers /\ f.ty \in Types
      /\ f.ty # NoType /\ f.cell \in Loc /\ CellFor(f.ty, f.cell, f.this)
  BY Cast, BuildFrame, IsFramed DEF FuzzInv, FinishBuild
<1>2. /\ mem' = EndNew(mem, f.ty, f.this, f.cell) /\ vt' = [vt EXCEPT ![f.this] = f.ty]
      /\ alive' = alive \cup {f.this} /\ Go(Main, Idle)
  BY <1>1 DEF FinishBuild
<1>3. act'[Main] = Idle
  BY <1>2, Goes DEF FuzzInv
<1>4. val'[f.this] = [type |-> f.ty, val |-> mem.obj[f.cell].val]
  <2>1. Readable'
    BY <1>3, IdleReadsNext, IdleHasNoCall
  <2>2. f.this \in alive' /\ vt'[f.this] = f.ty
    BY <1>1, <1>2 DEF FuzzInv, IInv, TypeOK
  <2>3. mem \in Memory
    BY DEF FuzzInv, IInv, TypeOK
  <2> HIDE DEF f
  <2>4. SameAt(mem, mem', f.cell) /\ Place(mem', f.ty, f.this) = f.cell
    BY <1>1, <1>2, <2>3, Cast, BuiltInPlace
  <2> QED BY <1>1, <2>1, <2>2, <2>4 DEF Readable, Read, SameAt
<1>5. val' = [val EXCEPT ![f.this] = val'[f.this]]
  <2>1. f # Idle /\ InEffect(f) = FALSE
    BY <1>1, IdleHasNoCall DEF InEffect
  <2>2. /\ CallOf(f) # NoType /\ CallOf(f).done = FALSE
        /\ CallOf(f).op = "construct" /\ CallOf(f).this = f.this
    BY <1>1, <2>1, BusyCall DEF FuzzInv
  <2>3. CallOf(act'[Main]) = NoType
    BY <1>3, IdleHasNoCall
  <2>4. val' \in Values!Effects(CallOf(f)) \/ val' = val
    BY <2>2, <2>3, Transition
  <2>5. val' = val \/ \E x : val' = [val EXCEPT ![f.this] = x]
    <3> HIDE DEF f
    <3> QED BY <2>2, <2>4 DEF Values!Effects
  <2> HIDE DEF f
  <2> QED BY <1>1, <2>5, MappedDomains
<1>6. WhenOver = [val EXCEPT ![f.this] = [type |-> f.ty, val |-> mem.obj[f.cell].val]]
  BY <1>1 DEF WhenOver
<1>7. WhenOver' = val'
  BY <1>3, IdleHasNoCall DEF WhenOver
<1> HIDE DEF f
<1>8. WhenOver' = WhenOver
  BY <1>4, <1>5, <1>6, <1>7
<1> QED BY <1>3, <1>8, IdleHasNoCall DEF GoesOnAsMeant

\* A copy is made: the assignment takes effect.
LEMMA ClonedAsMeant ==
  ASSUME FuzzInv, FinishBuild(Main), act[Main].op = "copyassign",
         IInv', [Values!Next]_(Values!vars)
  PROVE  GoesOnAsMeant
<1> DEFINE f == act[Main]
           g == act'[Main]
<1>1. f.at = "build" /\ f.op = "copyassign" /\ f # Idle /\ InEffect(f) = FALSE
  BY IdleHasNoCall DEF FinishBuild, InEffect
<1>2. g.at \in {"kill", "move"} /\ g.op = "copyassign"
  <2>1. CASE vt[f.this] # NoType
    <3>1. \E w, o, t, l : Go(Main, Doing("copyassign", "kill", w, o, t, l))
      BY <1>1, <2>1 DEF FinishBuild, BeginKill
    <3> QED BY <3>1, DoingCall, Goes DEF FuzzInv
  <2>2. CASE vt[f.this] = NoType
    <3>1. \E w, o, t, dst, src, mine, theirs :
             Go(Main, Moving("copyassign", w, o, t, dst, src, mine, theirs))
      BY <1>1, <2>2 DEF FinishBuild, Onward
    <3> QED BY <3>1, MovingCall, Goes DEF FuzzInv
  <2> QED BY <2>1, <2>2
<1>3. /\ CallOf(f) # NoType /\ CallOf(f).done = FALSE
      /\ CallOf(f).op = "copyassign" /\ CallOf(f).this = f.this /\ CallOf(f).other = f.other
  BY <1>1, BusyCall DEF FuzzInv
<1>4. CallOf(g) # NoType /\ CallOf(g).done = TRUE
  <2>1. (IInv /\ act[Main] # Idle => /\ CallOf(act[Main]) # NoType
                                    /\ CallOf(act[Main]).done = InEffect(act[Main]))'
    BY BusyCall, PTL
  <2>2. g # Idle /\ InEffect(g) = TRUE
    BY <1>2, IdleHasNoCall DEF InEffect
  <2> QED BY <2>1, <2>2 DEF CallOf, InEffect
<1>5. val' \in Values!Effects(CallOf(f))
  <2> HIDE DEF g
  <2>1. CallOf(g) # CallOf(f)
    BY <1>3, <1>4
  <2> QED BY <1>3, <1>4, <2>1, Transition DEF g
<1>6. val' = [val EXCEPT ![f.this] = val[f.other]]
  <2> HIDE DEF f
  <2> QED BY <1>3, <1>5 DEF Values!Effects
<1>7. WhenOver = [val EXCEPT ![f.this] = val[f.other]] /\ WhenOver' = val'
  BY <1>1, <1>2 DEF WhenOver
<1> QED BY <1>2, <1>6, <1>7 DEF GoesOnAsMeant

\* What an operation in effect still does changes no value.
LEMMA EffectAsMeant ==
  ASSUME FuzzInv, FinishKill(Main) \/ StepMove(Main) \/ FinishRetire(Main),
         IInv', [Values!Next]_(Values!vars)
  PROVE  GoesOnAsMeant
<1> DEFINE f == act[Main]
           g == act'[Main]
<1>1. f.at \in {"kill", "move", "retire"} /\ f # Idle /\ InEffect(f) = TRUE
  BY IdleHasNoCall DEF FinishKill, StepMove, FinishRetire, InEffect
<1>2. g.at \notin {"build", "run"} /\ g.op \in {f.op, "none"}
  <2>1. act \in [Threads -> Frame] /\ f \in Frame
    BY Cast DEF FuzzInv, IInv, TypeOK
  <2>2. \A t, dst, src : /\ Onward(f, t, dst, src).at = "move"
                         /\ Onward(f, t, dst, src).op = f.op
    BY DEF Onward, Moving
  <2>3. ASSUME AfterMove(Main, f) PROVE g.at \notin {"build", "run"} /\ g.op \in {f.op, "none"}
    <3>1. \/ Go(Main, Idle) \/ \E t, dst, src : Go(Main, Onward(f, t, dst, src))
      BY <2>3 DEF AfterMove
    <3> QED BY <3>1, <2>2, Goes, IdleHasNoCall DEF FuzzInv
  <2>4. CASE FinishKill(Main)
    <3>1. \/ Go(Main, Idle) \/ \E t, dst, src : Go(Main, Onward(f, t, dst, src))
      BY <2>4 DEF FinishKill
    <3> QED BY <3>1, <2>2, Goes, IdleHasNoCall DEF FuzzInv
  <2>5. CASE StepMove(Main)
    <3>1. CASE fits(f.ty)
      <4>1. g = [f EXCEPT !.at = "retire", !.cell = f.src]
        BY <2>5, <3>1, Goes DEF StepMove, FuzzInv
      <4> QED BY <2>1, <4>1 DEF Frame
    <3>2. CASE ~fits(f.ty)
      BY <2>3, <2>5, <3>2 DEF StepMove
    <3> QED BY <3>1, <3>2
  <2>6. CASE FinishRetire(Main)
    BY <2>3, <2>6 DEF FinishRetire
  <2> QED BY <2>4, <2>5, <2>6
<1>3. CallOf(f) # NoType /\ CallOf(f).done = TRUE
  BY <1>1, BusyCall DEF FuzzInv
<1>4. val' = val
  BY <1>3, Transition
<1>5. WhenOver = val /\ WhenOver' = val'
  BY <1>1, <1>2 DEF WhenOver
<1> QED BY <1>2, <1>4, <1>5 DEF GoesOnAsMeant, FuzzInv

\* A call has counted: it returns.
LEMMA CalledAsMeant ==
  ASSUME FuzzInv, FinishCall(Main), mem' = Called(mem, act[Main].cell),
         IInv', [Values!Next]_(Values!vars)
  PROVE  GoesOnAsMeant
<1> DEFINE f == act[Main]
<1>1. f.at = "run" /\ f # Idle /\ InEffect(f) = FALSE /\ act'[Main] = Idle
      /\ vt' = vt /\ alive' = alive
  BY Goes, IdleHasNoCall DEF FinishCall, InEffect, FuzzInv
<1>2. /\ f.this \in Wrappers /\ f.ty \in Types /\ f.ty # NoType /\ vt[f.this] = f.ty
      /\ f.cell = Place(mem, f.ty, f.this) /\ f.op = "call" /\ f.this \in alive
      /\ Keepers[f.this] = f.ty
  BY Cast, FinishCallStep, DistinctAssumption DEF FuzzInv
<1>3. /\ mem.obj[f.cell] # NoObject /\ f.cell \in Loc /\ mem.obj[f.cell].type = f.ty
  BY <1>2, Cast, PlacesApart DEF FuzzInv
<1>4. val[f.this] = [type |-> f.ty, val |-> mem.obj[f.cell].val]
  BY <1>1, <1>2, IdleReads DEF Readable, Read, FuzzInv
<1>5. mem.obj[f.cell].val + 1 \in Vals
  BY <1>1, <1>4 DEF FuzzInv, Counted, Callables
<1>6. mem'.obj[f.cell].val = mem.obj[f.cell].val + 1 /\ mem'.ptr = mem.ptr
  <2>1. mem.obj[f.cell] \in Object /\ mem \in Memory
    BY <1>3 DEF FuzzInv, IInv, TypeOK, Memory
  <2> HIDE DEF f
  <2> DEFINE o == [mem.obj[f.cell] EXCEPT !.val = mem.obj[f.cell].val + 1]
  <2>2. mem' = Put(mem, f.cell, o)
    BY <1>2, <1>3, <1>5, Cast DEF Called, f
  <2>3. o.val = mem.obj[f.cell].val + 1
    BY <2>1 DEF Object
  <2> HIDE DEF o
  <2> QED BY <1>3, <2>1, <2>2, <2>3 DEF Put, Memory
<1>7. val'[f.this] = Counted(val[f.this])
  <2>1. Readable'
    BY <1>1, IdleReadsNext, IdleHasNoCall
  <2>2. Place(mem', f.ty, f.this) = f.cell
    BY <1>2, <1>6 DEF Place
  <2> HIDE DEF f
  <2> QED BY <1>1, <1>2, <1>4, <1>6, <2>1, <2>2 DEF Readable, Read, Counted
<1>8. val' = [val EXCEPT ![f.this] = val'[f.this]]
  <2>1. /\ CallOf(f) # NoType /\ CallOf(f).done = FALSE
        /\ CallOf(f).op = "call" /\ CallOf(f).this = f.this
    BY <1>1, <1>2, BusyCall DEF FuzzInv
  <2>2. CallOf(act'[Main]) = NoType
    BY <1>1, IdleHasNoCall
  <2>3. val' \in Values!Effects(CallOf(f))
    BY <2>1, <2>2, Transition
  <2> HIDE DEF f
  <2>4. \E x : val' = [val EXCEPT ![f.this] = x]
    BY <2>1, <2>3 DEF Values!Effects
  <2> QED BY <1>2, <2>4, MappedDomains
<1>9. WhenOver = [val EXCEPT ![f.this] = Counted(val[f.this])] /\ WhenOver' = val'
  BY <1>1, IdleHasNoCall DEF WhenOver
<1> HIDE DEF f
<1>10. WhenOver' = WhenOver
  BY <1>7, <1>8, <1>9
<1> QED BY <1>1, <1>10, IdleHasNoCall DEF GoesOnAsMeant

-----------------------------------------------------------------------------
(* 3. A step of an operation leads on                                       *)

\* A step of a library call leaves the rest of the operation as it was.
LEMMA ProceedKeeps == FuzzInv /\ Proceed => FuzzInv'
<1> SUFFICES ASSUME FuzzInv, Proceed PROVE FuzzInv'
  OBVIOUS
<1>1. [Next]_vars
  BY Cast DEF Proceed, Next, Continue
<1>2. IInv' /\ CopiesItsSource' /\ [Values!Next]_(Values!vars)
  BY <1>1, LibraryStep DEF FuzzInv
<1>3. UNCHANGED <<harness, todo, oracle, aborted>>
  BY DEF Proceed
<1>4. GoesOnAsMeant
  <2>1. CASE FinishBuild(Main)
    BY <1>2, <2>1, ConstructedAsMeant, ClonedAsMeant
  <2>2. CASE FinishKill(Main) \/ StepMove(Main) \/ FinishRetire(Main)
    BY <1>2, <2>2, EffectAsMeant
  <2>3. CASE FinishCall(Main) /\ mem' = Called(mem, act[Main].cell)
    BY <1>2, <2>3, CalledAsMeant
  <2> QED BY <2>1, <2>2, <2>3 DEF Proceed
<1> QED BY <1>2, <1>3, <1>4 DEF FuzzInv, GoesOnAsMeant

\* A task that is allowed leaves contents.
LEMMA EffectTyped ==
  ASSUME NEW V \in Contents, NEW e, NEW k, Allowed(e, V, k)
  PROVE  TaskEffect(V, k) \in Contents
<1>1. k.w \in Wrappers /\ k.o \in Wrappers /\ k.do \in Types \cup Calls \cup Checks
  BY DEF Allowed
<1>2. \A x, y \in Callables \cup {NoObject, Null} :
        [V EXCEPT ![k.w] = x] \in Contents /\ [V EXCEPT ![k.w] = x, ![k.o] = y] \in Contents
        /\ [V EXCEPT ![k.o] = y, ![k.w] = x] \in Contents
  BY <1>1 DEF Contents
<1>3. V[k.w] \in Callables \cup {NoObject, Null} /\ V[k.o] \in Callables \cup {NoObject, Null}
  BY <1>1 DEF Contents
<1>4. k.do \in Types => [type |-> k.do, val |-> k.x] \in Callables
  BY DEF Allowed, Callables
<1>5. k.do = "call" /\ V[k.w] # NoObject => Counted(V[k.w]) \in Callables
  <2> SUFFICES ASSUME k.do = "call", V[k.w] # NoObject PROVE Counted(V[k.w]) \in Callables
    OBVIOUS
  <2>1. V[k.w] # Null /\ V[k.w].val + 1 \in Vals
    BY FuzzAssumption DEF Allowed, Calls
  <2> QED BY <1>3, <2>1 DEF Callables, Counted
<1>6. \/ TaskEffect(V, k) = V
      \/ \E x \in Callables \cup {NoObject, Null} : TaskEffect(V, k) = [V EXCEPT ![k.w] = x]
      \/ \E x, y \in Callables \cup {NoObject, Null} :
            TaskEffect(V, k) \in {[V EXCEPT ![k.w] = x, ![k.o] = y], [V EXCEPT ![k.o] = y, ![k.w] = x]}
  <2>1. CASE k.do \in Types
    <3>1. TaskEffect(V, k) = [V EXCEPT ![k.w] = [type |-> k.do, val |-> k.x]]
      BY <2>1, TaskEffects
    <3> QED BY <1>4, <2>1, <3>1
  <2>2. CASE k.do \in {"default", "reset", "destroy"}
    <3>1. TaskEffect(V, k) \in {[V EXCEPT ![k.w] = NoObject], [V EXCEPT ![k.w] = Null]}
      BY <2>2, TaskEffects
    <3> QED BY <3>1
  <2>3. CASE k.do = "copy"
    <3>1. TaskEffect(V, k) = [V EXCEPT ![k.w] = V[k.o]]
      BY <2>3, TaskEffects
    <3> QED BY <1>3, <3>1
  <2>4. CASE k.do = "move"
    <3>1. TaskEffect(V, k) = [V EXCEPT ![k.o] = NoObject, ![k.w] = V[k.o]]
      BY <2>4, TaskEffects
    <3> QED BY <1>3, <3>1
  <2>5. CASE k.do = "swap"
    <3>1. TaskEffect(V, k) = [V EXCEPT ![k.w] = V[k.o], ![k.o] = V[k.w]]
      BY <2>5, TaskEffects
    <3> QED BY <1>3, <3>1
  <2>6. CASE k.do = "call"
    <3>1. TaskEffect(V, k) = IF V[k.w] = NoObject THEN V
                             ELSE [V EXCEPT ![k.w] = Counted(V[k.w])]
      BY <2>6, TaskEffects
    <3> QED BY <1>5, <2>6, <3>1
  <2>7. CASE k.do \in Checks
    BY <2>7, TaskEffects
  <2> QED BY <1>1, <2>1, <2>2, <2>3, <2>4, <2>5, <2>6, <2>7 DEF Calls
<1> QED BY <1>2, <1>6

\* A check that is allowed passes.
LEMMA ChecksPass ==
  ASSUME FuzzInv, act[Main] = Idle, NEW k, Allowed(oracle, val, k), k.do \in Checks
  PROVE  Fails(k) = FALSE
<1>1. /\ k.w \in Wrappers /\ val[k.w] # Null /\ Types \cap Checks = {}
      /\ k.do \in {"agree", "result"} => k.w \in {A, B}
  BY FuzzAssumption DEF Allowed, Checks
<1>2. val[k.w] = Read(k.w) /\ (vt[k.w] # NoType => val[k.w] \in Callables)
  BY <1>1, IdleReads, IdleHasNoCall DEF Readable, FuzzInv
<1>3. (vt[k.w] # NoType) <=> val[k.w] # NoObject
  BY <1>1, <1>2, Cast DEF Read
<1>4. vt[k.w] # NoType => val[k.w].val = mem.obj[Place(mem, vt[k.w], k.w)].val
  BY <1>1, <1>2 DEF Read
<1>5. CASE k.do = "emptied"
  BY <1>3, <1>5 DEF Allowed, Fails, Holding
<1>6. CASE k.do = "same"
  <2>1. Fails(k) = (Holding(k.w) # (k.x = 1))
    BY <1>6 DEF Fails
  <2>2. val[k.w] = NoObject <=> k.x # 1
    BY <1>6 DEF Allowed
  <2> QED BY <1>3, <2>1, <2>2 DEF Holding
<1>7. CASE k.do = "agree"
  <2>1. Fails(k) = (oracle[k.w] = Unspecified \/ Holding(k.w) # (oracle[k.w] # Empty))
    BY <1>7 DEF Fails
  <2>2. oracle[k.w] # Unspecified /\ (val[k.w] = NoObject <=> oracle[k.w] = Empty)
    BY <1>7 DEF Allowed
  <2> QED BY <1>3, <2>1, <2>2 DEF Holding
<1>8. CASE k.do = "result"
  BY <1>3, <1>4, <1>8 DEF Allowed, Fails, Holding
<1> QED BY <1>5, <1>6, <1>7, <1>8 DEF Checks

\* What leads on from V by the first of the tasks.
LEMMA LeadsByTask ==
  ASSUME NEW h, NEW e, NEW V, NEW q, q # <<>>, Leads(h, e, V, q)
  PROVE  Allowed(e, V, Head(q)) /\ Leads(h, e, TaskEffect(V, Head(q)), Tail(q))
BY DEF Leads, Leads0, Leads1, Leads2, Leads3

\* A task leads on to the next one.
LEMMA TaskKeeps == FuzzInv /\ NextTask => FuzzInv'
<1> SUFFICES ASSUME FuzzInv, NextTask PROVE FuzzInv'
  OBVIOUS
<1> DEFINE k == Head(todo)
<1>1. /\ todo # <<>> /\ act[Main] = Idle /\ todo' = Tail(todo)
      /\ harness' = harness /\ oracle' = oracle
  BY DEF NextTask
<1>2. WhenOver = val
  BY <1>1, IdleHasNoCall DEF WhenOver
<1>3. Allowed(oracle, val, k) /\ Leads(harness, oracle, TaskEffect(val, k), Tail(todo))
  BY <1>1, <1>2, LeadsByTask DEF FuzzInv
<1>4. TaskEffect(val, k) \in Contents
  BY <1>2, <1>3, EffectTyped DEF FuzzInv
<1>5. CASE k.do \in Checks
  <2>1. ~aborted' /\ UNCHANGED vars
    <3>1. aborted' = Fails(k) /\ UNCHANGED vars
      BY <1>5 DEF NextTask
    <3> HIDE DEF k
    <3> QED BY <1>1, <1>3, <1>5, <3>1, ChecksPass
  <2>2. [Next]_vars
    BY <2>1
  <2>3. IInv' /\ CopiesItsSource'
    BY <2>2, LibraryStep DEF FuzzInv
  <2>4. WhenOver' = TaskEffect(val, k) /\ act' = act
    <3>1. act' = act /\ WhenOver' = WhenOver
      BY <2>1, Stands
    <3> QED BY <1>2, <1>5, <3>1, TaskEffects
  <2> HIDE DEF k
  <2> QED BY <1>1, <1>3, <1>4, <2>1, <2>3, <2>4, IdleHasNoCall DEF FuzzInv
<1>6. CASE k.do \notin Checks
  <2>1. /\ IF HasWork(k) THEN Operation(k) ELSE UNCHANGED vars
        /\ aborted' = aborted
    BY <1>6 DEF NextTask
  <2> HIDE DEF k
  <2>2. [Next]_vars
    BY <1>1, <1>3, <1>6, <2>1, TaskIsAClient
  <2>3. IInv' /\ CopiesItsSource' /\ [Values!Next]_(Values!vars)
    BY <2>2, LibraryStep DEF FuzzInv
  <2>4. Poised(k)
    BY <1>1, <1>3, <2>3, IdleReads, IdleHasNoCall DEF Poised, FuzzInv
  <2>5. Serves(k)
    BY <1>6, <2>1, <2>4, OperationServes, NoWorkServes
  <2> QED BY <1>1, <1>3, <1>4, <2>1, <2>3, <2>5 DEF FuzzInv, Serves
<1> QED BY <1>5, <1>6

-----------------------------------------------------------------------------
(* 4. Every operation of the input starts on a way to agreement             *)

LEMMA TaskFields ==
  ASSUME NEW do, NEW w, NEW o
  PROVE  Task(do, w, o).do = do /\ Task(do, w, o).w = w /\ Task(do, w, o).o = o
BY DEF Task

\* What the tasks of the operations do.
LEMMA TaskOutcomes ==
  ASSUME NEW V, NEW w, NEW o
  PROVE  /\ TaskEffect(V, Task("default", w, o)) = [V EXCEPT ![w] = NoObject]
         /\ TaskEffect(V, Task("copy", w, o)) = [V EXCEPT ![w] = V[o]]
         /\ TaskEffect(V, Task("move", w, o)) = [V EXCEPT ![o] = NoObject, ![w] = V[o]]
         /\ TaskEffect(V, Task("swap", w, o)) = [V EXCEPT ![w] = V[o], ![o] = V[w]]
         /\ TaskEffect(V, Task("reset", w, o)) = [V EXCEPT ![w] = NoObject]
         /\ TaskEffect(V, Task("destroy", w, o)) = [V EXCEPT ![w] = Null]
         /\ TaskEffect(V, Task("call", w, o)) =
              IF V[w] = NoObject THEN V ELSE [V EXCEPT ![w] = Counted(V[w])]
         /\ \A do \in Checks : TaskEffect(V, Task(do, w, o)) = V
<1>1. Types \cap (Calls \cup Checks) = {}
  BY FuzzAssumption
<1>2. TaskEffect(V, Task("copy", w, o)) = [V EXCEPT ![w] = V[o]]
  BY <1>1 DEF TaskEffect, Task, Calls
<1>3. TaskEffect(V, Task("move", w, o)) = [V EXCEPT ![o] = NoObject, ![w] = V[o]]
  BY <1>1 DEF TaskEffect, Task, Calls
<1>4. TaskEffect(V, Task("swap", w, o)) = [V EXCEPT ![w] = V[o], ![o] = V[w]]
  BY <1>1 DEF TaskEffect, Task, Calls
<1>5. TaskEffect(V, Task("reset", w, o)) = [V EXCEPT ![w] = NoObject]
  BY <1>1 DEF TaskEffect, Task, Calls
<1>6. TaskEffect(V, Task("destroy", w, o)) = [V EXCEPT ![w] = Null]
  BY <1>1 DEF TaskEffect, Task, Calls
<1>7. TaskEffect(V, Task("call", w, o)) =
        IF V[w] = NoObject THEN V ELSE [V EXCEPT ![w] = Counted(V[w])]
  BY <1>1 DEF TaskEffect, Task, Calls
<1>8. ASSUME NEW do \in Checks PROVE TaskEffect(V, Task(do, w, o)) = V
  BY <1>1 DEF TaskEffect, Task, Checks
<1>9. TaskEffect(V, Task("default", w, o)) = [V EXCEPT ![w] = NoObject]
  BY <1>1 DEF TaskEffect, Task, Calls
<1> QED BY <1>2, <1>3, <1>4, <1>5, <1>6, <1>7, <1>8, <1>9

\* What is asked of a task, kind by kind.
LEMMA AllowedKinds ==
  ASSUME NEW e, NEW V, NEW k, k.w \in Wrappers, k.o \in Wrappers
  PROVE  /\ k.do = "default" /\ V[k.w] = Null => Allowed(e, V, k)
         /\ k.do \in Types /\ V[k.w] = Null /\ k.x \in Vals => Allowed(e, V, k)
         /\ /\ k.do \in {"copy", "move", "swap", "reset", "destroy"}
            /\ V[k.w] # Null /\ V[k.o] # Null
            => Allowed(e, V, k)
         /\ /\ k.do = "call" /\ V[k.w] # Null /\ V[k.o] # Null
            /\ V[k.w] # NoObject => V[k.w].val + 1 \in Vals
            => Allowed(e, V, k)
         /\ k.do = "emptied" /\ V[k.w] = NoObject /\ V[k.o] # Null => Allowed(e, V, k)
         /\ /\ k.do = "same" /\ V[k.w] # Null /\ V[k.o] # Null
            /\ V[k.w] = NoObject <=> k.x # 1
            => Allowed(e, V, k)
         /\ /\ k.do = "agree" /\ V[k.w] # Null /\ V[k.o] # Null /\ k.w # Temp
            /\ e[k.w] # Unspecified
            /\ V[k.w] = NoObject <=> e[k.w] = Empty
            => Allowed(e, V, k)
         /\ /\ k.do = "result" /\ V[k.w] # Null /\ V[k.o] # Null /\ k.w # Temp
            /\ V[k.w] # NoObject => V[k.w].val = e[k.w]
            => Allowed(e, V, k)
<1>1. Types \cap (Calls \cup Checks) = {} /\ NoObject # Null
  BY FuzzAssumption, Cast
<1>2. k.do = "default" /\ V[k.w] = Null => Allowed(e, V, k)
  BY <1>1 DEF Allowed, Calls, Checks
<1>3. k.do \in Types /\ V[k.w] = Null /\ k.x \in Vals => Allowed(e, V, k)
  BY <1>1 DEF Allowed, Calls, Checks
<1>4. /\ k.do \in {"copy", "move", "swap", "reset", "destroy"}
      /\ V[k.w] # Null /\ V[k.o] # Null
      => Allowed(e, V, k)
  BY <1>1 DEF Allowed, Calls, Checks
<1>5. /\ k.do = "call" /\ V[k.w] # Null /\ V[k.o] # Null
      /\ V[k.w] # NoObject => V[k.w].val + 1 \in Vals
      => Allowed(e, V, k)
  BY <1>1 DEF Allowed, Calls, Checks
<1>6. k.do = "emptied" /\ V[k.w] = NoObject /\ V[k.o] # Null => Allowed(e, V, k)
  BY <1>1 DEF Allowed, Calls, Checks
<1>7. /\ k.do = "same" /\ V[k.w] # Null /\ V[k.o] # Null
      /\ V[k.w] = NoObject <=> k.x # 1
      => Allowed(e, V, k)
  BY <1>1 DEF Allowed, Calls, Checks
<1>8. /\ k.do = "agree" /\ V[k.w] # Null /\ V[k.o] # Null /\ k.w # Temp
      /\ e[k.w] # Unspecified
      /\ V[k.w] = NoObject <=> e[k.w] = Empty
      => Allowed(e, V, k)
  BY <1>1 DEF Allowed, Calls, Checks
<1>9. /\ k.do = "result" /\ V[k.w] # Null /\ V[k.o] # Null /\ k.w # Temp
      /\ V[k.w] # NoObject => V[k.w].val = e[k.w]
      => Allowed(e, V, k)
  BY <1>1 DEF Allowed, Calls, Checks
<1> QED BY <1>2, <1>3, <1>4, <1>5, <1>6, <1>7, <1>8, <1>9

\* One, two or three tasks that lead to agreement.
LEMMA OneTask ==
  ASSUME NEW h, NEW e, NEW V, NEW k, Allowed(e, V, k), Agree(h, e, TaskEffect(V, k))
  PROVE  Leads(h, e, V, <<k>>)
<1>1. <<k>> # <<>> /\ Head(<<k>>) = k /\ Tail(<<k>>) = <<>>
  OBVIOUS
<1> QED BY <1>1 DEF Leads, Leads1, Leads0

LEMMA TwoTasks ==
  ASSUME NEW h, NEW e, NEW V, NEW k, NEW l, Allowed(e, V, k),
         NEW W, W = TaskEffect(V, k), Allowed(e, W, l), Agree(h, e, TaskEffect(W, l))
  PROVE  Leads(h, e, V, <<k, l>>)
<1>1. /\ <<k, l>> # <<>> /\ Head(<<k, l>>) = k /\ Tail(<<k, l>>) = <<l>>
      /\ <<l>> # <<>> /\ Head(<<l>>) = l /\ Tail(<<l>>) = <<>>
  OBVIOUS
<1> QED BY <1>1 DEF Leads, Leads2, Leads1, Leads0

LEMMA ThreeTasks ==
  ASSUME NEW h, NEW e, NEW V, NEW k, NEW l, NEW m, Allowed(e, V, k),
         NEW W, W = TaskEffect(V, k), Allowed(e, W, l),
         NEW X, X = TaskEffect(W, l), Allowed(e, X, m), Agree(h, e, TaskEffect(X, m))
  PROVE  Leads(h, e, V, <<k, l, m>>)
<1>1. /\ <<k, l, m>> # <<>> /\ Head(<<k, l, m>>) = k /\ Tail(<<k, l, m>>) = <<l, m>>
      /\ <<l, m>> # <<>> /\ Head(<<l, m>>) = l /\ Tail(<<l, m>>) = <<m>>
      /\ <<m>> # <<>> /\ Head(<<m>>) = m /\ Tail(<<m>>) = <<>>
  OBVIOUS
<1> QED BY <1>1 DEF Leads, Leads3, Leads2, Leads1, Leads0

\* Between two operations: wrappers that hold V and oracles e agree.
Ready(h, e, V) == /\ h # "over" /\ V \in Contents
                  /\ e \in [{A, B} -> Vals \cup {Empty}]
                  /\ Agree(h, e, V)

LEMMA ReadyMatches ==
  ASSUME NEW h, NEW e, NEW V, Ready(h, e, V), NEW w \in {A, B}
  PROVE  /\ V[w] # Null /\ V[w] \in Callables \cup {NoObject}
         /\ e[w] \in Vals \cup {Empty} /\ e[w] # Unspecified
         /\ V[w] = NoObject <=> e[w] = Empty
         /\ V[w] # NoObject => V[w] \in Callables /\ V[w].val = e[w] /\ e[w] \in Vals
         /\ Matches(V[w], e[w])
<1>1. Matches(V[w], e[w]) /\ e[w] \in Vals \cup {Empty}
  BY DEF Ready, Agree
<1> QED BY <1>1, Cast DEF Matches, Callables

\* Contents that differ in one or both wrappers still agree.
LEMMA AgreeAgain ==
  ASSUME NEW h, NEW e, NEW V, Ready(h, e, V), NEW d, NEW W,
         W[Temp] = Null, \A w \in {A, B} : Matches(W[w], d[w])
  PROVE  Agree(h, d, W)
BY DEF Ready, Agree

LEMMA ReplaceLeads ==
  ASSUME NEW h, NEW e, NEW V, Ready(h, e, V), NEW w \in {A, B}, NEW t \in Types, NEW v \in Vals
  PROVE  Leads(h, [e EXCEPT ![w] = v], V,
               <<[do |-> t, w |-> Temp, o |-> Temp, x |-> v],
                 Task("move", w, Temp), Task("destroy", Temp, Temp)>>)
<1> DEFINE k == [do |-> t, w |-> Temp, o |-> Temp, x |-> v]
           l == Task("move", w, Temp)
           m == Task("destroy", Temp, Temp)
           r == [type |-> t, val |-> v]
           d == [e EXCEPT ![w] = v]
           W == [V EXCEPT ![Temp] = r]
           X == [W EXCEPT ![Temp] = NoObject, ![w] = r]
           Y == [X EXCEPT ![Temp] = Null]
<1>1. /\ k.do = t /\ k.w = Temp /\ k.o = Temp /\ k.x = v
      /\ l.do = "move" /\ l.w = w /\ l.o = Temp
      /\ m.do = "destroy" /\ m.w = Temp /\ m.o = Temp
      /\ r \in Callables /\ r.val = v
  BY TaskFields DEF Callables
<1>2. /\ V = [u \in Wrappers |-> V[u]] /\ V[Temp] = Null /\ V[w] # Null
      /\ e = [u \in {A, B} |-> e[u]] /\ \A u \in {A, B} : Matches(V[u], e[u])
      /\ w # Temp /\ w \in Wrappers /\ Temp \in Wrappers /\ NoObject # Null
  BY ReadyMatches, Cast DEF Ready, Contents, Agree
<1> HIDE DEF k, l, m, r
<1>3. W[Temp] = r /\ W[w] = V[w] /\ X[Temp] = NoObject /\ X[w] = r
  BY <1>2
<1>4. \A u \in {A, B} : Y[u] = IF u = w THEN r ELSE V[u]
  BY <1>2, Cast
<1>5. Y[Temp] = Null
  BY <1>2
<1>6. W = TaskEffect(V, k) /\ X = TaskEffect(W, l) /\ Y = TaskEffect(X, m)
  <2>1. W = TaskEffect(V, k)
    BY <1>1, TaskEffects DEF r
  <2> HIDE DEF W, X
  <2>2. X = TaskEffect(W, l)
    <3>1. TaskEffect(W, l) = [W EXCEPT ![Temp] = NoObject, ![w] = W[Temp]]
      BY TaskOutcomes DEF l
    <3> QED BY <1>3, <3>1 DEF X
  <2>3. Y = TaskEffect(X, m)
    BY TaskOutcomes DEF m
  <2> QED BY <2>1, <2>2, <2>3
<1> HIDE DEF W, X, Y
<1>7. Allowed(d, V, k)
  BY <1>1, <1>2, AllowedKinds
<1>8. Allowed(d, W, l)
  BY <1>1, <1>2, <1>3, Cast, AllowedKinds
<1>9. Allowed(d, X, m)
  BY <1>1, <1>2, <1>3, AllowedKinds
<1>10. Agree(h, d, Y)
  <2>1. \A u \in {A, B} : Matches(Y[u], d[u])
    BY <1>1, <1>2, <1>4, Cast DEF Matches
  <2> QED BY <1>5, <2>1, AgreeAgain
<1> HIDE DEF d
<1>11. Leads(h, d, V, <<k, l, m>>)
  BY <1>6, <1>7, <1>8, <1>9, <1>10, ThreeTasks
<1> QED BY <1>11 DEF d, k, l, m

\* What the other operations need to know of contents that agree.
LEMMA ReadyContents ==
  ASSUME NEW h, NEW e, NEW V, Ready(h, e, V)
  PROVE  /\ V = [u \in Wrappers |-> V[u]] /\ e = [u \in {A, B} |-> e[u]] /\ V[Temp] = Null
         /\ \A u \in {A, B} : V[u] # Null /\ Matches(V[u], e[u])
         /\ {A, B, Temp} \subseteq Wrappers /\ A # B /\ Temp # A /\ Temp # B
         /\ Matches(NoObject, Empty)
BY ReadyMatches, Cast DEF Ready, Contents, Agree, Matches

LEMMA CopyLeads ==
  ASSUME NEW h, NEW e, NEW V, Ready(h, e, V)
  PROVE  Leads(h, [e EXCEPT ![A] = e[B]], V, <<Task("copy", A, B)>>)
<1> DEFINE k == Task("copy", A, B)
           d == [e EXCEPT ![A] = e[B]]
           W == [V EXCEPT ![A] = V[B]]
<1>1. k.do = "copy" /\ k.w = A /\ k.o = B
  BY TaskFields
<1>2. W[Temp] = Null /\ \A u \in {A, B} : Matches(W[u], d[u])
  BY ReadyContents
<1>3. Allowed(d, V, k)
  <2> HIDE DEF k, d
  <2> QED BY <1>1, ReadyContents, AllowedKinds
<1>4. TaskEffect(V, k) = W
  BY TaskOutcomes
<1> HIDE DEF k, d, W
<1>5. Agree(h, d, TaskEffect(V, k))
  BY <1>2, <1>4, AgreeAgain
<1>6. Leads(h, d, V, <<k>>)
  BY <1>3, <1>5, OneTask
<1> QED BY <1>6 DEF d, k

LEMMA SwapLeads ==
  ASSUME NEW h, NEW e, NEW V, Ready(h, e, V)
  PROVE  Leads(h, [e EXCEPT ![A] = e[B], ![B] = e[A]], V, <<Task("swap", A, B)>>)
<1> DEFINE k == Task("swap", A, B)
           d == [e EXCEPT ![A] = e[B], ![B] = e[A]]
           W == [V EXCEPT ![A] = V[B], ![B] = V[A]]
<1>1. k.do = "swap" /\ k.w = A /\ k.o = B
  BY TaskFields
<1>2. W[Temp] = Null /\ \A u \in {A, B} : Matches(W[u], d[u])
  BY ReadyContents
<1>3. Allowed(d, V, k)
  <2> HIDE DEF k, d
  <2> QED BY <1>1, ReadyContents, AllowedKinds
<1>4. TaskEffect(V, k) = W
  BY TaskOutcomes
<1> HIDE DEF k, d, W
<1>5. Agree(h, d, TaskEffect(V, k))
  BY <1>2, <1>4, AgreeAgain
<1>6. Leads(h, d, V, <<k>>)
  BY <1>3, <1>5, OneTask
<1> QED BY <1>6 DEF d, k

LEMMA ClearLeads ==
  ASSUME NEW h, NEW e, NEW V, Ready(h, e, V), NEW w \in {A, B}
  PROVE  Leads(h, [e EXCEPT ![w] = Empty], V, <<Task("reset", w, w)>>)
<1> DEFINE k == Task("reset", w, w)
           d == [e EXCEPT ![w] = Empty]
           W == [V EXCEPT ![w] = NoObject]
<1>1. k.do = "reset" /\ k.w = w /\ k.o = w
  BY TaskFields
<1>2. W[Temp] = Null /\ \A u \in {A, B} : Matches(W[u], d[u])
  BY ReadyContents
<1>3. Allowed(d, V, k)
  <2> HIDE DEF k, d
  <2> QED BY <1>1, ReadyContents, AllowedKinds
<1>4. TaskEffect(V, k) = W
  BY TaskOutcomes
<1> HIDE DEF k, d, W
<1>5. Agree(h, d, TaskEffect(V, k))
  BY <1>2, <1>4, AgreeAgain
<1>6. Leads(h, d, V, <<k>>)
  BY <1>3, <1>5, OneTask
<1> QED BY <1>6 DEF d, k

\* The moved-from oracle is emptied as the wrapper is.
LEMMA MoveLeads ==
  ASSUME NEW h, NEW e, NEW V, Ready(h, e, V)
  PROVE  Leads(h, [e EXCEPT ![A] = e[B], ![B] = Empty], V,
               <<Task("move", A, B), Task("emptied", B, B)>>)
<1> DEFINE k == Task("move", A, B)
           l == Task("emptied", B, B)
           d == [e EXCEPT ![A] = e[B], ![B] = Empty]
           W == [V EXCEPT ![B] = NoObject, ![A] = V[B]]
<1>1. /\ k.do = "move" /\ k.w = A /\ k.o = B
      /\ l.do = "emptied" /\ l.w = B /\ l.o = B
  BY TaskFields
<1>2. W[Temp] = Null /\ W[B] = NoObject /\ \A u \in {A, B} : Matches(W[u], d[u])
  BY ReadyContents
<1>3. Allowed(d, V, k)
  <2> HIDE DEF k, d
  <2> QED BY <1>1, ReadyContents, AllowedKinds
<1>4. Allowed(d, W, l)
  <2> HIDE DEF l, d, W
  <2> QED BY <1>1, <1>2, ReadyContents, AllowedKinds, Cast
<1>5. W = TaskEffect(V, k) /\ TaskEffect(W, l) = W
  <2>1. W = TaskEffect(V, k)
    BY TaskOutcomes
  <2> HIDE DEF W
  <2>2. TaskEffect(W, l) = W
    BY TaskOutcomes DEF Checks
  <2> QED BY <2>1, <2>2
<1> HIDE DEF k, l, d, W
<1>6. Agree(h, d, TaskEffect(W, l))
  BY <1>2, <1>5, AgreeAgain
<1>7. Leads(h, d, V, <<k, l>>)
  BY <1>3, <1>4, <1>5, <1>6, TwoTasks
<1> QED BY <1>7 DEF d, k, l

\* An operation of a wrapper on itself changes nothing.
LEMMA SelfLeads ==
  ASSUME NEW h, NEW e, NEW V, Ready(h, e, V), NEW do \in {"copy", "move", "swap"},
         NEW x, V[A] = NoObject <=> x # 1
  PROVE  Leads(h, e, V, <<Task(do, A, A), [do |-> "same", w |-> A, o |-> A, x |-> x]>>)
<1> DEFINE k == Task(do, A, A)
           l == [do |-> "same", w |-> A, o |-> A, x |-> x]
<1>1. /\ k.do = do /\ k.w = A /\ k.o = A
      /\ l.do = "same" /\ l.w = A /\ l.o = A /\ l.x = x
  BY TaskFields
<1>2. Allowed(e, V, k)
  <2> HIDE DEF k
  <2> QED BY <1>1, ReadyContents, AllowedKinds
<1>3. Allowed(e, V, l)
  <2> HIDE DEF l
  <2> QED BY <1>1, ReadyContents, AllowedKinds
<1>4. TaskEffect(V, k) = V
  <2>1. TaskEffect(V, k) \in {[V EXCEPT ![A] = V[A]], [V EXCEPT ![A] = NoObject, ![A] = V[A]],
                              [V EXCEPT ![A] = V[A], ![A] = V[A]]}
    <3>1. CASE do = "copy"
      BY <3>1, TaskOutcomes
    <3>2. CASE do = "move"
      BY <3>2, TaskOutcomes
    <3>3. CASE do = "swap"
      BY <3>3, TaskOutcomes
    <3> QED BY <3>1, <3>2, <3>3
  <2> QED BY <2>1, ReadyContents
<1>5. TaskEffect(V, l) = V
  <2> HIDE DEF l
  <2> QED BY <1>1, TaskEffects DEF Checks
<1> HIDE DEF k, l
<1>6. Agree(h, e, V)
  BY DEF Ready
<1>7. Leads(h, e, V, <<k, l>>)
  BY <1>2, <1>3, <1>4, <1>5, <1>6, TwoTasks
<1> QED BY <1>7 DEF k, l

\* A call counts on both sides, or on neither.
LEMMA InvokeLeads ==
  ASSUME NEW h, NEW e, NEW V, Ready(h, e, V), NEW w \in {A, B}, e[w] \in Vals => e[w] + 1 \in Vals
  PROVE  Leads(h, [e EXCEPT ![w] = IF e[w] \in Vals THEN e[w] + 1 ELSE e[w]], V,
               <<Task("agree", w, w), Task("call", w, w), Task("result", w, w)>>)
<1> DEFINE k == Task("agree", w, w)
           l == Task("call", w, w)
           m == Task("result", w, w)
           d == [e EXCEPT ![w] = IF e[w] \in Vals THEN e[w] + 1 ELSE e[w]]
           W == IF V[w] = NoObject THEN V ELSE [V EXCEPT ![w] = Counted(V[w])]
<1>1. /\ k.do = "agree" /\ k.w = w /\ k.o = w
      /\ l.do = "call" /\ l.w = w /\ l.o = w
      /\ m.do = "result" /\ m.w = w /\ m.o = w
  BY TaskFields
<1>2. /\ w \in Wrappers /\ w # Temp /\ V[w] # Null /\ e[w] # Unspecified
      /\ V[w] = NoObject <=> e[w] = Empty
      /\ V[w] # NoObject => V[w] \in Callables /\ V[w].val = e[w] /\ e[w] \in Vals
  BY ReadyMatches, Cast
<1>3. V[w] # NoObject => /\ Counted(V[w]) \in Callables
                         /\ Counted(V[w]).val = e[w] + 1 /\ e[w] + 1 \in Vals
  BY <1>2 DEF Counted, Callables
<1>4. /\ V[w] = NoObject => d = e
      /\ V[w] # NoObject => d = [e EXCEPT ![w] = e[w] + 1]
  BY <1>2, ReadyContents, Cast
<1>5. d[w] # Unspecified /\ (V[w] = NoObject <=> d[w] = Empty)
  BY <1>2, <1>3, <1>4, ReadyContents, Cast
<1>6. /\ W[Temp] = Null /\ W[w] # Null /\ \A u \in {A, B} : Matches(W[u], d[u])
      /\ W[w] # NoObject => W[w].val = d[w]
  <2>1. CASE V[w] = NoObject
    BY <1>2, <1>4, <2>1, ReadyContents
  <2>2. CASE V[w] # NoObject
    <3> DEFINE c == Counted(V[w])
    <3>1. c \in Callables /\ c.val = e[w] + 1 /\ c # Null /\ e[w] + 1 # Empty
      BY <1>3, <2>2, Cast
    <3> HIDE DEF c
    <3>2. W = [V EXCEPT ![w] = c] /\ d = [e EXCEPT ![w] = e[w] + 1]
      BY <1>4, <2>2 DEF c
    <3> HIDE DEF W, d
    <3>3. W[w] = c /\ d[w] = e[w] + 1 /\ W[Temp] = Null
      BY <1>2, <3>2, ReadyContents
    <3>4. \A u \in {A, B} \ {w} : W[u] = V[u] /\ d[u] = e[u]
      BY <3>2, ReadyContents
    <3> QED BY <3>1, <3>3, <3>4, ReadyContents DEF Matches
  <2> QED BY <2>1, <2>2
<1>7. V = TaskEffect(V, k) /\ W = TaskEffect(V, l)
  BY TaskOutcomes DEF Checks
<1> HIDE DEF d, W
<1>8. TaskEffect(W, m) = W
  BY TaskOutcomes DEF Checks
<1> HIDE DEF k, l, m
<1>9. Allowed(d, V, k)
  BY <1>1, <1>2, <1>5, AllowedKinds
<1>10. Allowed(d, V, l)
  BY <1>1, <1>2, AllowedKinds
<1>11. Allowed(d, W, m)
  BY <1>1, <1>2, <1>6, AllowedKinds
<1>12. Agree(h, d, TaskEffect(W, m))
  BY <1>6, <1>8, AgreeAgain
<1>13. Leads(h, d, V, <<k, l, m>>)
  BY <1>7, <1>9, <1>10, <1>11, <1>12, ThreeTasks
<1> QED BY <1>13 DEF d, k, l, m

\* The wrappers are destroyed.
LEMMA OverLeads ==
  ASSUME NEW h, NEW e, NEW V, Ready(h, e, V)
  PROVE  Leads("over", e, V, <<Task("destroy", B, B), Task("destroy", A, A)>>)
<1> DEFINE k == Task("destroy", B, B)
           l == Task("destroy", A, A)
           W == [V EXCEPT ![B] = Null]
           X == [W EXCEPT ![A] = Null]
<1>1. /\ k.do = "destroy" /\ k.w = B /\ k.o = B
      /\ l.do = "destroy" /\ l.w = A /\ l.o = A
  BY TaskFields
<1>2. W[A] # Null /\ X[A] = Null /\ X[B] = Null /\ X[Temp] = Null
  BY ReadyContents
<1>3. Allowed(e, V, k)
  <2> HIDE DEF k
  <2> QED BY <1>1, ReadyContents, AllowedKinds
<1>4. Allowed(e, W, l)
  <2> HIDE DEF l, W
  <2> QED BY <1>1, <1>2, ReadyContents, AllowedKinds
<1>5. W = TaskEffect(V, k) /\ TaskEffect(W, l) = X
  <2>1. W = TaskEffect(V, k)
    BY TaskOutcomes
  <2> HIDE DEF W
  <2>2. TaskEffect(W, l) = X
    BY TaskOutcomes
  <2> QED BY <2>1, <2>2
<1> HIDE DEF k, l, W, X
<1>6. Agree("over", e, TaskEffect(W, l))
  BY <1>2, <1>5 DEF Agree
<1>7. Leads("over", e, V, <<k, l>>)
  BY <1>3, <1>4, <1>5, <1>6, TwoTasks
<1> QED BY <1>7 DEF k, l

\* Between two operations.
LEMMA Between ==
  ASSUME FuzzInv, todo = <<>>, act[Main] = Idle
  PROVE  /\ WhenOver = val /\ Readable /\ Agree(harness, oracle, val)
         /\ harness # "over" => Ready(harness, oracle, val)
<1>1. WhenOver = val
  BY IdleHasNoCall DEF WhenOver
<1>2. Agree(harness, oracle, val)
  BY <1>1 DEF FuzzInv, Leads, Leads0, Leads1, Leads2, Leads3
<1> QED BY <1>1, <1>2, IdleReads, IdleHasNoCall DEF FuzzInv, Ready

\* The operation of the next byte starts on a way to agreement.
LEMMA ByteKeeps == FuzzInv /\ NextByte => FuzzInv'
<1> SUFFICES ASSUME FuzzInv, NextByte PROVE FuzzInv'
  OBVIOUS
<1> DEFINE Begins == /\ UNCHANGED <<vars, aborted>>
                     /\ harness' \in {"function", "move_only", "over"}
                     /\ oracle' \in [{A, B} -> Vals \cup {Empty}]
                     /\ Leads(harness', oracle', val, todo')
<1>1. todo = <<>> /\ act[Main] = Idle
  BY DEF NextByte
<1>2. /\ WhenOver = val /\ Readable
      /\ harness # "over" => Ready(harness, oracle, val)
  BY <1>1, Between
<1>3. harness \in {"function", "move_only", "over"} /\ oracle \in [{A, B} -> Vals \cup {Empty}]
  BY DEF FuzzInv
<1>4. ASSUME NEW w \in {A, B}, NEW t \in Types, NEW v \in Vals, harness # "over", Replace(w, t, v)
      PROVE  Begins
  BY <1>2, <1>3, <1>4, ReplaceLeads DEF Replace, Do
<1>5. ASSUME NEW w \in {A, B}, harness # "over", Clear(w)
      PROVE  Begins
  BY <1>2, <1>3, <1>5, ClearLeads DEF Clear, Do
<1>6. ASSUME NEW w \in {A, B}, harness # "over", Invoke(w)
      PROVE  Begins
  <2>1. /\ oracle' = [oracle EXCEPT ![w] = IF oracle[w] \in Vals THEN oracle[w] + 1 ELSE oracle[w]]
        /\ todo' = <<Task("agree", w, w), Task("call", w, w), Task("result", w, w)>>
        /\ oracle[w] \in Vals => oracle[w] + 1 \in Vals
    BY <1>6 DEF Invoke, Do
  <2>2. Leads(harness, oracle', val, todo')
    BY <1>2, <1>6, <2>1, InvokeLeads
  <2>3. oracle' \in [{A, B} -> Vals \cup {Empty}]
    BY <1>3, <2>1
  <2> QED BY <1>3, <1>6, <2>2, <2>3 DEF Invoke, Do
<1>7. ASSUME NEW do \in {"copy", "move", "swap"}, harness # "over", Self(do)
      PROVE  Begins
  <2> DEFINE x == IF Holding(A) THEN 1 ELSE 0
  <2>1. val[A] = NoObject <=> x # 1
    <3>1. Ready(harness, oracle, val) /\ val[A] = Read(A) /\ (vt[A] # NoType => val[A] \in Callables)
      BY <1>2, <1>7, Cast DEF Readable
    <3>2. val[A] # Null
      BY <3>1, ReadyMatches
    <3> QED BY <3>1, <3>2, Cast DEF Read, Holding
  <2>2. /\ todo' = <<Task(do, A, A), [do |-> "same", w |-> A, o |-> A, x |-> x]>>
        /\ oracle' = oracle /\ harness' = harness /\ UNCHANGED <<vars, aborted>>
    BY <1>7 DEF Self, Do
  <2> HIDE DEF x
  <2>3. Leads(harness, oracle, val, todo')
    BY <1>2, <1>7, <2>1, <2>2, SelfLeads
  <2> QED BY <1>3, <2>2, <2>3
<1>8. ASSUME harness # "over", todo' = <<Task("move", A, B), Task("emptied", B, B)>>,
             oracle' = [oracle EXCEPT ![A] = oracle[B], ![B] = Empty],
             UNCHANGED <<vars, harness, aborted>>
      PROVE  Begins
  BY <1>2, <1>3, <1>8, MoveLeads
<1>9. ASSUME NEW which, which # "over", SwapBoth(which)
      PROVE  Begins
  BY <1>2, <1>3, <1>9, SwapLeads DEF SwapBoth, Do
<1>10. ASSUME FunctionCopy PROVE Begins
  <2>1. /\ harness = "function" /\ todo' = <<Task("copy", A, B)>>
        /\ oracle' = [oracle EXCEPT ![A] = oracle[B]] /\ UNCHANGED <<vars, harness, aborted>>
    BY <1>10 DEF FunctionCopy, Do
  <2>2. Leads(harness, oracle', val, todo')
    BY <1>2, <2>1, CopyLeads
  <2>3. oracle' \in [{A, B} -> Vals \cup {Empty}]
    BY <1>3, <2>1
  <2> QED BY <1>3, <2>1, <2>2, <2>3
<1>11. ASSUME Over PROVE Begins
  <2>1. /\ harness # "over" /\ harness' = "over" /\ oracle' = oracle
        /\ todo' = <<Task("destroy", B, B), Task("destroy", A, A)>>
        /\ UNCHANGED <<vars, aborted>>
    BY <1>11 DEF Over
  <2>2. Leads("over", oracle, val, todo')
    BY <1>2, <2>1, OverLeads
  <2> QED BY <1>3, <2>1, <2>2
<1>12. Begins
  <2>1. CASE \E w \in {A, B}, t \in Types, v \in Vals :
               FunctionAssign(w, t, v) \/ MoveOnlyAssign(w, t, v)
    BY <1>4, <2>1 DEF FunctionAssign, MoveOnlyAssign
  <2>2. CASE FunctionMove \/ MoveOnlyMove
    BY <1>8, <2>2 DEF FunctionMove, MoveOnlyMove, Do
  <2>3. CASE SwapBoth("function") \/ SwapBoth("move_only")
    BY <1>9, <2>3
  <2>4. CASE \E w \in {A, B} : \/ FunctionReset(w) \/ MoveOnlyReset(w)
                               \/ checkPair(w) \/ checkInvoke(w)
    BY <1>5, <1>6, <2>4 DEF FunctionReset, MoveOnlyReset, checkPair, checkInvoke
  <2>5. CASE \E do \in {"copy", "move", "swap"} : FunctionSelf(do) \/ MoveOnlySelf(do)
    BY <1>7, <2>5 DEF FunctionSelf, MoveOnlySelf
  <2> HIDE DEF Begins
  <2> QED BY <1>10, <1>11, <2>1, <2>2, <2>3, <2>4, <2>5 DEF NextByte
<1>13. [Next]_vars
  BY <1>12
<1>14. IInv' /\ CopiesItsSource'
  BY <1>13, LibraryStep DEF FuzzInv
<1>15. act' = act /\ WhenOver' = val
  BY <1>2, <1>12, Stands
<1>16. val \in Contents /\ act[Main].op # "copyctor" /\ act[Main].at # "run"
  BY <1>1, <1>2, IdleHasNoCall DEF FuzzInv
<1> QED BY <1>12, <1>14, <1>15, <1>16 DEF FuzzInv

\* Both wrappers are default-constructed first, and the oracles are empty.
LEMMA FuzzInitInv == FuzzInit => FuzzInv
<1> SUFFICES ASSUME FuzzInit PROVE FuzzInv
  OBVIOUS
<1> DEFINE k == Task("default", A, A)
           l == Task("default", B, B)
           W == [val EXCEPT ![A] = NoObject]
           X == [W EXCEPT ![B] = NoObject]
<1>1. IInv /\ CopiesItsSource /\ val = [w \in Wrappers |-> Null]
  BY InitInvariant, InitMaps DEF FuzzInit, Values!Init
<1>2. act[Main] = Idle
  BY Cast DEF FuzzInit, Init
<1>3. WhenOver = val
  BY <1>2, IdleHasNoCall DEF WhenOver
<1>4. val \in Contents
  BY <1>1 DEF Contents
<1>5. /\ k.do = "default" /\ k.w = A /\ k.o = A
      /\ l.do = "default" /\ l.w = B /\ l.o = B
  BY TaskFields
<1>6. W[B] = Null /\ X[A] = NoObject /\ X[B] = NoObject /\ X[Temp] = Null
  BY <1>1, Cast
<1>7. TaskEffect(val, k) = W /\ TaskEffect(W, l) = X
  <2>1. TaskEffect(val, k) = W
    BY TaskOutcomes
  <2> HIDE DEF W
  <2>2. TaskEffect(W, l) = X
    BY TaskOutcomes
  <2> QED BY <2>1, <2>2
<1> HIDE DEF k, l, W, X
<1>8. Allowed(oracle, val, k) /\ Allowed(oracle, W, l)
  BY <1>1, <1>5, <1>6, AllowedKinds, Cast
<1>9. Agree(harness, oracle, X)
  BY <1>6 DEF FuzzInit, Agree, Matches
<1>10. Leads(harness, oracle, val, <<k, l>>)
  BY <1>7, <1>8, <1>9, TwoTasks
<1>11. todo = <<k, l>>
  BY DEF FuzzInit, Task, k, l
<1>12. oracle \in [{A, B} -> Vals \cup {Empty}] /\ harness \in {"function", "move_only"} /\ ~aborted
  BY DEF FuzzInit
<1> QED BY <1>1, <1>2, <1>3, <1>4, <1>10, <1>11, <1>12, IdleHasNoCall DEF FuzzInv

-----------------------------------------------------------------------------
(* 5. The theorems                                                          *)

\* The invariant is inductive.
LEMMA FuzzNextInv == FuzzInv /\ [FuzzNext]_fuzzVars => FuzzInv'
<1> SUFFICES ASSUME FuzzInv, [FuzzNext]_fuzzVars PROVE FuzzInv'
  OBVIOUS
<1>1. CASE UNCHANGED fuzzVars
  <2>1. UNCHANGED vars /\ UNCHANGED <<harness, todo, oracle, aborted>>
    BY <1>1 DEF fuzzVars
  <2>2. IInv' /\ CopiesItsSource'
    BY <2>1, LibraryStep DEF FuzzInv
  <2>3. act' = act /\ val' = val /\ WhenOver' = WhenOver
    BY <2>1, Stands
  <2> QED BY <2>1, <2>2, <2>3 DEF FuzzInv
<1>2. CASE FuzzNext
  BY <1>2, ByteKeeps, TaskKeeps, ProceedKeeps DEF FuzzNext
<1> QED BY <1>1, <1>2

\* In the middle of every operation of a harness the library's invariant holds, and
\* what is left to do makes the wrappers agree with their oracles without a failing
\* check (fuzz_function.cpp:132-249, fuzz_move_only_function.cpp:121-219).
THEOREM FuzzInvariance == FuzzSpec => []FuzzInv
BY FuzzInitInv, FuzzNextInv, PTL DEF FuzzSpec

\* No input makes a harness abort, however long it is: an abort is a fault of the
\* library and never one of the oracle (fuzz_function.cpp:100-128, 184-185).
THEOREM FuzzNeverAborts == FuzzSpec => []NoFalseAlarm
<1>1. FuzzInv => NoFalseAlarm
  BY DEF FuzzInv, NoFalseAlarm
<1> QED BY <1>1, FuzzInvariance, PTL

\* Between two bytes wrapper and oracle hold the same, called or not
\* (fuzz_function.cpp:100-128, fuzz_move_only_function.cpp:76-119).
THEOREM FuzzAgreement == FuzzSpec => []OracleAgrees
<1>1. FuzzInv => OracleAgrees
  <2> SUFFICES ASSUME FuzzInv, todo = <<>>, act[Main] = Idle, harness # "over", NEW w \in {A, B}
               PROVE  oracle[w] = IF Holding(w) THEN mem.obj[Place(mem, vt[w], w)].val ELSE Empty
    BY DEF OracleAgrees
  <2>1. Ready(harness, oracle, val) /\ val[w] = Read(w) /\ (vt[w] # NoType => val[w] \in Callables)
    BY Between, Cast DEF Readable
  <2>2. /\ val[w] # Null
        /\ val[w] = NoObject <=> oracle[w] = Empty
        /\ val[w] # NoObject => val[w].val = oracle[w]
    BY <2>1, ReadyMatches
  <2> QED BY <2>1, <2>2, Cast DEF Read, Holding
<1> QED BY <1>1, FuzzInvariance, PTL

\* A harness that has returned leaves no callable: what the sanitizers report as
\* leaked, the library has leaked (fuzz_function.cpp:246-249).
THEOREM FuzzLeavesNothing == FuzzSpec => []NothingLeft
<1>1. FuzzInv => NothingLeft
  <2> SUFFICES ASSUME FuzzInv, harness = "over", todo = <<>>, act[Main] = Idle, NEW l \in Loc
               PROVE  mem.obj[l] = NoObject
    BY DEF NothingLeft
  <2>1. \A w \in Wrappers : val[w] = Null /\ val[w] = Read(w) /\ (vt[w] # NoType => val[w] \in Callables)
    BY Between, Cast DEF Readable, Agree
  <2>2. \A w \in Wrappers : vt[w] = NoType
    BY <2>1, Cast
  <2>3. \A s \in Slots : Keepers[s] = NoType
    <3>1. \A b, s, x : Keeps(act[Main], b, s, x) = x
      BY IdleHasNoCall DEF Keeps
    <3>2. \A w \in Wrappers : w \notin Writes(act[Main]) /\ w \notin Threads
      BY Cast, IdleHasNoCall DEF Writes
    <3>3. ASSUME NEW s \in Slots PROVE KeptIn(act, vt, s) = NoType
      <4>1. CASE s = Main
        BY <3>1, <4>1, Cast DEF KeptIn
      <4>2. CASE s \in Wrappers
        BY <2>2, <3>2, <4>2, Cast DEF KeptIn
      <4> QED BY <4>1, <4>2, Cast DEF Slots
    <3> QED BY <3>3 DEF Keepers, Kept
  <2>4. Cells[Main] = Null /\ Null \notin Loc
    BY Cast, IdleHasNoCall, DistinctAssumption DEF Cells, CellOf, Loc, Slots
  <2>5. Consistent(mem, Keepers, Cells, Lives, Kinds)
    BY DEF FuzzInv, IInv
  <2>6. mem.obj[l] # NoObject =>
          \/ \E s \in Slots : Keepers[s] # NoType
          \/ \E a \in Threads : Cells[a] = l
    BY <2>5 DEF Consistent
  <2> QED BY <2>3, <2>4, <2>6, Cast
<1> QED BY <1>1, FuzzInvariance, PTL
=============================================================================
