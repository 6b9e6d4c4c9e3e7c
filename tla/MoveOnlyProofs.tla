--------------------------- MODULE MoveOnlyProofs ---------------------------
(***************************************************************************)
(* Proofs about MoveOnlyFunction: every behaviour of it is one of          *)
(* Function, so the theorems of FunctionProofs hold of it; it is free of   *)
(* data races even where Function is not; and it copies no callable.       *)
(***************************************************************************)
EXTENDS MoveOnlyFunction, FunctionProofs, FiniteSetTheorems

\* Every step of a MoveOnlyFunction is one a Function may take.
LEMMA MoveOnlyStep == MoveOnlyNext => Next
<1> SUFFICES ASSUME NEW a \in Threads, MoveOnlyBegin(a) PROVE Begin(a)
  BY DEF MoveOnlyNext, Next
<1>1. \A w \in Wrappers : Apart(a, {w}, {}) => Apart(a, {}, {w})
  BY WritesAreUses DEF Apart
<1> QED BY <1>1 DEF MoveOnlyBegin, MoveOnlyConstruct, MoveOnlyEmpty, MoveOnlyCall, MoveOnlyMove, Begin

\* A MoveOnlyFunction behaves as a Function whose user never copies it: all that
\* is proved of Function holds of MoveOnlyFunction.
THEOREM MoveOnlyIsFunction == MoveOnlySpec => Spec
<1>1. [MoveOnlyNext]_vars => [Next]_vars
  BY MoveOnlyStep
<1> QED BY <1>1, PTL DEF MoveOnlySpec, Spec

-----------------------------------------------------------------------------
(* Data races                                                               *)

\* No two operations in progress use the same object.
Alone(A) == \A a, b \in Threads : a # b => Uses(A[a]) \cap Uses(A[b]) = {}

\* Thread a's operation is now g, which uses Functions of S only.
Turns(a, g, S) == act' = [act EXCEPT ![a] = g] /\ Uses(g) \subseteq S

\* What a frame uses.
LEMMA FrameUses ==
  /\ Uses(Idle) = {}
  /\ \A op, at, w, o, t, c : Uses(Doing(op, at, w, o, t, c)) = {w, o} \ {Null}
  /\ \A op, w, o, t, d, s, m, h : Uses(Moving(op, w, o, t, d, s, m, h)) = {w, o} \ {Null}
<1>1. \A op, at, w, o, t, c : Uses(Doing(op, at, w, o, t, c)) = {w, o} \ {Null}
  BY DEF Uses, Doing
<1>2. \A op, w, o, t, d, s, m, h : Uses(Moving(op, w, o, t, d, s, m, h)) = {w, o} \ {Null}
  BY DEF Uses, Moving
<1> QED BY <1>1, <1>2 DEF Idle

\* A destructor called by reset() uses what its operation uses.
LEMMA KillUses ==
  ASSUME NEW a, NEW op, NEW w, NEW o, NEW t, NEW m, BeginKill(a, op, w, o, t, m)
  PROVE  \E g : Turns(a, g, {w, o} \ {Null})
<1> DEFINE g == Doing(op, "kill", w, o, t, Place(m, vt[w], w))
<1>1. act' = [act EXCEPT ![a] = g]
  BY DEF BeginKill, Go
<1>2. Uses(g) = {w, o} \ {Null}
  BY FrameUses
<1>3. Turns(a, g, {w, o} \ {Null})
  BY <1>1, <1>2 DEF Turns
<1> QED BY <1>3

\* An operation that starts uses only the objects it was called with.
LEMMA StartUses ==
  ASSUME NEW a \in Threads, NEW w \in Wrappers
  PROVE  /\ DefaultConstruct(a, w) => act' = act
         /\ \A t \in Types, v \in Vals : Construct(a, w, t, v) => \E g : Turns(a, g, {w})
         /\ Destroy(a, w) => act' = act \/ \E g : Turns(a, g, {w})
         /\ Reset(a, w) \/ Call(a, w) => \E g : Turns(a, g, {w})
         /\ \A o : MoveConstruct(a, w, o) => act' = act \/ \E g : Turns(a, g, {w, o})
         /\ \A o : MoveAssign(a, w, o) \/ Swap(a, w, o) => \E g : Turns(a, g, {w, o})
<1>1. DefaultConstruct(a, w) => act' = act
  BY DEF DefaultConstruct
<1>2. ASSUME NEW t \in Types, NEW v \in Vals, Construct(a, w, t, v)
      PROVE  \E g : Turns(a, g, {w})
  <2>1. PICK c : act' = [act EXCEPT ![a] = Doing("construct", "build", w, Null, t, c)]
    BY <1>2 DEF Construct, Go
  <2>2. Uses(Doing("construct", "build", w, Null, t, c)) \subseteq {w}
    BY FrameUses
  <2> QED BY <2>1, <2>2 DEF Turns
<1>3. Destroy(a, w) => act' = act \/ \E g : Turns(a, g, {w})
  BY KillUses DEF Destroy, Turns
<1>4. Reset(a, w) \/ Call(a, w) => \E g : Turns(a, g, {w})
  BY FrameUses, KillUses DEF Reset, Call, Go, Turns
<1>5. \A o : MoveConstruct(a, w, o) => act' = act \/ \E g : Turns(a, g, {w, o})
  BY FrameUses DEF MoveConstruct, Go, Turns
<1>6. ASSUME NEW o, MoveAssign(a, w, o) PROVE \E g : Turns(a, g, {w, o})
  <2>1. CASE vt[w] # NoType
    <3>1. BeginKill(a, "moveassign", w, o, NoType, mem)
      BY <1>6, <2>1 DEF MoveAssign
    <3> QED BY <3>1, KillUses DEF Turns
  <2>2. CASE vt[w] = NoType
    BY <1>6, <2>2, FrameUses DEF MoveAssign, Go, Turns
  <2> QED BY <2>1, <2>2
<1>7. \A o : Swap(a, w, o) => \E g : Turns(a, g, {w, o})
  BY FrameUses DEF Swap, Go, Turns
<1> QED BY <1>1, <1>2, <1>3, <1>4, <1>5, <1>6, <1>7

\* An operation that starts finds its objects used by no other thread.
LEMMA BeginApart ==
  ASSUME NEW a \in Threads, MoveOnlyBegin(a)
  PROVE  \/ act' = act
         \/ \E g, S : Turns(a, g, S) /\ \A b \in Threads \ {a} : S \cap Uses(act[b]) = {}
<1>1. PICK w \in Wrappers : \/ MoveOnlyConstruct(a, w) \/ MoveOnlyEmpty(a, w)
                            \/ MoveOnlyCall(a, w)
                            \/ \E o \in Wrappers : MoveOnlyMove(a, w, o)
  BY DEF MoveOnlyBegin
<1>2. \A W : Apart(a, W, {}) => \A b \in Threads \ {a} : W \cap Uses(act[b]) = {}
  BY DEF Apart
<1>3. CASE MoveOnlyConstruct(a, w)
  BY <1>2, <1>3, StartUses DEF MoveOnlyConstruct
<1>4. CASE MoveOnlyEmpty(a, w)
  BY <1>2, <1>4, StartUses DEF MoveOnlyEmpty
<1>5. CASE MoveOnlyCall(a, w)
  BY <1>2, <1>5, StartUses DEF MoveOnlyCall
<1>6. ASSUME NEW o \in Wrappers, MoveOnlyMove(a, w, o)
      PROVE  \/ act' = act
             \/ \E g, S : Turns(a, g, S) /\ \A b \in Threads \ {a} : S \cap Uses(act[b]) = {}
  BY <1>2, <1>6, StartUses DEF MoveOnlyMove
<1> QED BY <1>1, <1>3, <1>4, <1>5, <1>6

\* An operation that goes on uses no object it did not use before.
LEMMA ContinueUses ==
  ASSUME NEW a \in Threads, act \in [Threads -> Frame], Continue(a)
  PROVE  \E g : Turns(a, g, Uses(act[a]))
<1>1. \A g : Uses(g) = {g.this, g.other} \ {Null}
  BY DEF Uses
<1>2. \A t, d, s : Uses(Onward(act[a], t, d, s)) = Uses(act[a])
  BY DEF Onward, Moving, Uses
<1>3. CASE FinishBuild(a)
  <2>1. CASE act[a].op # "copyassign"
    BY <1>3, <2>1, FrameUses DEF FinishBuild, Go, Turns
  <2>2. CASE act[a].op = "copyassign" /\ vt[act[a].this] = NoType
    BY <1>2, <1>3, <2>2 DEF FinishBuild, Go, Turns
  <2>3. CASE act[a].op = "copyassign" /\ vt[act[a].this] # NoType
    BY <1>1, <1>3, <2>3, KillUses DEF FinishBuild
  <2> QED BY <2>1, <2>2, <2>3
<1>4. CASE ThrowBuild(a) \/ FinishCall(a)
  BY <1>4, FrameUses DEF ThrowBuild, FinishCall, Go, Turns
<1>5. CASE FinishKill(a)
  <2>1. CASE act[a].op = "copyassign"
    BY <1>2, <1>5, <2>1 DEF FinishKill, Go, Turns
  <2>2. CASE act[a].op = "moveassign" /\ vt'[act[a].other] # NoType
    BY <1>2, <1>5, <2>2 DEF FinishKill, Go, Turns
  <2>3. CASE act[a].op # "copyassign" /\ ~(act[a].op = "moveassign" /\ vt'[act[a].other] # NoType)
    BY <1>5, <2>3, FrameUses DEF FinishKill, Go, Turns
  <2> QED BY <2>1, <2>2, <2>3
<1>6. AfterMove(a, act[a]) => \E g : Turns(a, g, Uses(act[a]))
  BY <1>2, FrameUses DEF AfterMove, Go, Turns
<1>7. CASE FinishRetire(a)
  BY <1>6, <1>7 DEF FinishRetire
<1>8. CASE StepMove(a)
  <2>1. \A c : Uses([act[a] EXCEPT !.at = "retire", !.cell = c]) = Uses(act[a])
    BY DEF Uses, Frame
  <2> QED BY <1>6, <1>8, <2>1 DEF StepMove, Go, Turns
<1> QED BY <1>3, <1>4, <1>5, <1>7, <1>8 DEF Continue

\* Objects in use stay apart.
LEMMA AloneStep ==
  ASSUME act \in [Threads -> Frame], Alone(act), [MoveOnlyNext]_vars
  PROVE  Alone(act')
<1>1. CASE act' = act
  BY <1>1
<1>2. ASSUME NEW a \in Threads, NEW g, NEW S, Turns(a, g, S),
             \A b \in Threads \ {a} : S \cap Uses(act[b]) = {}
      PROVE  Alone(act')
  <2>1. act'[a] = g /\ \A b \in Threads \ {a} : act'[b] = act[b]
    BY <1>2 DEF Turns
  <2>2. \A b \in Threads \ {a} : Uses(act'[a]) \cap Uses(act'[b]) = {}
    BY <1>2, <2>1 DEF Turns
  <2> QED BY <2>1, <2>2 DEF Alone
<1>3. ASSUME NEW a \in Threads, Continue(a) PROVE Alone(act')
  BY <1>2, <1>3, ContinueUses DEF Alone
<1>4. ASSUME NEW a \in Threads, MoveOnlyBegin(a) PROVE Alone(act')
  BY <1>1, <1>2, <1>4, BeginApart
<1> QED BY <1>1, <1>3, <1>4 DEF MoveOnlyNext, vars

\* With operator() not const, no callable is changed by one thread while another
\* uses it, whatever it does to itself when called.
THEOREM MoveOnlyRaceFreedom == MoveOnlySpec => []NoDataRace
<1>1. Init => Alone(act)
  BY FrameUses DEF Init, Alone
<1>2. TypeOK /\ Alone(act) /\ [MoveOnlyNext]_vars => Alone(act)'
  BY AloneStep DEF TypeOK
<1>3. IInv /\ Alone(act) => NoDataRace
  <2> SUFFICES ASSUME IInv, Alone(act), NEW a \in Threads, NEW b \in Threads, a # b,
                      NEW l \in Changing(a), l \in Changing(b) \cup Reading(b)
               PROVE  FALSE
    BY DEF NoDataRace
  <2>1. ASSUME NEW d \in Threads, l \in Changing(d) \cup Reading(d)
        PROVE  BelongsTo(l, d, Uses(act[d]) \cup {d})
    <3>1. CASE l \in Reading(d)
      BY <3>1, ReadsWhatItUses
    <3>2. CASE l \in Changing(d) /\ act[d].at = "run"
      <4>1. l \in Reading(d)
        BY <3>2 DEF Changing, Reading
      <4> QED BY <4>1, ReadsWhatItUses
    <3>3. CASE l \in Changing(d) /\ act[d].at # "run"
      <4>1. BelongsTo(l, d, Writes(act[d]) \cup {d})
        BY <3>3, ChangesItsOwn
      <4>2. Writes(act[d]) \subseteq Uses(act[d]) \cup {Null} /\ Null \notin Slots
        BY DistinctAssumption DEF Writes, Uses, Slots
      <4> QED BY <4>1, <4>2 DEF BelongsTo
    <3> QED BY <2>1, <3>1, <3>2, <3>3
  <2>2. BelongsTo(l, a, Uses(act[a]) \cup {a}) /\ BelongsTo(l, b, Uses(act[b]) \cup {b})
    BY <2>1
  <2>3. (Uses(act[a]) \cup {a}) \cap (Uses(act[b]) \cup {b}) \cap Slots = {}
    BY DistinctAssumption DEF IInv, Alone, TypeOK, Frame, Uses, Slots
  <2> QED BY <2>2, <2>3, BelongingsApart
<1> QED BY <1>1, <1>2, <1>3, MoveOnlyIsFunction, Invariance, TypeCorrectness, PTL DEF MoveOnlySpec

-----------------------------------------------------------------------------
(* No callable is copied                                                    *)

\* No operation in progress is a copy.
NoCopies(A) == \A b \in Threads : A[b].op \notin {"copyctor", "copyassign"}

\* The constructions of a callable of type t from the client's that end in this step.
Ended(t) == {a \in Threads : act[a].op = "construct" /\ act[a].ty = t /\ act'[a] = Idle}

\* Slots gain no callable of type t but those whose construction ends.
NoneMore(t) == Cardinality(Holders(t)') <= Cardinality(Holders(t)) + Cardinality(Ended(t))

\* Every slot keeps the callable it kept, or none.
NoneGained == \A s \in Slots : Keepers'[s] \in {Keepers[s], NoType}

\* The slots that hold a callable of a type are the keepers of one.
LEMMA HoldersAreKeepers ==
  ASSUME NEW t
  PROVE  /\ Holders(t) = {s \in Slots : Keepers[s] = t}
         /\ Holders(t)' = {s \in Slots : Keepers'[s] = t}
BY DEF Holders, Keepers

\* How the number of a type's callables follows the slots that hold one: with
\* fewer slots, one for another, and one more.
LEMMA Counting ==
  ASSUME NEW H, NEW H2, NEW C, IsFiniteSet(H), IsFiniteSet(C)
  PROVE  /\ H2 \subseteq H => Cardinality(H2) <= Cardinality(H) + Cardinality(C)
         /\ \A x \in H : \A y : H2 \subseteq (H \ {x}) \cup {y} =>
              Cardinality(H2) <= Cardinality(H) + Cardinality(C)
         /\ \A y : C # {} /\ H2 \subseteq H \cup {y} =>
              Cardinality(H2) <= Cardinality(H) + Cardinality(C)
<1>1. Cardinality(H) \in Nat /\ Cardinality(C) \in Nat
  BY FS_CardinalityType
<1>2. ASSUME NEW S, IsFiniteSet(S), H2 \subseteq S
      PROVE  Cardinality(H2) <= Cardinality(S) /\ Cardinality(H2) \in Nat
  BY <1>2, FS_Subset, FS_CardinalityType
<1>3. H2 \subseteq H => Cardinality(H2) <= Cardinality(H) + Cardinality(C)
  BY <1>1, <1>2
<1>4. ASSUME NEW x \in H, NEW y, H2 \subseteq (H \ {x}) \cup {y}
      PROVE  Cardinality(H2) <= Cardinality(H) + Cardinality(C)
  <2>1. IsFiniteSet(H \ {x}) /\ Cardinality(H \ {x}) = Cardinality(H) - 1
    BY FS_RemoveElement
  <2>2. /\ IsFiniteSet((H \ {x}) \cup {y})
        /\ Cardinality((H \ {x}) \cup {y}) \in {Cardinality(H) - 1, Cardinality(H) - 1 + 1}
    BY <2>1, FS_AddElement
  <2>3. Cardinality(H2) <= Cardinality((H \ {x}) \cup {y}) /\ Cardinality(H2) \in Nat
    BY <1>2, <1>4, <2>2
  <2> QED BY <1>1, <2>2, <2>3
<1>5. ASSUME NEW y, C # {}, H2 \subseteq H \cup {y}
      PROVE  Cardinality(H2) <= Cardinality(H) + Cardinality(C)
  <2>1. /\ IsFiniteSet(H \cup {y})
        /\ Cardinality(H \cup {y}) \in {Cardinality(H), Cardinality(H) + 1}
    BY FS_AddElement
  <2>2. Cardinality(H2) <= Cardinality(H \cup {y}) /\ Cardinality(H2) \in Nat
    BY <1>2, <1>5, <2>1
  <2>3. Cardinality(C) # 0
    BY <1>5, FS_EmptySet
  <2> QED BY <1>1, <2>1, <2>2, <2>3
<1> QED BY <1>3, <1>4, <1>5

\* A step in which no slot gains a callable adds none of any type.
LEMMA NothingGained ==
  ASSUME IsFiniteSet(Slots), IsFiniteSet(Threads), NEW t \in Types, NoneGained
  PROVE  NoneMore(t)
<1>1. Holders(t)' \subseteq Holders(t)
  BY HoldersAreKeepers, DistinctAssumption DEF NoneGained
<1>2. IsFiniteSet(Holders(t)) /\ IsFiniteSet(Ended(t))
  BY FS_Subset DEF Holders, Ended
<1> QED BY <1>1, <1>2, Counting DEF NoneMore

\* A thread that starts an operation of a MoveOnlyFunction enters no copy.
LEMMA MoveOnlyStartsNoCopy ==
  ASSUME NEW a \in Threads, act \in [Threads -> Frame], MoveOnlyBegin(a)
  PROVE  act'[a].op \notin {"copyctor", "copyassign"}
<1>1. act[a] = Idle /\ Idle.op = "none"
  BY DEF MoveOnlyBegin, Idle, Doing
<1>2. /\ \A op, at, w, o, t, c : Doing(op, at, w, o, t, c).op = op
      /\ \A op, w, o, t, d, s, m, h : Moving(op, w, o, t, d, s, m, h).op = op
  BY DEF Doing, Moving
<1>3. \A g : Go(a, g) => act'[a] = g
  BY DEF Go
<1>4. \A op, w, o, t, m : BeginKill(a, op, w, o, t, m) => act'[a].op = op
  BY <1>2, <1>3 DEF BeginKill
<1>5. ASSUME NEW w, NEW t, NEW v,
             \/ DefaultConstruct(a, w) \/ Construct(a, w, t, v)
             \/ Destroy(a, w) \/ Reset(a, w) \/ Call(a, w)
      PROVE  act'[a].op \notin {"copyctor", "copyassign"}
  BY <1>1, <1>2, <1>3, <1>4, <1>5
  DEF DefaultConstruct, Construct, Destroy, Reset, Call
<1>6. ASSUME NEW w, NEW o, MoveConstruct(a, w, o) \/ MoveAssign(a, w, o) \/ Swap(a, w, o)
      PROVE  act'[a].op \notin {"copyctor", "copyassign"}
  BY <1>1, <1>2, <1>3, <1>4, <1>6 DEF MoveConstruct, MoveAssign, Swap
<1> QED BY <1>5, <1>6 DEF MoveOnlyBegin, MoveOnlyConstruct, MoveOnlyEmpty, MoveOnlyCall, MoveOnlyMove

\* An operation that builds, empties or calls a Function gives no slot a callable
\* when it starts.
LEMMA StartGainsNone ==
  ASSUME IInv, NEW a \in Threads, act[a] = Idle, NEW w \in Wrappers, Apart(a, {w}, {}),
         \/ DefaultConstruct(a, w)
         \/ \E t \in Types, v \in Vals : Construct(a, w, t, v)
         \/ Destroy(a, w) \/ Reset(a, w) \/ Call(a, w)
  PROVE  NoneGained
<1>1. Keepers' = Keepers => NoneGained
  BY DEF NoneGained
<1>2. ASSUME Appears(w) PROVE NoneGained
  BY <1>1, <1>2, AppearsStep
<1>3. ASSUME NEW op \in {"reset", "destroy"}, w \in alive, vt[w] # NoType,
             BeginKill(a, op, w, Null, NoType, mem), UNCHANGED <<alive, vt>>
      PROVE  NoneGained
  <2>1. /\ Apart(a, {w}, {Null} \ {Null}) /\ Null \in Wrappers \cup {Null}
        /\ op \in {"reset", "destroy", "moveassign"} /\ op # "moveassign"
    BY <1>3 DEF Apart
  <2>2. Keepers'[w] = NoType /\ \A r \in Slots \ {w} : Keepers'[r] = Keepers[r]
    BY <1>3, <2>1, KillBegins
  <2> QED BY <2>2 DEF NoneGained
<1>4. CASE DefaultConstruct(a, w)
  <2>1. vt[w] = NoType
    BY <1>4 DEF DefaultConstruct, IInv, Unborn
  <2> QED BY <1>2, <1>4, <2>1 DEF DefaultConstruct, Appears
<1>5. ASSUME NEW t \in Types, NEW v \in Vals, Construct(a, w, t, v) PROVE NoneGained
  <2>1. w \notin alive /\ defined' /\ Null \notin Wrappers
    BY <1>5, DistinctAssumption DEF Construct, IInv
  <2>2. PICK c : Builds(a, "construct", w, Null, t, w, c, v)
    BY <1>5 DEF Construct, Builds
  <2>3. Entered(w, c)
    BY <1>5, <2>1, <2>2, BuildsStep
  <2> QED BY <1>1, <2>3 DEF Entered
<1>6. CASE Destroy(a, w)
  <2>1. CASE vt[w] = NoType
    BY <1>2, <1>6, <2>1 DEF Destroy, Appears
  <2>2. CASE vt[w] # NoType
    BY <1>3, <1>6, <2>2 DEF Destroy
  <2> QED BY <2>1, <2>2
<1>7. CASE Reset(a, w)
  BY <1>3, <1>7 DEF Reset
<1>8. CASE Call(a, w)
  <2>1. Apart(a, {}, {w})
    BY WritesAreUses DEF Apart
  <2> QED BY <1>1, <1>8, <2>1, CallBegins
<1> QED BY <1>4, <1>5, <1>6, <1>7, <1>8

\* Neither does a move or a swap when it starts.
LEMMA MoveStartGainsNone ==
  ASSUME IInv, NEW a \in Threads, act[a] = Idle, NEW w \in Wrappers, NEW o \in Wrappers,
         Apart(a, {w, o}, {}),
         MoveConstruct(a, w, o) \/ MoveAssign(a, w, o) \/ Swap(a, w, o)
  PROVE  NoneGained
<1>1. Keepers' = Keepers => NoneGained
  BY DEF NoneGained
<1>2. /\ vt \in [Wrappers -> Types \cup {NoType}] /\ NoType \notin Types
      /\ \A u \in Wrappers \ alive : vt[u] = NoType
      /\ Apart(a, {w}, {}) /\ Apart(a, {w}, {o} \ {Null})
      /\ a \notin Wrappers /\ (defined' = defined => defined')
  BY DistinctAssumption, WritesAreUses DEF IInv, TypeOK, Unborn, Apart
<1>3. CASE MoveConstruct(a, w, o)
  <2>1. /\ w \notin alive /\ o \in alive /\ vt[w] = NoType /\ w # o
        /\ mem' = Fresh(mem, w) /\ defined'
    BY <1>2, <1>3 DEF MoveConstruct
  <2>2. CASE vt[o] = NoType
    <3>1. Appears(w)
      BY <1>3, <2>1, <2>2 DEF MoveConstruct, Appears
    <3> QED BY <1>1, <1>2, <3>1, AppearsStep
  <2>3. CASE vt[o] # NoType
    <3>1. BeginsMove(a, "movector", w, o, vt[o], w, o, NoType, NoType)
      BY <1>3, <2>1, <2>3 DEF MoveConstruct, BeginsMove
    <3>2. FrameOK(a, Moving("movector", w, o, vt[o], w, o, NoType, NoType), alive, vt, mem')
      BY <1>2, <2>1, <2>3 DEF FrameOK, Moving, Moves
    <3> QED BY <1>1, <1>2, <2>1, <2>3, <3>1, <3>2, MoveBegins
  <2> QED BY <2>2, <2>3
<1>4. CASE MoveAssign(a, w, o)
  <2>1. w \in alive /\ o \in alive /\ w # o
    BY <1>4 DEF MoveAssign
  <2>2. CASE vt[w] # NoType
    <3>1. BeginKill(a, "moveassign", w, o, NoType, mem) /\ UNCHANGED <<alive, vt>>
      BY <1>4, <2>2 DEF MoveAssign
    <3>2. Keepers'[w] = NoType /\ \A r \in Slots \ {w} : Keepers'[r] = Keepers[r]
      BY <1>2, <2>1, <2>2, <3>1, KillBegins
    <3> QED BY <3>2 DEF NoneGained
  <2>3. CASE vt[w] = NoType
    <3>1. /\ BeginsMove(a, "moveassign", w, o, vt[o], w, o, NoType, NoType)
          /\ vt[o] # NoType /\ defined'
      BY <1>2, <1>4, <2>3 DEF MoveAssign, BeginsMove
    <3>2. FrameOK(a, Moving("moveassign", w, o, vt[o], w, o, NoType, NoType), alive, vt, mem')
      BY <1>2, <2>1, <2>3, <3>1 DEF FrameOK, Moving, Moves
    <3> QED BY <1>1, <1>2, <2>1, <2>3, <3>1, <3>2, MoveBegins
  <2> QED BY <2>2, <2>3
<1>5. CASE Swap(a, w, o)
  <2>1. /\ w \in alive /\ o \in alive /\ w # o /\ defined'
        /\ vt[w] \in Types \cup {NoType} /\ vt[o] \in Types \cup {NoType}
    BY <1>2, <1>5 DEF Swap
  <2>2. CASE /\ vt[w] # NoType /\ vt[o] # NoType
             /\ BeginsMove(a, "swap", w, o, vt[w], a, w, vt[w], vt[o])
    <3>1. FrameOK(a, Moving("swap", w, o, vt[w], a, w, vt[w], vt[o]), alive, vt, mem')
      BY <2>1, <2>2 DEF FrameOK, Moving, Legs, Moves
    <3> QED BY <1>1, <1>2, <2>1, <2>2, <3>1, MoveBegins
  <2>3. CASE /\ vt[w] # NoType /\ vt[o] = NoType
             /\ BeginsMove(a, "swap", w, o, vt[w], o, w, vt[w], vt[o])
    <3>1. FrameOK(a, Moving("swap", w, o, vt[w], o, w, vt[w], vt[o]), alive, vt, mem')
      BY <2>1, <2>3 DEF FrameOK, Moving, Legs, Moves
    <3> QED BY <1>1, <1>2, <2>1, <2>3, <3>1, MoveBegins
  <2>4. CASE /\ vt[w] = NoType /\ vt[o] # NoType
             /\ BeginsMove(a, "swap", w, o, vt[o], w, o, vt[w], vt[o])
    <3>1. FrameOK(a, Moving("swap", w, o, vt[o], w, o, vt[w], vt[o]), alive, vt, mem')
      BY <2>1, <2>4 DEF FrameOK, Moving, Legs, Moves
    <3> QED BY <1>1, <1>2, <2>1, <2>4, <3>1, MoveBegins
  <2> QED BY <1>5, <2>2, <2>3, <2>4 DEF Swap, BeginsMove
<1> QED BY <1>3, <1>4, <1>5

\* An operation of a MoveOnlyFunction that starts gives no slot a callable.
LEMMA MoveOnlyBeginGainsNone ==
  ASSUME IInv, NEW a \in Threads, MoveOnlyBegin(a)
  PROVE  NoneGained
<1>1. act[a] = Idle
  BY DEF MoveOnlyBegin
<1>2. PICK w \in Wrappers : \/ MoveOnlyConstruct(a, w) \/ MoveOnlyEmpty(a, w)
                            \/ MoveOnlyCall(a, w)
                            \/ \E o \in Wrappers : MoveOnlyMove(a, w, o)
  BY DEF MoveOnlyBegin
<1>3. ASSUME MoveOnlyConstruct(a, w) \/ MoveOnlyEmpty(a, w) \/ MoveOnlyCall(a, w)
      PROVE  NoneGained
  BY <1>1, <1>3, StartGainsNone DEF MoveOnlyConstruct, MoveOnlyEmpty, MoveOnlyCall
<1>4. ASSUME NEW o \in Wrappers, MoveOnlyMove(a, w, o) PROVE NoneGained
  BY <1>1, <1>4, MoveStartGainsNone DEF MoveOnlyMove
<1> QED BY <1>2, <1>3, <1>4

\* What goes on is what was started, or over.
LEMMA ContinueKeepsOp ==
  ASSUME NEW a \in Threads, act \in [Threads -> Frame], Continue(a)
  PROVE  act'[a].op \in {act[a].op, "none"} /\ \A b \in Threads \ {a} : act'[b] = act[b]
<1>1. /\ \A op, at, w, o, t, c : Doing(op, at, w, o, t, c).op = op
      /\ \A f, t, d, s : Onward(f, t, d, s).op = f.op
      /\ Idle.op = "none"
  BY DEF Onward, Doing, Moving, Idle
<1>2. ASSUME NEW g, Go(a, g), g.op \in {act[a].op, "none"}
      PROVE  act'[a].op \in {act[a].op, "none"} /\ \A b \in Threads \ {a} : act'[b] = act[b]
  BY <1>2 DEF Go
<1>3. AfterMove(a, act[a]) =>
        act'[a].op \in {act[a].op, "none"} /\ \A b \in Threads \ {a} : act'[b] = act[b]
  BY <1>1, <1>2 DEF AfterMove
<1>4. CASE FinishBuild(a)
  BY <1>1, <1>2, <1>4 DEF FinishBuild, BeginKill
<1>5. CASE ThrowBuild(a) \/ FinishCall(a)
  BY <1>1, <1>2, <1>5 DEF ThrowBuild, FinishCall
<1>6. CASE FinishKill(a)
  <2>1. PICK g : Go(a, g) /\ g.op \in {act[a].op, "none"}
    BY <1>1, <1>6 DEF FinishKill
  <2> QED BY <1>2, <2>1
<1>7. CASE StepMove(a)
  <2>1. \A c : [act[a] EXCEPT !.at = "retire", !.cell = c].op = act[a].op
    BY DEF Frame
  <2> QED BY <1>2, <1>3, <1>7, <2>1 DEF StepMove
<1>8. CASE FinishRetire(a)
  BY <1>3, <1>8 DEF FinishRetire
<1> QED BY <1>4, <1>5, <1>6, <1>7, <1>8 DEF Continue

\* No MoveOnlyFunction is ever being copied.
LEMMA NoCopiesStep ==
  ASSUME act \in [Threads -> Frame], NoCopies(act), [MoveOnlyNext]_vars
  PROVE  NoCopies(act')
<1>1. CASE act' = act
  BY <1>1
<1>2. ASSUME NEW a \in Threads, MoveOnlyBegin(a) PROVE NoCopies(act')
  <2>1. \A b \in Threads \ {a} : act'[b] = act[b]
    BY <1>2, BeginApart DEF Turns
  <2> QED BY <1>2, <2>1, MoveOnlyStartsNoCopy DEF NoCopies
<1>3. ASSUME NEW a \in Threads, Continue(a) PROVE NoCopies(act')
  BY <1>3, ContinueKeepsOp DEF NoCopies
<1> QED BY <1>1, <1>2, <1>3 DEF MoveOnlyNext, vars

\* The steps that complete a construction and a move: one slot more holds a
\* callable of the constructed type, one instead of another of the moved one.
LEMMA NoneMoreStep ==
  ASSUME IInv, NoCopies(act), IsFiniteSet(Slots), IsFiniteSet(Threads),
         [MoveOnlyNext]_vars, NEW t \in Types
  PROVE  NoneMore(t)
<1>1. IsFiniteSet(Holders(t)) /\ IsFiniteSet(Ended(t))
  BY FS_Subset DEF Holders, Ended
<1>2. Keepers' = Keepers => NoneMore(t)
  BY NothingGained DEF NoneGained
<1>3. CASE UNCHANGED vars
  <2>1. Keepers' = Keepers
    BY <1>3 DEF vars, Keepers, Kept
  <2> QED BY <1>2, <2>1
<1>4. ASSUME NEW a \in Threads, MoveOnlyBegin(a) PROVE NoneMore(t)
  BY <1>4, MoveOnlyBeginGainsNone, NothingGained
<1>5. ASSUME NEW a \in Threads, Continue(a) PROVE NoneMore(t)
  <2>1. CASE FinishBuild(a)
    <3>1. act[a].op \notin {"copyctor", "copyassign"} /\ act[a].at = "build"
      BY <2>1 DEF NoCopies, FinishBuild
    <3>2. act[a].op = "construct" /\ act[a].this \in Wrappers
      BY <3>1, BuildFrame, IsFramed
    <3>3. act'[a] = Idle
      BY <2>1, <3>2 DEF FinishBuild, Go, IInv, TypeOK
    <3>4. /\ Keepers'[act[a].this] = act[a].ty
          /\ \A r \in Slots \ {act[a].this} : Keepers'[r] = Keepers[r]
      BY <2>1, <3>1, ConstructedStep
    <3>5. CASE act[a].ty = t
      <4>1. a \in Ended(t)
        BY <3>2, <3>3, <3>5 DEF Ended
      <4>2. Holders(t)' \subseteq Holders(t) \cup {act[a].this}
        BY <3>4, HoldersAreKeepers
      <4> QED BY <1>1, <4>1, <4>2, Counting DEF NoneMore
    <3>6. CASE act[a].ty # t
      <4>1. Holders(t)' \subseteq Holders(t)
        BY <3>4, <3>6, HoldersAreKeepers
      <4> QED BY <1>1, <4>1, Counting DEF NoneMore
    <3> QED BY <3>5, <3>6
  <2>2. CASE StepMove(a)
    <3>1. MovedKeepers(a) /\ act[a].at = "move"
      BY <2>2, StepMoveStep DEF StepMove
    <3>2. /\ act[a].src \in Slots /\ Keepers[act[a].src] = act[a].ty
          /\ act[a].dst \in Slots /\ act[a].src # act[a].dst
      BY <3>1, MoveIsDefined
    <3>3. CASE act[a].ty = t
      <4>1. act[a].src \in Holders(t)
        BY <3>2, <3>3, HoldersAreKeepers
      <4>2. Holders(t)' \subseteq (Holders(t) \ {act[a].src}) \cup {act[a].dst}
        BY <3>1, HoldersAreKeepers, DistinctAssumption DEF MovedKeepers
      <4> QED BY <1>1, <4>1, <4>2, Counting DEF NoneMore
    <3>4. CASE act[a].ty # t
      <4>1. Holders(t)' \subseteq Holders(t)
        BY <3>1, <3>4, HoldersAreKeepers, DistinctAssumption DEF MovedKeepers
      <4> QED BY <1>1, <4>1, Counting DEF NoneMore
    <3> QED BY <3>3, <3>4
  <2>3. CASE ThrowBuild(a)
    BY <1>2, <2>3, ThrowBuildStep
  <2>4. CASE FinishKill(a)
    BY <1>2, <2>4, FinishKillStep
  <2>5. CASE FinishRetire(a)
    BY <1>2, <2>5, FinishRetireStep
  <2>6. CASE FinishCall(a)
    BY <1>2, <2>6, FinishCallStep
  <2> QED BY <1>5, <2>1, <2>2, <2>3, <2>4, <2>5, <2>6 DEF Continue
<1> QED BY <1>3, <1>4, <1>5 DEF MoveOnlyNext

\* A move-only callable is never duplicated: moves, swaps and assignments of
\* MoveOnlyFunctions, with the moves of any number of threads under way, leave
\* no type with more callables than there were, but for those the clients
\* construct.  (Memory is finite: so are the Functions and the threads.)
THEOREM NoCallableIsCopied ==
  ASSUME IsFiniteSet(Wrappers), IsFiniteSet(Threads)
  PROVE  MoveOnlySpec => NeverCopied
<1>1. IsFiniteSet(Slots)
  BY FS_Union DEF Slots
<1>2. Init => NoCopies(act)
  BY DEF Init, NoCopies, Idle, Doing
<1>3. TypeOK /\ NoCopies(act) /\ [MoveOnlyNext]_vars => NoCopies(act)'
  BY NoCopiesStep DEF TypeOK
<1>4. ASSUME IInv, NoCopies(act), [MoveOnlyNext]_vars
      PROVE  [\A t \in Types :
                Cardinality(Holders(t)') <=
                  Cardinality(Holders(t)) +
                    Cardinality({a \in Threads : /\ act[a].op = "construct" /\ act[a].ty = t
                                                 /\ act'[a] = Idle})]_vars
  BY <1>1, <1>4, NoneMoreStep DEF NoneMore, Ended
<1> QED BY <1>2, <1>3, <1>4, MoveOnlyIsFunction, Invariance, TypeCorrectness, PTL
        DEF MoveOnlySpec, NeverCopied
=============================================================================
