---------------------- MODULE ReentrantRefinementProofs ----------------------
(***************************************************************************)
(* Proof that Function, used by the code it calls, still implements        *)
(* FunctionValues: for any number of Functions, levels, callable types and *)
(* heap cells, every operation takes effect at one instant as the          *)
(* callables' own code sees it.                                            *)
(*                                                                         *)
(* Here an operation does not have its Functions to itself, so what a      *)
(* Function is worth is told by what it holds (Holding) while an operation *)
(* in effect has it between two states, and by its own vtable_ (Standing)  *)
(* otherwise; the two agree when it is at rest.  Section 1 shows that,     *)
(* section 2 what a step of one level leaves of it, section 3 maps the     *)
(* steps to steps of FunctionValues, section 4 takes the stack.            *)
(***************************************************************************)
EXTENDS FunctionRefinementProofs, ReentrantProofs

-----------------------------------------------------------------------------
(* 1. What Functions are worth                                              *)

\* What every slot holds.
Holding == [s \in Slots |-> HeldIn(s)]

\* The slots hold what lies where the vtables they keep look for it.
LEMMA HoldingFrom ==
  ASSUME NEW s \in Slots
  PROVE  /\ HeldIn(s) = Holding[s] /\ Holding[s] = Under(mem, NestedKeepers[s], s)
         /\ Holding'[s] = Under(mem', NestedKeepers'[s], s)
BY DEF Holding, HeldIn, NestedKeepers

\* A slot holds a callable exactly if it keeps one, and then one of that type.
HoldingKinds ==
  \A s \in Slots :
    /\ NestedKeepers[s] = NoType => Holding[s] = NoObject
    /\ NestedKeepers[s] # NoType => Holding[s] \in Callables /\ Holding[s].type = NestedKeepers[s]

LEMMA HoldingKind == Sound => HoldingKinds
<1> SUFFICES ASSUME Sound, NEW s \in Slots
             PROVE  /\ NestedKeepers[s] = NoType => Holding[s] = NoObject
                    /\ NestedKeepers[s] # NoType =>
                         Holding[s] \in Callables /\ Holding[s].type = NestedKeepers[s]
  BY DEF HoldingKinds
<1>1. Holding[s] = Under(mem, NestedKeepers[s], s)
  BY HoldingFrom
<1>2. CASE NestedKeepers[s] # NoType
  <2>1. Live(mem, NestedKeepers[s], s) /\ mem \in Memory
    BY <1>2 DEF Sound, Consistent
  <2>2. /\ mem.obj[Place(mem, NestedKeepers[s], s)] \in Object
        /\ mem.obj[Place(mem, NestedKeepers[s], s)].type = NestedKeepers[s]
    BY <2>1 DEF Live, LiveAt, Memory
  <2> QED BY <1>1, <1>2, <2>2 DEF Under, Object, Callables
<1> QED BY <1>1, <1>2 DEF Under

LEMMA HoldingKindNext == (Sound => HoldingKinds)'
BY HoldingKind, PTL

\* What the invariant says of where the callables of slots and levels lie.
LEMMA NestedPlacesApart ==
  ASSUME Sound
  PROVE  /\ \A s \in Slots : NestedKeepers[s] # NoType =>
              /\ Place(mem, NestedKeepers[s], s) \in Loc
              /\ mem.obj[Place(mem, NestedKeepers[s], s)] # NoObject
              /\ mem.obj[Place(mem, NestedKeepers[s], s)].type = NestedKeepers[s]
              /\ \A b \in Threads : Place(mem, NestedKeepers[s], s) # Cells[b]
              /\ \A r \in Slots \ {s} : NestedKeepers[r] # NoType =>
                   Place(mem, NestedKeepers[r], r) # Place(mem, NestedKeepers[s], s)
         /\ \A b \in Threads : Cells[b] # Null =>
              /\ Cells[b] \in Loc /\ mem.obj[Cells[b]] # NoObject
              /\ \A d \in Threads \ {b} : Cells[d] # Cells[b]
BY DistinctAssumption DEF Sound, Consistent, Live, LiveAt, Loc, Slots

\* A slot that keeps what it kept holds it too, if it was not touched.
LEMMA HoldingSteady ==
  ASSUME NEW s \in Slots, NestedKeepers'[s] = NestedKeepers[s],
         NestedKeepers[s] # NoType =>
           /\ fits(NestedKeepers[s]) \/ mem'.ptr[s] = mem.ptr[s]
           /\ SameAt(mem, mem', Place(mem, NestedKeepers[s], s))
  PROVE  Holding'[s] = Holding[s]
<1>1. /\ Holding[s] = Under(mem, NestedKeepers[s], s)
      /\ Holding'[s] = Under(mem', NestedKeepers[s], s)
  BY HoldingFrom
<1>2. CASE NestedKeepers[s] # NoType
  <2>1. Place(mem', NestedKeepers[s], s) = Place(mem, NestedKeepers[s], s)
    BY <1>2 DEF Place
  <2> QED BY <1>1, <1>2, <2>1 DEF Under, SameAt
<1> QED BY <1>1, <1>2 DEF Under

\* What a Function at rest holds is what its vtable_ says.
RestForm == \A w \in Wrappers : AtRest(w) => Standing[w] = Holding[w]

LEMMA RestHolds == RestForm
<1> SUFFICES ASSUME NEW w \in Wrappers, AtRest(w) PROVE Standing[w] = Holding[w]
  BY DEF RestForm
<1>1. NestedKeepers[w] = vt[w]
  BY HoldsWhatItSays DEF AtRest
<1> QED BY <1>1, HoldingFrom DEF Standing, Slots

LEMMA RestHoldsNext == RestForm'
BY RestHolds, PTL

\* The Functions an operation in effect changes are those it has between two
\* states; one that is not in effect has at most its own target so, which is
\* not born or waits for the end of its old callable.
LEMMA EffectIsBetween ==
  ASSUME Framed, NEW b \in Threads, NEW w \in Wrappers
  PROVE  /\ NestedInEffect(act[b]) => (w \in Writes(act[b]) <=> w \in Between(act[b]))
         /\ ~NestedInEffect(act[b]) /\ w \in Between(act[b]) =>
              /\ act[b].this = w
              /\ w \notin alive \/ (act[b].op = "moveassign" /\ act[b].at = "kill")
<1>1. FrameOK(b, act[b], alive, vt, mem) /\ alive \in SUBSET Wrappers
  BY DEF Framed, Frames, TypeOK
<1>2. CASE act[b].at = "kill"
  <2>1. /\ act[b].op \in {"copyassign", "reset", "destroy", "moveassign"}
        /\ Writes(act[b]) = IF act[b].op = "moveassign" THEN {act[b].this, act[b].other}
                            ELSE {act[b].this}
    BY <1>2, KillFrame
  <2>2. Between(act[b]) = {act[b].this}
    BY <1>2, <2>1 DEF Between
  <2> QED BY <1>2, <2>1, <2>2 DEF NestedInEffect, InEffect
<1>3. CASE act[b].at \in {"move", "retire"}
  <2>1. /\ act[b].op \in {"copyassign", "movector", "moveassign", "swap"}
        /\ Writes(act[b]) = IF act[b].op = "copyassign" THEN {act[b].this}
                            ELSE {act[b].this, act[b].other}
        /\ act[b].this \in Wrappers /\ act[b].other \in Wrappers
    BY <1>3, MoveFrame
  <2>2. Between(act[b]) = Writes(act[b])
    BY <1>3, <2>1, DistinctAssumption DEF Between, Uses
  <2> QED BY <1>3, <2>2 DEF NestedInEffect, InEffect
<1>4. CASE act[b].at \notin {"kill", "move", "retire"}
  <2>1. ~NestedInEffect(act[b])
    BY <1>4 DEF NestedInEffect, InEffect
  <2>2. w \in Between(act[b]) => act[b].op \in {"construct", "copyctor"} /\ act[b].this = w
    BY <1>4 DEF Between
  <2>3. w \in Between(act[b]) => w \notin alive
    BY <1>1, <2>2 DEF FrameOK, Idle, Doing
  <2> QED BY <2>1, <2>2, <2>3
<1> QED BY <1>2, <1>3, <1>4

\* What w is worth as far as frame f of level b, the living Functions al, the
\* holdings S and the standings B tell.
NestedSeen(f, b, w, al, S, B) ==
  IF NestedInEffect(f) /\ w \in Writes(f) THEN Result(f, b, w, S)
  ELSE IF w \in al THEN B[w] ELSE Null

\* What a Function is worth, as seen from any level if no other has it between
\* two states.
NestedValueForm ==
  \A b \in Threads, w \in Wrappers :
    (\A d \in Threads \ {b} : w \notin Between(act[d])) =>
      nestedVal[w] = NestedSeen(act[b], b, w, alive, Holding, Standing)

NestedHomeForm ==
  \A b \in Threads : \A w \in Wrappers :
    NestedInEffect(act[b]) /\ w \in Writes(act[b]) =>
      Home(act[b], b, w) \in {Null} \cup Writes(act[b]) \cup {b}

LEMMA NestedHomes == Framed => NestedHomeForm
BY HomeIsOwn DEF NestedHomeForm, NestedInEffect

LEMMA NestedValueIsSeen == Framed => NestedValueForm
<1> SUFFICES ASSUME Framed, NEW b \in Threads, NEW w \in Wrappers,
                    \A d \in Threads \ {b} : w \notin Between(act[d])
             PROVE  nestedVal[w] = NestedSeen(act[b], b, w, alive, Holding, Standing)
  BY DEF NestedValueForm
<1> DEFINE In == {d \in Threads : NestedInEffect(act[d]) /\ w \in Writes(act[d])}
<1>1. \A d \in In : d = b
  BY EffectIsBetween
<1>2. CASE NestedInEffect(act[b]) /\ w \in Writes(act[b])
  <2>1. In = {b}
    BY <1>1, <1>2
  <2>2. (CHOOSE x \in In : TRUE) = b
    BY <2>1
  <2>3. nestedVal[w] = IF act[b].op = "destroy" THEN Null
                       ELSE IF Home(act[b], b, w) = Null THEN NoObject
                       ELSE HeldIn(Home(act[b], b, w))
    <3> HIDE DEF In
    <3>1. nestedVal[w] =
            LET c == CHOOSE x \in In : TRUE
                home == Home(act[c], c, w)
            IN  CASE In = {} -> IF w \in alive THEN Under(mem, vt[w], w) ELSE Null
                  [] In # {} /\ act[c].op = "destroy" -> Null
                  [] OTHER -> IF home = Null THEN NoObject ELSE HeldIn(home)
      BY DEF nestedVal, In
    <3> QED BY <2>1, <2>2, <3>1
  <2>4. Home(act[b], b, w) \in {Null} \cup Slots
    <3>1. Home(act[b], b, w) \in {Null} \cup Writes(act[b]) \cup {b}
      BY <1>2, NestedHomes DEF NestedHomeForm
    <3>2. Writes(act[b]) \subseteq Wrappers \cup {Null}
      BY DEF Writes, Framed, TypeOK, Frame
    <3> QED BY <3>1, <3>2 DEF Slots
  <2>5. nestedVal[w] = Result(act[b], b, w, Holding)
    BY <2>3, <2>4, HoldingFrom DEF Result
  <2> QED BY <1>2, <2>5 DEF NestedSeen
<1>3. CASE ~(NestedInEffect(act[b]) /\ w \in Writes(act[b]))
  <2>1. In = {}
    BY <1>1, <1>3
  <2>2. nestedVal[w] = IF w \in alive THEN Under(mem, vt[w], w) ELSE Null
    BY <2>1 DEF nestedVal
  <2> QED BY <1>3, <2>2 DEF NestedSeen, Standing
<1> QED BY <1>2, <1>3

LEMMA NestedValueIsSeenNext == (Framed => NestedValueForm)'
BY NestedValueIsSeen, PTL

\* What a Function at rest is worth is what it holds, and Null only if it is dead.
RestValues ==
  \A w \in Wrappers :
    AtRest(w) => /\ nestedVal[w] = IF w \in alive THEN Holding[w] ELSE Null
                 /\ nestedVal[w] = Null <=> w \notin alive

LEMMA RestValued == Sound => RestValues
<1> SUFFICES ASSUME Sound, NEW w \in Wrappers, AtRest(w)
             PROVE  /\ nestedVal[w] = IF w \in alive THEN Holding[w] ELSE Null
                    /\ nestedVal[w] = Null <=> w \notin alive
  BY DEF RestValues
<1> DEFINE In == {d \in Threads : NestedInEffect(act[d]) /\ w \in Writes(act[d])}
<1>1. In = {}
  BY EffectIsBetween DEF Sound, AtRest
<1>2. nestedVal[w] = IF w \in alive THEN Under(mem, vt[w], w) ELSE Null
  BY <1>1 DEF nestedVal
<1>3. Standing[w] = Holding[w] /\ Standing[w] = Under(mem, vt[w], w)
  BY RestHolds DEF RestForm, Standing
<1>4. Holding[w] # Null
  BY HoldingKind, MappingAssumption DEF HoldingKinds, Slots
<1> QED BY <1>2, <1>3, <1>4

LEMMA RestValuedNext == (Sound => RestValues)'
BY RestValued, PTL

\* What an operation will read again is at rest: no operation it is nested in,
\* and none nested in it, has it between two states.
PinsRest == \A b \in Threads : \A w \in Pinned(act[b]) \cap Wrappers : AtRest(w)

LEMMA PinnedRest == NestedInv => PinsRest
<1> SUFFICES ASSUME NestedInv, NEW b \in Threads, NEW w \in Wrappers, w \in Pinned(act[b]),
                    NEW d \in Threads, w \in Between(act[d])
             PROVE  FALSE
  BY DEF PinsRest, AtRest
<1>1. /\ alive \in SUBSET Wrappers
      /\ FrameOK(b, act[b], alive, vt, mem) /\ FrameOK(d, act[d], alive, vt, mem)
  BY DEF NestedInv, Sound, Framed, Frames, TypeOK
<1>2. act[b] # Idle /\ act[d] # Idle
  BY IdleRelies
<1>3. CASE d = b
  <2>1. \/ act[b].op \in {"copyctor", "copyassign"} /\ w = act[b].other
        \/ act[b].op = "call" /\ act[b].at = "run"
    BY <1>1, <1>2 DEF Pinned, FrameOK, Kills, Legs, Moves
  <2>2. CASE act[b].op = "call"
    BY <1>3, <2>1, <2>2 DEF Between
  <2>3. CASE act[b].op \in {"copyctor", "copyassign"}
    <3>1. w = act[b].other /\ act[b].this # act[b].other
      BY <1>1, <1>2, <2>1, <2>3 DEF FrameOK
    <3>2. w \in Between(act[b])
      BY <1>3
    <3>3. CASE act[b].op = "copyassign"
      <4>1. Between(act[b]) \subseteq {act[b].this}
        BY <3>3 DEF Between
      <4> QED BY <3>1, <3>2, <4>1
    <3>4. CASE act[b].op = "copyctor"
      <4>1. act[b].at = "build"
        BY <1>1, <1>2, <3>4 DEF FrameOK
      <4>2. Between(act[b]) = {act[b].this}
        BY <3>4, <4>1 DEF Between
      <4> QED BY <3>1, <3>2, <4>2
    <3> QED BY <2>3, <3>3, <3>4
  <2> QED BY <2>1, <2>2, <2>3
<1>4. CASE d # b
  <2>1. PICK i \in DOMAIN stack : stack[i] = b
    BY <1>2 DEF NestedInv, Stacked
  <2>2. PICK j \in DOMAIN stack : stack[j] = d
    BY <1>2 DEF NestedInv, Stacked
  <2>3. i < j \/ j < i
    BY <1>4, <2>1, <2>2 DEF NestedInv, Stacked
  <2>4. CASE i < j
    <3>1. Alters(act[d]) \cap Pinned(act[b]) = {}
      BY <2>1, <2>2, <2>4 DEF NestedInv, Respectful, Respects
    <3>2. act[d].op # "call"
      BY <1>1, <1>2 DEF Between, FrameOK
    <3> QED BY <1>1, <3>1, <3>2, KeepsElsewhere DEF Alters
  <2>5. CASE j < i
    <3>1. Uses(act[b]) \cap Between(act[d]) = {}
      BY <2>1, <2>2, <2>5 DEF NestedInv, Respectful, Respects
    <3> QED BY <3>1, BetweenIsUsed
  <2> QED BY <2>3, <2>4, <2>5
<1> QED BY <1>3, <1>4

-----------------------------------------------------------------------------
(* 2. What the step of one level leaves                                     *)

\* What the step of level a starts from.
Poised(a) == Ready(a) /\ CopiesHold /\ KillsHold /\ PinsRest

\* No other level has a Function of W between two states or is copying it.
Free(a, W) ==
  \A b \in Threads \ {a} : W \cap (Between(act[b]) \cup BeingCopied(act[b])) = {}

\* Level a takes a step that changes no Functions but W, no other slot than its
\* own and theirs, and no callable another level works on.
NestedTo(a, W) ==
  /\ Poised(a) /\ Onto(a)
  /\ W \subseteq Wrappers /\ Writes(act[a]) \subseteq W /\ Writes(act'[a]) \subseteq W
  /\ Free(a, W)
  /\ \A w \in Wrappers \ W : /\ w \in alive' <=> w \in alive
                             /\ vt'[w] = vt[w]
                             /\ mem'.ptr[w] = mem.ptr[w]
  /\ \A s \in Slots \ (W \cup {a}) : Holding'[s] = Holding[s]
  /\ \A b \in Threads \ {a} : Cells[b] # Null => SameAt(mem, mem', Cells[b])

\* A copy will read its source again.
LEMMA CopiedIsPinned ==
  ASSUME Framed, NEW b \in Threads, NEW w \in Wrappers, w \in BeingCopied(act[b])
  PROVE  w \in Pinned(act[b])
<1>1. FrameOK(b, act[b], alive, vt, mem) /\ (act[b].at = "build" => act[b] # Idle)
  BY DEF Framed, Frames, Idle, Doing
<1>2. act[b].at = "build" /\ w = act[b].other
  BY DEF BeingCopied
<1>3. act[b].op # "construct"
  BY <1>1, <1>2, DistinctAssumption DEF FrameOK
<1>4. act[b].op \in {"construct", "copyctor", "copyassign"}
  BY <1>2, BuildFrame
<1> QED BY <1>2, <1>3, <1>4 DEF Pinned

\* A level that is welcome to the Functions it alters finds them free.
LEMMA FreeAlters ==
  ASSUME NEW a \in Threads, Framed, NEW g, Allowed(a, g), NEW W, W \subseteq Wrappers,
         W \subseteq Alters(g)
  PROVE  Free(a, W)
<1> SUFFICES ASSUME NEW b \in Threads \ {a}, NEW w \in W
             PROVE  w \notin Between(act[b]) /\ w \notin BeingCopied(act[b])
  BY DEF Free
<1>1. Respects(g, act[b]) /\ w \in Wrappers /\ w \in Alters(g)
  BY DEF Allowed
<1>2. w \notin Between(act[b]) /\ w \notin Pinned(act[b])
  BY <1>1, BetweenIsUsed DEF Respects
<1> QED BY <1>1, <1>2, CopiedIsPinned

\* The step of one level, if the memory it changes is its own: at most one
\* location c, where no other level and no other slot has a callable.
LEMMA StepIsNestedTo ==
  ASSUME NEW a \in Threads, Poised(a), Onto(a), NEW W, W \subseteq Wrappers,
         Writes(act[a]) \subseteq W, Writes(act'[a]) \subseteq W, Free(a, W),
         \A w \in Wrappers : w \notin Writes(act[a]) \cup Writes(act'[a]) => vt'[w] = vt[w],
         \A w \in Wrappers \ W : w \in alive' <=> w \in alive,
         \A s \in Slots \ (W \cup {a}) : mem'.ptr[s] = mem.ptr[s],
         NEW c, \A l \in Loc \ {c} : SameAt(mem, mem', l),
         \/ c \notin Loc \/ c = Cells[a] \/ mem.obj[c] = NoObject
         \/ \E s \in (W \cup {a}) \cap Slots :
              NestedKeepers[s] # NoType /\ c = Place(mem, NestedKeepers[s], s)
  PROVE  NestedTo(a, W) /\ LevelSeen(a, act'[a])
<1>1. Sound /\ Ready(a) /\ Sound'
  BY DEF Poised, Ready, Onto
<1>2. /\ \A s \in Slots : NestedKeepers[s] # NoType =>
           /\ Place(mem, NestedKeepers[s], s) \in Loc
           /\ mem.obj[Place(mem, NestedKeepers[s], s)] # NoObject
           /\ \A b \in Threads : Place(mem, NestedKeepers[s], s) # Cells[b]
           /\ \A r \in Slots \ {s} : NestedKeepers[r] # NoType =>
                Place(mem, NestedKeepers[r], r) # Place(mem, NestedKeepers[s], s)
      /\ \A b \in Threads : Cells[b] # Null =>
           /\ Cells[b] \in Loc /\ mem.obj[Cells[b]] # NoObject
           /\ \A d \in Threads \ {b} : Cells[d] # Cells[b]
  BY <1>1, NestedPlacesApart
<1>3. /\ \A s \in Slots \ (W \cup {a}) : NestedKeepers[s] # NoType =>
           Place(mem, NestedKeepers[s], s) # c
      /\ \A b \in Threads \ {a} : Cells[b] # Null => Cells[b] # c
  <2>1. CASE c \notin Loc
    BY <1>2, <2>1
  <2>2. CASE c = Cells[a]
    BY <1>2, <2>2
  <2>3. CASE mem.obj[c] = NoObject
    BY <1>2, <2>3
  <2>4. CASE \E s \in (W \cup {a}) \cap Slots :
               NestedKeepers[s] # NoType /\ c = Place(mem, NestedKeepers[s], s)
    BY <1>2, <2>4
  <2> QED BY <2>1, <2>2, <2>3, <2>4
<1>4. \A b \in Threads \ {a} : Cells[b] # Null => SameAt(mem, mem', Cells[b])
  BY <1>2, <1>3
<1>5. LevelSeen(a, act'[a])
  <2> DEFINE g == act'[a]
  <2>1. Allowed(a, g) /\ \A b \in Threads \ {a} : act'[b] = act[b]
    BY DEF Onto, Allowed
  <2>2. alive' \in SUBSET Wrappers /\ FrameOK(a, g, alive', vt', mem')
    BY <1>1 DEF Sound, Framed, Frames, TypeOK
  <2>3. g = act'[a] /\ \A w \in Wrappers : w \notin Writes(act[a]) \cup Writes(g) => vt'[w] = vt[w]
    OBVIOUS
  <2> HIDE DEF g
  <2>4. LevelSeen(a, g)
    BY <1>1, <2>1, <2>2, <2>3, SeenStep
  <2> QED BY <2>3, <2>4
<1>6. \A s \in Slots \ (W \cup {a}) : Holding'[s] = Holding[s]
  <2> SUFFICES ASSUME NEW s \in Slots \ (W \cup {a}) PROVE Holding'[s] = Holding[s]
    OBVIOUS
  <2>1. NestedKeepers'[s] = NestedKeepers[s]
    BY <1>5 DEF LevelSeen
  <2> QED BY <1>2, <1>3, <2>1, HoldingSteady
<1>7. \A w \in Wrappers \ W : vt'[w] = vt[w] /\ mem'.ptr[w] = mem.ptr[w]
  BY DistinctAssumption DEF Slots
<1> QED BY <1>4, <1>5, <1>6, <1>7 DEF NestedTo

\* A slot of the level's own that keeps what it kept holds it, if the level
\* touched nothing but the callable it was constructing or destroying.
LEMMA HoldingUntouched ==
  ASSUME Sound, NEW a \in Threads, NEW s \in Slots, NestedKeepers'[s] = NestedKeepers[s],
         mem'.ptr = mem.ptr, \A l \in Loc \ {Cells[a]} : SameAt(mem, mem', l)
  PROVE  Holding'[s] = Holding[s]
BY NestedPlacesApart, HoldingSteady

\* The values of the other Functions stay; those of W are what the level's
\* frames tell.
LEMMA NestedStepValues ==
  ASSUME NEW a \in Threads, NEW W, NestedTo(a, W)
  PROVE  /\ \A w \in Wrappers \ W : nestedVal'[w] = nestedVal[w]
         /\ \A w \in W :
              /\ nestedVal[w] = NestedSeen(act[a], a, w, alive, Holding, Standing)
              /\ nestedVal'[w] = NestedSeen(act'[a], a, w, alive', Holding', Standing')
<1>1. /\ Sound /\ Framed /\ Frames /\ SoleBetween(act) /\ KillsHold
      /\ Sound' /\ Framed' /\ Frames'
      /\ alive \in SUBSET Wrappers /\ alive' \in SUBSET Wrappers
  BY DEF NestedTo, Poised, Ready, Onto, Sound, Framed, TypeOK
<1>2. /\ \A b \in Threads, w \in Wrappers :
           (\A d \in Threads \ {b} : w \notin Between(act[d])) =>
             nestedVal[w] = NestedSeen(act[b], b, w, alive, Holding, Standing)
      /\ \A b \in Threads, w \in Wrappers :
           (\A d \in Threads \ {b} : w \notin Between(act'[d])) =>
             nestedVal'[w] = NestedSeen(act'[b], b, w, alive', Holding', Standing')
  BY <1>1, NestedValueIsSeen, NestedValueIsSeenNext DEF NestedValueForm
<1>3. /\ \A b \in Threads \ {a} : act'[b] = act[b]
      /\ W \subseteq Wrappers
      /\ \A b \in Threads \ {a} : \A u \in W : u \notin Between(act[b])
      /\ \A s \in Slots \ (W \cup {a}) : Holding'[s] = Holding[s]
      /\ \A w \in Wrappers \ W : (w \in alive' <=> w \in alive) /\ vt'[w] = vt[w]
                                 /\ mem'.ptr[w] = mem.ptr[w]
  BY DEF NestedTo, Onto, Free
<1>4. \A w \in Wrappers \ W : w \notin Between(act[a]) /\ w \notin Between(act'[a])
  <2>1. /\ FrameOK(a, act[a], alive, vt, mem) /\ FrameOK(a, act'[a], alive', vt', mem')
        /\ Writes(act[a]) \subseteq W /\ Writes(act'[a]) \subseteq W
    BY <1>1 DEF Frames, NestedTo
  <2> QED BY <1>1, <2>1, KeepsElsewhere
<1>5. ASSUME NEW w \in Wrappers \ W, NEW b \in Threads, w \in Between(act[b])
      PROVE  nestedVal'[w] = nestedVal[w]
  <2>1. b # a
    BY <1>4, <1>5
  <2>2. \A d \in Threads \ {b} : w \notin Between(act[d]) /\ w \notin Between(act'[d])
    BY <1>1, <1>3, <1>4, <1>5 DEF SoleBetween
  <2>3. /\ nestedVal[w] = NestedSeen(act[b], b, w, alive, Holding, Standing)
        /\ nestedVal'[w] = NestedSeen(act[b], b, w, alive', Holding', Standing')
    BY <1>2, <1>3, <2>1, <2>2
  <2>4. CASE NestedInEffect(act[b])
    <3>1. w \in Writes(act[b])
      BY <1>1, <1>5, <2>4, EffectIsBetween
    <3>2. Home(act[b], b, w) \in {Null} \cup Writes(act[b]) \cup {b}
      BY <1>1, <2>4, <3>1, NestedHomes DEF NestedHomeForm
    <3>3. \A u \in Writes(act[b]) : u # Null => u \in Wrappers \ W
      <4>1. Writes(act[b]) \subseteq Wrappers \cup {Null}
        BY <1>1 DEF Writes, Framed, TypeOK, Frame
      <4> QED BY <1>1, <1>3, <2>1, <2>4, <4>1, EffectIsBetween
    <3>4. Home(act[b], b, w) # Null => Home(act[b], b, w) \in Slots \ (W \cup {a})
      BY <1>3, <2>1, <3>2, <3>3, DistinctAssumption DEF Slots
    <3> QED BY <1>3, <2>3, <2>4, <3>1, <3>4 DEF NestedSeen, Result
  <2>5. CASE ~NestedInEffect(act[b])
    <3>1. /\ act[b].this = w
          /\ w \notin alive \/ (act[b].op = "moveassign" /\ act[b].at = "kill")
      BY <1>1, <1>5, <2>5, EffectIsBetween
    <3>2. CASE w \notin alive
      BY <1>3, <2>3, <2>5, <3>2 DEF NestedSeen
    <3>3. CASE act[b].at = "kill"
      <4>1. act[b].cell = Place(mem, vt[w], w) /\ Cells[b] = act[b].cell /\ act[b].cell # Null
        BY <1>1, <3>1, <3>3, KillFrame DEF KillsHold
      <4>2. SameAt(mem, mem', Place(mem, vt[w], w))
        BY <2>1, <4>1 DEF NestedTo
      <4>3. Place(mem', vt[w], w) = Place(mem, vt[w], w)
        BY <1>3 DEF Place
      <4>4. Standing'[w] = Standing[w]
        BY <1>3, <4>2, <4>3 DEF Standing, Under, SameAt
      <4> QED BY <1>3, <2>3, <2>5, <4>4 DEF NestedSeen
    <3> QED BY <3>1, <3>2, <3>3
  <2> QED BY <2>4, <2>5
<1>6. ASSUME NEW w \in Wrappers \ W, AtRest(w)
      PROVE  nestedVal'[w] = nestedVal[w]
  <2>1. AtRest(w)'
    BY <1>3, <1>4, <1>6 DEF AtRest
  <2>2. /\ nestedVal[w] = IF w \in alive THEN Holding[w] ELSE Null
        /\ nestedVal'[w] = IF w \in alive' THEN Holding'[w] ELSE Null
    BY <1>1, <1>6, <2>1, RestValued, RestValuedNext DEF RestValues
  <2> QED BY <1>3, <2>2, DistinctAssumption DEF Slots
<1>7. \A w \in Wrappers \ W : nestedVal'[w] = nestedVal[w]
  BY <1>5, <1>6 DEF AtRest
<1> QED BY <1>2, <1>3, <1>7

\* The operation of frame f, as FunctionValues knows it.
NestedCallOf(f) ==
  IF f = Idle THEN NoType
  ELSE [op |-> f.op, this |-> f.this, other |-> f.other, done |-> NestedInEffect(f)]

\* The domains of the mapped variables, and how the calls follow the frames.
LEMMA NestedDomains ==
  /\ nestedVal = [w \in Wrappers |-> nestedVal[w]]
  /\ nestedVal' = [w \in Wrappers |-> nestedVal'[w]]
  /\ nestedCall = [a \in Threads |-> NestedCallOf(act[a])]
  /\ nestedCall' = [a \in Threads |-> NestedCallOf(act'[a])]
<1>1. /\ nestedVal = [w \in Wrappers |-> nestedVal[w]]
      /\ nestedVal' = [w \in Wrappers |-> nestedVal'[w]]
  BY DEF nestedVal
<1>2. nestedCall = [a \in Threads |-> NestedCallOf(act[a])]
  BY DEF nestedCall, NestedCallOf
<1>3. nestedCall' = [a \in Threads |-> NestedCallOf(act'[a])]
  BY DEF nestedCall, NestedCallOf, NestedInEffect, InEffect
<1> QED BY <1>1, <1>2, <1>3

LEMMA NestedStepCalls ==
  ASSUME NEW a \in Threads, NEW W, NestedTo(a, W)
  PROVE  /\ nestedCall[a] = NestedCallOf(act[a])
         /\ nestedCall' = [nestedCall EXCEPT ![a] = NestedCallOf(act'[a])]
         /\ act[a] # Idle => nestedCall[a] # NoType
<1>1. nestedCall[a] = NestedCallOf(act[a])
  BY NestedDomains
<1>2. nestedCall' = [nestedCall EXCEPT ![a] = NestedCallOf(act'[a])]
  <2>1. \A b \in Threads :
          nestedCall'[b] = [nestedCall EXCEPT ![a] = NestedCallOf(act'[a])][b]
    BY NestedDomains DEF NestedTo, Onto
  <2> QED BY <2>1, NestedDomains
<1>3. ASSUME act[a] # Idle PROVE nestedCall[a] # NoType
  <2>1. FrameOK(a, act[a], alive, vt, mem) /\ act[a] \in Frame /\ alive \in SUBSET Wrappers
    BY DEF NestedTo, Poised, Ready, Sound, Framed, Frames, TypeOK
  <2>2. act[a].op \in Ops /\ act[a].this \in Wrappers
    BY <1>3, <2>1 DEF FrameOK, Ops
  <2>3. NestedCallOf(act[a]) \in [op : Ops, this : Wrappers \cup {Null},
                                  other : Wrappers \cup {Null}, done : BOOLEAN]
    BY <1>3, <2>1, <2>2 DEF NestedCallOf, Frame, NestedInEffect, InEffect
  <2> QED BY <1>1, <2>3, MappingAssumption
<1> QED BY <1>1, <1>2, <1>3

\* What holds of copies and dying callables still does, if it does for the one
\* the level begins.
LEMMA NestedStepCarries ==
  ASSUME NEW a \in Threads, NEW W, NestedTo(a, W), NEW g, act'[a] = g,
         g.at = "build" /\ g.op # "construct" =>
           mem'.obj[g.cell].val = Standing'[g.other].val,
         g.at = "kill" => g.cell = Place(mem', vt'[g.this], g.this)
  PROVE  CopiesHold' /\ KillsHold'
<1>1. /\ Sound /\ Framed /\ Frames /\ PinsRest /\ CopiesHold /\ KillsHold
      /\ Framed' /\ Frames' /\ alive \in SUBSET Wrappers /\ alive' \in SUBSET Wrappers
      /\ act'[a] = g /\ \A b \in Threads \ {a} : act'[b] = act[b]
  BY DEF NestedTo, Poised, Ready, Onto, Sound, Framed, TypeOK
<1>2. \A w \in Wrappers \ W : w \notin Between(act'[a])
  <2>1. FrameOK(a, act'[a], alive', vt', mem') /\ Writes(act'[a]) \subseteq W
    BY <1>1 DEF Frames, NestedTo
  <2> QED BY <1>1, <2>1, KeepsElsewhere
<1>3. ASSUME NEW b \in Threads \ {a}, act[b].at = "build", act[b].op # "construct"
      PROVE  mem'.obj[act[b].cell].val = Standing'[act[b].other].val
  <2>0. PICK o : o = act[b].other
    OBVIOUS
  <2>1. /\ act[b].op \in {"copyctor", "copyassign"}
        /\ Cells[b] = act[b].cell /\ act[b].cell # Null
        /\ FrameOK(b, act[b], alive, vt, mem) /\ act[b] # Idle
    BY <1>1, <1>3, BuildFrame DEF Frames, Idle, Doing
  <2>2. o \in Wrappers /\ o \in Pinned(act[b]) /\ o \in BeingCopied(act[b])
    BY <1>1, <1>3, <2>0, <2>1 DEF FrameOK, Pinned, BeingCopied
  <2>3. o \notin W /\ AtRest(o)
    BY <1>1, <2>2 DEF NestedTo, Free, PinsRest
  <2>4. AtRest(o)'
    BY <1>1, <1>2, <2>2, <2>3 DEF AtRest
  <2>5. Standing[o] = Holding[o] /\ Standing'[o] = Holding'[o]
    BY <2>2, <2>3, <2>4, RestHolds, RestHoldsNext DEF RestForm
  <2>6. Holding'[o] = Holding[o]
    BY <2>2, <2>3, DistinctAssumption DEF NestedTo, Slots
  <2>7. SameAt(mem, mem', act[b].cell)
    BY <2>1 DEF NestedTo
  <2> QED BY <1>1, <1>3, <2>0, <2>5, <2>6, <2>7 DEF SameAt, CopiesHold
<1>4. ASSUME NEW b \in Threads \ {a}, act[b].at = "kill"
      PROVE  act[b].cell = Place(mem', vt'[act[b].this], act[b].this)
  <2> DEFINE w == act[b].this
  <2>1. w \in Wrappers /\ w \in Between(act[b])
    BY <1>1, <1>4, KillFrame DEF Between
  <2>2. w \notin W
    BY <2>1 DEF NestedTo, Free
  <2>3. vt'[w] = vt[w] /\ mem'.ptr[w] = mem.ptr[w]
    BY <2>1, <2>2 DEF NestedTo
  <2> QED BY <1>1, <1>4, <2>3 DEF Place, KillsHold
<1> QED BY <1>1, <1>3, <1>4 DEF CopiesHold, KillsHold

\* An operation is entered; nothing has changed yet.
LEMMA NestedEnterQuietly ==
  ASSUME NEW a \in Threads, NEW W, NestedTo(a, W), act[a] = Idle, NEW g, act'[a] = g,
         g.op \in {"construct", "copyctor", "copyassign", "moveassign", "call"},
         ~NestedInEffect(g), g # Idle,
         g.this \in Wrappers, g.other \in Wrappers \cup {Null},
         \A w \in W : (w \in alive' <=> w \in alive) /\ Standing'[w] = Standing[w],
         g.op \in {"construct", "copyctor"} <=> nestedVal[g.this] = Null,
         g.op \in {"copyctor", "copyassign", "moveassign"} =>
           g.other \in Wrappers /\ nestedVal[g.other] # Null,
         g.op = "call" => nestedVal[g.this] \in Callables
  PROVE  NestedValues!Next
<1>1. nestedVal' = nestedVal
  <2>1. ~NestedInEffect(Idle)
    BY DEF NestedInEffect, InEffect, Idle, Doing
  <2>2. \A w \in W : nestedVal'[w] = nestedVal[w]
    BY <2>1, NestedStepValues DEF NestedSeen
  <2>3. \A w \in Wrappers : nestedVal'[w] = nestedVal[w]
    BY <2>2, NestedStepValues
  <2> QED BY <2>3, NestedDomains
<1>2. /\ nestedCall[a] = NoType
      /\ nestedCall' = [nestedCall EXCEPT ![a] =
                          [op |-> g.op, this |-> g.this, other |-> g.other, done |-> FALSE]]
  <2>1. NestedInEffect(g) = FALSE
    BY DEF NestedInEffect, InEffect
  <2> QED BY <2>1, NestedStepCalls DEF NestedCallOf
<1>3. NestedValues!Enter(a, g.op, g.this, g.other)
  BY <1>1, <1>2 DEF NestedValues!Enter, NestedValues!Sensible, NestedValues!Start
<1> QED BY <1>3 DEF NestedValues!Next

\* An operation takes effect as it is entered.
LEMMA NestedEnterInEffect ==
  ASSUME NEW a \in Threads, NEW W, NestedTo(a, W), act[a] = Idle, NEW g, act'[a] = g,
         NestedInEffect(g),
         g.op \in {"movector", "moveassign", "swap", "reset", "destroy"},
         g.this \in Wrappers, g.other \in Wrappers \cup {Null},
         g.op = "movector" <=> nestedVal[g.this] = Null,
         g.op \in {"movector", "moveassign", "swap"} =>
           g.other \in Wrappers /\ nestedVal[g.other] # Null,
         nestedVal' \in NestedValues!Effects(NestedValues!Start(g.op, g.this, g.other))
  PROVE  NestedValues!Next
<1>1. /\ nestedCall[a] = NoType
      /\ nestedCall' = [nestedCall EXCEPT ![a] =
                          [op |-> g.op, this |-> g.this, other |-> g.other, done |-> TRUE]]
  <2>1. g # Idle /\ NestedInEffect(g) = TRUE
    BY DEF NestedInEffect, InEffect, Idle, Doing
  <2> QED BY <2>1, NestedStepCalls DEF NestedCallOf
<1>2. NestedValues!Enter(a, g.op, g.this, g.other)
  <2>1. NestedValues!Sensible(NestedValues!Start(g.op, g.this, g.other))
    BY DEF NestedValues!Sensible, NestedValues!Start
  <2>2. nestedCall' =
          [nestedCall EXCEPT ![a] =
             NestedValues!Done(NestedValues!Start(g.op, g.this, g.other))]
    BY <1>1 DEF NestedValues!Done, NestedValues!Start
  <2> QED BY <1>1, <2>1, <2>2 DEF NestedValues!Enter
<1> QED BY <1>2 DEF NestedValues!Next

\* An operation that was entered takes effect, and ends or goes on.
LEMMA NestedTakesEffect ==
  ASSUME NEW a \in Threads, NEW W, NestedTo(a, W), NEW g, act'[a] = g,
         act[a] # Idle, ~NestedInEffect(act[a]),
         \/ g = Idle
         \/ /\ NestedInEffect(g) /\ g.op = act[a].op
            /\ g.this = act[a].this /\ g.other = act[a].other,
         nestedVal' \in NestedValues!Effects(NestedCallOf(act[a]))
  PROVE  NestedValues!Next
<1> DEFINE c == [op |-> act[a].op, this |-> act[a].this, other |-> act[a].other, done |-> FALSE]
<1>1. NestedCallOf(act[a]) = c
  <2>1. NestedInEffect(act[a]) = FALSE
    BY DEF NestedInEffect, InEffect
  <2> QED BY <2>1 DEF NestedCallOf
<1>2. /\ nestedCall[a] = c /\ nestedCall[a] # NoType
      /\ nestedCall' = [nestedCall EXCEPT ![a] = NestedCallOf(g)]
  BY <1>1, NestedStepCalls
<1>3. \/ NestedCallOf(g) = NoType
      \/ NestedCallOf(g) = [op |-> act[a].op, this |-> act[a].this, other |-> act[a].other,
                            done |-> TRUE]
  <2>1. CASE g = Idle
    BY <2>1 DEF NestedCallOf
  <2>2. CASE g # Idle
    <3>1. NestedInEffect(g) = TRUE
      BY <2>2 DEF NestedInEffect, InEffect
    <3> QED BY <2>2, <3>1 DEF NestedCallOf
  <2> QED BY <2>1, <2>2
<1>4. nestedCall[a].done = FALSE /\ nestedVal' \in NestedValues!Effects(nestedCall[a])
  BY <1>1, <1>2
<1>5. nestedCall' \in {[nestedCall EXCEPT ![a] = NestedValues!Done(c)],
                       [nestedCall EXCEPT ![a] = NoType]}
  BY <1>2, <1>3 DEF NestedValues!Done
<1>6. NestedValues!TakeEffect(a)
  BY <1>2, <1>4, <1>5 DEF NestedValues!TakeEffect
<1> QED BY <1>6 DEF NestedValues!Next

\* An operation that took effect goes on or returns, and nothing is seen of it.
LEMMA NestedGoesOn ==
  ASSUME NEW a \in Threads, NEW W, NestedTo(a, W), NEW g, act'[a] = g, NestedInEffect(act[a]),
         \/ g = Idle
         \/ /\ NestedInEffect(g) /\ g.op = act[a].op
            /\ g.this = act[a].this /\ g.other = act[a].other,
         \A w \in W : nestedVal'[w] = nestedVal[w]
  PROVE  NestedValues!Next \/ UNCHANGED <<nestedVal, nestedCall>>
<1>1. act[a] # Idle /\ NestedInEffect(act[a]) = TRUE
  BY DEF NestedInEffect, InEffect, Idle, Doing
<1>2. /\ nestedCall[a] = [op |-> act[a].op, this |-> act[a].this, other |-> act[a].other,
                          done |-> TRUE]
      /\ nestedCall[a] # NoType /\ nestedCall' = [nestedCall EXCEPT ![a] = NestedCallOf(g)]
  <2>1. NestedCallOf(act[a]) = [op |-> act[a].op, this |-> act[a].this, other |-> act[a].other,
                                done |-> TRUE]
    BY <1>1 DEF NestedCallOf
  <2> QED BY <1>1, <2>1, NestedStepCalls
<1>3. nestedVal' = nestedVal
  <2>1. \A w \in Wrappers : nestedVal'[w] = nestedVal[w]
    BY NestedStepValues
  <2> QED BY <2>1, NestedDomains
<1>4. CASE g = Idle
  <2>1. NestedValues!Return(a)
    BY <1>2, <1>3, <1>4 DEF NestedValues!Return, NestedCallOf
  <2> QED BY <2>1 DEF NestedValues!Next
<1>5. CASE g # Idle
  <2>1. NestedInEffect(g) = TRUE
    BY <1>5 DEF NestedInEffect, InEffect
  <2>2. NestedCallOf(g) = nestedCall[a]
    BY <1>2, <1>5, <2>1 DEF NestedCallOf
  <2> HIDE DEF NestedCallOf
  <2>3. nestedCall' = nestedCall
    BY <1>2, <2>2, NestedDomains
  <2> QED BY <1>3, <2>3
<1> QED BY <1>4, <1>5

\* What Functions are worth that no operation has between two states.
LEMMA NestedRestValue ==
  ASSUME Sound, NEW w \in Wrappers, AtRest(w)
  PROVE  /\ nestedVal[w] = IF w \in alive THEN Holding[w] ELSE Null
         /\ nestedVal[w] = Null <=> w \notin alive
         /\ NestedKeepers[w] = vt[w] /\ Standing[w] = Holding[w]
         /\ vt[w] = NoType => Holding[w] = NoObject
         /\ vt[w] # NoType => Holding[w] \in Callables /\ Holding[w].type = vt[w]
<1>1. NestedKeepers[w] = vt[w]
  BY HoldsWhatItSays DEF AtRest
<1> QED BY <1>1, RestValued, RestHolds, HoldingKind DEF RestValues, RestForm, HoldingKinds, Slots

-----------------------------------------------------------------------------
(* 3. The steps                                                             *)

\* The step is one of FunctionValues or none, and leaves copies the values of
\* their sources and dying callables where their Functions find them.
NestedMaps ==
  /\ NestedValues!Next \/ UNCHANGED <<nestedVal, nestedCall>>
  /\ CopiesHold' /\ KillsHold'

\* An empty Function appears or disappears at one instant.
LEMMA NestedAppearsMaps ==
  ASSUME NEW a \in Threads, Poised(a), act[a] = Idle, NEW w \in Wrappers, AppearsIn(w)
  PROVE  NestedMaps
<1>1. Onto(a)
  BY NestedAppears DEF AppearsIn, AtRest, Poised
<1>2. /\ act'[a] = Idle /\ vt' = vt /\ vt[w] = NoType /\ Framed /\ mem \in Memory
      /\ \A u \in Wrappers \ {w} : u \in alive' <=> u \in alive
  BY DEF AppearsIn, Appears, Poised, Ready, Sound, Framed, TypeOK
<1>3. mem'.obj = mem.obj /\ \A s \in Slots \ {w} : mem'.ptr[s] = mem.ptr[s]
  <2>1. mem' = Point(mem, w, Null) \/ mem' = mem
    BY DEF AppearsIn, Appears, Fresh
  <2>2. /\ Point(mem, w, Null).obj = mem.obj
        /\ Point(mem, w, Null).ptr = [mem.ptr EXCEPT ![w] = Null]
    BY <1>2, PointFields DEF Slots
  <2>3. \A s \in Slots \ {w} : [mem.ptr EXCEPT ![w] = Null][s] = mem.ptr[s]
    BY <1>2 DEF Memory
  <2> QED BY <2>1, <2>2, <2>3
<1>4. NestedTo(a, {w})
  <2>1. Free(a, {w})
    BY <1>2, CopiedIsPinned DEF Free, AppearsIn, AtRest
  <2>2. Null \notin Loc /\ \A l \in Loc \ {Null} : SameAt(mem, mem', l)
    BY <1>3, DistinctAssumption DEF Loc, Slots, SameAt
  <2>3. Writes(act[a]) \subseteq {w} /\ Writes(act'[a]) \subseteq {w}
    BY <1>2, IdleFrame
  <2> QED BY <1>1, <1>2, <1>3, <2>1, <2>2, <2>3, StepIsNestedTo
<1>5. CopiesHold' /\ KillsHold'
  BY <1>2, <1>4, NestedStepCarries DEF Idle, Doing
<1>6. nestedVal[w] \in {Null, NoObject} /\ nestedVal'[w] \in {Null, NoObject}
  <2>1. ~NestedInEffect(Idle)
    BY DEF NestedInEffect, InEffect, Idle, Doing
  <2>2. Standing[w] = NoObject /\ Standing'[w] = NoObject
    BY <1>2 DEF Standing, Under
  <2> QED BY <1>2, <1>4, <2>1, <2>2, NestedStepValues DEF NestedSeen
<1>7. /\ nestedVal' = [nestedVal EXCEPT ![w] = nestedVal'[w]]
      /\ nestedVal'[w] = nestedVal[w] => nestedVal' = nestedVal
  <2>1. \A u \in Wrappers \ {w} : nestedVal'[u] = nestedVal[u]
    BY <1>4, NestedStepValues
  <2> QED BY <2>1, NestedDomains
<1>8. nestedCall[a] = NoType /\ nestedCall' = nestedCall
  <2>1. nestedCall[a] = NoType /\ nestedCall' = [nestedCall EXCEPT ![a] = NoType]
    BY <1>2, <1>4, NestedStepCalls DEF NestedCallOf
  <2> QED BY <2>1, NestedDomains
<1>9. CASE nestedVal'[w] = nestedVal[w]
  BY <1>5, <1>7, <1>8, <1>9 DEF NestedMaps
<1>10. CASE nestedVal'[w] # nestedVal[w]
  <2>1. NestedValues!Instant(a, w)
    BY <1>6, <1>7, <1>8, <1>10 DEF NestedValues!Instant
  <2> QED BY <1>5, <2>1 DEF NestedMaps, NestedValues!Next
<1> QED BY <1>9, <1>10

\* A constructor is entered.
LEMMA NestedBuildsMaps ==
  ASSUME NEW a \in Threads, Poised(a), act[a] = Idle, NEW op, NEW t, NEW v, NEW s, NEW c,
         NEW w \in Wrappers, NEW o, BuildsIn(a, op, w, o, t, v, s, c)
  PROVE  NestedMaps
<1>1. /\ Sound /\ Framed /\ mem \in Memory /\ alive \in SUBSET Wrappers /\ Unborn
      /\ \A u \in alive : u \in Wrappers
  BY DEF Poised, Ready, Sound, Framed, TypeOK
<1>2. /\ Onto(a) /\ NestedKeepers' = NestedKeepers /\ s \in Slots /\ NestedKeepers[s] = NoType
      /\ c \in Loc /\ mem.obj[c] = NoObject
  BY NestedBuilds DEF BuildsIn, Poised
<1> DEFINE g == Doing(op, "build", w, o, t, c)
<1>3. /\ g = [op |-> op, at |-> "build", this |-> w, other |-> o, ty |-> t, cell |-> c,
              dst |-> Null, src |-> Null, mine |-> NoType, theirs |-> NoType]
      /\ act' = [act EXCEPT ![a] = g] /\ Allowed(a, g)
  BY DEF Doing, BuildsIn, Builds, Go
<1> HIDE DEF g
<1>4. /\ op \in {"construct", "copyctor", "copyassign"} /\ t \in Types /\ t # NoType
      /\ o \in Wrappers \cup {Null} /\ AtRest(w)
      /\ op = "construct" => w \notin alive /\ o = Null
      /\ op = "copyctor" => w \notin alive
      /\ op = "copyassign" => w \in alive
      /\ op # "construct" =>
           o \in alive /\ vt[o] = t /\ AtRest(o) /\ v = mem.obj[Place(mem, vt[o], o)].val
      /\ s \in {w, a} /\ mem' = BeginNew(Fresh(mem, s), t, s, c, v)
      /\ alive' = alive /\ vt' = vt
  BY DistinctAssumption DEF BuildsIn, Builds
<1>5. act'[a] = g
  BY <1>1, <1>3 DEF Framed, TypeOK
<1>6. /\ Writes(g) = {w} /\ Alters(g) = {w} /\ g # Idle /\ ~NestedInEffect(g)
      /\ Writes(act[a]) = {}
  BY <1>3, <1>4, IdleFrame DEF Writes, Alters, NestedInEffect, InEffect, Idle, Doing
<1>7. /\ \A l \in Loc \ {c} : SameAt(mem, mem', l)
      /\ mem'.obj[c].val = v
      /\ \A r \in Slots \ {s} : mem'.ptr[r] = mem.ptr[r]
  BY <1>1, <1>2, <1>4, BeginNewContents
<1>8. NestedTo(a, {w})
  <2>1. Free(a, {w})
    BY <1>1, <1>3, <1>6, FreeAlters
  <2> QED BY <1>2, <1>4, <1>5, <1>6, <1>7, <2>1, StepIsNestedTo
<1>9. \A r \in Slots : Holding'[r] = Holding[r]
  BY <1>1, <1>2, <1>7, NestedPlacesApart, HoldingSteady
<1>10. ASSUME NEW u \in Wrappers, AtRest(u) PROVE Standing'[u] = Standing[u]
  <2>1. NestedKeepers[u] = vt[u] /\ Standing[u] = Holding[u] /\ u \in Slots
    BY <1>1, <1>10, NestedRestValue DEF Slots
  <2>2. Standing'[u] = Holding'[u]
    BY <1>2, <1>4, <2>1, HoldingFrom DEF Standing
  <2> QED BY <1>9, <2>1, <2>2
<1>11. CopiesHold' /\ KillsHold'
  <2>1. op # "construct" => mem'.obj[c].val = Standing'[o].val
    <3>1. op # "construct" => Standing'[o] = Standing[o] /\ Standing[o].val = v
      BY <1>1, <1>4, <1>10 DEF Standing, Under
    <3> QED BY <1>7, <3>1
  <2> QED BY <1>3, <1>5, <1>8, <2>1, NestedStepCarries
<1>12. /\ nestedVal[w] = Null <=> w \notin alive
       /\ op # "construct" => o \in Wrappers /\ nestedVal[o] # Null
  BY <1>1, <1>4, NestedRestValue
<1>13. NestedValues!Next
  BY <1>3, <1>4, <1>5, <1>6, <1>8, <1>10, <1>12, NestedEnterQuietly
<1> QED BY <1>11, <1>13 DEF NestedMaps

\* reset() enters the destructor of the Function's callable; as part of a move
\* assignment, before that takes effect.
LEMMA NestedKillsMaps ==
  ASSUME NEW a \in Threads, Poised(a), act[a] = Idle, NEW op, NEW o, NEW w \in Wrappers,
         KillsIn(a, op, w, o)
  PROVE  NestedMaps
<1> DEFINE l == Place(mem, vt[w], w)
           g == Doing(op, "kill", w, o, NoType, l)
           W == IF op = "moveassign" THEN {w, o} ELSE {w}
<1>1. g = [op |-> op, at |-> "kill", this |-> w, other |-> o, ty |-> NoType, cell |-> l,
           dst |-> Null, src |-> Null, mine |-> NoType, theirs |-> NoType]
  BY DEF Doing
<1>2. /\ Sound /\ Framed /\ mem \in Memory /\ alive \in SUBSET Wrappers /\ Onto(a)
      /\ op \in {"reset", "destroy", "moveassign"} /\ o \in Wrappers \cup {Null}
      /\ w \in alive /\ vt[w] # NoType /\ AtRest(w)
      /\ op = "moveassign" => o \in alive /\ o \in Wrappers /\ AtRest(o)
      /\ mem' = Mark(mem, l, "dying") /\ alive' = alive /\ vt' = vt
      /\ act' = [act EXCEPT ![a] = g] /\ Allowed(a, g)
  BY NestedKills DEF KillsIn, BeginKill, Go, Poised, Ready, Sound, Framed, TypeOK
<1>3. act'[a] = g
  BY <1>2 DEF Framed, TypeOK
<1> HIDE DEF g, l
<1>4. /\ Writes(g) = W /\ Alters(g) = W /\ g # Idle /\ Writes(act[a]) = {}
      /\ NestedInEffect(g) <=> op # "moveassign"
  BY <1>1, <1>2, IdleFrame DEF Writes, Alters, NestedInEffect, InEffect, Idle, Doing
<1>5. (\A k \in Loc : SameAt(mem, mem', k)) /\ mem'.ptr = mem.ptr
  BY <1>2, MarkContents, PtrFields
<1>6. W \subseteq Wrappers /\ w \in W
  BY <1>2
<1> HIDE DEF W
<1>7. NestedTo(a, W)
  <2>1. Free(a, W)
    BY <1>2, <1>4, <1>6, FreeAlters
  <2>2. Null \notin Loc
    BY DistinctAssumption DEF Loc, Slots
  <2> QED BY <1>2, <1>3, <1>4, <1>5, <1>6, <2>1, <2>2, StepIsNestedTo
<1>8. CopiesHold' /\ KillsHold'
  <2>1. l = Place(mem', vt'[w], w)
    BY <1>2, <1>5 DEF l, Place
  <2> QED BY <1>1, <1>3, <1>7, <2>1, NestedStepCarries
<1>9. nestedVal[w] # Null /\ (op = "moveassign" => nestedVal[o] # Null)
  BY <1>2, NestedRestValue
<1>10. \A u \in Wrappers \ W : nestedVal'[u] = nestedVal[u]
  BY <1>7, NestedStepValues
<1>11. CASE op # "moveassign"
  <2>1. W = {w} /\ nestedVal'[w] = Result(g, a, w, Holding')
    BY <1>3, <1>4, <1>6, <1>7, <1>11, NestedStepValues DEF NestedSeen, W
  <2>2. Result(g, a, w, Holding') = IF op = "destroy" THEN Null ELSE NoObject
    BY <1>1, <1>2, <1>11 DEF Result, Home
  <2>3. nestedVal' = [nestedVal EXCEPT ![w] = IF op = "destroy" THEN Null ELSE NoObject]
    BY <1>10, <2>1, <2>2, NestedDomains
  <2>4. nestedVal' \in NestedValues!Effects(NestedValues!Start(op, w, o))
    BY <1>2, <1>11, <2>3 DEF NestedValues!Effects, NestedValues!Start
  <2>5. NestedValues!Next
    BY <1>1, <1>2, <1>3, <1>4, <1>7, <1>9, <1>11, <2>4, NestedEnterInEffect
  <2> QED BY <1>8, <2>5 DEF NestedMaps
<1>12. CASE op = "moveassign"
  <2>1. ASSUME NEW u \in {w, o} PROVE Standing'[u] = Standing[u]
    <3>1. u \in Wrappers /\ u \in Slots /\ NestedKeepers[u] = vt[u] /\ vt'[u] = vt[u]
      BY <1>2, <1>12, <2>1, NestedRestValue DEF Slots
    <3>2. Place(mem', vt[u], u) = Place(mem, vt[u], u)
      BY <1>5 DEF Place
    <3>3. vt[u] # NoType => SameAt(mem, mem', Place(mem, vt[u], u))
      BY <1>2, <1>5, <3>1, NestedPlacesApart
    <3> QED BY <3>1, <3>2, <3>3 DEF Standing, Under, SameAt
  <2>2. NestedValues!Next
    BY <1>1, <1>2, <1>3, <1>4, <1>7, <1>9, <1>12, <2>1, NestedEnterQuietly DEF W
  <2> QED BY <1>8, <2>2 DEF NestedMaps
<1> QED BY <1>11, <1>12

\* A vtable's move is entered: the operation takes effect.
LEMMA NestedMovesMaps ==
  ASSUME NEW a \in Threads, Poised(a), act[a] = Idle, NEW op, NEW t, NEW dst, NEW src,
         NEW mine, NEW theirs, NEW w \in Wrappers, NEW o \in Wrappers,
         MovesIn(a, op, w, o, t, dst, src, mine, theirs)
  PROVE  NestedMaps
<1> DEFINE g == Moving(op, w, o, t, dst, src, mine, theirs)
<1>1. g = [op |-> op, at |-> "move", this |-> w, other |-> o, ty |-> t, cell |-> Null,
           dst |-> dst, src |-> src, mine |-> mine, theirs |-> theirs]
  BY DEF Moving
<1>2. /\ Sound /\ Framed /\ mem \in Memory
      /\ Onto(a) /\ NestedKeepers' = NestedKeepers /\ NestedKeepers[dst] = NoType
  BY NestedMoves DEF MovesIn, Poised, Ready, Sound, Framed, TypeOK
<1>3. /\ op \in {"movector", "moveassign", "swap"}
      /\ dst \in {a, w, o} /\ src \in {w, o} /\ dst # src
      /\ dst # a => vt[dst] = NoType
      /\ dst = a => op = "swap" /\ src = w /\ theirs # NoType
      /\ op = "swap" => mine = vt[w] /\ theirs = vt[o]
      /\ op # "swap" => dst = w /\ src = o
      /\ o \in alive /\ w # o /\ (op = "movector" <=> w \notin alive)
      /\ AtRest(w) /\ AtRest(o) /\ Allowed(a, g)
      /\ act' = [act EXCEPT ![a] = g] /\ mem' \in {mem, Fresh(mem, dst)}
      /\ alive' = alive /\ vt' = vt
  BY DEF MovesIn, BeginsMove, Go
<1>4. act'[a] = g
  BY <1>2, <1>3 DEF Framed, TypeOK
<1> HIDE DEF g
<1>5. /\ Writes(g) = {w, o} /\ Alters(g) = {w, o} /\ NestedInEffect(g) /\ Writes(act[a]) = {}
  BY <1>1, <1>3, IdleFrame DEF Writes, Alters, NestedInEffect, InEffect
<1>6. a \notin Wrappers /\ Null \notin Wrappers /\ Null # a /\ a \in Slots /\ Wrappers \subseteq Slots
  BY DistinctAssumption DEF Slots
<1>7. mem'.obj = mem.obj /\ \A s \in Slots \ {dst} : mem'.ptr[s] = mem.ptr[s]
  <2>1. /\ Point(mem, dst, Null).obj = mem.obj
        /\ Point(mem, dst, Null).ptr = [mem.ptr EXCEPT ![dst] = Null]
    BY <1>2, <1>3, <1>6, PointFields
  <2>2. \A s \in Slots \ {dst} : [mem.ptr EXCEPT ![dst] = Null][s] = mem.ptr[s]
    BY <1>2 DEF Memory
  <2> QED BY <1>3, <2>1, <2>2 DEF Fresh
<1>8. \A s \in Slots : Holding'[s] = Holding[s]
  BY <1>2, <1>7, HoldingSteady DEF SameAt
<1>9. NestedTo(a, {w, o})
  <2>1. Free(a, {w, o})
    BY <1>2, <1>3, <1>5, FreeAlters
  <2>2. Null \notin Loc /\ \A l \in Loc \ {Null} : SameAt(mem, mem', l)
    BY <1>7, DistinctAssumption DEF Loc, Slots, SameAt
  <2>3. \A s \in Slots \ ({w, o} \cup {a}) : mem'.ptr[s] = mem.ptr[s]
    BY <1>3, <1>7
  <2> QED BY <1>2, <1>3, <1>4, <1>5, <2>1, <2>2, <2>3, StepIsNestedTo
<1>10. CopiesHold' /\ KillsHold'
  BY <1>1, <1>4, <1>9, NestedStepCarries
<1>11. /\ \A u \in Wrappers \ {w, o} : nestedVal'[u] = nestedVal[u]
       /\ nestedVal'[w] = Result(g, a, w, Holding') /\ nestedVal'[o] = Result(g, a, o, Holding')
  BY <1>4, <1>5, <1>9, NestedStepValues DEF NestedSeen
<1>12. /\ nestedVal[o] = Holding[o] /\ nestedVal[o] # Null
       /\ nestedVal[w] = Null <=> w \notin alive
       /\ w \in alive => nestedVal[w] = Holding[w]
       /\ vt[w] = NoType => Holding[w] = NoObject
       /\ vt[o] = NoType => Holding[o] = NoObject
  BY <1>2, <1>3, NestedRestValue
<1>13. CASE op # "swap"
  <2>1. nestedVal'[o] = NoObject /\ nestedVal'[w] = nestedVal[o]
    BY <1>1, <1>3, <1>6, <1>8, <1>11, <1>12, <1>13 DEF Result, Home, Spot
  <2>2. nestedVal' = [nestedVal EXCEPT ![o] = NoObject, ![w] = nestedVal[o]]
    BY <1>11, <2>1, NestedDomains
  <2>3. nestedVal' \in NestedValues!Effects(NestedValues!Start(op, w, o))
    BY <1>3, <1>13, <2>2 DEF NestedValues!Effects, NestedValues!Start
  <2>4. NestedValues!Next
    BY <1>1, <1>3, <1>4, <1>5, <1>9, <1>12, <1>13, <2>3, NestedEnterInEffect
  <2> QED BY <1>10, <2>4 DEF NestedMaps
<1>14. CASE op = "swap"
  <2>1. nestedVal'[w] = nestedVal[o]
    BY <1>1, <1>3, <1>6, <1>8, <1>11, <1>12, <1>14, DistinctAssumption
    DEF Result, Home, Spot
  <2>2. nestedVal'[o] = nestedVal[w]
    BY <1>1, <1>3, <1>6, <1>8, <1>11, <1>12, <1>14, DistinctAssumption
    DEF Result, Home, Spot
  <2>3. nestedVal' = [nestedVal EXCEPT ![w] = nestedVal[o], ![o] = nestedVal[w]]
    BY <1>11, <2>1, <2>2, NestedDomains
  <2>4. nestedVal' \in NestedValues!Effects(NestedValues!Start(op, w, o))
    BY <1>14, <2>3 DEF NestedValues!Effects, NestedValues!Start
  <2>5. NestedValues!Next
    BY <1>1, <1>3, <1>4, <1>5, <1>9, <1>12, <1>14, <2>4, NestedEnterInEffect
  <2> QED BY <1>10, <2>5 DEF NestedMaps
<1> QED BY <1>13, <1>14

\* operator() is entered.
LEMMA NestedCallsMaps ==
  ASSUME NEW a \in Threads, Poised(a), act[a] = Idle, NEW w \in Wrappers, CallsIn(a, w)
  PROVE  NestedMaps
<1> DEFINE g == Doing("call", "run", w, Null, vt[w], Place(mem, vt[w], w))
           W == IF vt[w] \in Mutable THEN {w} ELSE {}
<1>1. g = [op |-> "call", at |-> "run", this |-> w, other |-> Null, ty |-> vt[w],
           cell |-> Place(mem, vt[w], w), dst |-> Null, src |-> Null,
           mine |-> NoType, theirs |-> NoType]
  BY DEF Doing
<1>2. /\ Sound /\ Framed /\ Onto(a) /\ AtRest(w)
      /\ act' = [act EXCEPT ![a] = g]
      /\ alive' = alive /\ mem' = mem /\ vt' = vt /\ w \in alive /\ vt[w] # NoType
  BY NestedCalls DEF CallsIn, Call, Go, AtRest, Poised, Ready, Sound
<1>3. act'[a] = g
  BY <1>2 DEF Framed, TypeOK
<1> HIDE DEF g
<1>4. Writes(g) \subseteq W /\ ~NestedInEffect(g) /\ g # Idle /\ Writes(act[a]) = {} /\ W \subseteq Wrappers
  BY <1>1, IdleFrame DEF Writes, NestedInEffect, InEffect, Idle, Doing
<1>5. NestedTo(a, W)
  <2>1. Free(a, W)
    BY <1>2 DEF Free, CallsIn, AtRest
  <2> HIDE DEF W
  <2>2. Null \notin Loc /\ \A l \in Loc \ {Null} : SameAt(mem, mem', l)
    BY <1>2, DistinctAssumption DEF Loc, Slots, SameAt
  <2> QED BY <1>2, <1>3, <1>4, <2>1, <2>2, StepIsNestedTo
<1>6. CopiesHold' /\ KillsHold'
  BY <1>1, <1>3, <1>5, NestedStepCarries
<1>7. nestedVal[w] \in Callables
  BY <1>2, NestedRestValue
<1>8. Standing' = Standing
  BY <1>2 DEF Standing
<1>9. NestedValues!Next
  <2>1. nestedVal[w] # Null
    BY <1>7, MappingAssumption
  <2>2. \A u \in W : (u \in alive' <=> u \in alive) /\ Standing'[u] = Standing[u]
    BY <1>2, <1>8
  <2> HIDE DEF W
  <2> QED BY <1>1, <1>3, <1>4, <1>5, <1>7, <2>1, <2>2, NestedEnterQuietly
<1> QED BY <1>6, <1>9 DEF NestedMaps

\* Every operation that begins maps.
LEMMA OperateMaps ==
  ASSUME NEW a \in Threads, Poised(a), act[a] = Idle, Stacked, Operate(a)
  PROVE  NestedMaps
<1>1. Begun(a)
  BY OperateBegins DEF Poised
<1> QED
  BY <1>1, NestedAppearsMaps, NestedBuildsMaps, NestedKillsMaps, NestedMovesMaps,
     NestedCallsMaps
  DEF Begun

\* A complete copy is what its source is.
LEMMA NestedCloneIsSource ==
  ASSUME NEW a \in Threads, Poised(a), act[a].at = "build", act[a].op # "construct"
  PROVE  /\ act[a].other \in Wrappers /\ act[a].other # act[a].this
         /\ nestedVal[act[a].other] = [type |-> mem.obj[act[a].cell].type,
                                       val |-> mem.obj[act[a].cell].val]
<1> DEFINE f == act[a]
           o == act[a].other
<1>1. Sound /\ Framed /\ CopiesHold /\ PinsRest /\ alive \in SUBSET Wrappers
  BY DEF Poised, Ready, Sound, Framed, TypeOK
<1>2. /\ f.op \in {"copyctor", "copyassign"}
      /\ o \in alive /\ o # f.this /\ vt[o] = f.ty /\ f.ty # NoType
      /\ Cells[a] = f.cell /\ Lives[a] = "raw" /\ Kinds[a] = f.ty /\ f.cell # Null
  <2>1. FrameOK(a, f, alive, vt, mem) /\ f # Idle
    BY <1>1 DEF Framed, Frames, Idle, Doing
  <2>2. o \in alive /\ o # f.this
    BY <2>1 DEF FrameOK, Kills, Moves, Legs
  <2> QED BY <1>1, <2>2, BuildFrame
<1>3. o \in Wrappers /\ AtRest(o)
  BY <1>1, <1>2 DEF PinsRest, Pinned
<1>4. /\ nestedVal[o] = Holding[o] /\ Holding[o] = Standing[o]
      /\ Holding[o] \in Callables /\ Holding[o].type = f.ty
  BY <1>1, <1>2, <1>3, NestedRestValue
<1>5. mem.obj[f.cell].type = f.ty
  BY <1>1, <1>2 DEF Sound, Consistent
<1>6. mem.obj[f.cell].val = Holding[o].val
  BY <1>1, <1>2, <1>4 DEF CopiesHold
<1>7. Holding[o] = [type |-> Holding[o].type, val |-> Holding[o].val]
  BY <1>4 DEF Callables
<1> QED BY <1>2, <1>3, <1>4, <1>5, <1>6, <1>7

\* The constructor of a new Function's callable returns.
LEMMA NestedConstructedMaps ==
  ASSUME NEW a \in Threads, Poised(a), FinishBuild(a), act[a].op # "copyassign"
  PROVE  NestedMaps
<1> DEFINE f == act[a]
           w == act[a].this
           x == [type |-> mem.obj[f.cell].type, val |-> mem.obj[f.cell].val]
<1>1. /\ Sound /\ Framed /\ mem \in Memory /\ alive \in SUBSET Wrappers /\ Allowed(a, f) /\ Onto(a)
      /\ vt \in [Wrappers -> Types \cup {NoType}]
  BY NestedConstructed DEF Poised, Ready, Sound, Framed, TypeOK
<1>2. /\ f.at = "build" /\ mem' = EndNew(mem, f.ty, w, f.cell)
      /\ act'[a] = Idle /\ alive' = alive \cup {w}
      /\ vt' = [vt EXCEPT ![w] = IF f.op = "construct" THEN f.ty ELSE vt[f.other]]
  BY <1>1 DEF FinishBuild, Go, Framed, TypeOK
<1>3. /\ f.op \in {"construct", "copyctor"} /\ w \in Wrappers /\ w \in Slots
      /\ f.ty \in Types /\ f.ty # NoType /\ f.cell \in Loc
      /\ Writes(f) = {w} /\ Alters(f) = {w} /\ CellFor(f.ty, f.cell, w)
      /\ f.op = "copyctor" => vt[f.other] = f.ty
      /\ Cells[a] = f.cell /\ f.cell # Null
      /\ f # Idle /\ ~NestedInEffect(f)
  BY <1>1, <1>2, BuildFrame DEF Slots, Idle, Doing, NestedInEffect, InEffect, Alters
<1>4. vt'[w] = f.ty /\ \A u \in Wrappers \ {w} : vt'[u] = vt[u]
  BY <1>1, <1>2, <1>3
<1>5. /\ \A l \in Loc : SameAt(mem, mem', l)
      /\ \A r \in Slots \ {w} : mem'.ptr[r] = mem.ptr[r]
      /\ Place(mem', f.ty, w) = f.cell
  <2>1. mem \in Memory
    BY <1>1
  <2>2. \A t, c, s : s \in Slots /\ c \in Loc /\ CellFor(t, c, s) /\ mem' = EndNew(mem, t, s, c) =>
          /\ \A l \in Loc : SameAt(mem, mem', l)
          /\ \A r \in Slots \ {s} : mem'.ptr[r] = mem.ptr[r]
          /\ Place(mem', t, s) = c
    BY <2>1, EndNewContents
  <2> QED BY <1>2, <1>3, <2>2
<1>6. Standing'[w] = x
  <2>1. Standing'[w] = Under(mem', f.ty, w)
    BY <1>3, <1>4 DEF Standing
  <2> QED BY <1>3, <1>5, <2>1 DEF Under, SameAt
<1>7. NestedTo(a, {w})
  <2>1. Free(a, {w})
    BY <1>1, <1>3, FreeAlters
  <2>2. Null \notin Loc /\ \A l \in Loc \ {Null} : SameAt(mem, mem', l)
    BY <1>5, DistinctAssumption DEF Loc, Slots
  <2>3. \A u \in Wrappers \ {w} : u \in alive' <=> u \in alive
    BY <1>2
  <2>4. /\ Writes(act[a]) \subseteq {w} /\ Writes(act'[a]) \subseteq {w} /\ {w} \subseteq Wrappers
        /\ \A u \in Wrappers : u \notin Writes(act[a]) \cup Writes(act'[a]) => vt'[u] = vt[u]
    BY <1>2, <1>3, <1>4, IdleFrame
  <2>5. \A r \in Slots \ ({w} \cup {a}) : mem'.ptr[r] = mem.ptr[r]
    BY <1>5
  <2> HIDE DEF w, f
  <2> QED BY <1>1, <2>1, <2>2, <2>3, <2>4, <2>5, StepIsNestedTo
<1>8. CopiesHold' /\ KillsHold'
  BY <1>2, <1>7, NestedStepCarries DEF Idle, Doing
<1>9. nestedVal' = [nestedVal EXCEPT ![w] = x]
  <2>1. ~NestedInEffect(Idle)
    BY DEF NestedInEffect, InEffect, Idle, Doing
  <2>2. nestedVal'[w] = NestedSeen(Idle, a, w, alive', Holding', Standing')
    BY <1>2, <1>7, NestedStepValues
  <2>3. nestedVal'[w] = x
    BY <1>2, <1>6, <2>1, <2>2 DEF NestedSeen
  <2>4. \A u \in Wrappers \ {w} : nestedVal'[u] = nestedVal[u]
    BY <1>7, NestedStepValues
  <2> QED BY <2>3, <2>4, NestedDomains
<1>10. x \in Callables
  <2>1. mem.obj[f.cell] \in Object
    BY <1>1, <1>3, NestedPlacesApart DEF Memory
  <2> QED BY <2>1 DEF Object, Callables
<1>11. NestedCallOf(f).op = f.op /\ NestedCallOf(f).this = w /\ NestedCallOf(f).other = f.other
  BY <1>3 DEF NestedCallOf
<1>12. f.op = "copyctor" => x = nestedVal[f.other]
  BY <1>2, NestedCloneIsSource
<1> HIDE DEF x, w
<1>13. nestedVal' \in NestedValues!Effects(NestedCallOf(f))
  <2>1. CASE f.op = "construct"
    BY <1>9, <1>10, <1>11, <2>1 DEF NestedValues!Effects
  <2>2. CASE f.op = "copyctor"
    BY <1>9, <1>11, <1>12, <2>2 DEF NestedValues!Effects
  <2> QED BY <1>3, <2>1, <2>2
<1>14. NestedValues!Next
  BY <1>2, <1>3, <1>7, <1>13, NestedTakesEffect
<1> QED BY <1>8, <1>14 DEF NestedMaps

\* The constructor throws: the operation fails without effect.
LEMMA NestedThrowMaps ==
  ASSUME NEW a \in Threads, Poised(a), ThrowBuild(a)
  PROVE  NestedMaps
<1> DEFINE f == act[a]
           w == act[a].this
<1>1. /\ Sound /\ Framed /\ mem \in Memory /\ alive \in SUBSET Wrappers /\ Allowed(a, f) /\ Onto(a)
  BY NestedThrow DEF Poised, Ready, Sound, Framed, TypeOK
<1>2. /\ f.at = "build" /\ mem' = Erase(mem, f.cell) /\ alive' = alive /\ vt' = vt
      /\ act'[a] = Idle
  BY <1>1 DEF ThrowBuild, Go, Framed, TypeOK
<1>3. /\ f.op \in {"construct", "copyctor", "copyassign"} /\ w \in Wrappers /\ w \in Slots
      /\ Writes(f) = {w} /\ Alters(f) = {w} /\ f # Idle /\ ~NestedInEffect(f)
      /\ Cells[a] = f.cell /\ f.cell # Null
      /\ f.op # "copyassign" => w \notin alive
      /\ \A r, x : Keeps(f, a, r, x) = x
  BY <1>1, <1>2, BuildFrame DEF Slots, Idle, Doing, NestedInEffect, InEffect, Alters
<1>4. (\A l \in Loc \ {f.cell} : SameAt(mem, mem', l)) /\ mem'.ptr = mem.ptr
  BY <1>1, <1>2, EraseContents, PtrFields
<1>5. NestedTo(a, {w}) /\ LevelSeen(a, act'[a])
  <2>1. Free(a, {w})
    BY <1>1, <1>3, FreeAlters
  <2>2. Writes(act[a]) \subseteq {w} /\ Writes(act'[a]) \subseteq {w} /\ {w} \subseteq Wrappers
    BY <1>2, <1>3, IdleFrame
  <2>3. f.cell = Cells[a]
    BY <1>3
  <2> HIDE DEF w, f
  <2> QED BY <1>1, <1>2, <1>4, <2>1, <2>2, <2>3, StepIsNestedTo
<1>6. CopiesHold' /\ KillsHold'
  BY <1>2, <1>5, NestedStepCarries DEF Idle, Doing
<1>7. w \in alive => Standing'[w] = Standing[w]
  <2>1. NestedKeepers[w] = vt[w]
    BY <1>3, <1>5 DEF LevelSeen
  <2>2. vt[w] # NoType => SameAt(mem, mem', Place(mem, vt[w], w))
    BY <1>1, <1>3, <1>4, <2>1, NestedPlacesApart
  <2>3. Place(mem', vt[w], w) = Place(mem, vt[w], w) /\ vt'[w] = vt[w]
    BY <1>2, <1>4 DEF Place
  <2> QED BY <1>3, <2>2, <2>3 DEF Standing, Under, SameAt
<1>8. nestedVal' = nestedVal
  <2>1. /\ nestedVal[w] = NestedSeen(f, a, w, alive, Holding, Standing)
        /\ nestedVal'[w] = NestedSeen(Idle, a, w, alive', Holding', Standing')
    BY <1>2, <1>5, NestedStepValues
  <2>2. ~NestedInEffect(Idle)
    BY DEF NestedInEffect, InEffect, Idle, Doing
  <2>3. nestedVal'[w] = nestedVal[w]
    BY <1>2, <1>3, <1>7, <2>1, <2>2 DEF NestedSeen
  <2>4. \A u \in Wrappers : nestedVal'[u] = nestedVal[u]
    BY <1>5, <2>3, NestedStepValues
  <2> QED BY <2>4, NestedDomains
<1>9. /\ nestedCall[a] # NoType /\ nestedCall[a].done = FALSE
      /\ nestedCall[a].op \in {"construct", "copyctor", "copyassign"}
      /\ nestedCall' = [nestedCall EXCEPT ![a] = NoType]
  <2>1. /\ nestedCall[a] = NestedCallOf(f) /\ nestedCall[a] # NoType
        /\ nestedCall' = [nestedCall EXCEPT ![a] = NestedCallOf(Idle)]
    BY <1>2, <1>3, <1>5, NestedStepCalls
  <2>2. NestedInEffect(f) = FALSE
    BY <1>3 DEF NestedInEffect, InEffect
  <2> QED BY <1>3, <2>1, <2>2 DEF NestedCallOf
<1>10. NestedValues!Fail(a)
  BY <1>8, <1>9 DEF NestedValues!Fail
<1> QED BY <1>6, <1>10 DEF NestedMaps, NestedValues!Next

\* The clone of a copy assignment is complete: the assignment takes effect.
LEMMA NestedClonedMaps ==
  ASSUME NEW a \in Threads, Poised(a), FinishBuild(a), act[a].op = "copyassign"
  PROVE  NestedMaps
<1> DEFINE f == act[a]
           w == act[a].this
           o == act[a].other
           m == EndNew(mem, f.ty, a, f.cell)
           l == Place(m, vt[w], w)
           g == IF vt[w] # NoType THEN Doing("copyassign", "kill", w, o, f.ty, l)
                ELSE Onward(f, vt[o], w, a)
           x == [type |-> mem.obj[f.cell].type, val |-> mem.obj[f.cell].val]
<1>1. /\ Sound /\ Framed /\ mem \in Memory /\ alive \in SUBSET Wrappers /\ Allowed(a, f) /\ Onto(a)
  BY NestedCloned DEF Poised, Ready, Sound, Framed, TypeOK
<1>2. /\ f.at = "build" /\ mem' = (IF vt[w] # NoType THEN Mark(m, l, "dying") ELSE m)
      /\ act' = [act EXCEPT ![a] = g] /\ alive' = alive /\ vt' = vt
  BY DEF FinishBuild, BeginKill, Go
<1>3. act'[a] = g
  BY <1>1, <1>2 DEF Framed, TypeOK
<1>4. /\ w \in Wrappers /\ f.ty \in Types /\ f.ty # NoType /\ f.cell \in Loc /\ vt[o] = f.ty
      /\ Writes(f) = {w} /\ Alters(f) = {w} /\ CellFor(f.ty, f.cell, a)
      /\ f # Idle /\ ~NestedInEffect(f) /\ a \in Slots /\ a # Null /\ a # w
  <2>1. /\ w \in Wrappers /\ f.ty \in Types /\ f.ty # NoType /\ f.cell \in Loc /\ vt[o] = f.ty
        /\ Writes(f) = {w} /\ CellFor(f.ty, f.cell, a)
    BY <1>1, <1>2, BuildFrame
  <2>2. f # Idle /\ ~NestedInEffect(f) /\ Alters(f) = {w}
    BY <1>2, <2>1 DEF Idle, Doing, NestedInEffect, InEffect, Alters
  <2> QED BY <2>1, <2>2, DistinctAssumption DEF Slots
<1>5. /\ g.op = "copyassign" /\ g.this = w /\ g.other = o /\ NestedInEffect(g) /\ Writes(g) = {w}
      /\ Home(g, a, w) = a /\ g.at # "build"
      /\ g.at = "kill" => g.cell = l /\ vt[w] # NoType
      /\ Keeps(g, a, a, NoType) = f.ty
  BY <1>4 DEF Doing, Onward, Moving, NestedInEffect, InEffect, Writes, Home, Spot, Keeps
<1> HIDE DEF g
<1>6. /\ \A k \in Loc : SameAt(mem, mem', k)
      /\ \A r \in Slots \ {a} : mem'.ptr[r] = mem.ptr[r]
      /\ Place(mem', f.ty, a) = f.cell
      /\ vt[w] # NoType => Place(mem', vt[w], w) = l
  <2>1. mem \in Memory
    BY <1>1
  <2>2. /\ \A k \in Loc : SameAt(mem, m, k)
        /\ \A r \in Slots \ {a} : m.ptr[r] = mem.ptr[r]
        /\ Place(m, f.ty, a) = f.cell /\ m \in Memory
    BY <1>4, <2>1, EndNewContents
  <2>3. CASE vt[w] = NoType
    BY <1>2, <2>2, <2>3
  <2>4. CASE vt[w] # NoType
    <3> HIDE DEF m
    <3>1. mem' = Mark(m, l, "dying")
      BY <1>2, <2>4
    <3>2. Place(m, vt[w], w) = l
      OBVIOUS
    <3> HIDE DEF l
    <3>3. (\A k \in Loc : SameAt(m, mem', k)) /\ mem'.ptr = m.ptr
      BY <2>2, <3>1, MarkContents, PtrFields
    <3> QED BY <2>2, <3>2, <3>3 DEF SameAt, Place
  <2> QED BY <2>3, <2>4
<1> HIDE DEF m, l
<1>7. NestedTo(a, {w}) /\ LevelSeen(a, act'[a])
  <2>1. Free(a, {w})
    BY <1>1, <1>4, FreeAlters
  <2>2. Null \notin Loc /\ \A k \in Loc \ {Null} : SameAt(mem, mem', k)
    BY <1>6, DistinctAssumption DEF Loc, Slots
  <2>3. Writes(act[a]) \subseteq {w} /\ Writes(act'[a]) \subseteq {w} /\ {w} \subseteq Wrappers
    BY <1>3, <1>4, <1>5
  <2> HIDE DEF w, f
  <2> QED BY <1>1, <1>2, <1>6, <2>1, <2>2, <2>3, StepIsNestedTo
<1>8. CopiesHold' /\ KillsHold'
  BY <1>2, <1>3, <1>5, <1>6, <1>7, NestedStepCarries
<1>9. Holding'[a] = x
  <2>1. NestedKeepers'[a] = f.ty
    BY <1>3, <1>5, <1>7 DEF LevelSeen
  <2>2. Holding'[a] = Under(mem', f.ty, a)
    BY <1>4, <2>1, HoldingFrom
  <2> QED BY <1>4, <1>6, <2>2 DEF Under, SameAt
<1>10. nestedVal' = [nestedVal EXCEPT ![w] = x]
  <2>1. nestedVal'[w] = NestedSeen(g, a, w, alive', Holding', Standing')
    BY <1>3, <1>7, NestedStepValues
  <2>2. nestedVal'[w] = x
    BY <1>4, <1>5, <1>9, <2>1 DEF NestedSeen, Result
  <2>3. \A u \in Wrappers \ {w} : nestedVal'[u] = nestedVal[u]
    BY <1>7, NestedStepValues
  <2> QED BY <2>2, <2>3, NestedDomains
<1>11. nestedVal[o] = x
  BY <1>2, NestedCloneIsSource
<1>12. NestedCallOf(f).op = "copyassign" /\ NestedCallOf(f).this = w /\ NestedCallOf(f).other = o
  BY <1>4 DEF NestedCallOf
<1> HIDE DEF x, w, o
<1>13. nestedVal' \in NestedValues!Effects(NestedCallOf(f))
  BY <1>10, <1>11, <1>12 DEF NestedValues!Effects
<1>14. NestedValues!Next
  BY <1>3, <1>4, <1>5, <1>7, <1>13, NestedTakesEffect DEF w, o
<1> QED BY <1>8, <1>14 DEF NestedMaps

\* A step of an operation in effect that leaves every value as it is.
LEMMA NestedQuietMaps ==
  ASSUME NEW a \in Threads, NEW W, NestedTo(a, W), NEW g, act'[a] = g, NestedInEffect(act[a]),
         \/ g = Idle
         \/ /\ NestedInEffect(g) /\ g.op = act[a].op /\ g.at # "kill"
            /\ g.this = act[a].this /\ g.other = act[a].other,
         \A w \in W : nestedVal'[w] = nestedVal[w]
  PROVE  NestedMaps
<1>1. NestedValues!Next \/ UNCHANGED <<nestedVal, nestedCall>>
  BY NestedGoesOn
<1>2. g.at # "build" /\ g.at # "kill"
  BY DEF NestedInEffect, InEffect, Idle, Doing
<1>3. CopiesHold' /\ KillsHold'
  BY <1>2, NestedStepCarries
<1> QED BY <1>1, <1>3 DEF NestedMaps

\* The destructor called by reset() returns: a move assignment takes effect, the
\* others go on or end.
LEMMA NestedFinishKillMaps ==
  ASSUME NEW a \in Threads, Poised(a), FinishKill(a)
  PROVE  NestedMaps
<1> DEFINE f == act[a]
           w == act[a].this
           o == act[a].other
           g == CASE f.op = "copyassign" -> Onward(f, vt'[o], w, a)
                  [] f.op = "moveassign" /\ vt'[o] # NoType -> Onward(f, vt'[o], w, o)
                  [] OTHER -> Idle
<1>1. /\ Sound /\ Framed /\ mem \in Memory /\ alive \in SUBSET Wrappers /\ Allowed(a, f) /\ Onto(a)
      /\ vt \in [Wrappers -> Types \cup {NoType}] /\ act \in [Threads -> Frame]
  BY NestedFinishKill DEF Poised, Ready, Sound, Framed, TypeOK
<1>2. /\ f.at = "kill" /\ mem' = Erase(mem, f.cell)
      /\ vt' = [vt EXCEPT ![w] = NoType]
      /\ alive' = (IF f.op = "destroy" THEN alive \ {w} ELSE alive)
      /\ act' = [act EXCEPT ![a] = g]
  BY DEF FinishKill, Go
<1>3. act'[a] = g
  BY <1>1, <1>2
<1>4. /\ f.op \in {"copyassign", "reset", "destroy", "moveassign"}
      /\ w \in alive /\ w \in Wrappers /\ w \in Slots /\ f.cell # Null /\ Cells[a] = f.cell
      /\ f.op \in {"copyassign", "moveassign"} => o \in alive /\ o \in Wrappers /\ o \in Slots /\ w # o
      /\ f.op = "copyassign" => f.ty \in Types /\ vt[o] = f.ty
      /\ Writes(f) = (IF f.op = "moveassign" THEN {w, o} ELSE {w}) /\ Alters(f) = Writes(f)
      /\ \A r, x : Keeps(f, a, r, x) =
           IF r = w THEN NoType ELSE IF r = a /\ f.op = "copyassign" THEN f.ty ELSE x
      /\ a \in Slots /\ a # Null /\ a \notin Wrappers /\ f # Idle
      /\ (NestedInEffect(f) <=> f.op # "moveassign")
  <2>1. /\ f.op \in {"copyassign", "reset", "destroy", "moveassign"} /\ w \in alive
        /\ f # Idle /\ (NestedInEffect(f) <=> f.op # "moveassign")
    BY <1>1, <1>2, KillFrame DEF NestedInEffect, InEffect, Idle, Doing
  <2> QED BY <1>1, <1>2, <2>1, KillFrame, DistinctAssumption DEF Slots, Alters
<1>5. vt'[w] = NoType /\ \A u \in Wrappers \ {w} : vt'[u] = vt[u]
  BY <1>1, <1>2, <1>4
<1>6. /\ f.op = "copyassign" => g = Onward(f, f.ty, w, a)
      /\ f.op = "moveassign" /\ vt[o] # NoType => g = Onward(f, vt[o], w, o)
      /\ f.op \in {"reset", "destroy"} \/ (f.op = "moveassign" /\ vt[o] = NoType) => g = Idle
  BY <1>4, <1>5
<1>7. (\A l \in Loc \ {f.cell} : SameAt(mem, mem', l)) /\ mem'.ptr = mem.ptr
  BY <1>1, <1>2, EraseContents, PtrFields
<1> HIDE DEF g, w, o
<1>8. \/ g = Idle
      \/ /\ NestedInEffect(g) /\ g.op = f.op /\ g.this = w /\ g.other = o /\ Writes(g) = Writes(f)
         /\ g.at = "move" /\ (f.op = "copyassign" \/ f.op = "moveassign")
         /\ g.src = (IF f.op = "copyassign" THEN a ELSE o)
         /\ g.ty = (IF f.op = "copyassign" THEN f.ty ELSE vt[o])
  BY <1>4, <1>6 DEF Onward, Moving, NestedInEffect, InEffect, Writes, w, o
<1>9. NestedTo(a, Writes(f)) /\ LevelSeen(a, g)
  <2>1. Writes(f) \subseteq Wrappers /\ w \in Writes(f)
    BY <1>4
  <2>2. Free(a, Writes(f))
    BY <1>1, <1>4, <2>1, FreeAlters
  <2>3. Writes(act[a]) \subseteq Writes(f) /\ Writes(act'[a]) \subseteq Writes(f)
    BY <1>3, <1>8, IdleFrame
  <2>4. \A u \in Wrappers \ Writes(f) : (u \in alive' <=> u \in alive) /\ vt'[u] = vt[u]
    BY <1>2, <1>5, <2>1
  <2>5. PICK W, c : W = Writes(f) /\ c = f.cell
    OBVIOUS
  <2>6. /\ W \subseteq Wrappers /\ Free(a, W) /\ c = Cells[a]
        /\ Writes(act[a]) \subseteq W /\ Writes(act'[a]) \subseteq W
        /\ \A u \in Wrappers \ W : (u \in alive' <=> u \in alive) /\ vt'[u] = vt[u]
        /\ \A l \in Loc \ {c} : SameAt(mem, mem', l)
    BY <1>4, <1>7, <2>1, <2>2, <2>3, <2>4, <2>5
  <2>7. \A u \in Wrappers : u \notin Writes(act[a]) \cup Writes(act'[a]) => vt'[u] = vt[u]
    BY <1>5, <2>1
  <2> HIDE DEF f
  <2>8. NestedTo(a, W) /\ LevelSeen(a, act'[a])
    BY <1>1, <1>7, <2>6, <2>7, StepIsNestedTo
  <2> QED BY <1>3, <2>5, <2>8
<1>10. CopiesHold' /\ KillsHold'
  BY <1>3, <1>8, <1>9, NestedStepCarries DEF Idle, Doing
<1>11. \A u \in Writes(f) :
         /\ nestedVal[u] = IF f.op = "moveassign" THEN Standing[u] ELSE Result(f, a, u, Holding)
         /\ nestedVal'[u] = IF g # Idle THEN Result(g, a, u, Holding')
                            ELSE IF f.op = "destroy" THEN Null ELSE Standing'[u]
  <2>1. \A u \in Writes(f) :
          /\ nestedVal[u] = NestedSeen(f, a, u, alive, Holding, Standing)
          /\ nestedVal'[u] = NestedSeen(g, a, u, alive', Holding', Standing')
    BY <1>3, <1>9, NestedStepValues
  <2>2. ~NestedInEffect(Idle)
    BY DEF NestedInEffect, InEffect, Idle, Doing
  <2>3. \A u \in Writes(f) : /\ u \in alive
                             /\ f.op = "destroy" => u \notin alive'
                             /\ f.op # "destroy" => u \in alive'
    BY <1>2, <1>4
  <2> QED BY <1>4, <1>8, <2>1, <2>2, <2>3 DEF NestedSeen
<1>12. Standing'[w] = NoObject
  BY <1>4, <1>5 DEF Standing, Under
<1>13. CASE f.op = "copyassign"
  <2>1. NestedKeepers[a] = f.ty /\ NestedKeepers'[a] = f.ty
    <3>1. NestedKeepers[a] = Keeps(f, a, a, NoType) /\ NestedKeepers'[a] = Keeps(g, a, a, NoType)
      BY <1>9 DEF LevelSeen
    <3>2. Keeps(f, a, a, NoType) = f.ty
      BY <1>4, <1>13
    <3>3. g # Idle /\ g.at = "move" /\ g.src = a /\ g.ty = f.ty
      BY <1>6, <1>8, <1>13 DEF Onward, Moving, Idle, Doing
    <3>4. Keeps(g, a, a, NoType) = f.ty
      BY <3>3 DEF Keeps
    <3> QED BY <3>1, <3>2, <3>4
  <2>2. Holding'[a] = Holding[a]
    BY <1>1, <1>4, <1>7, <2>1, HoldingUntouched
  <2>3. g # Idle /\ g.op = "copyassign" /\ g.at = "move" /\ g.src = a
    BY <1>6, <1>8, <1>13 DEF Onward, Moving, Idle, Doing
  <2>4. nestedVal[w] = Holding[a] /\ nestedVal'[w] = Holding'[a]
    BY <1>2, <1>4, <1>11, <1>13, <2>3 DEF Result, Home, Spot
  <2> QED BY <1>3, <1>4, <1>8, <1>9, <1>13, <2>2, <2>3, <2>4, NestedQuietMaps DEF w, o
<1>14. CASE f.op \in {"reset", "destroy"}
  <2>1. g = Idle /\ Writes(f) = {w}
    BY <1>4, <1>6, <1>14
  <2>2. nestedVal[w] = (IF f.op = "destroy" THEN Null ELSE NoObject)
    BY <1>4, <1>11, <1>14, <2>1 DEF Result, Home
  <2>3. nestedVal'[w] = (IF f.op = "destroy" THEN Null ELSE NoObject)
    BY <1>4, <1>11, <1>12, <1>14, <2>1
  <2>4. NestedInEffect(f)
    BY <1>4, <1>14
  <2> QED BY <1>3, <1>9, <2>1, <2>2, <2>3, <2>4, NestedQuietMaps
<1>15. CASE f.op = "moveassign"
  <2>1. nestedVal[o] = Standing[o] /\ Writes(f) = {w, o}
    BY <1>4, <1>11, <1>15
  <2>2. nestedVal'[w] = Standing[o] /\ nestedVal'[o] = NoObject
    <3>1. CASE vt[o] = NoType
      <4>1. g = Idle /\ Standing[o] = NoObject /\ Standing'[o] = NoObject
        BY <1>4, <1>5, <1>6, <1>15, <3>1 DEF Standing, Under
      <4> QED BY <1>11, <1>12, <1>15, <2>1, <4>1
    <3>2. CASE vt[o] # NoType
      <4>1. /\ g # Idle /\ g.op = "moveassign" /\ g.at = "move" /\ g.src = o /\ g.other = o
            /\ g.ty = vt[o]
        BY <1>6, <1>8, <1>15, <3>2 DEF Onward, Moving, Idle, Doing, o
      <4>2. NestedKeepers[o] = vt[o] /\ NestedKeepers'[o] = vt[o]
        <5>1. /\ NestedKeepers[o] = Keeps(f, a, o, vt[o])
              /\ NestedKeepers'[o] = Keeps(g, a, o, vt'[o])
          BY <1>4, <1>9, <1>15, <2>1 DEF LevelSeen
        <5>2. Keeps(f, a, o, vt[o]) = vt[o]
          BY <1>4, <1>15
        <5>3. Keeps(g, a, o, vt'[o]) = vt[o]
          BY <4>1 DEF Keeps
        <5> QED BY <5>1, <5>2, <5>3
      <4>3. Holding'[o] = Holding[o]
        BY <1>1, <1>4, <1>7, <1>15, <4>2, HoldingUntouched
      <4>4. Standing[o] = Holding[o]
        BY <1>4, <1>15, <4>2, HoldingFrom DEF Standing
      <4>5. w # o /\ o # Null
        BY <1>4, <1>15, DistinctAssumption
      <4> QED BY <1>11, <2>1, <4>1, <4>3, <4>4, <4>5 DEF Result, Home, Spot
    <3> QED BY <3>1, <3>2
  <2>3. nestedVal' = [nestedVal EXCEPT ![o] = NoObject, ![w] = nestedVal[o]]
    <3>1. \A u \in Wrappers \ {w, o} : nestedVal'[u] = nestedVal[u]
      BY <1>9, <2>1, NestedStepValues
    <3>2. w # o
      BY <1>4, <1>15
    <3> QED BY <2>1, <2>2, <3>1, <3>2, NestedDomains
  <2>4. NestedCallOf(f).op = "moveassign" /\ NestedCallOf(f).this = w /\ NestedCallOf(f).other = o
    BY <1>4, <1>15 DEF NestedCallOf, w, o
  <2>5. nestedVal' \in NestedValues!Effects(NestedCallOf(f))
    BY <2>3, <2>4 DEF NestedValues!Effects
  <2>6. ~NestedInEffect(f) /\ f # Idle
    BY <1>4, <1>15
  <2>7. NestedValues!Next
    BY <1>3, <1>8, <1>9, <2>5, <2>6, NestedTakesEffect DEF w, o
  <2> QED BY <1>10, <2>7 DEF NestedMaps
<1> QED BY <1>4, <1>13, <1>14, <1>15

\* What follows a completed move leaves every value as the move left it.
LEMMA NestedSettlesMaps ==
  ASSUME NEW a \in Threads, act[a].at \in {"move", "retire"}, AfterMove(a, act[a]),
         NEW h, After(a, h), NestedTo(a, Writes(act[a])), LevelSeen(a, h),
         NEW r, r = [act[a] EXCEPT !.at = "retire"], Holding'[act[a].src] = NoObject,
         \A u \in Writes(act[a]) : nestedVal[u] = Result(r, a, u, Holding')
  PROVE  NestedMaps
<1> DEFINE f == act[a]
<1>1. /\ Framed /\ act \in [Threads -> Frame] /\ Writes(f) \subseteq Wrappers /\ f # Idle
      /\ f.op \in {"copyassign", "movector", "moveassign", "swap"} /\ NestedInEffect(f)
      /\ Onto(a)
  <2>1. Framed /\ act \in [Threads -> Frame] /\ Writes(f) \subseteq Wrappers /\ Onto(a)
    BY DEF NestedTo, Poised, Ready, Sound, Framed, TypeOK
  <2>2. f.op \in {"copyassign", "movector", "moveassign", "swap"}
    BY <2>1, MoveFrame
  <2> QED BY <2>1, <2>2 DEF NestedInEffect, InEffect, Idle, Doing
<1>2. act'[a] = h /\ (h = Idle \/ Writes(h) = Writes(f))
  BY <1>1 DEF After
<1>3. \/ h = Idle
      \/ InEffect(h) /\ h.at = "move" /\ h.op = f.op /\ h.this = f.this /\ h.other = f.other
  <2>1. \/ act' = [act EXCEPT ![a] = Idle]
        \/ \E t, dst, src : act' = [act EXCEPT ![a] = Onward(f, t, dst, src)]
    <3>1. CASE f.op = "copyassign"
      BY <3>1 DEF AfterMove, Go
    <3>2. CASE f.op \in {"movector", "moveassign"}
      BY <3>2 DEF AfterMove, Go
    <3>3. CASE f.op = "swap"
      BY <3>3 DEF AfterMove, Go
    <3> QED BY <1>1, <3>1, <3>2, <3>3
  <2> QED BY <1>1, <1>2, <2>1 DEF Onward, Moving, InEffect
<1>4. h # Idle => NestedInEffect(h)
  BY <1>3 DEF NestedInEffect
<1>5. ~InEffect(Idle) /\ ~NestedInEffect(Idle)
  BY DEF NestedInEffect, InEffect, Idle, Doing
<1>6. ASSUME NEW u \in Writes(f) PROVE nestedVal'[u] = nestedVal[u]
  <2>1. nestedVal'[u] = NestedSeen(h, a, u, alive', Holding', Standing')
    BY <1>2, NestedStepValues
  <2>2. Result(r, a, u, Holding') = Seen(h, a, u, alive', Holding')
    BY <1>1, <1>2, AfterMoveSeen
  <2>3. NestedSeen(h, a, u, alive', Holding', Standing') = Seen(h, a, u, alive', Holding')
    <3>1. CASE h # Idle
      BY <1>2, <1>3, <1>4, <3>1 DEF NestedSeen, Seen
    <3>2. CASE h = Idle
      <4>1. NestedKeepers'[u] = Keeps(h, a, u, vt'[u])
        BY <1>1 DEF LevelSeen
      <4>2. Holding'[u] = Standing'[u]
        BY <1>1, <3>2, <4>1, IdleFrame, HoldingFrom DEF Standing, Slots
      <4> QED BY <1>5, <3>2, <4>2 DEF NestedSeen, Seen
    <3> QED BY <3>1, <3>2
  <2> QED BY <2>1, <2>2, <2>3
<1>7. PICK W : W = Writes(f)
  OBVIOUS
<1>8. NestedTo(a, W) /\ \A u \in W : nestedVal'[u] = nestedVal[u]
  BY <1>6, <1>7
<1>9. h = Idle \/ h.at # "kill"
  BY <1>3
<1> QED BY <1>1, <1>2, <1>3, <1>4, <1>8, <1>9, NestedQuietMaps

\* The destructor of a moved-from callable returns.
LEMMA NestedFinishRetireMaps ==
  ASSUME NEW a \in Threads, Poised(a), FinishRetire(a)
  PROVE  NestedMaps
<1> DEFINE f == act[a]
           r == [act[a] EXCEPT !.at = "retire"]
<1>1. /\ f.at = "retire" /\ mem' = Erase(mem, f.cell) /\ AfterMove(a, f)
  BY DEF FinishRetire
<1>2. /\ Sound /\ Framed /\ Onto(a) /\ Ready(a) /\ Allowed(a, f)
      /\ act \in [Threads -> Frame] /\ mem \in Memory
  BY NestedFinishRetire DEF Poised, Ready, Sound, Framed, TypeOK
<1>3. PICK h : After(a, h)
  BY <1>1, <1>2, AfterMoveFrame
<1>4. /\ act'[a] = h /\ (h = Idle \/ Writes(h) = Writes(f))
      /\ \A u \in Wrappers \ Writes(f) : (u \in alive' <=> u \in alive) /\ vt'[u] = vt[u]
  BY <1>2, <1>3 DEF After
<1>5. /\ f \in Frame /\ f.cell = f.src /\ Writes(f) \subseteq Wrappers /\ Writes(f) \subseteq Uses(f)
      /\ f.src \in Slots /\ f.src \in Writes(f) \cup {a} /\ Alters(f) = Writes(f)
      /\ Cells[a] = f.cell /\ a \in Slots
  <2>1. /\ f \in Frame /\ f.this \in Wrappers /\ f.other \in Wrappers /\ f.cell = f.src
        /\ f.op \in {"copyassign", "movector", "moveassign", "swap"}
        /\ Writes(f) = IF f.op = "copyassign" THEN {f.this} ELSE {f.this, f.other}
        /\ OneWay(f, a) \/ IntoTmp(f, a) \/ Across(f, a) \/ OutOf(f, a)
    BY <1>1, <1>2, MoveFrame
  <2>2. f.src \in Writes(f) \cup {a}
    BY <2>1 DEF OneWay, IntoTmp, Across, OutOf
  <2> QED BY <1>1, <2>1, <2>2, WritesAreUses, DistinctAssumption DEF Slots, Cells, CellOf, Alters
<1>6. (\A l \in Loc \ {f.cell} : SameAt(mem, mem', l)) /\ mem'.ptr = mem.ptr
  BY <1>1, <1>2, EraseContents, PtrFields
<1>7. NestedTo(a, Writes(f)) /\ LevelSeen(a, h)
  <2>1. Free(a, Writes(f))
    BY <1>2, <1>5, FreeAlters
  <2>2. PICK W, c : W = Writes(f) /\ c = f.cell
    OBVIOUS
  <2>3. /\ W \subseteq Wrappers /\ Free(a, W) /\ c = Cells[a]
        /\ Writes(act[a]) \subseteq W /\ Writes(act'[a]) \subseteq W
        /\ \A u \in Wrappers \ W : (u \in alive' <=> u \in alive)
        /\ \A u \in Wrappers : u \notin Writes(act[a]) \cup Writes(act'[a]) => vt'[u] = vt[u]
        /\ \A l \in Loc \ {c} : SameAt(mem, mem', l)
    BY <1>4, <1>5, <1>6, <2>1, <2>2, IdleFrame
  <2> HIDE DEF f
  <2>4. NestedTo(a, W) /\ LevelSeen(a, act'[a])
    BY <1>2, <1>6, <2>3, StepIsNestedTo
  <2> QED BY <1>4, <2>2, <2>4
<1>9. NestedKeepers' = NestedKeepers /\ Holding[f.src] = NoObject
  <2>1. /\ \A s \in Slots :
             NestedKeepers'[s] = IF s = a THEN Settled(f, a, a, NoType)
                                 ELSE IF s \in Writes(f) THEN Settled(f, a, s, vt[s])
                                 ELSE NestedKeepers[s]
    BY <1>1, <1>2, <1>3, NestedAfter
  <2>2. \A s, v : Settled(f, a, s, v) = Keeps(f, a, s, v)
    BY <1>1, <1>5 DEF Settled, Keeps, Frame
  <2>3. \A s \in Slots : NestedKeepers'[s] = NestedKeepers[s]
    BY <1>2, <1>5, <2>1, <2>2, ReadyHolds
  <2>4. NestedKeepers[f.src] = NoType
    <3>1. \A v : Keeps(f, a, f.src, v) = NoType
      BY <1>1 DEF Keeps
    <3>2. \E v : NestedKeepers[f.src] = Keeps(f, a, f.src, v)
      <4>1. \A s : s \in Writes(f) \cup {a} => \E v : NestedKeepers[s] = Keeps(f, a, s, v)
        BY <1>2, <1>5, ReadyHolds
      <4> QED BY <1>5, <4>1
    <3> QED BY <3>1, <3>2
  <2> QED BY <1>2, <1>5, <2>3, <2>4, HoldingKind DEF NestedKeepers, HoldingKinds
<1>10. Holding' = Holding
  <2>1. \A s \in Slots : Holding'[s] = Holding[s]
    BY <1>2, <1>5, <1>6, <1>9, HoldingUntouched
  <2> QED BY <2>1 DEF Holding
<1>11. \A u \in Writes(f) : nestedVal[u] = Result(r, a, u, Holding')
  <2>1. r = f
    BY <1>1, <1>5 DEF Frame
  <2>2. \A u \in Writes(f) : nestedVal[u] = NestedSeen(f, a, u, alive, Holding, Standing)
    BY <1>7, NestedStepValues
  <2>3. NestedInEffect(f)
    BY <1>1 DEF NestedInEffect, InEffect
  <2> QED BY <1>10, <2>1, <2>2, <2>3 DEF NestedSeen
<1>12. Holding'[f.src] = NoObject
  BY <1>9, <1>10
<1>13. PICK x : x = r
  OBVIOUS
<1>14. /\ x = [act[a] EXCEPT !.at = "retire"]
       /\ \A u \in Writes(act[a]) : nestedVal[u] = Result(x, a, u, Holding')
  BY <1>11, <1>13
<1> QED BY <1>1, <1>3, <1>7, <1>12, <1>14, NestedSettlesMaps

\* A vtable's move: the callable is now at its target.
LEMMA NestedStepMoveMaps ==
  ASSUME NEW a \in Threads, Poised(a), StepMove(a)
  PROVE  NestedMaps
<1> DEFINE f == act[a]
           r == [act[a] EXCEPT !.at = "retire"]
<1>1. /\ f.at = "move"
      /\ mem' = (IF fits(f.ty) THEN Relocate(mem, f.dst, f.src) ELSE Transfer(mem, f.dst, f.src))
      /\ IF fits(f.ty)
           THEN /\ act' = [act EXCEPT ![a] = [f EXCEPT !.at = "retire", !.cell = f.src]]
                /\ alive' = alive /\ vt' = vt
           ELSE AfterMove(a, f)
  BY DEF StepMove, Go
<1>2. /\ Sound /\ Sound' /\ Framed /\ Onto(a) /\ Ready(a) /\ Allowed(a, f)
      /\ act \in [Threads -> Frame] /\ mem \in Memory
  BY NestedStepMove DEF Poised, Ready, Onto, Sound, Framed, TypeOK
<1>3. /\ f.src \in Slots /\ f.dst \in Slots /\ f.src # f.dst
      /\ f.src \in Writes(f) \cup {a} /\ f.dst \in Writes(f) \cup {a}
      /\ NestedKeepers[f.src] = f.ty /\ NestedKeepers[f.dst] = NoType
      /\ Live(mem, f.ty, f.src) /\ mem.obj[f.dst] = NoObject
  BY <1>1, <1>2, NestedMoveDefined
<1>4. /\ f \in Frame /\ Writes(f) \subseteq Wrappers /\ Writes(f) \subseteq Uses(f)
      /\ Alters(f) = Writes(f) /\ f.ty \in Types /\ f.ty # NoType /\ a \in Slots
      /\ NestedInEffect(f)
  <2>1. /\ f \in Frame /\ f.this \in Wrappers /\ f.other \in Wrappers /\ f.ty \in Types
        /\ f.op \in {"copyassign", "movector", "moveassign", "swap"}
        /\ Writes(f) = IF f.op = "copyassign" THEN {f.this} ELSE {f.this, f.other}
    BY <1>1, <1>2, MoveFrame
  <2> QED BY <1>1, <2>1, WritesAreUses, DistinctAssumption
          DEF Slots, Alters, NestedInEffect, InEffect
<1>5. PICK g : /\ act'[a] = g /\ (g = Idle \/ Writes(g) = Writes(f))
               /\ \A u \in Wrappers \ Writes(f) : (u \in alive' <=> u \in alive) /\ vt'[u] = vt[u]
               /\ fits(f.ty) => g = [f EXCEPT !.at = "retire", !.cell = f.src]
               /\ ~fits(f.ty) => After(a, g)
  <2>1. CASE fits(f.ty)
    <3> DEFINE g == [f EXCEPT !.at = "retire", !.cell = f.src]
    <3>1. act'[a] = g /\ alive' = alive /\ vt' = vt
      BY <1>1, <1>2, <2>1
    <3>2. Writes(g) = Writes(f)
      BY <1>4 DEF Frame, Writes
    <3> QED BY <2>1, <3>1, <3>2
  <2>2. CASE ~fits(f.ty)
    <3>1. PICK h : After(a, h)
      BY <1>1, <1>2, <2>2, AfterMoveFrame
    <3> QED BY <1>2, <2>2, <3>1 DEF After
  <2> QED BY <2>1, <2>2
<1>6. /\ \A l \in Loc \ {f.dst} : SameAt(mem, mem', l)
      /\ ~fits(f.ty) => \A l \in Loc : SameAt(mem, mem', l)
      /\ \A s \in Slots \ {f.dst, f.src} : mem'.ptr[s] = mem.ptr[s]
      /\ Under(mem', f.ty, f.dst) = Under(mem, f.ty, f.src)
  <2>1. \A t, dst, src :
          (/\ dst \in Slots /\ src \in Slots /\ dst # src /\ Live(mem, t, src)
           /\ mem' = Moved(mem, t, dst, src)) =>
          /\ \A l \in Loc \ {dst} : SameAt(mem, mem', l)
          /\ ~fits(t) => \A l \in Loc : SameAt(mem, mem', l)
          /\ \A s \in Slots \ {dst, src} : mem'.ptr[s] = mem.ptr[s]
          /\ Under(mem', t, dst) = Under(mem, t, src)
    BY <1>2, MoveContents
  <2>2. mem' = Moved(mem, f.ty, f.dst, f.src)
    BY <1>1 DEF Moved
  <2> QED BY <1>3, <2>1, <2>2
<1>7. NestedTo(a, Writes(f)) /\ LevelSeen(a, g)
  <2>1. Free(a, Writes(f))
    BY <1>2, <1>4, FreeAlters
  <2>2. PICK W, c : W = Writes(f) /\ c = f.dst
    OBVIOUS
  <2>3. /\ W \subseteq Wrappers /\ Free(a, W) /\ mem.obj[c] = NoObject
        /\ Writes(act[a]) \subseteq W /\ Writes(act'[a]) \subseteq W
        /\ \A u \in Wrappers \ W : u \in alive' <=> u \in alive
        /\ \A u \in Wrappers : u \notin Writes(act[a]) \cup Writes(act'[a]) => vt'[u] = vt[u]
        /\ \A s \in Slots \ (W \cup {a}) : mem'.ptr[s] = mem.ptr[s]
        /\ \A l \in Loc \ {c} : SameAt(mem, mem', l)
    BY <1>3, <1>4, <1>5, <1>6, <2>1, <2>2, IdleFrame
  <2> HIDE DEF f
  <2>4. NestedTo(a, W) /\ LevelSeen(a, act'[a])
    BY <1>2, <2>3, StepIsNestedTo
  <2> QED BY <1>5, <2>2, <2>4
<1>8. /\ NestedKeepers'[f.src] = NoType /\ NestedKeepers'[f.dst] = f.ty
      /\ \A s \in Slots \ {f.src, f.dst} : NestedKeepers'[s] = NestedKeepers[s]
  <2>1. \A s \in Slots :
          NestedKeepers'[s] = IF s = a THEN Settled(f, a, a, NoType)
                              ELSE IF s \in Writes(f) THEN Settled(f, a, s, vt[s])
                              ELSE NestedKeepers[s]
    <3>1. CASE ~fits(f.ty)
      <4>1. After(a, g) /\ AfterMove(a, f)
        BY <1>1, <1>5, <3>1
      <4> QED BY <1>1, <1>2, <4>1, NestedAfter
    <3>2. CASE fits(f.ty)
      <4>1. vt' = vt /\ g = [f EXCEPT !.at = "retire", !.cell = f.src]
        BY <1>1, <1>5, <3>2
      <4>2. \A s, v : Keeps(g, a, s, v) = Settled(f, a, s, v)
        BY <1>4, <4>1 DEF Keeps, Settled, Frame
      <4>3. /\ NestedKeepers'[a] = Keeps(g, a, a, NoType)
            /\ \A u \in Writes(f) : NestedKeepers'[u] = Keeps(g, a, u, vt'[u])
            /\ \A s \in Slots : s # a /\ s \notin Writes(f) => NestedKeepers'[s] = NestedKeepers[s]
        BY <1>4, <1>5, <1>7, IdleFrame DEF LevelSeen
      <4> QED BY <4>1, <4>2, <4>3
    <3> QED BY <3>1, <3>2
  <2>2. NestedMoved(a)
    BY <1>1, <1>2, <2>1, NestedSettled
  <2> QED BY <2>2 DEF NestedMoved
<1>9. /\ Holding'[f.dst] = Holding[f.src] /\ Holding'[f.src] = NoObject
      /\ \A s \in Slots \ {f.dst, f.src} : Holding'[s] = Holding[s]
  <2>1. Holding'[f.dst] = Under(mem', f.ty, f.dst) /\ Holding[f.src] = Under(mem, f.ty, f.src)
    BY <1>3, <1>8, HoldingFrom
  <2>2. Holding'[f.src] = NoObject
    BY <1>2, <1>3, <1>8, HoldingKindNext DEF HoldingKinds
  <2>3. \A s \in Slots \ {f.dst, f.src} :
          /\ NestedKeepers'[s] = NestedKeepers[s]
          /\ NestedKeepers[s] # NoType =>
               /\ Place(mem, NestedKeepers[s], s) \in Loc
               /\ Place(mem, NestedKeepers[s], s) # f.dst
    BY <1>2, <1>3, <1>8, NestedPlacesApart
  <2>4. \A s \in Slots \ {f.dst, f.src} : Holding'[s] = Holding[s]
    BY <1>6, <2>3, HoldingSteady
  <2> QED BY <1>6, <2>1, <2>2, <2>4
<1>10. ASSUME NEW u \in Writes(f)
       PROVE  nestedVal[u] = Result(r, a, u, Holding')
  <2>1. Result(f, a, u, Holding) = Result(r, a, u, Holding')
    BY <1>1, <1>2, <1>3, <1>9, MoveHomes
  <2>2. nestedVal[u] = NestedSeen(f, a, u, alive, Holding, Standing)
    BY <1>7, NestedStepValues
  <2> QED BY <1>4, <2>1, <2>2 DEF NestedSeen
<1>11. CASE fits(f.ty)
  <2>1. g = [f EXCEPT !.at = "retire", !.cell = f.src]
    BY <1>5, <1>11
  <2>2. /\ g.at = "retire" /\ g.op = f.op /\ g.this = f.this /\ g.other = f.other
        /\ g.dst = f.dst /\ g.src = f.src /\ g.mine = f.mine /\ g.theirs = f.theirs
    BY <1>4, <2>1 DEF Frame
  <2>3. /\ r.at = "retire" /\ r.op = f.op /\ r.this = f.this /\ r.other = f.other
        /\ r.dst = f.dst /\ r.src = f.src /\ r.mine = f.mine /\ r.theirs = f.theirs
    BY <1>4 DEF Frame
  <2>4. NestedInEffect(g) /\ Writes(g) = Writes(f) /\ g # Idle
    BY <2>2 DEF NestedInEffect, InEffect, Writes, Idle, Doing
  <2>5. \A u \in Writes(f) : nestedVal'[u] = nestedVal[u]
    <3>1. \A u : Home(g, a, u) = Home(r, a, u)
      BY <2>2, <2>3 DEF Home, Spot
    <3>2. \A u \in Writes(f) : nestedVal'[u] = NestedSeen(g, a, u, alive', Holding', Standing')
      BY <1>5, <1>7, NestedStepValues
    <3> QED BY <1>10, <2>2, <2>3, <2>4, <3>1, <3>2 DEF NestedSeen, Result
  <2>6. PICK W : W = Writes(f)
    OBVIOUS
  <2>7. NestedTo(a, W) /\ \A u \in W : nestedVal'[u] = nestedVal[u]
    BY <1>7, <2>5, <2>6
  <2>8. /\ g.op = act[a].op /\ g.this = act[a].this /\ g.other = act[a].other /\ g.at # "kill"
        /\ NestedInEffect(act[a]) /\ act'[a] = g
    BY <1>4, <1>5, <2>2
  <2> HIDE DEF f
  <2> QED BY <2>4, <2>7, <2>8, NestedQuietMaps
<1>12. CASE ~fits(f.ty)
  <2>1. PICK x : x = r
    OBVIOUS
  <2>2. /\ x = [act[a] EXCEPT !.at = "retire"]
        /\ \A u \in Writes(act[a]) : nestedVal[u] = Result(x, a, u, Holding')
    BY <1>10, <2>1
  <2>3. AfterMove(a, act[a]) /\ After(a, g)
    BY <1>1, <1>5, <1>12
  <2> QED BY <1>1, <1>7, <1>9, <2>2, <2>3, NestedSettlesMaps
<1> QED BY <1>11, <1>12

\* operator() of a callable returns or throws: the Function holds what the call
\* left, and no copy being made of it was disturbed.
LEMMA NestedFinishCallMaps ==
  ASSUME NEW a \in Threads, Poised(a), FinishCall(a),
         \A b \in Threads \ {a} : Spares(act[a], act[b])
  PROVE  NestedMaps
<1> DEFINE f == act[a]
<1>1. /\ f.at = "run" /\ mem' \in {mem, Called(mem, f.cell)} /\ alive' = alive /\ vt' = vt
      /\ act' = [act EXCEPT ![a] = Idle]
  BY DEF FinishCall, Go
<1>2. /\ Sound /\ Sound' /\ Framed /\ Onto(a) /\ Ready(a) /\ PinsRest
      /\ act \in [Threads -> Frame] /\ mem \in Memory
  BY NestedFinishCall DEF Poised, Ready, Onto, Sound, Framed, TypeOK
<1>3. act'[a] = Idle /\ \A b \in Threads \ {a} : act'[b] = act[b]
  BY <1>1, <1>2
<1>4. PICK w \in Wrappers : w = f.this
  <2>1. FrameOK(a, f, alive, vt, mem) /\ f # Idle /\ alive \subseteq Wrappers
    BY <1>1, <1>2 DEF Framed, Frames, TypeOK, Idle, Doing
  <2> QED BY <1>1, <2>1 DEF FrameOK, Kills, Legs, Moves
<1>5. /\ f.op = "call" /\ w \in alive /\ f.ty \in Types /\ f.ty # NoType
      /\ f.ty = vt[w] /\ f.cell = Place(mem, f.ty, w) /\ f # Idle /\ w \in Slots /\ w # Null
      /\ ~NestedInEffect(f)
  <2>1. FrameOK(a, f, alive, vt, mem) /\ f # Idle
    BY <1>1, <1>2 DEF Framed, Frames, Idle, Doing
  <2> QED BY <1>1, <1>4, <2>1, DistinctAssumption
          DEF FrameOK, Kills, Legs, Moves, Slots, NestedInEffect, InEffect
<1>6. AtRest(w)
  BY <1>1, <1>2, <1>4, <1>5 DEF PinsRest, Pinned
<1>7. AtRest(w)'
  BY <1>3, <1>6, IdleRelies DEF AtRest
<1>8. NestedKeepers[w] = f.ty
  BY <1>2, <1>5, <1>6, NestedRestValue
<1>9. /\ f.cell \in Loc /\ mem.obj[f.cell] # NoObject /\ mem.obj[f.cell].type = f.ty
  <2>1. Live(mem, f.ty, w)
    BY <1>2, <1>5, <1>8 DEF Sound, Consistent
  <2> QED BY <1>2, <1>5, <1>8, <2>1, NestedPlacesApart DEF Live, LiveAt
<1>10. /\ \A l \in Loc \ {f.cell} : SameAt(mem, mem', l)
       /\ mem'.obj[f.cell].type = f.ty
       /\ \/ mem'.obj[f.cell].val = mem.obj[f.cell].val
          \/ f.ty \in Mutable /\ mem'.obj[f.cell].val = mem.obj[f.cell].val + 1
       /\ mem'.ptr = mem.ptr
  <2>1. CASE mem' = mem
    BY <1>9, <2>1 DEF SameAt
  <2>2. CASE mem' = Called(mem, f.cell)
    <3>1. \A c \in Loc : mem.obj[c] # NoObject /\ mem' = Called(mem, c) =>
            /\ \A l \in Loc \ {c} : SameAt(mem, mem', l)
            /\ mem'.obj[c].type = mem.obj[c].type
            /\ \/ mem'.obj[c].val = mem.obj[c].val
               \/ mem.obj[c].type \in Mutable /\ mem'.obj[c].val = mem.obj[c].val + 1
            /\ mem'.ptr = mem.ptr
      BY <1>2, CalledContents
    <3> QED BY <1>9, <2>2, <3>1
  <2> QED BY <1>1, <2>1, <2>2
<1>11. PICK W : W = IF f.ty \in Mutable THEN {w} ELSE {}
  OBVIOUS
<1>12. Writes(f) \subseteq W /\ W \subseteq {w}
  BY <1>4, <1>5, <1>11 DEF Writes
<1>13. NestedTo(a, W) /\ LevelSeen(a, Idle)
  <2>1. Free(a, W)
    <3>1. \A b \in Threads \ {a} : W # {} => w \notin BeingCopied(act[b])
      BY <1>4, <1>5, <1>11 DEF Spares
    <3> QED BY <1>6, <1>12, <3>1 DEF Free, AtRest
  <2>2. PICK c : c = IF f.ty \in Mutable THEN f.cell ELSE Null
    OBVIOUS
  <2>3. /\ \A l \in Loc \ {c} : SameAt(mem, mem', l)
        /\ \/ c \notin Loc
           \/ \E s \in (W \cup {a}) \cap Slots :
                NestedKeepers[s] # NoType /\ c = Place(mem, NestedKeepers[s], s)
    <3>1. CASE f.ty \in Mutable
      BY <1>5, <1>8, <1>10, <1>11, <2>2, <3>1
    <3>2. CASE f.ty \notin Mutable
      <4>1. \A l \in Loc : SameAt(mem, mem', l)
        BY <1>9, <1>10, <3>2 DEF SameAt
      <4> QED BY <2>2, <3>2, <4>1, DistinctAssumption DEF Loc, Slots
    <3> QED BY <3>1, <3>2
  <2>4. /\ Writes(act[a]) \subseteq W /\ Writes(act'[a]) \subseteq W /\ W \subseteq Wrappers
        /\ alive' = alive /\ vt' = vt /\ mem'.ptr = mem.ptr
    BY <1>1, <1>3, <1>10, <1>12, IdleFrame
  <2> HIDE DEF f
  <2> QED BY <1>2, <1>3, <2>1, <2>3, <2>4, StepIsNestedTo
<1>14. CopiesHold' /\ KillsHold'
  BY <1>3, <1>13, NestedStepCarries DEF Idle, Doing
<1>15. NestedKeepers'[w] = f.ty
  <2>1. vt'[w] = f.ty
    BY <1>1, <1>5
  <2>2. CASE w \in Writes(f)
    <3>1. NestedKeepers'[w] = Keeps(Idle, a, w, vt'[w])
      BY <1>13, <2>2 DEF LevelSeen
    <3> QED BY <2>1, <3>1, IdleFrame
  <2>3. CASE w \notin Writes(f)
    <3>1. w # a
      BY DistinctAssumption
    <3> QED BY <1>5, <1>8, <1>13, <2>3, <3>1, IdleFrame DEF LevelSeen
  <2> QED BY <2>2, <2>3
<1>16. /\ Holding[w] = [type |-> f.ty, val |-> mem.obj[f.cell].val]
       /\ Holding'[w] = [type |-> f.ty, val |-> mem'.obj[f.cell].val]
  <2>1. Holding[w] = Under(mem, f.ty, w) /\ Holding'[w] = Under(mem', f.ty, w)
    BY <1>5, <1>8, <1>15, HoldingFrom
  <2>2. Place(mem', f.ty, w) = f.cell
    BY <1>5, <1>10 DEF Place
  <2> QED BY <1>5, <1>9, <1>10, <2>1, <2>2 DEF Under
<1>17. Holding[w] \in Callables /\ Holding'[w] \in Callables
  BY <1>2, <1>5, <1>8, <1>15, HoldingKind, HoldingKindNext DEF HoldingKinds
<1>18. Holding'[w] \in Runs[Holding[w]]
  <2>1. Holding'[w].type = Holding[w].type /\ Holding[w].type = f.ty
    BY <1>16
  <2>2. \/ Holding'[w] = Holding[w]
        \/ f.ty \in Mutable /\ Holding'[w].val = Holding[w].val + 1
    BY <1>10, <1>16
  <2> QED BY <1>17, <2>1, <2>2 DEF Runs
<1>19. nestedVal[w] = Holding[w] /\ nestedVal'[w] = Holding'[w]
  <2>1. w \in alive' /\ RestValues'
    BY <1>1, <1>2, <1>5, RestValuedNext
  <2> QED BY <1>2, <1>5, <1>6, <1>7, <2>1, NestedRestValue DEF RestValues
<1>20. nestedVal' = [nestedVal EXCEPT ![w] = Holding'[w]]
  <2>1. \A u \in Wrappers \ {w} : nestedVal'[u] = nestedVal[u]
    BY <1>12, <1>13, NestedStepValues
  <2> QED BY <1>19, <2>1, NestedDomains
<1>21. NestedCallOf(f).op = "call" /\ NestedCallOf(f).this = w
  BY <1>4, <1>5 DEF NestedCallOf
<1>22. nestedVal' \in NestedValues!Effects(NestedCallOf(act[a]))
  BY <1>18, <1>19, <1>20, <1>21 DEF NestedValues!Effects
<1>23. NestedValues!Next
  BY <1>3, <1>5, <1>13, <1>22, NestedTakesEffect
<1> QED BY <1>14, <1>23 DEF NestedMaps

-----------------------------------------------------------------------------
(* 4. The stack                                                             *)

\* Nothing but a call is a call: what goes on is an operation that makes, moves or
\* destroys a callable.
LEMMA ContinueIsNoCall ==
  ASSUME NEW a \in Threads, Framed, Continue(a)
  PROVE  act'[a].op # "call"
<1> DEFINE f == act[a]
           NoCalls(g) == act' = [act EXCEPT ![a] = g] /\ g.op # "call"
<1>1. act \in [Threads -> Frame] /\ f \in Frame /\ Idle.op # "call"
  BY DEF Framed, TypeOK, Idle, Doing
<1>2. (\E g : NoCalls(g)) => act'[a].op # "call"
  BY <1>1
<1>3. ASSUME f.at \in {"move", "retire"}, AfterMove(a, f) PROVE \E g : NoCalls(g)
  <2>1. f.op \in {"copyassign", "movector", "moveassign", "swap"}
    BY <1>3, MoveFrame
  <2>2. \A t, dst, src : Onward(f, t, dst, src).op = f.op
    BY DEF Onward, Moving
  <2>3. \/ act' = [act EXCEPT ![a] = Idle]
        \/ \E t, dst, src : act' = [act EXCEPT ![a] = Onward(f, t, dst, src)]
    <3>1. CASE f.op = "copyassign"
      BY <1>3, <3>1 DEF AfterMove, Go
    <3>2. CASE f.op \in {"movector", "moveassign"}
      BY <1>3, <3>2 DEF AfterMove, Go
    <3>3. CASE f.op = "swap"
      BY <1>3, <3>3 DEF AfterMove, Go
    <3> QED BY <2>1, <3>1, <3>2, <3>3
  <2> QED BY <1>1, <2>1, <2>2, <2>3
<1>4. CASE FinishBuild(a)
  <2>1. CASE f.op \in {"construct", "copyctor"}
    BY <1>1, <1>4, <2>1 DEF FinishBuild, Go
  <2>2. CASE f.op = "copyassign"
    <3>1. \/ \E t, o, l : act' = [act EXCEPT ![a] = Doing(f.op, "kill", f.this, o, t, l)]
          \/ \E t, dst, src : act' = [act EXCEPT ![a] = Onward(f, t, dst, src)]
      BY <1>4, <2>2 DEF FinishBuild, BeginKill, Go
    <3>2. /\ \A t, o, l : Doing(f.op, "kill", f.this, o, t, l).op = f.op
          /\ \A t, dst, src : Onward(f, t, dst, src).op = f.op
      BY DEF Doing, Onward, Moving
    <3> QED BY <1>1, <2>2, <3>1, <3>2
  <2> QED BY <1>2, <1>4, <2>1, <2>2 DEF FinishBuild
<1>5. CASE ThrowBuild(a)
  BY <1>1, <1>5 DEF ThrowBuild, Go
<1>6. CASE FinishKill(a)
  <2>1. \A t, dst, src : Onward(f, t, dst, src).op = f.op
    BY DEF Onward, Moving
  <2> QED BY <1>1, <1>6, <2>1 DEF FinishKill, Go
<1>7. CASE StepMove(a)
  <2>1. f.at = "move" /\ f.op # "call"
    <3>1. f.at = "move"
      BY <1>7 DEF StepMove
    <3> QED BY <3>1, MoveFrame
  <2>2. CASE fits(f.ty)
    <3>1. act' = [act EXCEPT ![a] = [f EXCEPT !.at = "retire", !.cell = f.src]]
      BY <1>7, <2>2 DEF StepMove, Go
    <3> QED BY <1>1, <2>1, <3>1 DEF Frame
  <2>3. CASE ~fits(f.ty)
    BY <1>2, <1>3, <1>7, <2>1, <2>3 DEF StepMove
  <2> QED BY <2>2, <2>3
<1>8. CASE FinishRetire(a)
  BY <1>2, <1>3, <1>8 DEF FinishRetire
<1>9. CASE FinishCall(a)
  BY <1>1, <1>9 DEF FinishCall, Go
<1> QED BY <1>4, <1>5, <1>6, <1>7, <1>8, <1>9 DEF Continue

\* A call that the rule lets begin spares the callables that are being copied.
LEMMA OperateSpares ==
  ASSUME NEW a \in Threads, Ready(a), act[a] = Idle, Stacked, Operate(a)
  PROVE  \A b \in Threads : Spares(act'[a], act[b])
<1>1. act \in [Threads -> Frame] /\ Idle.op # "call"
  BY DEF Ready, Sound, Framed, TypeOK, Idle, Doing
<1>2. Begun(a)
  BY OperateBegins
<1>3. ASSUME NEW w \in Wrappers, AppearsIn(w) PROVE act'[a].op # "call"
  BY <1>1, <1>3 DEF AppearsIn, Appears
<1>4. ASSUME NEW op, NEW t, NEW v, NEW s, NEW c, NEW w \in Wrappers, NEW o,
             BuildsIn(a, op, w, o, t, v, s, c)
      PROVE  act'[a].op # "call"
  BY <1>1, <1>4 DEF BuildsIn, Builds, Go, Doing
<1>5. ASSUME NEW op, NEW o, NEW w \in Wrappers, KillsIn(a, op, w, o) PROVE act'[a].op # "call"
  BY <1>1, <1>5 DEF KillsIn, BeginKill, Go, Doing
<1>6. ASSUME NEW op, NEW t, NEW dst, NEW src, NEW mine, NEW theirs, NEW w \in Wrappers,
             NEW o \in Wrappers, MovesIn(a, op, w, o, t, dst, src, mine, theirs)
      PROVE  act'[a].op # "call"
  BY <1>1, <1>6 DEF MovesIn, BeginsMove, Go, Moving
<1>7. ASSUME NEW w \in Wrappers, CallsIn(a, w)
      PROVE  \A b \in Threads : Spares(act'[a], act[b])
  <2>1. act'[a].this = w /\ act'[a].ty = vt[w]
    BY <1>1, <1>7 DEF CallsIn, Call, Go, Doing
  <2> QED BY <1>7, <2>1 DEF CallsIn, Spares
<1> QED BY <1>2, <1>3, <1>4, <1>5, <1>6, <1>7 DEF Begun, Spares

\* So does the call the innermost level is in.
LEMMA InnermostSpares ==
  ASSUME Stacked, Sparing, stack # <<>>, NEW a \in Threads, a = Innermost
  PROVE  \A b \in Threads \ {a} : Spares(act[a], act[b])
<1> DEFINE n == Len(stack)
<1>1. n \in Nat \ {0} /\ DOMAIN stack = 1 .. n /\ n \in DOMAIN stack /\ stack[n] = a
  BY DEF Stacked, Innermost
<1> SUFFICES ASSUME NEW b \in Threads \ {a} PROVE Spares(act[a], act[b])
  OBVIOUS
<1>2. CASE act[b] = Idle
  BY <1>2 DEF Spares, BeingCopied, Idle, Doing
<1>3. CASE act[b] # Idle
  <2>1. PICK i \in DOMAIN stack : stack[i] = b
    BY <1>3 DEF Stacked
  <2>2. i < n
    BY <1>1, <2>1
  <2> QED BY <1>1, <2>1, <2>2 DEF Sparing
<1> QED BY <1>2, <1>3

\* A sequence without its last element.
LEMMA ButLast ==
  ASSUME NEW S, NEW s \in Seq(S), s # <<>>
  PROVE  /\ Len(s) \in Nat \ {0}
         /\ DOMAIN SubSeq(s, 1, Len(s) - 1) = 1 .. Len(s) - 1
         /\ \A i \in 1 .. Len(s) - 1 : SubSeq(s, 1, Len(s) - 1)[i] = s[i]
<1>1. Len(s) \in Nat \ {0}
  OBVIOUS
<1> QED BY <1>1

\* A step of the level that is innermost, or will be, leaves calls sparing.
LEMMA SparingStep ==
  ASSUME Stacked, Sparing, NEW a \in Threads, \A b \in Threads \ {a} : act'[b] = act[b],
         \A b \in Threads \ {a} : Spares(act'[a], act[b]),
         \/ act[a] = Idle /\ stack' = Append(stack, a)
         \/ act[a] = Idle /\ stack' = stack
         \/ /\ stack # <<>> /\ a = Innermost
            /\ stack' = stack \/ stack' = SubSeq(stack, 1, Len(stack) - 1)
  PROVE  Sparing'
<1> DEFINE n == Len(stack)
<1>1. /\ stack \in Seq(Threads) /\ n \in Nat /\ DOMAIN stack = 1 .. n
      /\ \A i \in 1 .. n : stack[i] \in Threads
      /\ act[a] = Idle => \A i \in 1 .. n : stack[i] # a
      /\ \A i, j \in 1 .. n : i # j => stack[i] # stack[j]
      /\ a = Innermost => stack[n] = a
  BY DEF Stacked, Innermost
<1>2. \A i, j \in DOMAIN stack' :
        i < j => /\ i \in 1 .. n /\ stack'[i] = stack[i] /\ stack[i] # a
                 /\ stack'[j] # a => j \in 1 .. n /\ stack'[j] = stack[j]
                 /\ stack'[j] \in Threads
  <2>1. CASE act[a] = Idle /\ stack' = Append(stack, a)
    <3>1. /\ DOMAIN stack' = 1 .. n + 1 /\ \A i \in 1 .. n : stack'[i] = stack[i]
          /\ stack'[n + 1] = a
      BY <1>1, <2>1
    <3>2. \A i, j \in 1 .. n + 1 : i < j => i \in 1 .. n /\ (j \in 1 .. n \/ j = n + 1)
      BY <1>1
    <3> QED BY <1>1, <2>1, <3>1, <3>2
  <2>2. CASE act[a] = Idle /\ stack' = stack
    BY <1>1, <2>2
  <2>3. CASE stack # <<>> /\ a = Innermost /\ stack' = stack
    <3>1. \A i, j \in 1 .. n : i < j => i # n /\ n \in 1 .. n
      BY <1>1
    <3> QED BY <1>1, <2>3, <3>1
  <2>4. CASE stack # <<>> /\ a = Innermost /\ stack' = SubSeq(stack, 1, n - 1)
    <3>1. n \in Nat \ {0}
      BY <1>1, <2>4, ButLast
    <3>2. DOMAIN stack' = 1 .. n - 1 /\ \A i \in 1 .. n - 1 : stack'[i] = stack[i]
      BY <1>1, <2>4, ButLast
    <3> HIDE DEF n
    <3>3. \A i \in 1 .. n - 1 : i \in 1 .. n /\ i # n /\ n \in 1 .. n
      BY <3>1
    <3>4. \A i \in 1 .. n - 1 : stack'[i] = stack[i] /\ stack[i] \in Threads /\ stack[i] # a
      BY <1>1, <2>4, <3>2, <3>3
    <3> QED BY <3>2, <3>3, <3>4
  <2> QED BY <2>1, <2>2, <2>3, <2>4
<1>3. ASSUME NEW i \in DOMAIN stack', NEW j \in DOMAIN stack', i < j
      PROVE  Spares(act'[stack'[j]], act'[stack'[i]])
  <2>1. act'[stack'[i]] = act[stack[i]] /\ stack[i] \in Threads \ {a} /\ i \in DOMAIN stack
    BY <1>1, <1>2, <1>3
  <2>2. CASE stack'[j] = a
    BY <2>1, <2>2
  <2>3. CASE stack'[j] # a
    <3>1. j \in DOMAIN stack /\ act'[stack'[j]] = act[stack[j]]
      BY <1>1, <1>2, <1>3, <2>3
    <3> QED BY <1>3, <2>1, <3>1 DEF Sparing
  <2> QED BY <2>2, <2>3
<1> QED BY <1>3 DEF Sparing

\* Every step of the innermost level maps.
LEMMA NestedContinueMaps ==
  ASSUME NEW a \in Threads, Poised(a), Continue(a),
         \A b \in Threads \ {a} : Spares(act[a], act[b])
  PROVE  NestedMaps
BY NestedConstructedMaps, NestedClonedMaps, NestedThrowMaps, NestedFinishKillMaps,
   NestedStepMoveMaps, NestedFinishRetireMaps, NestedFinishCallMaps DEF Continue

\* Before any Function exists every place is raw and no level is in use.
LEMMA NestedInitMaps == NestedInit => NestedValues!Init /\ NestedValuesInv
<1> SUFFICES ASSUME NestedInit PROVE NestedValues!Init /\ NestedValuesInv
  OBVIOUS
<1>1. alive = {} /\ act = [a \in Threads |-> Idle] /\ stack = <<>>
  BY DEF NestedInit, Init
<1>2. \A a \in Threads : /\ act[a] = Idle /\ NestedCallOf(act[a]) = NoType
                         /\ act[a].at # "build" /\ act[a].at # "kill"
                         /\ ~NestedInEffect(act[a])
  BY <1>1 DEF NestedCallOf, NestedInEffect, InEffect, Idle, Doing
<1>3. nestedVal = [w \in Wrappers |-> Null]
  BY <1>1, <1>2 DEF nestedVal
<1>4. nestedCall = [a \in Threads |-> NoType]
  BY <1>2, NestedDomains
<1>5. CopiesHold /\ KillsHold /\ Sparing
  BY <1>1, <1>2 DEF CopiesHold, KillsHold, Sparing
<1> QED BY <1>3, <1>4, <1>5, NestedInitInvariant DEF NestedValues!Init, NestedValuesInv

\* Every step maps to a step of FunctionValues or to none.
LEMMA NestedStepMaps ==
  NestedValuesInv /\ [NestedNext]_nvars =>
    [NestedValues!Next]_(NestedValues!vars) /\ NestedValuesInv'
<1> SUFFICES ASSUME NestedValuesInv, [NestedNext]_nvars
             PROVE  [NestedValues!Next]_(NestedValues!vars) /\ NestedValuesInv'
  OBVIOUS
<1>1. NestedInv /\ CopiesHold /\ KillsHold /\ Sparing /\ PinsRest /\ Stacked /\ Framed
  BY PinnedRest DEF NestedValuesInv, NestedInv, Sound
<1>2. NestedInv'
  BY <1>1, NestedStepInvariant
<1>3. CASE UNCHANGED nvars
  <2>1. alive' = alive /\ vt' = vt /\ mem' = mem /\ act' = act /\ stack' = stack
    BY <1>3 DEF nvars, vars
  <2>2. nestedVal' = nestedVal /\ nestedCall' = nestedCall
    BY <2>1 DEF nestedVal, nestedCall, HeldIn, Holds
  <2>3. CopiesHold' /\ KillsHold' /\ Sparing'
    BY <1>1, <2>1 DEF CopiesHold, KillsHold, Sparing, Standing
  <2> QED BY <1>2, <2>2, <2>3 DEF NestedValues!vars, NestedValuesInv
<1>4. CASE NestedBegin
  <2>1. PICK a \in Threads :
          /\ act[a] = Idle /\ Operate(a)
          /\ stack' = IF act'[a] = Idle THEN stack ELSE Append(stack, a)
    BY <1>4 DEF NestedBegin
  <2>2. Ready(a) /\ Onto(a)
    BY <1>1, <2>1, ReadyFree, OperateStep
  <2>3. NestedMaps
    BY <1>1, <2>1, <2>2, OperateMaps DEF Poised
  <2>4. Sparing'
    <3>1. \A b \in Threads \ {a} : act'[b] = act[b] /\ Spares(act'[a], act[b])
      BY <1>1, <2>1, <2>2, OperateSpares DEF Onto
    <3> QED BY <1>1, <2>1, <3>1, SparingStep
  <2> QED BY <1>2, <2>3, <2>4 DEF NestedMaps, NestedValues!vars, NestedValuesInv
<1>5. ASSUME NEW a \in Threads, NestedContinue(a)
      PROVE  [NestedValues!Next]_(NestedValues!vars) /\ NestedValuesInv'
  <2>1. /\ stack # <<>> /\ a = Innermost /\ Continue(a)
        /\ stack' = IF act'[a] = Idle THEN SubSeq(stack, 1, Len(stack) - 1) ELSE stack
    BY <1>5 DEF NestedContinue
  <2>2. Ready(a) /\ Onto(a)
    BY <1>1, <2>1, ReadyInnermost, ContinueStep
  <2>3. \A b \in Threads \ {a} : Spares(act[a], act[b])
    BY <1>1, <2>1, InnermostSpares
  <2>4. NestedMaps
    BY <1>1, <2>1, <2>2, <2>3, NestedContinueMaps DEF Poised
  <2>5. Sparing'
    <3>1. \A b \in Threads \ {a} : act'[b] = act[b]
      BY <2>2 DEF Onto
    <3>2. \A b \in Threads \ {a} : Spares(act'[a], act[b])
      BY <1>1, <2>1, ContinueIsNoCall DEF Spares
    <3> QED BY <1>1, <2>1, <3>1, <3>2, SparingStep
  <2> QED BY <1>2, <2>4, <2>5 DEF NestedMaps, NestedValues!vars, NestedValuesInv
<1> QED BY <1>3, <1>4, <1>5 DEF NestedNext

\* At every instant copies in progress have the value of their source, whatever
\* the callables' code did since they began; a callable under destruction is still
\* the one its Function finds; and nobody calls, to change it, what is copied.
THEOREM NestedValuesInvariance == NestedSpec => []NestedValuesInv
<1>1. NestedInit => NestedValuesInv
  BY NestedInitMaps
<1>2. NestedValuesInv /\ [NestedNext]_nvars => NestedValuesInv'
  BY NestedStepMaps
<1> QED BY <1>1, <1>2, PTL DEF NestedSpec

\* Function, used by the code it calls, implements FunctionValues: whatever a
\* callable does with Functions while it is copied, moved, destroyed or called,
\* it sees each of them before or after the operations it is nested in.
THEOREM NestedIsValue == NestedSpec => ImplementsNested
<1>1. NestedInit => NestedValues!Init
  BY NestedInitMaps
<1>2. NestedValuesInv /\ [NestedNext]_nvars => [NestedValues!Next]_(NestedValues!vars)
  BY NestedStepMaps
<1> QED BY <1>1, <1>2, NestedValuesInvariance, PTL
        DEF NestedSpec, ImplementsNested, NestedValues!Behaves
=============================================================================
