--------------------------- MODULE ReentrantProofs ---------------------------
(***************************************************************************)
(* Proofs about ReentrantFunction, for any number of Functions, levels,    *)
(* callable types, heap cells and values.                                  *)
(*                                                                         *)
(* Section 1 shows who has a Function between two states and what slots    *)
(* hold, section 2 that the step of one level leaves the others what they  *)
(* rely on, section 3 takes the actions one by one, section 4 the stack.   *)
(* The memory lemmas and those about single frames are FunctionProofs'.    *)
(***************************************************************************)
EXTENDS ReentrantInvariant, FunctionProofs

-----------------------------------------------------------------------------
(* 1. Between two states                                                    *)

\* No two operations have the same Function between two states.
SoleBetween(A) ==
  \A a, b \in Threads : a # b => Between(A[a]) \cap Between(A[b]) \cap Wrappers = {}

\* What an operation has between two states, relies on or alters, it uses.
LEMMA BetweenIsUsed ==
  ASSUME NEW f, NEW w \in Wrappers
  PROVE  /\ w \in Between(f) => w \in Uses(f)
         /\ w \in Alters(f) => w \in Uses(f)
         /\ w \in Awaited(f) \/ w \in Pinned(f) => w \in Uses(f)
BY WritesAreUses, DistinctAssumption DEF Between, Alters, Awaited, Pinned, Uses

\* A free level relies on nothing.
LEMMA IdleRelies ==
  /\ Between(Idle) = {} /\ Pinned(Idle) = {} /\ Awaited(Idle) = {} /\ Alters(Idle) = {}
  /\ \A f : Respects(Idle, f) /\ Respects(f, Idle)
BY IdleFrame DEF Between, Pinned, Awaited, Alters, Respects, Idle, Doing

\* What an operation has between two states it changes; outside of that and its
\* own tmp, a slot keeps what its vtable says.
LEMMA KeepsElsewhere ==
  ASSUME NEW a \in Threads, NEW f, NEW al \in SUBSET Wrappers, NEW V, NEW m,
         FrameOK(a, f, al, V, m), NEW w \in Wrappers
  PROVE  /\ w \in Between(f) => w \in Writes(f)
         /\ w \notin Between(f) => \A v : Keeps(f, a, w, v) = v
<1>1. CASE f = Idle
  BY <1>1, IdleRelies, IdleFrame
<1>2. CASE f # Idle /\ f.op \in {"construct", "copyctor"}
  <2>1. f.at = "build"
    BY <1>2 DEF FrameOK
  <2> QED BY <1>2, <2>1 DEF Between, Keeps, Writes
<1>3. CASE f # Idle /\ f.op = "call"
  <2>1. f.at = "run"
    BY <1>3 DEF FrameOK
  <2> QED BY <1>3, <2>1 DEF Between, Keeps
<1>4. CASE f # Idle /\ f.op \in {"reset", "destroy"}
  <2>1. f.at = "kill"
    BY <1>4 DEF FrameOK, Kills
  <2> QED BY <1>4, <2>1 DEF Between, Keeps, Writes
<1>5. CASE f # Idle /\ f.op = "copyassign"
  <2>1. /\ w # a
        /\ \/ f.at = "build" \/ f.at = "kill"
           \/ f.at \in {"move", "retire"} /\ f.src = a /\ f.dst = f.this
    BY <1>5, DistinctAssumption DEF FrameOK, Kills, Moves
  <2> QED BY <1>5, <2>1 DEF Between, Keeps, Writes
<1>6. CASE f # Idle /\ f.op \in {"movector", "moveassign"}
  <2>1. /\ f.this # Null /\ f.other # Null
        /\ \/ f.at = "kill"
           \/ f.at \in {"move", "retire"} /\ f.src = f.other /\ f.dst = f.this
    BY <1>6, DistinctAssumption DEF FrameOK, Kills, Moves
  <2> QED BY <1>6, <2>1 DEF Between, Keeps, Uses, Writes
<1>7. CASE f # Idle /\ f.op = "swap"
  <2>1. /\ w # a /\ f.this # Null /\ f.other # Null
        /\ f.at \in {"move", "retire"}
        /\ f.src \in {f.this, f.other, a} /\ f.dst \in {f.this, f.other, a}
    BY <1>7, DistinctAssumption DEF FrameOK, Legs, Moves
  <2> QED BY <1>7, <2>1 DEF Between, Keeps, Uses, Writes
<1> QED BY <1>1, <1>2, <1>3, <1>4, <1>5, <1>6, <1>7 DEF FrameOK

\* What a Function holds that no other level has between two states.
LEMMA HoldsByLevel ==
  ASSUME NEW A, NEW V, NEW a \in Threads, NEW al \in SUBSET Wrappers, NEW m,
         FrameOK(a, A[a], al, V, m),
         NEW w \in Wrappers, \A b \in Threads \ {a} : w \notin Between(A[b])
  PROVE  HoldsIn(A, V, w) = Keeps(A[a], a, w, V[w])
<1> DEFINE In == {b \in Threads : A[b] # Idle /\ w \in Between(A[b])}
<1>1. w \notin Threads
  BY DistinctAssumption
<1>2. CASE w \in Between(A[a])
  <2>1. In = {a}
    BY <1>2, IdleRelies
  <2>2. (CHOOSE x \in In : TRUE) = a
    BY <2>1
  <2> QED BY <1>1, <2>1, <2>2 DEF HoldsIn
<1>3. CASE w \notin Between(A[a])
  <2>1. In = {}
    BY <1>3
  <2>2. HoldsIn(A, V, w) = V[w]
    BY <1>1, <2>1 DEF HoldsIn
  <2>3. Keeps(A[a], a, w, V[w]) = V[w]
    BY <1>3, KeepsElsewhere
  <2> QED BY <2>2, <2>3
<1> QED BY <1>2, <1>3

-----------------------------------------------------------------------------
(* 2. The step of one level                                                 *)

\* Level a may be doing g, as far as the other levels go.
Allowed(a, g) == \A b \in Threads \ {a} : Respects(g, act[b])

\* Level a may take a step.
Ready(a) == Sound /\ SoleBetween(act) /\ Allowed(a, act[a])

\* It has, and the other levels still have what they rely on.
Onto(a) == /\ Sound'
           /\ \A b \in Threads \ {a} : act'[b] = act[b] /\ Respects(act'[a], act[b])

\* What slots hold before and after level a goes on to g: only those of the two
\* frames' Functions and its own tmp change.
LevelSeen(a, g) ==
  /\ NestedKeepers[a] = Keeps(act[a], a, a, NoType)
  /\ NestedKeepers'[a] = Keeps(g, a, a, NoType)
  /\ \A w \in Wrappers :
       w \in Writes(act[a]) \cup Writes(g) =>
         /\ NestedKeepers[w] = Keeps(act[a], a, w, vt[w])
         /\ NestedKeepers'[w] = Keeps(g, a, w, vt'[w])
  /\ \A s \in Slots :
       s # a /\ s \notin Writes(act[a]) \cup Writes(g) => NestedKeepers'[s] = NestedKeepers[s]
  /\ OthersBusy(a, Cells, Lives, Kinds, Cells', Lives', Kinds')
  /\ Cells[a] = CellOf(act[a]) /\ Lives[a] = LifeOf(act[a]) /\ Kinds[a] = act[a].ty
  /\ Cells'[a] = CellOf(g) /\ Lives'[a] = LifeOf(g) /\ Kinds'[a] = g.ty

\* What the slots hold follows what the one level does.
LEMMA SeenStep ==
  ASSUME NEW a \in Threads, Ready(a), NEW g, Allowed(a, g),
         act'[a] = g /\ \A b \in Threads \ {a} : act'[b] = act[b],
         alive' \in SUBSET Wrappers, FrameOK(a, g, alive', vt', mem'),
         \A w \in Wrappers : w \notin Writes(act[a]) \cup Writes(g) => vt'[w] = vt[w]
  PROVE  LevelSeen(a, g) /\ SoleBetween(act')
<1> DEFINE M == Writes(act[a]) \cup Writes(g)
<1>1. act'[a] = g /\ \A b \in Threads \ {a} : act'[b] = act[b]
  OBVIOUS
<1>2. FrameOK(a, act[a], alive, vt, mem) /\ alive \in SUBSET Wrappers /\ SoleBetween(act)
  BY DEF Ready, Sound, Framed, Frames, TypeOK
<1>3. \A b \in Threads \ {a} : Uses(act[a]) \cap Between(act[b]) = {}
                               /\ Uses(g) \cap Between(act[b]) = {}
  BY DEF Ready, Allowed, Respects
<1>4. \A w \in Wrappers :
        w \in M \cup Between(g) \cup Between(act[a]) =>
          \A b \in Threads \ {a} : w \notin Between(act[b])
  BY <1>3, WritesAreUses, BetweenIsUsed
<1>5. SoleBetween(act')
  BY <1>1, <1>2, <1>4 DEF SoleBetween
<1>6. /\ \A s \in Slots : /\ NestedKeepers[s] = HoldsIn(act, vt, s)
                          /\ NestedKeepers'[s] = HoldsIn(act', vt', s)
      /\ a \in Slots /\ Wrappers \subseteq Slots
  BY DEF NestedKeepers, Holds, Slots
<1>7. /\ HoldsIn(act, vt, a) = Keeps(act[a], a, a, NoType)
      /\ HoldsIn(act', vt', a) = Keeps(act'[a], a, a, NoType)
  BY DEF HoldsIn
<1>8. ASSUME NEW w \in Wrappers, w \in M
      PROVE  /\ HoldsIn(act, vt, w) = Keeps(act[a], a, w, vt[w])
             /\ HoldsIn(act', vt', w) = Keeps(act'[a], a, w, vt'[w])
  <2>1. \A b \in Threads \ {a} : w \notin Between(act[b])
    BY <1>4, <1>8
  <2>2. HoldsIn(act, vt, w) = Keeps(act[a], a, w, vt[w])
    BY <1>2, <2>1, HoldsByLevel
  <2>3. \A b \in Threads \ {a} : w \notin Between(act'[b])
    BY <1>1, <2>1
  <2>4. FrameOK(a, act'[a], alive', vt', mem') /\ alive' \in SUBSET Wrappers
    BY <1>1
  <2>5. HoldsIn(act', vt', w) = Keeps(act'[a], a, w, vt'[w])
    BY <2>3, <2>4, HoldsByLevel
  <2> QED BY <2>2, <2>5
<1>9. ASSUME NEW s \in Slots, s # a, s \notin M
      PROVE  HoldsIn(act', vt', s) = HoldsIn(act, vt, s)
  <2>1. CASE s \in Threads
    BY <2>1, <1>1, <1>9 DEF HoldsIn
  <2>2. CASE s \notin Threads
    <3> DEFINE In == {b \in Threads : act[b] # Idle /\ s \in Between(act[b])}
               In2 == {b \in Threads : act'[b] # Idle /\ s \in Between(act'[b])}
    <3>1. s \in Wrappers /\ vt'[s] = vt[s]
      BY <2>2, <1>9 DEF Slots
    <3>2. s \notin Between(act[a]) /\ s \notin Between(act'[a])
      BY <3>1, <1>1, <1>2, <1>9, KeepsElsewhere
    <3>3. In2 = In /\ \A b \in In : act'[b] = act[b]
      BY <3>2, <1>1
    <3>4. HoldsIn(act, vt, s) = IF In # {} THEN Keeps(act[CHOOSE x \in In : TRUE],
                                                      CHOOSE x \in In : TRUE, s, vt[s])
                                ELSE vt[s]
      BY <2>2 DEF HoldsIn
    <3>5. HoldsIn(act', vt', s) = IF In2 # {} THEN Keeps(act'[CHOOSE x \in In2 : TRUE],
                                                        CHOOSE x \in In2 : TRUE, s, vt'[s])
                                  ELSE vt'[s]
      BY <2>2 DEF HoldsIn
    <3> HIDE DEF In, In2
    <3> QED BY <3>1, <3>3, <3>4, <3>5
  <2> QED BY <2>1, <2>2
<1>10. /\ OthersBusy(a, Cells, Lives, Kinds, Cells', Lives', Kinds')
       /\ Cells[a] = CellOf(act[a]) /\ Lives[a] = LifeOf(act[a]) /\ Kinds[a] = act[a].ty
       /\ Cells'[a] = CellOf(g) /\ Lives'[a] = LifeOf(g) /\ Kinds'[a] = g.ty
  BY <1>1 DEF OthersBusy, Cells, Lives, Kinds
<1> QED BY <1>1, <1>5, <1>6, <1>7, <1>8, <1>9, <1>10 DEF LevelSeen

\* A frame stays right if the Functions it has between two states and those it
\* will read stay as they are, and those it will look at afresh stay alive.
LEMMA FrameSurvives ==
  ASSUME NEW b \in Threads, NEW f, NEW al \in SUBSET Wrappers, NEW V, NEW m,
         FrameOK(b, f, al, V, m),
         NEW al2, NEW V2, NEW m2,
         \A w \in (Between(f) \cup Pinned(f)) \cap Wrappers :
           /\ w \in al2 <=> w \in al
           /\ V2[w] = V[w]
           /\ m2.ptr[w] = m.ptr[w],
         \A w \in Awaited(f) \cap al : w \in al2
  PROVE  FrameOK(b, f, al2, V2, m2)
<1>1. CASE f = Idle
  BY <1>1 DEF FrameOK
<1>2. CASE f # Idle /\ f.op \in {"construct", "copyctor"}
  <2>1. /\ f.at = "build" /\ f.this \in Wrappers /\ f.this \in Between(f)
        /\ f.op = "copyctor" => f.other \in Pinned(f) /\ f.other \in Wrappers
    BY <1>2 DEF FrameOK, Between, Pinned
  <2> QED BY <1>2, <2>1 DEF FrameOK
<1>3. CASE f # Idle /\ f.op = "call"
  <2>1. f.this \in Wrappers /\ f.this \in Pinned(f)
    BY <1>3 DEF FrameOK, Pinned
  <2>2. Place(m2, f.ty, f.this) = Place(m, f.ty, f.this)
    BY <2>1 DEF Place
  <2> QED BY <1>3, <2>1, <2>2 DEF FrameOK
<1>4. CASE f # Idle /\ f.op \in {"reset", "destroy"}
  <2>1. f.this \in Wrappers /\ f.this \in Between(f)
    BY <1>4 DEF FrameOK, Between, Kills
  <2> QED BY <1>4, <2>1 DEF FrameOK, Kills
<1>5. CASE f # Idle /\ f.op = "copyassign"
  <2>1. /\ f.this \in Wrappers /\ f.other \in Wrappers /\ f.other \in Pinned(f)
        /\ f.at \in {"build", "kill", "move", "retire"}
        /\ f.this \in IF f.at = "build" THEN Awaited(f) ELSE Between(f)
    BY <1>5 DEF FrameOK, Between, Pinned, Awaited, Kills, Moves
  <2> QED BY <1>5, <2>1 DEF FrameOK, Kills, Moves
<1>6. CASE f # Idle /\ f.op = "moveassign"
  <2>1. /\ f.this \in Wrappers /\ f.other \in Wrappers
        /\ f.at \in {"kill", "move", "retire"} /\ f.this \in Between(f)
        /\ f.other \in IF f.at = "kill" THEN Awaited(f) ELSE Between(f)
    BY <1>6, DistinctAssumption DEF FrameOK, Between, Awaited, Kills, Moves, Uses
  <2> QED BY <1>6, <2>1 DEF FrameOK, Kills, Moves
<1>7. CASE f # Idle /\ f.op \in {"movector", "swap"}
  <2>1. /\ f.this \in Wrappers /\ f.other \in Wrappers
        /\ f.this \in Between(f) /\ f.other \in Between(f)
    BY <1>7, DistinctAssumption DEF FrameOK, Between, Legs, Moves, Uses
  <2> QED BY <1>7, <2>1 DEF FrameOK, Legs
<1> QED BY <1>1, <1>2, <1>3, <1>4, <1>5, <1>6, <1>7 DEF FrameOK

\* A slot where a level constructs or destroys a callable is between two states
\* or that level's tmp.
LEMMA CellsAreBetween ==
  ASSUME Frames, NEW b \in Threads, Cells[b] \in Slots
  PROVE  Cells[b] \in Between(act[b]) \cup {b}
<1>1. Cells[b] = act[b].cell /\ act[b].at \in {"build", "kill", "retire"}
  BY DistinctAssumption DEF Cells, CellOf, Slots
<1>2. act[b] # Idle /\ FrameOK(b, act[b], alive, vt, mem) /\ act[b].cell \in Slots
  BY <1>1 DEF Idle, Doing, Frames
<1>3. \A t, s : CellFor(t, act[b].cell, s) => act[b].cell = s
  BY <1>2, DistinctAssumption DEF CellFor, Slots
<1>4. CASE act[b].at = "build"
  BY <1>1, <1>2, <1>3, <1>4 DEF FrameOK, Between, Kills, Legs, Moves
<1>5. CASE act[b].at = "kill"
  BY <1>1, <1>2, <1>3, <1>5 DEF FrameOK, Between, Kills, Legs, Moves
<1>6. CASE act[b].at = "retire"
  <2>1. act[b].cell = act[b].src
    BY <1>2, <1>6 DEF FrameOK, Kills, Legs, Moves
  <2>2. /\ act[b].op = "copyassign" => act[b].src = b
        /\ act[b].op # "copyassign" => act[b].src \in {b, act[b].this, act[b].other}
    BY <1>2, <1>6 DEF FrameOK, Kills, Legs, Moves
  <2> QED BY <1>1, <1>2, <1>6, <2>1, <2>2, DistinctAssumption DEF Between, Uses, Slots
<1> QED BY <1>1, <1>4, <1>5, <1>6

\* What a step leaves to level b.
Leaves(b) ==
  /\ \A w \in (Between(act[b]) \cup Pinned(act[b])) \cap Wrappers :
       /\ w \in alive' <=> w \in alive
       /\ vt'[w] = vt[w]
       /\ mem'.ptr[w] = mem.ptr[w]
  /\ \A w \in Awaited(act[b]) \cap alive : w \in alive'

\* The obligations of a step of level a to frame g.
LEMMA NestedStep ==
  ASSUME NEW a \in Threads, Ready(a), NEW g, Allowed(a, g),
         act' \in [Threads -> Frame], act'[a] = g, \A b \in Threads \ {a} : act'[b] = act[b],
         alive' \in SUBSET Wrappers, vt' \in [Wrappers -> Types \cup {NoType}],
         \A b \in Threads \ {a} : Leaves(b),
         FrameOK(a, g, alive', vt', mem'), Unborn',
         Consistent(mem', NestedKeepers', Cells', Lives', Kinds'), defined'
  PROVE  Onto(a)
<1>1. act'[a] = g /\ \A b \in Threads \ {a} : act'[b] = act[b]
  OBVIOUS
<1>2. TypeOK'
  BY DEF TypeOK, Consistent
<1>3. Frames'
  <2> SUFFICES ASSUME NEW b \in Threads
               PROVE  FrameOK(b, act'[b], alive', vt', mem')
    BY DEF Frames
  <2>1. CASE b = a
    BY <1>1, <2>1
  <2>2. CASE b # a
    <3>1. FrameOK(b, act[b], alive, vt, mem) /\ alive \in SUBSET Wrappers
      BY DEF Ready, Sound, Framed, Frames, TypeOK
    <3>2. Leaves(b)
      BY <2>2
    <3>3. FrameOK(b, act[b], alive', vt', mem')
      BY <3>1, <3>2, FrameSurvives DEF Leaves
    <3> QED BY <1>1, <2>2, <3>3
  <2> QED BY <2>1, <2>2
<1> QED BY <1>1, <1>2, <1>3 DEF Onto, Sound, Framed, Allowed

\* Frame g is of the same operation as f, or the operation is over.
Same(f, g) == \/ g = Idle
              \/ g.op = f.op /\ g.op # "call" /\ g.this = f.this /\ g.other = f.other

\* Level a goes on to frame g, within the Functions its operation alters.
Goes(a, g) ==
  /\ Proceeds(a, g) /\ Same(act[a], g)
  /\ act[a].op = "call" => alive' = alive /\ vt' = vt
  /\ \A w \in alive \ alive' : act[a].op = "destroy" /\ w = act[a].this

\* An operation that goes on is as welcome as it was.
LEMMA GoesAllowed ==
  ASSUME NEW a \in Threads, Ready(a), NEW g, Same(act[a], g)
  PROVE  Allowed(a, g)
<1>1. CASE g = Idle
  BY <1>1, IdleRelies DEF Allowed
<1>2. CASE g.op = act[a].op /\ g.op # "call" /\ g.this = act[a].this /\ g.other = act[a].other
  <2>1. Uses(g) = Uses(act[a]) /\ Alters(g) = Alters(act[a])
    BY <1>2 DEF Uses, Alters, Writes
  <2> QED BY <1>2, <2>1 DEF Ready, Allowed, Respects
<1> QED BY <1>1, <1>2 DEF Same

\* What the slots hold before and after an operation goes on.
LEMMA GoesSeen ==
  ASSUME NEW a \in Threads, Ready(a), NEW g, Goes(a, g), FrameOK(a, g, alive', vt', mem')
  PROVE  /\ NestedKeepers[a] = Keeps(act[a], a, a, NoType)
         /\ NestedKeepers'[a] = Keeps(g, a, a, NoType)
         /\ \A w \in Wrappers :
              w \in Writes(act[a]) => /\ NestedKeepers[w] = Keeps(act[a], a, w, vt[w])
                                      /\ NestedKeepers'[w] = Keeps(g, a, w, vt'[w])
         /\ \A s \in Slots :
              s # a /\ s \notin Writes(act[a]) => NestedKeepers'[s] = NestedKeepers[s]
         /\ OthersBusy(a, Cells, Lives, Kinds, Cells', Lives', Kinds')
         /\ Cells[a] = CellOf(act[a]) /\ Lives[a] = LifeOf(act[a]) /\ Kinds[a] = act[a].ty
         /\ Cells'[a] = CellOf(g) /\ Lives'[a] = LifeOf(g) /\ Kinds'[a] = g.ty
<1>1. Writes(act[a]) \cup Writes(g) = Writes(act[a])
  BY IdleFrame DEF Goes, Proceeds
<1>2. /\ act'[a] = g /\ \A b \in Threads \ {a} : act'[b] = act[b]
      /\ alive' \in SUBSET Wrappers
      /\ \A w \in Wrappers : w \notin Writes(act[a]) \cup Writes(g) => vt'[w] = vt[w]
  BY <1>1 DEF Goes, Proceeds
<1>3. Allowed(a, g)
  BY GoesAllowed DEF Goes
<1>4. LevelSeen(a, g)
  BY <1>2, <1>3, SeenStep
<1> QED BY <1>1, <1>4 DEF LevelSeen

\* An operation that goes on keeps the invariant if its own frame and memory do.
LEMMA GoesStep ==
  ASSUME NEW a \in Threads, Ready(a), NEW g, Goes(a, g),
         \A w \in Wrappers \ Alters(act[a]) : mem'.ptr[w] = mem.ptr[w],
         FrameOK(a, g, alive', vt', mem'), Unborn',
         Consistent(mem', NestedKeepers', Cells', Lives', Kinds'), defined'
  PROVE  Onto(a)
<1>1. Allowed(a, g)
  BY GoesAllowed DEF Goes
<1>2. \A w \in Wrappers \ Alters(act[a]) : (w \in alive' <=> w \in alive) /\ vt'[w] = vt[w]
  BY DEF Goes, Proceeds, Alters
<1>3. ASSUME NEW b \in Threads \ {a} PROVE Leaves(b)
  <2>1. Respects(act[a], act[b])
    BY DEF Ready, Allowed
  <2>2. \A w \in (Between(act[b]) \cup Pinned(act[b])) \cap Wrappers : w \notin Alters(act[a])
    BY <2>1, BetweenIsUsed DEF Respects
  <2>3. \A w \in Awaited(act[b]) \cap alive : w \in alive'
    BY <2>1 DEF Respects, Goes
  <2> QED BY <1>2, <2>2, <2>3 DEF Leaves
<1> QED BY <1>1, <1>3, NestedStep DEF Goes, Proceeds

\* An operation that begins and only starts to change storages leaves the other
\* levels what they rely on.
LEMMA BeginLeaves ==
  ASSUME NEW a \in Threads, NEW g, Allowed(a, g), UNCHANGED <<alive, vt>>,
         \A w \in Wrappers \ Alters(g) : mem'.ptr[w] = mem.ptr[w]
  PROVE  \A b \in Threads \ {a} : Leaves(b)
<1> SUFFICES ASSUME NEW b \in Threads \ {a} PROVE Leaves(b)
  OBVIOUS
<1>1. Respects(g, act[b])
  BY DEF Allowed
<1>2. \A w \in (Between(act[b]) \cup Pinned(act[b])) \cap Wrappers : w \notin Alters(g)
  BY <1>1, BetweenIsUsed DEF Respects
<1> QED BY <1>2 DEF Leaves

\* What an operation will read again is alive.
LEMMA PinnedAlive ==
  ASSUME Framed, NEW b \in Threads
  PROVE  Pinned(act[b]) \subseteq alive
<1>1. FrameOK(b, act[b], alive, vt, mem)
  BY DEF Framed, Frames
<1> QED BY <1>1, IdleRelies DEF FrameOK, Pinned, Kills, Legs, Moves

-----------------------------------------------------------------------------
(* 3. The actions                                                           *)

\* An empty Function appears or disappears; no code of a callable runs.
LEMMA NestedAppears ==
  ASSUME NEW a \in Threads, Ready(a), act[a] = Idle, NEW w \in Wrappers, Appears(w),
         \A b \in Threads : w \notin Between(act[b]) \cup Pinned(act[b]),
         w \in alive => \A b \in Threads : w \notin Awaited(act[b])
  PROVE  Onto(a)
<1>0. act' = act /\ vt' = vt /\ vt[w] = NoType /\ alive \in SUBSET Wrappers
  BY DEF Appears, Ready, Sound, Framed, TypeOK
<1>1. act' \in [Threads -> Frame] /\ act'[a] = Idle /\ \A b \in Threads \ {a} : act'[b] = act[b]
  BY <1>0 DEF Ready, Sound, Framed, TypeOK
<1>2. Allowed(a, Idle)
  BY IdleRelies DEF Allowed
<1>3. NestedKeepers' = NestedKeepers /\ Cells' = Cells /\ Lives' = Lives /\ Kinds' = Kinds
  BY <1>0 DEF NestedKeepers, Holds, HoldsIn, Cells, Lives, Kinds
<1>4. NestedKeepers[w] = NoType
  <2>1. HoldsIn(act, vt, w) = NoType
    BY <1>0, DistinctAssumption DEF HoldsIn
  <2> QED BY <2>1 DEF NestedKeepers, Holds, Slots
<1>5. Consistent(mem, NestedKeepers, Cells, Lives, Kinds) /\ mem \in Memory
  BY DEF Ready, Sound, Consistent
<1>6. Consistent(Fresh(mem, w), NestedKeepers, Cells, Lives, Kinds)
  BY <1>4, <1>5, PointConsistent DEF Fresh, Slots
<1>7. Consistent(mem', NestedKeepers', Cells', Lives', Kinds')
  BY <1>3, <1>5, <1>6 DEF Appears
<1>8. \A v \in Wrappers \ {w} : mem'.ptr[v] = mem.ptr[v] /\ (v \in alive' <=> v \in alive)
  <2>1. mem' = Point(mem, w, Null) \/ mem' = mem
    BY DEF Appears, Fresh
  <2>2. Point(mem, w, Null).ptr = [mem.ptr EXCEPT ![w] = Null]
    BY <1>5, PointFields DEF Slots
  <2>3. mem.ptr \in [Slots -> Heap \cup {Null, Junk}]
    BY <1>5 DEF Memory
  <2> QED BY <2>1, <2>2, <2>3 DEF Slots, Appears
<1>9. \A b \in Threads \ {a} : Leaves(b)
  BY <1>0, <1>8 DEF Leaves
<1>10. FrameOK(a, Idle, alive', vt', mem')
  BY DEF FrameOK
<1>11. /\ alive' \in SUBSET Wrappers /\ Unborn' /\ vt' \in [Wrappers -> Types \cup {NoType}]
       /\ defined'
  BY <1>0 DEF Appears, Ready, Sound, Framed, TypeOK, Unborn
<1> QED BY <1>1, <1>2, <1>7, <1>9, <1>10, <1>11, NestedStep

\* A callable's constructor is entered.
LEMMA NestedBuilds ==
  ASSUME NEW a \in Threads, Ready(a), act[a] = Idle, NEW w \in Wrappers,
         NEW op \in {"construct", "copyctor", "copyassign"},
         NEW o \in Wrappers \cup {Null}, NEW t \in Types, NEW v \in Vals, NEW s, NEW c,
         op = "construct" => w \notin alive /\ o = Null,
         op = "copyctor" => w \notin alive /\ o \in alive /\ vt[o] = t,
         op = "copyassign" => w \in alive /\ o \in alive /\ w # o /\ vt[o] = t,
         Allowed(a, Doing(op, "build", w, o, t, c)),
         Builds(a, op, w, o, t, s, c, v), defined'
  PROVE  /\ Onto(a)
         /\ NestedKeepers' = NestedKeepers /\ s \in Slots /\ NestedKeepers[s] = NoType
         /\ c \in Loc /\ mem.obj[c] = NoObject
<1> DEFINE g == Doing(op, "build", w, o, t, c)
<1>1. g = [op |-> op, at |-> "build", this |-> w, other |-> o, ty |-> t, cell |-> c,
           dst |-> Null, src |-> Null, mine |-> NoType, theirs |-> NoType]
  BY DEF Doing
<1>2. c \in Loc /\ c # Null /\ CellFor(t, c, s) /\ (c \in Slots <=> fits(t))
  BY DistinctAssumption DEF Builds, Room, CellFor, Loc, Slots
<1>3. act' \in [Threads -> Frame] /\ act'[a] = g /\ \A b \in Threads \ {a} : act'[b] = act[b]
  <2>1. g \in Frame
    BY <1>2, DoingIsFrame DEF Ops
  <2> HIDE DEF g
  <2>2. act' = [act EXCEPT ![a] = g]
    BY DEF Builds, Go, g
  <2> QED BY <2>1, <2>2 DEF Ready, Sound, Framed, TypeOK
<1>4. Allowed(a, g)
  OBVIOUS
<1> HIDE DEF g
<1>5. Writes(g) = {w} /\ Alters(g) = {w} /\ w \in Uses(g) /\ Between(g) \subseteq {w}
  BY <1>1, DistinctAssumption DEF Writes, Alters, Uses, Between
<1>6. alive' = alive /\ vt' = vt /\ alive \in SUBSET Wrappers
  BY DEF Builds, Ready, Sound, Framed, TypeOK
<1>7. FrameOK(a, g, alive', vt', mem')
  <2>1. FrameOK(a, g, alive, vt, mem')
    BY <1>1, <1>2, <1>6 DEF FrameOK, Builds
  <2> QED BY <1>6, <2>1
<1>8. /\ NestedKeepers[a] = NoType /\ NestedKeepers'[a] = Keeps(g, a, a, NoType)
      /\ NestedKeepers[w] = vt[w] /\ NestedKeepers'[w] = Keeps(g, a, w, vt[w])
      /\ \A r \in Slots : r # a /\ r # w => NestedKeepers'[r] = NestedKeepers[r]
      /\ OthersBusy(a, Cells, Lives, Kinds, Cells', Lives', Kinds')
      /\ Cells[a] = Null /\ Cells'[a] = c /\ Lives'[a] = "raw" /\ Kinds'[a] = t
  <2>1. LevelSeen(a, g)
    BY <1>3, <1>4, <1>6, <1>7, SeenStep
  <2>2. CellOf(g) = c /\ LifeOf(g) = "raw" /\ g.ty = t
    BY <1>1 DEF CellOf, LifeOf
  <2> QED BY <1>5, <1>6, <2>1, <2>2, IdleFrame DEF LevelSeen
<1>9. NestedKeepers' = NestedKeepers
  <2>1. \A r, x : Keeps(g, a, r, x) = x
    BY <1>1 DEF Keeps
  <2>2. \A r \in Slots : NestedKeepers'[r] = NestedKeepers[r]
    BY <1>8, <2>1
  <2> QED BY <2>2 DEF NestedKeepers
<1>10. NestedKeepers[s] = NoType /\ s \in Slots /\ \A b \in Threads : Cells[b] # s
  <2>1. CASE op = "copyassign"
    <3>1. s = a /\ \A b \in Threads : Cells[b] = a => b = a
      <4>1. \A b \in Threads : Between(act[b]) \cap Wrappers = Between(act[b])
        BY IdleRelies, DistinctAssumption
        DEF Ready, Sound, Framed, Frames, FrameOK, Between, Kills, Legs, Moves, Uses, TypeOK
      <4> QED BY <2>1, <4>1, CellsAreBetween, DistinctAssumption
          DEF Builds, Ready, Sound, Framed, Slots
    <3> QED BY <3>1, <1>8, DistinctAssumption DEF Slots
  <2>2. CASE op # "copyassign"
    <3>1. s = w /\ vt[w] = NoType /\ s \in Slots /\ w \notin Threads
      BY <2>2, DistinctAssumption DEF Builds, Ready, Sound, Framed, Unborn, Slots
    <3>2. \A b \in Threads \ {a} : w \notin Between(act[b])
      BY <1>4, <1>5 DEF Allowed, Respects
    <3>3. \A b \in Threads : Cells[b] # w
      BY <1>8, <3>1, <3>2, CellsAreBetween, DistinctAssumption
      DEF Ready, Sound, Framed, Slots
    <3> QED BY <1>8, <3>1, <3>3
  <2> QED BY <2>1, <2>2
<1>11. Consistent(Fresh(mem, s), NestedKeepers, Cells, Lives, Kinds) /\ Fresh(mem, s).obj = mem.obj
  <2>1. Consistent(mem, NestedKeepers, Cells, Lives, Kinds) /\ mem \in Memory
    BY DEF Ready, Sound, Consistent
  <2>2. Fresh(mem, s).obj = mem.obj
    BY <2>1 DEF Fresh, Point, Memory
  <2>3. Consistent(Fresh(mem, s), NestedKeepers, Cells, Lives, Kinds)
    BY <1>10, <2>1, PointConsistent DEF Fresh
  <2> QED BY <2>2, <2>3
<1>12. mem.obj[c] = NoObject
  <2>1. CASE fits(t)
    <3>1. c = s
      BY <2>1 DEF Builds, Room
    <3> QED BY <1>10, <3>1, SlotIsFree DEF Ready, Sound
  <2>2. CASE ~fits(t)
    BY <2>2 DEF Builds, Room
  <2> QED BY <2>1, <2>2
<1>13. Consistent(mem', NestedKeepers', Cells', Lives', Kinds')
  <2> DEFINE m == Put(Fresh(mem, s), c, [type |-> t, val |-> v, self |-> c, life |-> "raw"])
  <2>1. Consistent(m, NestedKeepers, Cells', Lives', Kinds')
    BY <1>2, <1>8, <1>11, <1>12, PutConsistent
  <2> HIDE DEF m
  <2>2. Consistent(Point(m, s, Junk), NestedKeepers, Cells', Lives', Kinds')
    BY <1>10, <2>1, PointConsistent
  <2>3. mem' = IF fits(t) THEN Point(m, s, Junk) ELSE m
    BY DEF Builds, BeginNew, m
  <2> QED BY <1>9, <2>1, <2>2, <2>3
<1>14. \A u \in Wrappers \ Alters(g) : mem'.ptr[u] = mem.ptr[u]
  BY <1>5, <1>10, DistinctAssumption
  DEF Builds, BeginNew, Put, Point, Fresh, Ready, Sound, Framed, TypeOK, Memory, Slots
<1>15. \A b \in Threads \ {a} : Leaves(b)
  BY <1>4, <1>6, <1>14, BeginLeaves
<1>16. alive' \in SUBSET Wrappers /\ Unborn' /\ vt' \in [Wrappers -> Types \cup {NoType}]
  BY <1>6 DEF Ready, Sound, Framed, TypeOK, Unborn
<1>17. Onto(a)
  BY <1>3, <1>4, <1>7, <1>13, <1>15, <1>16, NestedStep
<1> QED BY <1>2, <1>9, <1>10, <1>12, <1>17

\* The destructor of w's callable is entered.
LEMMA NestedKills ==
  ASSUME NEW a \in Threads, Ready(a), act[a] = Idle, NEW w \in alive, vt[w] # NoType,
         NEW op \in {"reset", "destroy", "moveassign"},
         NEW o \in Wrappers \cup {Null}, op = "moveassign" => o \in alive /\ w # o,
         Allowed(a, Doing(op, "kill", w, o, NoType, Place(mem, vt[w], w))),
         BeginKill(a, op, w, o, NoType, mem), UNCHANGED <<alive, vt>>
  PROVE  Onto(a)
<1> DEFINE l == Place(mem, vt[w], w)
           g == Doing(op, "kill", w, o, NoType, l)
<1>1. g = [op |-> op, at |-> "kill", this |-> w, other |-> o, ty |-> NoType, cell |-> l,
           dst |-> Null, src |-> Null, mine |-> NoType, theirs |-> NoType]
  BY DEF Doing
<1>2. /\ Consistent(mem, NestedKeepers, Cells, Lives, Kinds) /\ mem \in Memory
      /\ w \in Wrappers /\ vt[w] \in Types /\ alive \in SUBSET Wrappers /\ w \in Slots
  BY DEF Ready, Sound, Framed, TypeOK, Slots
<1>3. Allowed(a, g)
  OBVIOUS
<1> HIDE DEF g
<1>4. /\ Writes(g) = (IF op = "moveassign" THEN {w, o} ELSE {w}) /\ w \in Uses(g)
      /\ \A u \in Writes(g) : u \in Wrappers
  BY <1>1, <1>2, DistinctAssumption DEF Writes, Uses
<1>5. \A b \in Threads \ {a} : w \notin Between(act[b])
  BY <1>3, <1>4 DEF Allowed, Respects
<1>6. NestedKeepers[w] = vt[w]
  <2>1. FrameOK(a, act[a], alive, vt, mem)
    BY DEF FrameOK
  <2>2. HoldsIn(act, vt, w) = Keeps(act[a], a, w, vt[w])
    BY <1>2, <1>5, <2>1, HoldsByLevel
  <2> QED BY <1>2, <2>2, IdleFrame DEF NestedKeepers, Holds
<1>7. l \in Loc /\ LiveAt(mem, vt[w], l) /\ CellFor(vt[w], l, w)
  <2>1. Live(mem, vt[w], w)
    BY <1>2, <1>6 DEF Consistent
  <2>2. mem.ptr[w] \in Heap \cup {Null, Junk}
    BY <1>2 DEF Memory
  <2>3. LiveAt(mem, vt[w], l) /\ l \in Loc
    BY <2>1 DEF Live, LiveAt
  <2>4. CellFor(vt[w], l, w)
    BY <2>2, <2>3, DistinctAssumption DEF Place, CellFor, Loc, Slots
  <2> QED BY <2>3, <2>4
<1>8. act' \in [Threads -> Frame] /\ act'[a] = g /\ \A b \in Threads \ {a} : act'[b] = act[b]
  <2>1. g \in Frame
    BY <1>2, <1>7, DoingIsFrame DEF g, Ops
  <2>2. act' = [act EXCEPT ![a] = g]
    BY DEF BeginKill, Go, g, l
  <2> QED BY <2>1, <2>2 DEF Ready, Sound, Framed, TypeOK
<1> HIDE DEF l
<1>9. mem' = Mark(mem, l, "dying") /\ defined'
  BY <1>7 DEF BeginKill, Must, Ready, Sound, l
<1>10. FrameOK(a, g, alive', vt', mem')
  BY <1>1, <1>2, <1>7 DEF FrameOK, Kills
<1>11. LevelSeen(a, g)
  BY <1>2, <1>3, <1>8, <1>10, SeenStep
<1>12. /\ NestedKeepers'[w] = NoType
       /\ \A r \in Slots \ {w} : NestedKeepers'[r] = NestedKeepers[r]
       /\ OthersBusy(a, Cells, Lives, Kinds, Cells', Lives', Kinds')
       /\ Cells[a] = Null /\ Cells'[a] = l /\ Lives'[a] = "dying"
  <2>1. \A r, x : Keeps(g, a, r, x) = IF r = w THEN NoType ELSE x
    BY <1>1 DEF Keeps
  <2>2. CellOf(Idle) = Null /\ CellOf(g) = l /\ LifeOf(g) = "dying"
    BY <1>1 DEF CellOf, LifeOf, Idle, Doing
  <2>3. NestedKeepers'[w] = NoType
    BY <1>2, <1>4, <1>11, <2>1 DEF LevelSeen
  <2>4. ASSUME NEW r \in Slots \ {w} PROVE NestedKeepers'[r] = NestedKeepers[r]
    <3>1. CASE r = a
      BY <3>1, <1>11, <2>1, <2>4, IdleFrame DEF LevelSeen
    <3>2. CASE r # a /\ r \in Writes(g)
      <4>1. r \in Wrappers /\ vt'[r] = vt[r]
        BY <3>2, <1>4
      <4> QED BY <3>2, <4>1, <1>11, <2>1, <2>4, IdleFrame DEF LevelSeen
    <3>3. CASE r # a /\ r \notin Writes(g)
      BY <3>3, <1>11, IdleFrame DEF LevelSeen
    <3> QED BY <3>1, <3>2, <3>3
  <2> QED BY <1>11, <2>2, <2>3, <2>4 DEF LevelSeen
<1>13. Consistent(mem', NestedKeepers', Cells', Lives', Kinds')
  <2>1. l = Place(mem, NestedKeepers[w], w) /\ NestedKeepers[w] # NoType
    BY <1>6 DEF l
  <2>2. Consistent(Mark(mem, Place(mem, NestedKeepers[w], w), "dying"),
                   NestedKeepers', Cells', Lives', Kinds')
    BY <2>1, <1>2, <1>12, MarkConsistent
  <2> QED BY <1>9, <2>1, <2>2
<1>14. \A u \in Wrappers \ Alters(g) : mem'.ptr[u] = mem.ptr[u]
  BY <1>9, <1>2 DEF Mark, Memory
<1>15. \A b \in Threads \ {a} : Leaves(b)
  BY <1>3, <1>14, BeginLeaves
<1>16. alive' \in SUBSET Wrappers /\ Unborn' /\ vt' \in [Wrappers -> Types \cup {NoType}]
  BY DEF Ready, Sound, Framed, TypeOK, Unborn
<1> QED BY <1>3, <1>8, <1>9, <1>10, <1>13, <1>15, <1>16, NestedStep

\* A vtable's move is entered.
LEMMA NestedMoves ==
  ASSUME NEW a \in Threads, Ready(a), act[a] = Idle, NEW w \in Wrappers, NEW o \in Wrappers,
         NEW op \in {"movector", "moveassign", "swap"}, NEW t \in Types,
         NEW dst \in {a, w, o}, NEW src \in {w, o}, dst # src,
         vt[src] = t, dst # a => vt[dst] = NoType, dst = a => op = "swap" /\ src = w,
         NEW mine \in Types \cup {NoType}, NEW theirs \in Types \cup {NoType},
         op = "swap" => mine = vt[w] /\ theirs = vt[o],
         Allowed(a, Moving(op, w, o, t, dst, src, mine, theirs)),
         BeginsMove(a, op, w, o, t, dst, src, mine, theirs),
         FrameOK(a, Moving(op, w, o, t, dst, src, mine, theirs), alive, vt, mem'),
         defined'
  PROVE  Onto(a) /\ NestedKeepers' = NestedKeepers /\ NestedKeepers[dst] = NoType
<1> DEFINE g == Moving(op, w, o, t, dst, src, mine, theirs)
<1>1. g = [op |-> op, at |-> "move", this |-> w, other |-> o, ty |-> t, cell |-> Null,
           dst |-> dst, src |-> src, mine |-> mine, theirs |-> theirs]
  BY DEF Moving
<1>2. /\ Consistent(mem, NestedKeepers, Cells, Lives, Kinds) /\ mem \in Memory
      /\ alive \in SUBSET Wrappers /\ vt \in [Wrappers -> Types \cup {NoType}]
      /\ dst \in Slots /\ src \in Slots
  BY DEF Ready, Sound, Framed, TypeOK, Consistent, Slots
<1>3. act' \in [Threads -> Frame] /\ act'[a] = g /\ \A b \in Threads \ {a} : act'[b] = act[b]
  <2>1. g \in Frame
    BY <1>2, MovingIsFrame DEF Ops
  <2> HIDE DEF g
  <2>2. act' = [act EXCEPT ![a] = g]
    BY DEF BeginsMove, Go, g
  <2> QED BY <2>1, <2>2 DEF Ready, Sound, Framed, TypeOK
<1>4. /\ FrameOK(a, g, alive, vt, mem') /\ Allowed(a, g)
      /\ alive' = alive /\ vt' = vt
  BY DEF BeginsMove
<1> HIDE DEF g
<1>5. Writes(g) = {w, o} /\ Alters(g) = {w, o} /\ Uses(g) = {w, o}
  BY <1>1, DistinctAssumption DEF Writes, Alters, Uses
<1>6. LevelSeen(a, g)
  BY <1>2, <1>3, <1>4, SeenStep
<1>7. NestedKeepers' = NestedKeepers /\ Cells[a] = Null /\ Cells'[a] = Null
  <2>1. Keeps(g, a, a, NoType) = NoType
    BY <1>1, <1>2, DistinctAssumption DEF Keeps
  <2>2. Keeps(g, a, w, vt[w]) = vt[w] /\ Keeps(g, a, o, vt[o]) = vt[o]
    BY <1>1, <1>2, DistinctAssumption DEF Keeps
  <2>3. \A r \in Slots : NestedKeepers'[r] = NestedKeepers[r]
    BY <2>1, <2>2, <1>4, <1>5, <1>6, IdleFrame DEF LevelSeen
  <2> QED BY <2>3, <1>1, <1>6, IdleFrame DEF NestedKeepers, CellOf, LevelSeen
<1>8. NestedKeepers[dst] = NoType
  BY <1>5, <1>6, IdleFrame DEF LevelSeen
<1>9. Consistent(mem', NestedKeepers', Cells', Lives', Kinds')
  <2>1. Consistent(Fresh(mem, dst), NestedKeepers, Cells, Lives, Kinds)
    BY <1>2, <1>8, PointConsistent DEF Fresh
  <2>2. Consistent(mem', NestedKeepers, Cells, Lives, Kinds)
    BY <2>1, <1>2 DEF BeginsMove
  <2>3. /\ \A b \in Threads : Cells'[b] = Cells[b]
        /\ \A b \in Threads : Cells[b] # Null => Lives'[b] = Lives[b] /\ Kinds'[b] = Kinds[b]
    BY <1>6, <1>7 DEF LevelSeen, OthersBusy
  <2> QED BY <1>7, <2>2, <2>3, CellsAgree
<1>10. \A u \in Wrappers \ Alters(g) : mem'.ptr[u] = mem.ptr[u]
  <2>1. Fresh(mem, dst).ptr = [mem.ptr EXCEPT ![dst] = Null]
    BY <1>2, PointFields DEF Fresh
  <2>2. mem'.ptr = mem.ptr \/ mem'.ptr = [mem.ptr EXCEPT ![dst] = Null]
    BY <2>1 DEF BeginsMove
  <2>3. mem.ptr \in [Slots -> Heap \cup {Null, Junk}] /\ a \notin Wrappers
    BY <1>2, DistinctAssumption DEF Memory
  <2> QED BY <1>5, <2>2, <2>3 DEF Slots
<1>11. \A b \in Threads \ {a} : Leaves(b)
  BY <1>4, <1>10, BeginLeaves
<1>12. /\ alive' \in SUBSET Wrappers /\ Unborn' /\ vt' \in [Wrappers -> Types \cup {NoType}]
       /\ FrameOK(a, g, alive', vt', mem')
  BY <1>2, <1>4 DEF Ready, Sound, Framed, Unborn
<1>13. Onto(a)
  BY <1>3, <1>4, <1>9, <1>11, <1>12, NestedStep
<1> QED BY <1>7, <1>8, <1>13

\* A Function between two states of no operation holds what its vtable says.
LEMMA HoldsWhatItSays ==
  ASSUME NEW w \in Wrappers, \A b \in Threads : w \notin Between(act[b])
  PROVE  NestedKeepers[w] = vt[w]
<1>1. HoldsIn(act, vt, w) = vt[w]
  BY DistinctAssumption DEF HoldsIn
<1> QED BY <1>1 DEF NestedKeepers, Holds, Slots

\* The operator() of w's callable is entered.
LEMMA NestedCalls ==
  ASSUME NEW a \in Threads, Ready(a), act[a] = Idle, NEW w \in Wrappers,
         \A b \in Threads : w \notin Between(act[b]), Call(a, w)
  PROVE  Onto(a) /\ NestedKeepers' = NestedKeepers
<1> DEFINE l == Place(mem, vt[w], w)
           g == Doing("call", "run", w, Null, vt[w], l)
<1>1. g = [op |-> "call", at |-> "run", this |-> w, other |-> Null, ty |-> vt[w],
           cell |-> l, dst |-> Null, src |-> Null, mine |-> NoType, theirs |-> NoType]
  BY DEF Doing
<1>2. /\ Consistent(mem, NestedKeepers, Cells, Lives, Kinds) /\ mem \in Memory
      /\ alive \in SUBSET Wrappers /\ w \in alive /\ vt[w] \in Types
  BY DEF Ready, Sound, Framed, TypeOK, Consistent, Call
<1>3. act' = [act EXCEPT ![a] = g] /\ mem' = mem /\ alive' = alive /\ vt' = vt
  BY DEF Call, Go
<1>4. defined' = (defined /\ LiveAt(mem, vt[w], l))
  BY DEF Call, Must
<1> HIDE DEF g
<1>5. Uses(g) = {w} /\ Alters(g) = {} /\ g.op = "call"
  BY <1>1, <1>2, DistinctAssumption DEF Alters, Uses
<1>6. Allowed(a, g)
  BY <1>5 DEF Allowed, Respects
<1>7. LiveAt(mem, vt[w], l) /\ l \in Loc
  <2>1. Live(mem, vt[w], w)
    BY <1>2, HoldsWhatItSays, DistinctAssumption DEF Consistent, Slots
  <2> QED BY <2>1 DEF Live, LiveAt
<1>8. act' \in [Threads -> Frame] /\ act'[a] = g /\ \A b \in Threads \ {a} : act'[b] = act[b]
  <2>1. g \in Frame
    BY <1>2, <1>7, DoingIsFrame DEF g, Ops
  <2> HIDE DEF l
  <2> QED BY <1>3, <2>1 DEF Ready, Sound, Framed, TypeOK
<1>9. FrameOK(a, g, alive', vt', mem')
  BY <1>1, <1>2, <1>3 DEF FrameOK
<1>10. LevelSeen(a, g)
  BY <1>2, <1>3, <1>6, <1>8, <1>9, SeenStep
<1>11. NestedKeepers' = NestedKeepers /\ Cells[a] = Null /\ Cells'[a] = Null
  <2>1. \A r, x : Keeps(g, a, r, x) = x
    BY <1>1 DEF Keeps
  <2>2. Writes(g) \subseteq Wrappers
    BY <1>1 DEF Writes
  <2>3. \A r \in Slots : NestedKeepers'[r] = NestedKeepers[r]
    BY <1>3, <1>10, <2>1, <2>2, IdleFrame DEF LevelSeen
  <2> QED BY <1>1, <1>10, <2>3, IdleFrame DEF NestedKeepers, CellOf, LevelSeen
<1>12. Consistent(mem', NestedKeepers', Cells', Lives', Kinds')
  <2>1. /\ \A b \in Threads : Cells'[b] = Cells[b]
        /\ \A b \in Threads : Cells[b] # Null => Lives'[b] = Lives[b] /\ Kinds'[b] = Kinds[b]
    BY <1>10, <1>11 DEF LevelSeen, OthersBusy
  <2> QED BY <1>2, <1>3, <1>11, <2>1, CellsAgree
<1>13. \A b \in Threads \ {a} : Leaves(b)
  BY <1>3 DEF Leaves
<1>14. /\ alive' \in SUBSET Wrappers /\ Unborn' /\ vt' \in [Wrappers -> Types \cup {NoType}]
       /\ defined'
  BY <1>3, <1>4, <1>7 DEF Ready, Sound, Framed, TypeOK, Unborn
<1>15. Onto(a)
  BY <1>6, <1>8, <1>9, <1>12, <1>13, <1>14, NestedStep
<1> QED BY <1>11, <1>15

\* What the client's rule says of operation g: it uses Functions between two
\* states of none, and alters those nothing relies on.
Welcome(g) ==
  /\ Uses(g) \subseteq Wrappers /\ \A w \in Uses(g) : Readable(w)
  /\ \A w \in Alters(g) : w \in Wrappers \ alive \/ Writable(w)
  /\ g.op = "destroy" => Endable(g.this)

\* The rule, in terms of the levels.
LEMMA Guards ==
  ASSUME Stacked, NEW w
  PROVE  /\ Readable(w) => \A b \in Threads : w \notin Between(act[b])
         /\ Writable(w) => Readable(w) /\ \A b \in Threads : w \notin Pinned(act[b])
         /\ Endable(w) => Writable(w) /\ \A b \in Threads : w \notin Awaited(act[b])
<1>1. \A b \in Threads : act[b] = Idle \/ act[b] \in InProgress
  BY DEF Stacked, InProgress
<1> QED BY <1>1, IdleRelies DEF Readable, Writable, Endable

\* An operation the rule lets begin leaves the others what they rely on.
LEMMA WelcomeAllowed ==
  ASSUME NEW a \in Threads, Framed, Stacked, NEW g, Welcome(g)
  PROVE  Allowed(a, g)
<1> SUFFICES ASSUME NEW b \in Threads PROVE Respects(g, act[b])
  BY DEF Allowed
<1>1. Uses(g) \cap Between(act[b]) = {}
  BY Guards DEF Welcome
<1>2. ASSUME NEW w \in Alters(g) PROVE w \notin Pinned(act[b])
  <2>1. w \notin alive \/ Writable(w)
    BY DEF Welcome
  <2> QED BY <2>1, Guards, PinnedAlive
<1>3. g.op = "destroy" => g.this \notin Awaited(act[b])
  BY Guards DEF Welcome
<1> QED BY <1>1, <1>2, <1>3 DEF Respects

\* No operation has w between two states.
AtRest(w) == \A b \in Threads : w \notin Between(act[b])

\* What the innermost callable's code can begin at level a, with what the rule
\* says of it: an empty Function appears or disappears, a constructor, a
\* destructor, a vtable's move or an operator() is entered.
AppearsIn(w) ==
  /\ Appears(w) /\ AtRest(w)
  /\ \A b \in Threads : w \notin Pinned(act[b])
  /\ w \in alive => \A b \in Threads : w \notin Awaited(act[b])

BuildsIn(a, op, w, o, t, v, s, c) ==
  /\ op \in {"construct", "copyctor", "copyassign"} /\ o \in Wrappers \cup {Null}
  /\ t \in Types /\ v \in Vals /\ AtRest(w)
  /\ op = "construct" => w \notin alive /\ o = Null
  /\ op = "copyctor" => w \notin alive
  /\ op = "copyassign" => w \in alive /\ w # o
  /\ op # "construct" =>
       o \in alive /\ vt[o] = t /\ AtRest(o) /\ v = mem.obj[Place(mem, vt[o], o)].val
  /\ Allowed(a, Doing(op, "build", w, o, t, c))
  /\ Builds(a, op, w, o, t, s, c, v) /\ defined'

KillsIn(a, op, w, o) ==
  /\ op \in {"reset", "destroy", "moveassign"} /\ o \in Wrappers \cup {Null}
  /\ w \in alive /\ vt[w] # NoType /\ AtRest(w)
  /\ op = "moveassign" => o \in alive /\ w # o /\ AtRest(o)
  /\ Allowed(a, Doing(op, "kill", w, o, NoType, Place(mem, vt[w], w)))
  /\ BeginKill(a, op, w, o, NoType, mem) /\ UNCHANGED <<alive, vt>>

MovesIn(a, op, w, o, t, dst, src, mine, theirs) ==
  /\ op \in {"movector", "moveassign", "swap"} /\ t \in Types
  /\ dst \in {a, w, o} /\ src \in {w, o} /\ dst # src
  /\ vt[src] = t /\ (dst # a => vt[dst] = NoType)
  /\ dst = a => op = "swap" /\ src = w /\ theirs # NoType
  /\ mine \in Types \cup {NoType} /\ theirs \in Types \cup {NoType}
  /\ op = "swap" => mine = vt[w] /\ theirs = vt[o]
  /\ op # "swap" => dst = w /\ src = o
  /\ o \in alive /\ w # o /\ (op = "movector" <=> w \notin alive)
  /\ AtRest(w) /\ AtRest(o)
  /\ Allowed(a, Moving(op, w, o, t, dst, src, mine, theirs))
  /\ BeginsMove(a, op, w, o, t, dst, src, mine, theirs)
  /\ FrameOK(a, Moving(op, w, o, t, dst, src, mine, theirs), alive, vt, mem')
  /\ defined'

CallsIn(a, w) ==
  /\ AtRest(w) /\ Call(a, w)
  /\ vt[w] \in Mutable => \A b \in Threads : w \notin BeingCopied(act[b])

Begun(a) ==
  \/ \E w \in Wrappers : AppearsIn(w)
  \/ \E op, t, v, s, c : \E w \in Wrappers : \E o : BuildsIn(a, op, w, o, t, v, s, c)
  \/ \E op, o : \E w \in Wrappers : KillsIn(a, op, w, o)
  \/ \E op, t, dst, src, mine, theirs : \E w, o \in Wrappers :
       MovesIn(a, op, w, o, t, dst, src, mine, theirs)
  \/ \E w \in Wrappers : CallsIn(a, w)

\* An idle level enters a callable's copy constructor.
LEMMA CloneBegun ==
  ASSUME NEW a \in Threads, Ready(a), act[a] = Idle, Stacked, NEW w \in Wrappers, NEW o \in alive,
         NEW op \in {"copyctor", "copyassign"}, vt[o] # NoType,
         Readable(w), Readable(o),
         op = "copyctor" => w \notin alive,
         op = "copyassign" => w \in alive /\ w # o /\ Writable(w),
         NEW s, s = IF op = "copyassign" THEN a ELSE w,
         Clone(a, op, w, o, s), UNCHANGED <<alive, vt>>
  PROVE  Begun(a)
<1> DEFINE v == mem.obj[Place(mem, vt[o], o)].val
<1>1. o \in Wrappers /\ vt[o] \in Types
  BY DEF Ready, Sound, Framed, TypeOK
<1>2. Live(mem, vt[o], o) /\ v \in Vals
  <2>1. NestedKeepers[o] = vt[o] /\ o \in Slots
    BY <1>1, Guards, HoldsWhatItSays DEF Slots
  <2>2. Live(mem, vt[o], o) /\ mem \in Memory
    BY <2>1 DEF Ready, Sound, Consistent
  <2>3. mem.obj[Place(mem, vt[o], o)] \in Object
    BY <2>2 DEF Live, LiveAt, Memory
  <2> QED BY <2>2, <2>3 DEF Object
<1> HIDE DEF v
<1>3. defined'
  BY <1>2 DEF Clone, Must, Ready, Sound
<1>4. PICK c : Builds(a, op, w, o, vt[o], s, c, v)
  BY DEF Clone, Builds, v
<1>5. Allowed(a, Doing(op, "build", w, o, vt[o], c))
  <2> DEFINE g == Doing(op, "build", w, o, vt[o], c)
  <2>1. g.op = op /\ g.this = w /\ g.other = o
    BY DEF Doing
  <2> HIDE DEF g
  <2>2. Uses(g) \subseteq {w, o} /\ Alters(g) = {w} /\ g.op # "destroy"
    BY <2>1 DEF Uses, Alters, Writes
  <2>3. Welcome(g)
    BY <1>1, <2>2 DEF Welcome
  <2>4. Allowed(a, g)
    BY <2>3, WelcomeAllowed DEF Ready, Sound
  <2> QED BY <2>4 DEF g
<1>6. BuildsIn(a, op, w, o, vt[o], v, s, c)
  BY <1>1, <1>2, <1>3, <1>4, <1>5, Guards DEF BuildsIn, AtRest, v
<1> QED BY <1>6 DEF Begun

\* That is all it can begin.
LEMMA OperateBegins ==
  ASSUME NEW a \in Threads, Ready(a), act[a] = Idle, Stacked, Operate(a)
  PROVE  Begun(a)
<1>1. /\ alive \subseteq Wrappers /\ mem \in Memory
      /\ vt \in [Wrappers -> Types \cup {NoType}] /\ Framed
      /\ \A u \in Wrappers \ alive : vt[u] = NoType
  BY DEF Ready, Sound, Framed, TypeOK, Unborn
<1>2. Null \notin Wrappers /\ a \notin Wrappers /\ NoType \notin Types
  BY DistinctAssumption
<1>3. ASSUME NEW g, NEW w \in Wrappers, NEW o \in Wrappers \cup {Null},
             g.op \in Ops \ {"call", "destroy"}, g.this = w, g.other = o,
             Readable(w), w \notin alive \/ Writable(w),
             o \in Wrappers => Readable(o),
             g.op \in {"movector", "moveassign", "swap"} => o \in Wrappers /\ Writable(o)
      PROVE  Allowed(a, g)
  <2>1. /\ Uses(g) = {w, o} \ {Null}
        /\ Alters(g) \subseteq IF g.op \in {"movector", "moveassign", "swap"} THEN {w, o} ELSE {w}
    BY <1>3 DEF Uses, Alters, Writes, Ops
  <2>2. Welcome(g)
    BY <1>3, <2>1 DEF Welcome
  <2> QED BY <1>1, <2>2, WelcomeAllowed
<1>4. ASSUME NEW w \in Wrappers, Readable(w), w \notin alive, Appears(w)
      PROVE  Begun(a)
  <2>1. AppearsIn(w)
    BY <1>1, <1>4, Guards, PinnedAlive DEF AppearsIn, AtRest
  <2> QED BY <2>1 DEF Begun
<1>5. ASSUME NEW w \in Wrappers, Readable(w), DefaultConstruct(a, w)
      PROVE  Begun(a)
  <2>1. w \notin alive /\ Appears(w)
    BY <1>1, <1>5 DEF DefaultConstruct, Appears
  <2> QED BY <1>4, <1>5, <2>1
<1>6. ASSUME NEW w \in Wrappers, Readable(w),
             NEW t \in Types, NEW v \in Vals, Construct(a, w, t, v)
      PROVE  Begun(a)
  <2>1. w \notin alive /\ defined'
    BY <1>6 DEF Construct, Ready, Sound
  <2>2. PICK c : Builds(a, "construct", w, Null, t, w, c, v)
    BY <1>6 DEF Construct, Builds
  <2>3. Allowed(a, Doing("construct", "build", w, Null, t, c))
    BY <1>2, <1>3, <1>6, <2>1 DEF Doing, Ops
  <2>4. BuildsIn(a, "construct", w, Null, t, v, w, c)
    BY <1>6, <2>1, <2>2, <2>3, Guards DEF BuildsIn, AtRest
  <2> QED BY <2>4 DEF Begun
<1>7. ASSUME NEW w \in Wrappers, NEW o \in Wrappers \cup {Null}, Writable(w),
             o \in Wrappers => Readable(o), w \in alive, vt[w] # NoType,
             BeginKill(a, "reset", w, o, NoType, mem), UNCHANGED <<alive, vt>>
      PROVE  Begun(a)
  <2>1. Allowed(a, Doing("reset", "kill", w, o, NoType, Place(mem, vt[w], w)))
    BY <1>3, <1>7 DEF Doing, Ops, Writable
  <2>2. KillsIn(a, "reset", w, o)
    BY <1>7, <2>1, Guards DEF KillsIn, AtRest
  <2> QED BY <2>2 DEF Begun
<1>8. ASSUME NEW w \in Wrappers, Writable(w), Reset(a, w)
      PROVE  Begun(a)
  BY <1>2, <1>7, <1>8 DEF Reset
<1>9. ASSUME NEW w \in Wrappers, Endable(w), Destroy(a, w)
      PROVE  Begun(a)
  <2>1. CASE vt[w] = NoType
    <3>1. Appears(w)
      BY <1>9, <2>1 DEF Destroy, Appears
    <3>2. AppearsIn(w)
      BY <1>9, <3>1, Guards DEF AppearsIn, AtRest
    <3> QED BY <3>2 DEF Begun
  <2>2. CASE vt[w] # NoType
    <3>1. /\ w \in alive
          /\ BeginKill(a, "destroy", w, Null, NoType, mem) /\ UNCHANGED <<alive, vt>>
      BY <1>9, <2>2 DEF Destroy
    <3> DEFINE g == Doing("destroy", "kill", w, Null, NoType, Place(mem, vt[w], w))
    <3>2. g.op = "destroy" /\ g.this = w /\ g.other = Null
      BY DEF Doing
    <3> HIDE DEF g
    <3>3. Uses(g) = {w} /\ Alters(g) = {w}
      BY <1>2, <3>2 DEF Uses, Alters, Writes
    <3>4. Welcome(g)
      BY <1>9, <3>2, <3>3 DEF Welcome, Endable, Writable
    <3>5. Allowed(a, g)
      BY <1>1, <3>4, WelcomeAllowed
    <3>6. KillsIn(a, "destroy", w, Null)
      BY <1>9, <2>2, <3>1, <3>5, Guards DEF KillsIn, AtRest, g
    <3> QED BY <3>6 DEF Begun
  <2> QED BY <2>1, <2>2
<1>10. ASSUME NEW w \in Wrappers, NEW o \in Wrappers, Readable(w), Readable(o),
              CopyConstruct(a, w, o)
       PROVE  Begun(a)
  <2>1. w \notin alive /\ o \in alive
    BY <1>10 DEF CopyConstruct
  <2>2. CASE vt[o] = NoType
    <3>1. Appears(w)
      BY <1>1, <1>10, <2>1, <2>2 DEF CopyConstruct, Appears
    <3> QED BY <1>4, <1>10, <2>1, <3>1
  <2>3. CASE vt[o] # NoType
    <3>1. Clone(a, "copyctor", w, o, w) /\ UNCHANGED <<alive, vt>>
      BY <1>10, <2>3 DEF CopyConstruct
    <3> QED BY <1>10, <2>1, <2>3, <3>1, CloneBegun
  <2> QED BY <2>2, <2>3
<1>11. ASSUME NEW w \in Wrappers, NEW o \in Wrappers, Writable(w), Readable(o),
              CopyAssign(a, w, o)
       PROVE  Begun(a)
  <2>1. w \in alive /\ o \in alive /\ w # o /\ Readable(w)
    BY <1>11 DEF CopyAssign, Writable
  <2>2. CASE vt[o] = NoType
    <3>1. /\ vt[w] # NoType /\ UNCHANGED <<alive, vt>>
          /\ BeginKill(a, "reset", w, o, NoType, mem)
      BY <1>11, <2>2 DEF CopyAssign
    <3> QED BY <1>7, <1>11, <2>1, <3>1
  <2>3. CASE vt[o] # NoType
    <3>1. Clone(a, "copyassign", w, o, a) /\ UNCHANGED <<alive, vt>>
      BY <1>11, <2>3 DEF CopyAssign
    <3> QED BY <1>11, <2>1, <2>3, <3>1, CloneBegun
  <2> QED BY <2>2, <2>3
<1>12. ASSUME NEW w \in Wrappers, NEW o \in Wrappers, Readable(w), w \notin alive \/ Writable(w),
              Writable(o), NEW op \in {"movector", "moveassign", "swap"},
              NEW t, NEW dst, NEW src, NEW mine, NEW theirs
       PROVE  Allowed(a, Moving(op, w, o, t, dst, src, mine, theirs))
  BY <1>3, <1>12 DEF Moving, Ops, Writable
<1>13. ASSUME NEW w \in Wrappers, NEW o \in Wrappers, Readable(w), Writable(o),
              MoveConstruct(a, w, o)
       PROVE  Begun(a)
  <2>1. w \notin alive /\ o \in alive /\ mem' = Fresh(mem, w) /\ vt[w] = NoType
    BY <1>1, <1>13 DEF MoveConstruct
  <2>2. CASE vt[o] = NoType
    <3>1. Appears(w)
      BY <1>13, <2>1, <2>2 DEF MoveConstruct, Appears
    <3> QED BY <1>4, <1>13, <2>1, <3>1
  <2>3. CASE vt[o] # NoType
    <3>1. /\ BeginsMove(a, "movector", w, o, vt[o], w, o, NoType, NoType)
          /\ defined'
      BY <1>13, <2>1, <2>3 DEF MoveConstruct, BeginsMove, Ready, Sound
    <3>2. vt[o] \in Types
      BY <1>1, <2>1, <2>3
    <3>3. FrameOK(a, Moving("movector", w, o, vt[o], w, o, NoType, NoType), alive, vt, mem')
      BY <3>2, <2>1 DEF FrameOK, Moving, Moves
    <3>4. Allowed(a, Moving("movector", w, o, vt[o], w, o, NoType, NoType))
      BY <1>12, <1>13, <2>1
    <3>5. MovesIn(a, "movector", w, o, vt[o], w, o, NoType, NoType)
      BY <1>2, <1>13, <2>1, <3>1, <3>2, <3>3, <3>4, Guards DEF MovesIn, AtRest
    <3> QED BY <3>5 DEF Begun
  <2> QED BY <2>2, <2>3
<1>14. ASSUME NEW w \in Wrappers, NEW o \in Wrappers, Writable(w), Writable(o),
              MoveAssign(a, w, o)
       PROVE  Begun(a)
  <2>1. w \in alive /\ o \in alive /\ w # o /\ Readable(w) /\ Readable(o)
    BY <1>14 DEF MoveAssign, Writable
  <2>2. CASE vt[w] # NoType
    <3>1. BeginKill(a, "moveassign", w, o, NoType, mem) /\ UNCHANGED <<alive, vt>>
      BY <1>14, <2>2 DEF MoveAssign
    <3>2. Allowed(a, Doing("moveassign", "kill", w, o, NoType, Place(mem, vt[w], w)))
      BY <1>3, <1>14, <2>1 DEF Doing, Ops
    <3>3. KillsIn(a, "moveassign", w, o)
      BY <1>14, <2>1, <2>2, <3>1, <3>2, Guards DEF KillsIn, AtRest
    <3> QED BY <3>3 DEF Begun
  <2>3. CASE vt[w] = NoType
    <3>1. /\ BeginsMove(a, "moveassign", w, o, vt[o], w, o, NoType, NoType)
          /\ vt[o] # NoType /\ defined'
      BY <1>14, <2>3 DEF MoveAssign, BeginsMove, Ready, Sound
    <3>2. vt[o] \in Types
      BY <1>1, <2>1, <3>1
    <3>3. FrameOK(a, Moving("moveassign", w, o, vt[o], w, o, NoType, NoType), alive, vt, mem')
      BY <3>2, <2>1, <2>3 DEF FrameOK, Moving, Moves
    <3>4. Allowed(a, Moving("moveassign", w, o, vt[o], w, o, NoType, NoType))
      BY <1>12, <1>14, <2>1
    <3>5. MovesIn(a, "moveassign", w, o, vt[o], w, o, NoType, NoType)
      BY <1>2, <1>14, <2>1, <2>3, <3>1, <3>2, <3>3, <3>4, Guards DEF MovesIn, AtRest
    <3> QED BY <3>5 DEF Begun
  <2> QED BY <2>2, <2>3
<1>15. ASSUME NEW w \in Wrappers, NEW o \in Wrappers, Writable(w), Writable(o), Swap(a, w, o)
       PROVE  Begun(a)
  <2>1. /\ w \in alive /\ o \in alive /\ w # o /\ defined' /\ Readable(w)
        /\ vt[w] \in Types \cup {NoType} /\ vt[o] \in Types \cup {NoType}
    BY <1>1, <1>15 DEF Swap, Ready, Sound, Writable
  <2>2. CASE /\ vt[w] # NoType /\ vt[o] # NoType
             /\ BeginsMove(a, "swap", w, o, vt[w], a, w, vt[w], vt[o])
    <3>1. FrameOK(a, Moving("swap", w, o, vt[w], a, w, vt[w], vt[o]), alive, vt, mem')
      BY <2>1, <2>2 DEF FrameOK, Moving, Legs, Moves
    <3>2. Allowed(a, Moving("swap", w, o, vt[w], a, w, vt[w], vt[o]))
      BY <1>12, <1>15, <2>1
    <3>3. MovesIn(a, "swap", w, o, vt[w], a, w, vt[w], vt[o])
      BY <1>2, <1>15, <2>1, <2>2, <3>1, <3>2, Guards DEF MovesIn, AtRest
    <3> QED BY <3>3 DEF Begun
  <2>3. CASE /\ vt[w] # NoType /\ vt[o] = NoType
             /\ BeginsMove(a, "swap", w, o, vt[w], o, w, vt[w], vt[o])
    <3>1. FrameOK(a, Moving("swap", w, o, vt[w], o, w, vt[w], vt[o]), alive, vt, mem')
      BY <2>1, <2>3 DEF FrameOK, Moving, Legs, Moves
    <3>2. Allowed(a, Moving("swap", w, o, vt[w], o, w, vt[w], vt[o]))
      BY <1>12, <1>15, <2>1
    <3>3. MovesIn(a, "swap", w, o, vt[w], o, w, vt[w], vt[o])
      BY <1>2, <1>15, <2>1, <2>3, <3>1, <3>2, Guards DEF MovesIn, AtRest
    <3> QED BY <3>3 DEF Begun
  <2>4. CASE /\ vt[w] = NoType /\ vt[o] # NoType
             /\ BeginsMove(a, "swap", w, o, vt[o], w, o, vt[w], vt[o])
    <3>1. FrameOK(a, Moving("swap", w, o, vt[o], w, o, vt[w], vt[o]), alive, vt, mem')
      BY <2>1, <2>4 DEF FrameOK, Moving, Legs, Moves
    <3>2. Allowed(a, Moving("swap", w, o, vt[o], w, o, vt[w], vt[o]))
      BY <1>12, <1>15, <2>1
    <3>3. MovesIn(a, "swap", w, o, vt[o], w, o, vt[w], vt[o])
      BY <1>2, <1>15, <2>1, <2>4, <3>1, <3>2, Guards DEF MovesIn, AtRest
    <3> QED BY <3>3 DEF Begun
  <2> QED BY <1>15, <2>2, <2>3, <2>4 DEF Swap, BeginsMove
<1>16. ASSUME NEW w \in Wrappers, Readable(w), NestedCall(a, w)
       PROVE  Begun(a)
  <2>1. \A b \in Threads : act[b] = Idle \/ act[b] \in InProgress
    BY DEF Stacked, InProgress
  <2>2. BeingCopied(Idle) = {}
    BY DEF BeingCopied, Idle, Doing
  <2>3. CallsIn(a, w)
    BY <1>16, <2>1, <2>2, Guards DEF CallsIn, AtRest, NestedCall
  <2> QED BY <2>3 DEF Begun
<1> QED
  BY <1>5, <1>6, <1>8, <1>9, <1>10, <1>11, <1>13, <1>14, <1>15, <1>16
  DEF Operate, NestedCopyAssign

\* Every operation the innermost callable's code can begin keeps the invariant.
LEMMA OperateStep ==
  ASSUME NEW a \in Threads, Ready(a), act[a] = Idle, Stacked, Operate(a)
  PROVE  Onto(a)
<1>1. Begun(a)
  BY OperateBegins
<1>2. alive \subseteq Wrappers
  BY DEF Ready, Sound, Framed, TypeOK
<1>3. ASSUME NEW w \in Wrappers, AppearsIn(w) PROVE Onto(a)
  BY <1>3, NestedAppears DEF AppearsIn, AtRest
<1>4. ASSUME NEW op, NEW t, NEW v, NEW s, NEW c, NEW w \in Wrappers, NEW o,
             BuildsIn(a, op, w, o, t, v, s, c)
      PROVE  Onto(a)
  BY <1>4, NestedBuilds DEF BuildsIn
<1>5. ASSUME NEW op, NEW o, NEW w \in Wrappers, KillsIn(a, op, w, o) PROVE Onto(a)
  BY <1>5, NestedKills DEF KillsIn
<1>6. ASSUME NEW op, NEW t, NEW dst, NEW src, NEW mine, NEW theirs, NEW w \in Wrappers,
             NEW o \in Wrappers, MovesIn(a, op, w, o, t, dst, src, mine, theirs)
      PROVE  Onto(a)
  BY <1>6, NestedMoves DEF MovesIn
<1>7. ASSUME NEW w \in Wrappers, CallsIn(a, w) PROVE Onto(a)
  BY <1>7, NestedCalls DEF CallsIn, AtRest
<1> QED BY <1>1, <1>3, <1>4, <1>5, <1>6, <1>7 DEF Begun

\* The constructor throws.
LEMMA NestedThrow ==
  ASSUME NEW a \in Threads, Ready(a), ThrowBuild(a)
  PROVE  Onto(a)
<1>1. act[a].at = "build" /\ mem' = Erase(mem, act[a].cell) /\ act' = [act EXCEPT ![a] = Idle]
  BY DEF ThrowBuild, Go
<1>2. alive' = alive /\ vt' = vt /\ defined' = defined /\ Framed
  BY DEF ThrowBuild, Ready, Sound
<1>3. Goes(a, Idle)
  BY <1>1, <1>2, IdleFrame DEF Goes, Same, Proceeds, Framed, TypeOK
<1>4. /\ Cells[a] = act[a].cell /\ Cells[a] # Null
      /\ \A r, x : Keeps(act[a], a, r, x) = x
      /\ Writes(act[a]) = {act[a].this} /\ act[a].this \in Wrappers
  BY <1>1, <1>2, BuildFrame
<1>5. FrameOK(a, Idle, alive', vt', mem')
  BY DEF FrameOK
<1>6. /\ NestedKeepers[a] = Keeps(act[a], a, a, NoType)
      /\ NestedKeepers'[a] = Keeps(Idle, a, a, NoType)
      /\ \A w \in Wrappers :
           w \in Writes(act[a]) => /\ NestedKeepers[w] = Keeps(act[a], a, w, vt[w])
                                   /\ NestedKeepers'[w] = Keeps(Idle, a, w, vt'[w])
      /\ \A s \in Slots : s # a /\ s \notin Writes(act[a]) => NestedKeepers'[s] = NestedKeepers[s]
      /\ Cells'[a] = CellOf(Idle) /\ OthersBusy(a, Cells, Lives, Kinds, Cells', Lives', Kinds')
  BY <1>3, <1>5, GoesSeen
<1>7. NestedKeepers' = NestedKeepers
  <2>1. \A r \in Slots : NestedKeepers'[r] = NestedKeepers[r]
    BY <1>2, <1>4, <1>6, IdleFrame
  <2> QED BY <2>1 DEF NestedKeepers
<1>8. Consistent(mem, NestedKeepers, Cells, Lives, Kinds) /\ mem \in Memory
  BY DEF Ready, Sound, Consistent
<1>9. Consistent(Erase(mem, Cells[a]), NestedKeepers, Cells', Lives', Kinds')
  BY <1>4, <1>6, <1>8, IdleFrame, EraseConsistent
<1>10. Consistent(mem', NestedKeepers', Cells', Lives', Kinds')
  BY <1>1, <1>4, <1>7, <1>9
<1>11. mem'.ptr = mem.ptr
  BY <1>1, <1>8, PtrFields
<1>12. Unborn' /\ defined'
  BY <1>2 DEF Ready, Sound, Framed, Unborn
<1> QED BY <1>3, <1>5, <1>10, <1>11, <1>12, GoesStep

\* The new callable of a new Function is complete.
LEMMA NestedConstructed ==
  ASSUME NEW a \in Threads, Ready(a), FinishBuild(a), act[a].op # "copyassign"
  PROVE  Onto(a)
<1> DEFINE w == act[a].this
           t == act[a].ty
           c == act[a].cell
<1>1. /\ act[a].at = "build" /\ mem' = EndNew(mem, t, w, c) /\ act' = [act EXCEPT ![a] = Idle]
      /\ vt' = [vt EXCEPT ![w] = IF act[a].op = "construct" THEN t ELSE vt[act[a].other]]
      /\ alive' = alive \cup {w} /\ defined' = defined
  BY DEF FinishBuild, Go
<1>2. /\ w \in Wrappers /\ t \in Types /\ t # NoType /\ c # Null
      /\ act[a].op \in {"construct", "copyctor", "copyassign"}
      /\ Writes(act[a]) = {w} /\ Cells[a] = c /\ Lives[a] = "raw" /\ Kinds[a] = t
      /\ CellFor(t, c, w) /\ vt[w] = NoType
      /\ \A r, x : Keeps(act[a], a, r, x) = x
      /\ act[a].op # "construct" => vt[act[a].other] = t
  BY <1>1, BuildFrame DEF Ready, Sound
<1>3. Alters(act[a]) = {w}
  BY <1>2 DEF Alters
<1> HIDE DEF w, t, c
<1>4. vt' = [vt EXCEPT ![w] = t]
  BY <1>1, <1>2
<1>5. Goes(a, Idle)
  BY <1>1, <1>2, <1>4, IdleFrame DEF Goes, Same, Proceeds, Ready, Sound, Framed, TypeOK
<1>6. FrameOK(a, Idle, alive', vt', mem') /\ Unborn' /\ defined'
  BY <1>1, <1>2, <1>4 DEF FrameOK, Ready, Sound, Framed, TypeOK, Unborn
<1>7. /\ NestedKeepers[a] = Keeps(act[a], a, a, NoType)
      /\ NestedKeepers'[a] = Keeps(Idle, a, a, NoType)
      /\ \A u \in Wrappers :
           u \in Writes(act[a]) => /\ NestedKeepers[u] = Keeps(act[a], a, u, vt[u])
                                   /\ NestedKeepers'[u] = Keeps(Idle, a, u, vt'[u])
      /\ \A s \in Slots : s # a /\ s \notin Writes(act[a]) => NestedKeepers'[s] = NestedKeepers[s]
      /\ OthersBusy(a, Cells, Lives, Kinds, Cells', Lives', Kinds')
      /\ Cells'[a] = CellOf(Idle)
  BY <1>5, <1>6, GoesSeen
<1>8. /\ NestedKeepers[w] = NoType /\ NestedKeepers'[w] = t /\ Cells'[a] = Null /\ w \in Slots
      /\ \A r \in Slots \ {w} : NestedKeepers'[r] = NestedKeepers[r]
  BY <1>2, <1>4, <1>7, IdleFrame DEF Ready, Sound, Framed, TypeOK, Slots
<1>9. Consistent(mem, NestedKeepers, Cells, Lives, Kinds) /\ mem \in Memory
  BY DEF Ready, Sound, Consistent
<1>10. Consistent(EndNew(mem, t, w, Cells[a]), NestedKeepers', Cells', Lives', Kinds')
  BY <1>2, <1>7, <1>8, <1>9, EndNewConsistent
<1>11. Consistent(mem', NestedKeepers', Cells', Lives', Kinds')
  BY <1>1, <1>2, <1>10
<1>12. \A u \in Wrappers \ Alters(act[a]) : mem'.ptr[u] = mem.ptr[u]
  BY <1>1, <1>2, <1>3, <1>9, PtrFields DEF Slots
<1> QED BY <1>5, <1>6, <1>11, <1>12, GoesStep

\* The clone of a copy assignment is complete in tmp.
LEMMA NestedCloned ==
  ASSUME NEW a \in Threads, Ready(a), FinishBuild(a), act[a].op = "copyassign"
  PROVE  Onto(a)
<1> DEFINE f == act[a]
           w == act[a].this
           t == act[a].ty
           m == EndNew(mem, t, a, f.cell)
           K == [NestedKeepers EXCEPT ![a] = t]
           C == [Cells EXCEPT ![a] = Null]
<1>1. /\ f.at = "build" /\ alive' = alive /\ vt' = vt
      /\ IF vt[w] # NoType
           THEN BeginKill(a, "copyassign", w, f.other, t, m)
           ELSE mem' = m /\ Go(a, Onward(f, vt[f.other], w, a)) /\ UNCHANGED defined
  BY DEF FinishBuild
<1>2. /\ w \in Wrappers /\ t \in Types /\ t # NoType /\ f.cell # Null
      /\ Writes(f) = {w} /\ Uses(f) = {w, f.other} \ {Null}
      /\ Cells[a] = f.cell /\ Lives[a] = "raw" /\ Kinds[a] = t
      /\ CellFor(t, f.cell, a)
      /\ \A r, x : Keeps(f, a, r, x) = x
      /\ w \in alive /\ f.other \in alive /\ w # f.other /\ vt[f.other] = t
  BY <1>1, BuildFrame DEF Ready, Sound
<1>3. /\ Consistent(mem, NestedKeepers, Cells, Lives, Kinds) /\ mem \in Memory
      /\ f \in Frame /\ alive \in SUBSET Wrappers /\ vt \in [Wrappers -> Types \cup {NoType}]
      /\ a \in Slots /\ w \in Slots /\ a # w /\ f.other \in Wrappers /\ defined
      /\ FrameOK(a, f, alive, vt, mem)
  BY <1>2, DistinctAssumption DEF Ready, Sound, Framed, TypeOK, Frames, Consistent, Slots
<1>4. /\ K[a] = t /\ \A r \in Slots \ {a} : K[r] = NestedKeepers[r]
      /\ C[a] = Null /\ \A b \in Threads \ {a} : C[b] = Cells[b]
  BY <1>3 DEF NestedKeepers, Cells
<1>5. NestedKeepers[a] = NoType /\ NestedKeepers[w] = vt[w]
  <2>1. \A b \in Threads \ {a} : w \notin Between(act[b])
    BY <1>2, WritesAreUses DEF Ready, Allowed, Respects
  <2>2. HoldsIn(act, vt, a) = NoType
    BY <1>2 DEF HoldsIn
  <2>3. /\ FrameOK(a, act[a], alive, vt, mem) /\ alive \in SUBSET Wrappers
        /\ act[a].this \in Wrappers
    BY <1>2, <1>3
  <2>4. HoldsIn(act, vt, w) = Keeps(f, a, w, vt[w])
    BY <2>1, <2>3, HoldsByLevel
  <2> QED BY <1>2, <1>3, <2>2, <2>4 DEF NestedKeepers, Holds
<1> HIDE DEF K, C, w, t
<1>6. Consistent(m, K, C, Lives, Kinds) /\ m \in Memory
  <2>1. OthersBusy(a, Cells, Lives, Kinds, C, Lives, Kinds)
    BY <1>4 DEF OthersBusy
  <2>2. Consistent(EndNew(mem, t, a, Cells[a]), K, C, Lives, Kinds)
    BY <1>2, <1>3, <1>4, <1>5, <2>1, EndNewConsistent
  <2> QED BY <1>2, <2>2 DEF Consistent
<1>7. \A u \in Wrappers : m.ptr[u] = mem.ptr[u]
  BY <1>3, PtrFields, DistinctAssumption DEF Slots
<1> HIDE DEF m
<1>8. CASE vt[w] = NoType
  <2> DEFINE g == Onward(f, t, w, a)
  <2>1. /\ g \in Frame /\ Uses(g) = Uses(f) /\ Writes(g) = Writes(f) /\ CellOf(g) = Null
        /\ g = [op |-> "copyassign", at |-> "move", this |-> w, other |-> f.other, ty |-> t,
                cell |-> Null, dst |-> w, src |-> a, mine |-> f.mine, theirs |-> f.theirs]
    BY <1>2, <1>3, OnwardFrame DEF w, Ops
  <2> HIDE DEF g
  <2>2. mem' = m /\ act' = [act EXCEPT ![a] = g] /\ defined'
    BY <1>1, <1>2, <1>3, <1>8 DEF Go, g
  <2>3. Goes(a, g)
    <3>1. Proceeds(a, g)
      BY <1>1, <1>3, <2>1, <2>2 DEF Proceeds, Ready, Sound, Framed, TypeOK
    <3>2. Same(f, g)
      BY <2>1 DEF Same, w
    <3> QED BY <1>1, <3>1, <3>2 DEF Goes
  <2>4. FrameOK(a, g, alive', vt', mem')
    BY <1>1, <1>2, <1>8, <2>1 DEF FrameOK, Moves
  <2>5. /\ NestedKeepers'[a] = Keeps(g, a, a, NoType)
        /\ NestedKeepers'[w] = Keeps(g, a, w, vt'[w])
        /\ \A s \in Slots : s # a /\ s # w => NestedKeepers'[s] = NestedKeepers[s]
        /\ OthersBusy(a, Cells, Lives, Kinds, Cells', Lives', Kinds')
        /\ Cells'[a] = CellOf(g)
    BY <1>2, <2>3, <2>4, GoesSeen
  <2>6. Keeps(g, a, a, NoType) = t /\ Keeps(g, a, w, vt[w]) = NoType
    BY <1>3, <2>1 DEF Keeps
  <2>7. NestedKeepers' = K
    BY <1>1, <1>4, <1>5, <1>8, <2>5, <2>6 DEF NestedKeepers, K
  <2>8. /\ \A b \in Threads : Cells'[b] = C[b]
        /\ \A b \in Threads : C[b] # Null => Lives'[b] = Lives[b] /\ Kinds'[b] = Kinds[b]
    BY <1>4, <2>1, <2>5 DEF OthersBusy
  <2>9. Consistent(mem', NestedKeepers', Cells', Lives', Kinds')
    BY <1>6, <2>2, <2>7, <2>8, CellsAgree
  <2>10. Unborn'
    BY <1>1 DEF Ready, Sound, Framed, Unborn
  <2> QED BY <1>7, <2>2, <2>3, <2>4, <2>9, <2>10, GoesStep
<1>9. CASE vt[w] # NoType
  <2> DEFINE l == Place(m, vt[w], w)
             g == Doing("copyassign", "kill", w, f.other, t, l)
  <2>1. vt[w] \in Types /\ K[w] = vt[w]
    BY <1>2, <1>3, <1>4, <1>5, <1>9
  <2>2. LiveAt(m, vt[w], l) /\ l \in Loc
    <3>1. Live(m, vt[w], w)
      BY <1>3, <1>6, <1>9, <2>1 DEF Consistent
    <3> QED BY <3>1 DEF Live, LiveAt
  <2>3. CellFor(vt[w], l, w)
    <3>1. m.ptr[w] \in Heap \cup {Null, Junk}
      BY <1>3, <1>6 DEF Memory
    <3> QED BY <2>2, <3>1, DistinctAssumption DEF Place, CellFor, Loc, Slots
  <2>4. g = [op |-> "copyassign", at |-> "kill", this |-> w, other |-> f.other, ty |-> t,
             cell |-> l, dst |-> Null, src |-> Null, mine |-> NoType, theirs |-> NoType]
    BY DEF Doing
  <2>5. g \in Frame
    BY <1>2, <1>3, <2>2, DoingIsFrame DEF Ops
  <2>6. mem' = Mark(m, l, "dying") /\ act' = [act EXCEPT ![a] = g] /\ defined'
    BY <1>1, <1>3, <1>9, <2>2 DEF BeginKill, Must, Go
  <2> HIDE DEF l, g
  <2>7. Writes(g) = {w} /\ Uses(g) = {w, f.other} \ {Null}
    BY <2>4 DEF Writes, Uses
  <2>8. Goes(a, g)
    <3>1. Proceeds(a, g)
      BY <1>1, <1>2, <1>3, <2>5, <2>6, <2>7 DEF Proceeds, Ready, Sound, Framed, TypeOK
    <3>2. Same(f, g)
      BY <2>4 DEF Same, w
    <3> QED BY <1>1, <3>1, <3>2 DEF Goes
  <2>9. FrameOK(a, g, alive', vt', mem')
    BY <1>1, <1>2, <1>9, <2>1, <2>3, <2>4 DEF FrameOK, Kills
  <2>10. /\ NestedKeepers'[a] = Keeps(g, a, a, NoType)
         /\ NestedKeepers'[w] = Keeps(g, a, w, vt'[w])
         /\ \A s \in Slots : s # a /\ s # w => NestedKeepers'[s] = NestedKeepers[s]
         /\ OthersBusy(a, Cells, Lives, Kinds, Cells', Lives', Kinds')
         /\ Cells'[a] = CellOf(g) /\ Lives'[a] = LifeOf(g)
    BY <1>2, <2>8, <2>9, GoesSeen
  <2>11. NestedKeepers'[w] = NoType /\ \A r \in Slots \ {w} : NestedKeepers'[r] = K[r]
    <3>1. Keeps(g, a, a, NoType) = t /\ Keeps(g, a, w, vt[w]) = NoType
      BY <1>3, <2>4 DEF Keeps
    <3> QED BY <1>1, <1>4, <2>10, <3>1
  <2>12. Cells'[a] = l /\ Lives'[a] = "dying" /\ l = Place(m, K[w], w)
    BY <2>1, <2>4, <2>10 DEF CellOf, LifeOf, l
  <2>13. OthersBusy(a, C, Lives, Kinds, Cells', Lives', Kinds')
    BY <1>4, <2>10 DEF OthersBusy
  <2>14. Consistent(Mark(m, Place(m, K[w], w), "dying"), NestedKeepers', Cells', Lives', Kinds')
    BY <1>3, <1>4, <1>6, <1>9, <2>1, <2>11, <2>12, <2>13, MarkConsistent
  <2>15. Consistent(mem', NestedKeepers', Cells', Lives', Kinds')
    BY <2>6, <2>12, <2>14
  <2>16. \A u \in Wrappers : mem'.ptr[u] = mem.ptr[u]
    BY <1>6, <1>7, <2>6, PtrFields
  <2>17. Unborn'
    BY <1>1 DEF Ready, Sound, Framed, Unborn
  <2> QED BY <2>6, <2>8, <2>9, <2>15, <2>16, <2>17, GoesStep
<1> QED BY <1>8, <1>9

\* The destructor reset() called returns: the callable is gone, its slot holds nothing.
LEMMA NestedKilled ==
  ASSUME NEW a \in Threads, Ready(a), NEW g \in Frame, Killed(a, g), Same(act[a], g),
         CellOf(g) = Null,
         Keeps(g, a, a, NoType) = Keeps(act[a], a, a, NoType),
         \A u \in Writes(act[a]) : Keeps(g, a, u, vt'[u]) = Keeps(act[a], a, u, vt[u]),
         FrameOK(a, g, alive', vt', mem')
  PROVE  Onto(a)
<1> DEFINE w == act[a].this
<1>1. Framed /\ act[a].at = "kill"
  BY DEF Ready, Sound, Killed
<1>2. /\ w \in alive /\ Writes(act[a]) \subseteq Wrappers /\ w \in Writes(act[a])
      /\ Cells[a] = act[a].cell /\ Cells[a] # Null
      /\ act[a].op \in {"copyassign", "reset", "destroy", "moveassign"}
  BY <1>1, KillFrame DEF Framed, TypeOK
<1>3. /\ mem' = Erase(mem, Cells[a]) /\ vt' = [vt EXCEPT ![w] = NoType]
      /\ alive' = (IF act[a].op = "destroy" THEN alive \ {w} ELSE alive)
      /\ act' = [act EXCEPT ![a] = g] /\ defined' = defined
  BY <1>2 DEF Killed
<1>4. g = Idle \/ (Writes(g) = Writes(act[a]) /\ Uses(g) = Uses(act[a]))
  BY DEF Same, Writes, Uses
<1>5. Goes(a, g)
  <2>1. Proceeds(a, g)
    BY <1>1, <1>2, <1>3, <1>4 DEF Proceeds, Framed, TypeOK
  <2> QED BY <1>2, <1>3, <2>1 DEF Goes
<1>6. /\ NestedKeepers[a] = Keeps(act[a], a, a, NoType)
      /\ NestedKeepers'[a] = Keeps(g, a, a, NoType)
      /\ \A u \in Wrappers :
           u \in Writes(act[a]) => /\ NestedKeepers[u] = Keeps(act[a], a, u, vt[u])
                                   /\ NestedKeepers'[u] = Keeps(g, a, u, vt'[u])
      /\ \A s \in Slots : s # a /\ s \notin Writes(act[a]) => NestedKeepers'[s] = NestedKeepers[s]
      /\ OthersBusy(a, Cells, Lives, Kinds, Cells', Lives', Kinds')
      /\ Cells'[a] = CellOf(g)
  BY <1>5, GoesSeen
<1> HIDE DEF w
<1>7. NestedKeepers' = NestedKeepers
  <2>1. \A r \in Slots : NestedKeepers'[r] = NestedKeepers[r]
    BY <1>2, <1>6
  <2> QED BY <2>1 DEF NestedKeepers
<1>8. Consistent(mem, NestedKeepers, Cells, Lives, Kinds) /\ mem \in Memory
  BY DEF Ready, Sound, Consistent
<1>9. Consistent(Erase(mem, Cells[a]), NestedKeepers, Cells', Lives', Kinds')
  BY <1>2, <1>6, <1>8, EraseConsistent
<1>10. Consistent(mem', NestedKeepers', Cells', Lives', Kinds')
  BY <1>3, <1>7, <1>9
<1>11. mem'.ptr = mem.ptr
  BY <1>3, <1>8, PtrFields
<1>12. Unborn' /\ defined'
  BY <1>3 DEF Ready, Sound, Framed, TypeOK, Unborn
<1> QED BY <1>5, <1>10, <1>11, <1>12, GoesStep

\* The return of that destructor, whatever the operation.
LEMMA NestedFinishKill ==
  ASSUME NEW a \in Threads, Ready(a), FinishKill(a)
  PROVE  Onto(a)
<1> DEFINE f == act[a]
           w == act[a].this
           o == act[a].other
           next == CASE f.op = "copyassign" -> Onward(f, vt'[o], w, a)
                     [] f.op = "moveassign" /\ vt'[o] # NoType -> Onward(f, vt'[o], w, o)
                     [] OTHER -> Idle
<1>1. Killed(a, next)
  BY DEF FinishKill, Killed, Go
<1>2. f.at = "kill" /\ Framed
  BY <1>1 DEF Killed, Ready, Sound
<1>3. /\ f.op \in {"copyassign", "reset", "destroy", "moveassign"}
      /\ w \in alive
      /\ f.op \in {"copyassign", "moveassign"} => o \in alive /\ w # o
      /\ f.op = "copyassign" => f.ty \in Types /\ vt[o] = f.ty
      /\ Writes(f) = (IF f.op = "moveassign" THEN {w, o} ELSE {w})
      /\ \A r, x : Keeps(f, a, r, x) =
           IF r = w THEN NoType ELSE IF r = a /\ f.op = "copyassign" THEN f.ty ELSE x
  BY <1>2, KillFrame
<1>4. /\ alive \subseteq Wrappers /\ vt \in [Wrappers -> Types \cup {NoType}] /\ f \in Frame
      /\ a \in Slots /\ w \in Slots /\ w \in Wrappers /\ a # w /\ a \notin Wrappers
  BY <1>2, <1>3, DistinctAssumption DEF Framed, TypeOK, Slots
<1>5. /\ vt' = [vt EXCEPT ![w] = NoType]
      /\ f.op # "destroy" => alive' = alive
  BY <1>1 DEF Killed
<1> HIDE DEF w, o
<1>6. CASE f.op = "copyassign"
  <2> DEFINE g == Onward(f, f.ty, w, a)
  <2>1. next = g
    BY <1>3, <1>4, <1>5, <1>6
  <2>2. /\ g \in Frame /\ Uses(g) = Uses(f) /\ Writes(g) = Writes(f) /\ CellOf(g) = Null
        /\ g = [op |-> "copyassign", at |-> "move", this |-> w, other |-> o, ty |-> f.ty,
                cell |-> Null, dst |-> w, src |-> a, mine |-> f.mine, theirs |-> f.theirs]
    BY <1>3, <1>4, <1>6, OnwardFrame DEF w, o, Ops
  <2> HIDE DEF g
  <2>3. Killed(a, g)
    BY <1>1, <2>1
  <2>4. /\ Keeps(g, a, a, NoType) = f.ty
        /\ \A u \in Writes(f) : Keeps(g, a, u, vt'[u]) = NoType
    BY <1>3, <1>4, <1>6, <2>2 DEF Keeps
  <2>5. FrameOK(a, g, alive', vt', mem')
    BY <1>3, <1>4, <1>5, <1>6, <2>2 DEF FrameOK, Moves
  <2>6. /\ Keeps(f, a, a, NoType) = f.ty
        /\ \A u \in Writes(f) : Keeps(f, a, u, vt[u]) = NoType
    BY <1>3, <1>4, <1>6
  <2>7. Same(f, g)
    BY <1>6, <2>2 DEF Same, w, o
  <2> QED BY <2>2, <2>3, <2>4, <2>5, <2>6, <2>7, NestedKilled
<1>7. CASE f.op = "moveassign" /\ vt[o] # NoType
  <2> DEFINE g == Onward(f, vt[o], w, o)
  <2>1. next = g /\ vt'[o] = vt[o] /\ vt[o] \in Types /\ o \in Wrappers /\ o \in Slots
    BY <1>3, <1>4, <1>5, <1>7 DEF Slots
  <2>2. /\ g \in Frame /\ Uses(g) = Uses(f) /\ Writes(g) = Writes(f) /\ CellOf(g) = Null
        /\ g = [op |-> "moveassign", at |-> "move", this |-> w, other |-> o, ty |-> vt[o],
                cell |-> Null, dst |-> w, src |-> o, mine |-> f.mine, theirs |-> f.theirs]
    <3>1. /\ f \in Frame /\ f.op \in Ops /\ f.this = w /\ f.other = o /\ w \in Wrappers
          /\ o \in Wrappers /\ w \in Slots /\ o \in Slots /\ vt[o] \in Types \cup {NoType}
      BY <1>4, <1>7, <2>1 DEF w, o, Ops
    <3> QED BY <1>7, <3>1, OnwardFrame
  <2> HIDE DEF g
  <2>3. Killed(a, g)
    BY <1>1, <2>1
  <2>4. /\ Keeps(g, a, a, NoType) = NoType
        /\ Keeps(g, a, w, vt'[w]) = NoType /\ Keeps(g, a, o, vt'[o]) = vt[o]
    BY <1>3, <1>4, <1>7, <2>1, <2>2 DEF Keeps
  <2>5. FrameOK(a, g, alive', vt', mem')
    BY <1>3, <1>4, <1>5, <1>7, <2>1, <2>2 DEF FrameOK, Moves
  <2>6. /\ Keeps(f, a, a, NoType) = NoType
        /\ Keeps(f, a, w, vt[w]) = NoType /\ Keeps(f, a, o, vt[o]) = vt[o]
    BY <1>3, <1>4, <1>7
  <2>7. \A u \in Writes(f) : Keeps(g, a, u, vt'[u]) = Keeps(f, a, u, vt[u])
    BY <1>3, <1>7, <2>4, <2>6
  <2>8. Same(f, g)
    BY <1>7, <2>2 DEF Same, w, o
  <2> QED BY <2>2, <2>3, <2>4, <2>5, <2>6, <2>7, <2>8, NestedKilled
<1>8. CASE f.op # "copyassign" /\ ~(f.op = "moveassign" /\ vt[o] # NoType)
  <2>1. Killed(a, Idle)
    BY <1>1, <1>3, <1>4, <1>5, <1>8
  <2>2. /\ Keeps(f, a, a, NoType) = NoType
        /\ \A u \in Writes(f) : Keeps(f, a, u, vt[u]) = vt'[u]
    BY <1>3, <1>4, <1>5, <1>8
  <2>3. FrameOK(a, Idle, alive', vt', mem') /\ Same(f, Idle)
    BY DEF FrameOK, Same
  <2> QED BY <2>1, <2>2, <2>3, IdleFrame, NestedKilled
<1> QED BY <1>6, <1>7, <1>8

\* What follows a move is of the same operation, and no Function goes away.
LEMMA AfterGoes ==
  ASSUME NEW a \in Threads, Ready(a), act[a].at \in {"move", "retire"},
         AfterMove(a, act[a]), NEW g, After(a, g)
  PROVE  Goes(a, g)
<1>1. /\ act[a].op \in {"copyassign", "movector", "moveassign", "swap"}
      /\ act \in [Threads -> Frame]
  BY MoveFrame DEF Ready, Sound, Framed, TypeOK
<1>2. /\ alive \subseteq alive'
      /\ \/ act' = [act EXCEPT ![a] = Idle]
         \/ \E t, dst, src : act' = [act EXCEPT ![a] = Onward(act[a], t, dst, src)]
  <2>1. CASE act[a].op = "copyassign"
    BY <2>1 DEF AfterMove, Go
  <2>2. CASE act[a].op \in {"movector", "moveassign"}
    BY <2>2 DEF AfterMove, Go
  <2>3. CASE act[a].op = "swap"
    BY <2>3 DEF AfterMove, Go
  <2> QED BY <1>1, <2>1, <2>2, <2>3
<1>3. act'[a] = g
  BY <1>1 DEF After
<1>4. Same(act[a], g)
  BY <1>1, <1>2, <1>3 DEF Same, Onward, Moving
<1>5. Proceeds(a, g)
  BY <1>1 DEF After, Proceeds
<1> QED BY <1>1, <1>2, <1>4, <1>5 DEF Goes

\* What the slots hold, in terms of Settled, once a move is over.
LEMMA NestedAfter ==
  ASSUME NEW a \in Threads, Ready(a), act[a].at \in {"move", "retire"},
         AfterMove(a, act[a]), NEW g, After(a, g)
  PROVE  /\ \A r \in Slots :
              NestedKeepers'[r] = IF r = a THEN Settled(act[a], a, a, NoType)
                                  ELSE IF r \in Writes(act[a]) THEN Settled(act[a], a, r, vt[r])
                                  ELSE NestedKeepers[r]
         /\ OthersBusy(a, Cells, Lives, Kinds, Cells', Lives', Kinds') /\ Cells'[a] = Null
<1>1. Writes(act[a]) \subseteq Wrappers
  BY MoveFrame DEF Ready, Sound
<1>2. Goes(a, g)
  BY AfterGoes
<1>3. FrameOK(a, g, alive', vt', mem')
  BY DEF After
<1>4. /\ NestedKeepers'[a] = Keeps(g, a, a, NoType)
      /\ \A w \in Wrappers : w \in Writes(act[a]) => NestedKeepers'[w] = Keeps(g, a, w, vt'[w])
      /\ \A s \in Slots : s # a /\ s \notin Writes(act[a]) => NestedKeepers'[s] = NestedKeepers[s]
      /\ OthersBusy(a, Cells, Lives, Kinds, Cells', Lives', Kinds')
      /\ Cells'[a] = CellOf(g)
  BY <1>2, <1>3, GoesSeen
<1>5. /\ CellOf(g) = Null
      /\ Keeps(g, a, a, NoType) = Settled(act[a], a, a, NoType)
      /\ \A u \in Writes(act[a]) : Keeps(g, a, u, vt'[u]) = Settled(act[a], a, u, vt[u])
  BY DEF After
<1> QED BY <1>1, <1>4, <1>5

\* What a level's Functions and its tmp hold.
LEMMA ReadyHolds ==
  ASSUME NEW a \in Threads, Ready(a)
  PROVE  /\ NestedKeepers[a] = Keeps(act[a], a, a, NoType)
         /\ \A w \in Wrappers : w \in Uses(act[a]) => NestedKeepers[w] = Keeps(act[a], a, w, vt[w])
<1>1. NestedKeepers[a] = Keeps(act[a], a, a, NoType)
  BY DEF NestedKeepers, Holds, HoldsIn, Slots
<1>2. ASSUME NEW w \in Wrappers, w \in Uses(act[a])
      PROVE  NestedKeepers[w] = Keeps(act[a], a, w, vt[w])
  <2>1. FrameOK(a, act[a], alive, vt, mem) /\ alive \in SUBSET Wrappers
    BY DEF Ready, Sound, Framed, Frames, TypeOK
  <2>2. \A b \in Threads \ {a} : w \notin Between(act[b])
    BY <1>2 DEF Ready, Allowed, Respects
  <2>3. HoldsIn(act, vt, w) = Keeps(act[a], a, w, vt[w])
    BY <2>1, <2>2, HoldsByLevel
  <2> QED BY <2>3 DEF NestedKeepers, Holds, Slots
<1> QED BY <1>1, <1>2

\* The destructor of a moved-from callable returns.
LEMMA NestedFinishRetire ==
  ASSUME NEW a \in Threads, Ready(a), FinishRetire(a)
  PROVE  Onto(a)
<1>1. /\ act[a].at = "retire" /\ AfterMove(a, act[a])
      /\ mem' = Erase(mem, act[a].cell) /\ defined' = defined
  BY DEF FinishRetire
<1>2. Framed
  BY DEF Ready, Sound
<1>3. PICK g : After(a, g)
  BY <1>1, <1>2, AfterMoveFrame
<1>4. /\ act[a].cell = act[a].src /\ act[a].src \in Slots /\ Writes(act[a]) \subseteq Wrappers
      /\ act[a] \in Frame
      /\ act[a].op \in {"copyassign", "movector", "moveassign", "swap"}
  BY <1>1, <1>2, MoveFrame DEF OneWay, IntoTmp, Across, OutOf, Slots
<1>5. Cells[a] = act[a].cell /\ Cells[a] # Null
  BY <1>1, <1>4, DistinctAssumption DEF Cells, CellOf, Slots
<1>6. /\ \A r \in Slots :
           NestedKeepers'[r] = IF r = a THEN Settled(act[a], a, a, NoType)
                               ELSE IF r \in Writes(act[a]) THEN Settled(act[a], a, r, vt[r])
                               ELSE NestedKeepers[r]
      /\ OthersBusy(a, Cells, Lives, Kinds, Cells', Lives', Kinds') /\ Cells'[a] = Null
  BY <1>1, <1>3, NestedAfter
<1>7. NestedKeepers' = NestedKeepers
  <2>1. \A s, v : Settled(act[a], a, s, v) = Keeps(act[a], a, s, v)
    BY <1>1, <1>4 DEF Settled, Keeps, Frame
  <2>2. Writes(act[a]) \subseteq Uses(act[a])
    BY <1>4, WritesAreUses
  <2>3. \A r \in Slots : NestedKeepers'[r] = NestedKeepers[r]
    BY <1>4, <1>6, <2>1, <2>2, ReadyHolds
  <2> QED BY <2>3 DEF NestedKeepers
<1>8. Consistent(mem, NestedKeepers, Cells, Lives, Kinds) /\ mem \in Memory
  BY DEF Ready, Sound, Consistent
<1>9. Consistent(Erase(mem, Cells[a]), NestedKeepers, Cells', Lives', Kinds')
  BY <1>5, <1>6, <1>8, EraseConsistent
<1>10. Consistent(mem', NestedKeepers', Cells', Lives', Kinds')
  BY <1>1, <1>5, <1>7, <1>9
<1>11. mem'.ptr = mem.ptr
  BY <1>1, <1>8, PtrFields
<1>12. FrameOK(a, g, alive', vt', mem') /\ Unborn' /\ defined'
  BY <1>1, <1>3 DEF After, Ready, Sound
<1>13. Goes(a, g)
  BY <1>1, <1>3, AfterGoes
<1> QED BY <1>10, <1>11, <1>12, <1>13, GoesStep

\* A vtable's move: what its source and target hold, and that it is defined.
LEMMA NestedMoveDefined ==
  ASSUME NEW a \in Threads, Ready(a), act[a].at = "move"
  PROVE  /\ act[a].src \in Slots /\ act[a].dst \in Slots /\ act[a].src # act[a].dst
         /\ act[a].src \in Writes(act[a]) \cup {a} /\ act[a].dst \in Writes(act[a]) \cup {a}
         /\ NestedKeepers[act[a].src] = act[a].ty /\ NestedKeepers[act[a].dst] = NoType
         /\ Live(mem, act[a].ty, act[a].src) /\ mem.obj[act[a].dst] = NoObject
<1> DEFINE f == act[a]
<1>0. Framed
  BY DEF Ready, Sound
<1>1. /\ f \in Frame /\ f.this \in Wrappers /\ f.other \in Wrappers /\ f.this # f.other
      /\ Writes(f) = (IF f.op = "copyassign" THEN {f.this} ELSE {f.this, f.other})
      /\ f.ty \in Types
      /\ OneWay(f, a) \/ IntoTmp(f, a) \/ Across(f, a) \/ OutOf(f, a)
  BY <1>0, MoveFrame
<1>2. a \notin Wrappers /\ a \in Slots /\ Wrappers \subseteq Slots
  BY DistinctAssumption DEF Slots
<1>3. /\ f.src \in Writes(f) \cup {a} /\ f.dst \in Writes(f) \cup {a} /\ f.src # f.dst
  BY <1>1, <1>2 DEF OneWay, IntoTmp, Across, OutOf
<1>4. f.src \in Slots /\ f.dst \in Slots
  BY <1>1, <1>2, <1>3
<1>5. NestedKeepers[f.src] = f.ty /\ NestedKeepers[f.dst] = NoType
  <2>1. \A v : Keeps(f, a, f.src, v) = f.ty /\ Keeps(f, a, f.dst, v) = NoType
    BY <1>3 DEF Keeps
  <2>2. ASSUME NEW s \in Writes(f) \cup {a}
        PROVE  \E v : NestedKeepers[s] = Keeps(f, a, s, v)
    <3>1. NestedKeepers[a] = Keeps(act[a], a, a, NoType)
      BY ReadyHolds
    <3>2. s \in Wrappers => NestedKeepers[s] = Keeps(act[a], a, s, vt[s])
      BY <1>1, WritesAreUses, ReadyHolds, <1>2
    <3> QED BY <1>1, <3>1, <3>2
  <2> QED BY <1>3, <2>1, <2>2
<1>6. Consistent(mem, NestedKeepers, Cells, Lives, Kinds)
  BY DEF Ready, Sound
<1>7. Live(mem, f.ty, f.src)
  BY <1>1, <1>4, <1>5, <1>6, DistinctAssumption DEF Consistent
<1>8. \A b \in Threads : Cells[b] # f.dst
  <2>1. Cells[a] = Null /\ Null \notin Slots
    BY DistinctAssumption DEF Cells, CellOf, Slots
  <2>2. ASSUME NEW b \in Threads \ {a} PROVE f.dst \notin Between(act[b]) \cup {b}
    <3>1. Uses(f) \cap Between(act[b]) = {}
      BY DEF Ready, Allowed, Respects
    <3>2. Between(act[b]) \subseteq Wrappers
      <4>1. FrameOK(b, act[b], alive, vt, mem) /\ alive \subseteq Wrappers
        BY <1>0 DEF Framed, Frames, TypeOK
      <4> QED BY <4>1, IdleRelies, DistinctAssumption
              DEF FrameOK, Between, Kills, Legs, Moves, Uses
    <3>3. Writes(f) \subseteq Uses(f) /\ Writes(f) \subseteq Wrappers
      BY <1>1, WritesAreUses
    <3> QED BY <1>2, <1>3, <3>1, <3>2, <3>3, DistinctAssumption
  <2> QED BY <1>0, <1>4, <2>1, <2>2, CellsAreBetween DEF Framed
<1>9. mem.obj[f.dst] = NoObject
  BY <1>4, <1>5, <1>6, <1>8, SlotIsFree
<1> QED BY <1>3, <1>4, <1>5, <1>7, <1>9

\* What the slots hold after a step that completes the move of level a.
NestedMoved(a) ==
  /\ NestedKeepers'[act[a].src] = NoType /\ NestedKeepers'[act[a].dst] = act[a].ty
  /\ \A r \in Slots \ {act[a].src, act[a].dst} : NestedKeepers'[r] = NestedKeepers[r]

\* Who holds which callable once a move is complete.
LEMMA NestedSettled ==
  ASSUME NEW a \in Threads, Ready(a), act[a].at = "move",
         \A r \in Slots :
           NestedKeepers'[r] = IF r = a THEN Settled(act[a], a, a, NoType)
                               ELSE IF r \in Writes(act[a]) THEN Settled(act[a], a, r, vt[r])
                               ELSE NestedKeepers[r]
  PROVE  NestedMoved(a)
<1> DEFINE f == act[a]
<1>1. /\ f.src \in Slots /\ f.dst \in Slots /\ f.src # f.dst
      /\ f.src \in Writes(f) \cup {a} /\ f.dst \in Writes(f) \cup {a}
  BY NestedMoveDefined
<1>2. f \in Frame /\ Writes(f) \subseteq Wrappers /\ Writes(f) \subseteq Uses(f)
  <2>1. f \in Frame /\ Writes(f) \subseteq Wrappers
    BY MoveFrame DEF Ready, Sound
  <2> QED BY <2>1, WritesAreUses
<1>3. \A s, v : /\ s = f.src => Settled(f, a, s, v) = NoType
                /\ s = f.dst => Settled(f, a, s, v) = f.ty
                /\ s # f.src /\ s # f.dst => Settled(f, a, s, v) = Keeps(f, a, s, v)
  BY <1>1, <1>2 DEF Settled, Keeps, Frame
<1>4. ASSUME NEW r \in Slots \ {f.src, f.dst} PROVE NestedKeepers'[r] = NestedKeepers[r]
  <2>1. r = a => NestedKeepers[r] = Keeps(f, a, r, NoType)
    BY ReadyHolds
  <2>2. r \in Writes(f) => NestedKeepers[r] = Keeps(f, a, r, vt[r])
    BY <1>2, ReadyHolds
  <2> QED BY <1>3, <2>1, <2>2
<1>5. NestedKeepers'[f.src] = NoType /\ NestedKeepers'[f.dst] = f.ty
  BY <1>1, <1>3
<1> QED BY <1>4, <1>5 DEF NestedMoved

\* A vtable's move: inline, the source's destructor is entered; on the heap, the
\* pointer is handed over and the operation goes on.
LEMMA NestedStepMove ==
  ASSUME NEW a \in Threads, Ready(a), StepMove(a)
  PROVE  Onto(a)
<1> DEFINE f == act[a]
<1>0. Framed
  BY DEF Ready, Sound
<1>1. /\ f.at = "move"
      /\ defined' = (defined /\ Live(mem, f.ty, f.src) /\ mem.obj[f.dst] = NoObject)
      /\ IF fits(f.ty)
           THEN /\ mem' = Relocate(mem, f.dst, f.src)
                /\ act' = [act EXCEPT ![a] = [f EXCEPT !.at = "retire", !.cell = f.src]]
                /\ alive' = alive /\ vt' = vt
           ELSE mem' = Transfer(mem, f.dst, f.src) /\ AfterMove(a, f)
  BY DEF StepMove, Must, Go
<1>2. /\ f.src \in Slots /\ f.dst \in Slots /\ f.src # f.dst
      /\ f.src \in Writes(f) \cup {a} /\ f.dst \in Writes(f) \cup {a}
      /\ NestedKeepers[f.src] = f.ty /\ NestedKeepers[f.dst] = NoType
      /\ Live(mem, f.ty, f.src) /\ mem.obj[f.dst] = NoObject
  BY <1>1, NestedMoveDefined
<1>3. /\ f \in Frame /\ Writes(f) \subseteq Wrappers /\ f.ty \in Types /\ f.ty # NoType
      /\ a \in Slots /\ a \notin Wrappers /\ Wrappers \subseteq Slots
      /\ Alters(f) = Writes(f) /\ f.op # "call"
  <2>1. /\ f \in Frame /\ f.ty \in Types /\ f.this \in Wrappers /\ f.other \in Wrappers
        /\ Writes(f) = IF f.op = "copyassign" THEN {f.this} ELSE {f.this, f.other}
        /\ f.op \in {"copyassign", "movector", "moveassign", "swap"}
    BY <1>0, <1>1, MoveFrame
  <2> QED BY <2>1, DistinctAssumption DEF Slots, Alters
<1>4. /\ Consistent(mem, NestedKeepers, Cells, Lives, Kinds) /\ mem \in Memory /\ defined'
      /\ alive \in SUBSET Wrappers /\ vt \in [Wrappers -> Types \cup {NoType}]
  BY <1>1, <1>2 DEF Ready, Sound, Framed, TypeOK, Consistent
<1>5. Cells[a] = Null
  BY <1>1 DEF Cells, CellOf
<1>6. CASE fits(f.ty)
  <2> DEFINE g == [f EXCEPT !.at = "retire", !.cell = f.src]
  <2>1. /\ g \in Frame /\ Writes(g) = Writes(f) /\ Uses(g) = Uses(f) /\ g # Idle
        /\ CellOf(g) = f.src /\ LifeOf(g) = "dying" /\ Same(f, g)
    BY <1>2, <1>3 DEF Frame, Writes, Uses, CellOf, LifeOf, Idle, Doing, Loc, Same
  <2>2. \A s, v : Keeps(g, a, s, v) = Settled(f, a, s, v)
    BY <1>3 DEF Keeps, Settled, Frame
  <2>3. FrameOK(a, g, alive, vt, mem')
    <3>1. FrameOK(a, f, alive, vt, mem) /\ f # Idle
      BY <1>0, <1>1 DEF Framed, Frames, Idle, Doing
    <3>2. \A t, dst, src : Moves(f, t, dst, src) => Moves(g, t, dst, src)
      BY <1>1, <1>3, <1>6 DEF Moves, Frame
    <3>3. /\ g.op = f.op /\ g.this = f.this /\ g.other = f.other /\ g.ty = f.ty
          /\ g.mine = f.mine /\ g.theirs = f.theirs
      BY <1>3 DEF Frame
    <3>4. ~Kills(f, vt, f.this)
      BY <1>1 DEF Kills
    <3> HIDE DEF f, g
    <3> QED BY <1>1, <3>1, <3>2, <3>3, <3>4 DEF FrameOK, Legs
  <2>4. /\ mem' = Relocate(mem, f.dst, f.src) /\ act' = [act EXCEPT ![a] = g]
        /\ alive' = alive /\ vt' = vt
    BY <1>1, <1>6
  <2> HIDE DEF g
  <2>5. Goes(a, g)
    <3>1. Proceeds(a, g)
      BY <1>0, <1>4, <2>1, <2>4 DEF Proceeds, Framed, TypeOK
    <3> QED BY <2>1, <2>4, <3>1 DEF Goes
  <2>6. FrameOK(a, g, alive', vt', mem') /\ Unborn'
    BY <1>0, <2>3, <2>4 DEF Framed, Unborn
  <2>7. /\ NestedKeepers'[a] = Keeps(g, a, a, NoType)
        /\ \A w \in Wrappers : w \in Writes(f) => NestedKeepers'[w] = Keeps(g, a, w, vt'[w])
        /\ \A s \in Slots : s # a /\ s \notin Writes(f) => NestedKeepers'[s] = NestedKeepers[s]
        /\ OthersBusy(a, Cells, Lives, Kinds, Cells', Lives', Kinds')
        /\ Cells'[a] = f.src /\ Lives'[a] = "dying"
    BY <2>1, <2>5, <2>6, GoesSeen
  <2>8. NestedMoved(a)
    <3>1. \A r \in Slots :
            NestedKeepers'[r] = IF r = a THEN Settled(f, a, a, NoType)
                                ELSE IF r \in Writes(f) THEN Settled(f, a, r, vt[r])
                                ELSE NestedKeepers[r]
      BY <1>3, <2>2, <2>4, <2>7
    <3> QED BY <1>1, <3>1, NestedSettled
  <2>9. Consistent(Relocate(mem, f.dst, f.src), NestedKeepers', Cells', Lives', Kinds')
    BY <1>2, <1>3, <1>4, <1>5, <1>6, <2>7, <2>8, RelocateConsistent DEF NestedMoved
  <2>10. \A u \in Wrappers \ Alters(f) : mem'.ptr[u] = mem.ptr[u]
    BY <1>2, <1>3, <1>4, <2>4, PtrFields
  <2>11. Consistent(mem', NestedKeepers', Cells', Lives', Kinds')
    BY <2>4, <2>9
  <2> QED BY <1>4, <2>5, <2>6, <2>10, <2>11, GoesStep
<1>7. CASE ~fits(f.ty)
  <2>1. mem' = Transfer(mem, f.dst, f.src) /\ AfterMove(a, f)
    BY <1>1, <1>7
  <2>2. PICK g : After(a, g)
    BY <1>0, <1>1, <2>1, AfterMoveFrame
  <2>3. /\ \A r \in Slots :
             NestedKeepers'[r] = IF r = a THEN Settled(f, a, a, NoType)
                                 ELSE IF r \in Writes(f) THEN Settled(f, a, r, vt[r])
                                 ELSE NestedKeepers[r]
        /\ OthersBusy(a, Cells, Lives, Kinds, Cells', Lives', Kinds') /\ Cells'[a] = Null
    BY <1>1, <2>1, <2>2, NestedAfter
  <2>4. NestedMoved(a)
    BY <1>1, <2>3, NestedSettled
  <2>5. Consistent(Transfer(mem, f.dst, f.src), NestedKeepers', Cells, Lives, Kinds)
    BY <1>2, <1>3, <1>4, <1>7, <2>4, TransferConsistent DEF NestedMoved
  <2>6. Consistent(mem', NestedKeepers', Cells', Lives', Kinds')
    <3>1. /\ \A b \in Threads : Cells'[b] = Cells[b]
          /\ \A b \in Threads : Cells[b] # Null => Lives'[b] = Lives[b] /\ Kinds'[b] = Kinds[b]
      BY <1>5, <2>3 DEF OthersBusy
    <3> QED BY <2>1, <2>5, <3>1, CellsAgree
  <2>7. \A u \in Wrappers \ Alters(f) : mem'.ptr[u] = mem.ptr[u]
    BY <1>2, <1>3, <1>4, <2>1, PtrFields
  <2>8. FrameOK(a, g, alive', vt', mem') /\ Unborn'
    BY <2>2 DEF After
  <2>9. Goes(a, g)
    BY <1>1, <2>1, <2>2, AfterGoes
  <2> QED BY <1>4, <2>6, <2>7, <2>8, <2>9, GoesStep
<1> QED BY <1>6, <1>7

\* operator() of a callable returns or throws.
LEMMA NestedFinishCall ==
  ASSUME NEW a \in Threads, Ready(a), FinishCall(a)
  PROVE  Onto(a)
<1> DEFINE f == act[a]
<1>1. /\ f.at = "run" /\ mem' \in {mem, Called(mem, f.cell)}
      /\ act' = [act EXCEPT ![a] = Idle] /\ alive' = alive /\ vt' = vt
      /\ defined' = (defined /\ LiveAt(mem, f.ty, f.cell))
  BY DEF FinishCall, Must, Go
<1>2. /\ FrameOK(a, f, alive, vt, mem) /\ f # Idle /\ alive \subseteq Wrappers
      /\ Consistent(mem, NestedKeepers, Cells, Lives, Kinds) /\ mem \in Memory
  BY <1>1 DEF Ready, Sound, Framed, Frames, TypeOK, Consistent, Idle, Doing
<1>3. /\ f.op = "call" /\ f.this \in alive /\ f.this \in Wrappers /\ f.ty \in Types
      /\ f.ty = vt[f.this] /\ f.cell = Place(mem, f.ty, f.this)
  BY <1>1, <1>2 DEF FrameOK, Kills, Legs, Moves
<1>4. \A s, v : Keeps(f, a, s, v) = v
  BY <1>1, <1>3 DEF Keeps
<1>5. NestedKeepers[f.this] = f.ty
  <2>1. f.this \in Uses(f)
    BY <1>3, DistinctAssumption DEF Uses
  <2>2. NestedKeepers[act[a].this] = Keeps(act[a], a, act[a].this, vt[act[a].this])
    BY <1>3, <2>1, ReadyHolds
  <2> QED BY <1>3, <1>4, <2>2
<1>6. LiveAt(mem, f.ty, f.cell) /\ f.cell \in Loc
  <2>1. Live(mem, f.ty, f.this)
    BY <1>2, <1>3, <1>5, DistinctAssumption DEF Consistent, Slots
  <2> QED BY <1>3, <2>1 DEF Live, LiveAt
<1>7. Goes(a, Idle)
  BY <1>1, IdleFrame DEF Goes, Same, Proceeds, Ready, Sound, Framed, TypeOK
<1>8. FrameOK(a, Idle, alive', vt', mem') /\ Unborn' /\ defined'
  BY <1>1, <1>6 DEF FrameOK, Ready, Sound, Framed, Unborn
<1>9. /\ NestedKeepers[a] = Keeps(f, a, a, NoType)
      /\ NestedKeepers'[a] = Keeps(Idle, a, a, NoType)
      /\ \A w \in Wrappers :
           w \in Writes(f) => /\ NestedKeepers[w] = Keeps(f, a, w, vt[w])
                              /\ NestedKeepers'[w] = Keeps(Idle, a, w, vt'[w])
      /\ \A s \in Slots : s # a /\ s \notin Writes(f) => NestedKeepers'[s] = NestedKeepers[s]
      /\ OthersBusy(a, Cells, Lives, Kinds, Cells', Lives', Kinds')
      /\ Cells[a] = CellOf(f) /\ Cells'[a] = CellOf(Idle)
  BY <1>7, <1>8, GoesSeen
<1>10. NestedKeepers' = NestedKeepers
  <2>1. Writes(f) \subseteq Wrappers
    BY <1>3 DEF Writes
  <2>2. \A r \in Slots : NestedKeepers'[r] = NestedKeepers[r]
    BY <1>1, <1>4, <1>9, <2>1, IdleFrame
  <2> QED BY <2>2 DEF NestedKeepers
<1>11. Consistent(mem', NestedKeepers', Cells', Lives', Kinds')
  <2>1. Consistent(mem', NestedKeepers, Cells, Lives, Kinds)
    <3>1. mem.obj[f.cell] # NoObject
      BY <1>6 DEF LiveAt
    <3>2. Consistent(Called(mem, f.cell), NestedKeepers, Cells, Lives, Kinds)
      BY <1>2, <1>6, <3>1, CalledConsistent
    <3> QED BY <1>1, <1>2, <3>2
  <2>2. Cells[a] = Null /\ Cells'[a] = Null
    BY <1>1, <1>9, IdleFrame DEF CellOf
  <2>3. /\ \A b \in Threads : Cells'[b] = Cells[b]
        /\ \A b \in Threads : Cells[b] # Null => Lives'[b] = Lives[b] /\ Kinds'[b] = Kinds[b]
    BY <1>9, <2>2 DEF OthersBusy
  <2> QED BY <1>10, <2>1, <2>3, CellsAgree
<1>12. mem'.ptr = mem.ptr
  BY <1>1, <1>2, PtrFields
<1> QED BY <1>7, <1>8, <1>11, <1>12, GoesStep

\* The innermost level goes on.
LEMMA ContinueStep ==
  ASSUME NEW a \in Threads, Ready(a), Continue(a)
  PROVE  Onto(a)
BY NestedConstructed, NestedCloned, NestedThrow, NestedFinishKill, NestedStepMove,
   NestedFinishRetire, NestedFinishCall DEF Continue

-----------------------------------------------------------------------------
(* 4. The stack                                                             *)

\* By the rule of the callables' code no two levels have the same Function
\* between two states.
LEMMA StackSole ==
  ASSUME NestedInv
  PROVE  SoleBetween(act)
<1> SUFFICES ASSUME NEW a \in Threads, NEW b \in Threads, a # b, NEW w \in Wrappers,
                    w \in Between(act[a]), w \in Between(act[b])
             PROVE  FALSE
  BY DEF SoleBetween
<1>1. act[a] # Idle /\ act[b] # Idle
  BY IdleRelies
<1>2. PICK i \in DOMAIN stack : stack[i] = a
  BY <1>1 DEF NestedInv, Stacked
<1>3. PICK j \in DOMAIN stack : stack[j] = b
  BY <1>1 DEF NestedInv, Stacked
<1>4. i < j \/ j < i
  BY <1>2, <1>3 DEF NestedInv, Stacked
<1>5. Respects(act[b], act[a]) \/ Respects(act[a], act[b])
  BY <1>2, <1>3, <1>4 DEF NestedInv, Respectful
<1>6. w \in Uses(act[a]) /\ w \in Uses(act[b])
  BY BetweenIsUsed
<1> QED BY <1>5, <1>6 DEF Respects

\* The innermost level may take a step.
LEMMA ReadyInnermost ==
  ASSUME NestedInv, stack # <<>>
  PROVE  Innermost \in Threads /\ Ready(Innermost)
<1> DEFINE n == Len(stack)
           a == stack[n]
<1>1. n \in DOMAIN stack /\ n \in Nat /\ a \in Threads /\ DOMAIN stack = 1 .. n
  BY DEF NestedInv, Stacked
<1>2. ASSUME NEW b \in Threads \ {a} PROVE Respects(act[a], act[b])
  <2>1. CASE act[b] = Idle
    BY <2>1, IdleRelies
  <2>2. CASE act[b] # Idle
    <3>1. PICK i \in DOMAIN stack : stack[i] = b
      BY <2>2 DEF NestedInv, Stacked
    <3>2. i < n
      BY <1>1, <3>1
    <3> QED BY <1>1, <3>1, <3>2 DEF NestedInv, Respectful
  <2> QED BY <2>1, <2>2
<1> QED BY <1>1, <1>2, StackSole DEF Ready, Allowed, Innermost, NestedInv

\* So may one that is free.
LEMMA ReadyFree ==
  ASSUME NestedInv, NEW a \in Threads, act[a] = Idle
  PROVE  Ready(a)
BY IdleRelies, StackSole DEF Ready, Allowed, NestedInv

\* A level is taken.
LEMMA StackGrows ==
  ASSUME NestedInv, NEW a \in Threads, Onto(a), act[a] = Idle, act'[a] # Idle,
         stack # <<>> => InCallable(act[Innermost]), stack' = Append(stack, a)
  PROVE  NestedInv'
<1> DEFINE n == Len(stack)
<1>1. /\ stack \in Seq(Threads) /\ n \in Nat /\ DOMAIN stack = 1 .. n
      /\ \A i \in 1 .. n : stack[i] \in Threads
  BY DEF NestedInv, Stacked
<1>2. /\ stack' \in Seq(Threads) /\ Len(stack') = n + 1 /\ DOMAIN stack' = 1 .. n + 1
      /\ \A i \in 1 .. n : stack'[i] = stack[i]
      /\ stack'[n + 1] = a
  BY <1>1
<1>3. \A i \in 1 .. n : stack[i] # a /\ act'[stack[i]] = act[stack[i]]
  <2>1. \A i \in 1 .. n : stack[i] # a
    BY <1>1 DEF NestedInv, Stacked
  <2> QED BY <1>1, <2>1 DEF Onto
<1>4. Stacked'
  <2>1. \A i, j \in 1 .. n + 1 : i # j => stack'[i] # stack'[j]
    <3>1. \A i, j \in 1 .. n : i # j => stack[i] # stack[j]
      BY <1>1 DEF NestedInv, Stacked
    <3> QED BY <1>2, <1>3, <3>1
  <2>2. \A b \in Threads : act'[b] # Idle <=> \E i \in 1 .. n + 1 : stack'[i] = b
    <3>1. \A b \in Threads \ {a} : act'[b] = act[b]
      BY DEF Onto
    <3>2. \A b \in Threads : act[b] # Idle <=> \E i \in 1 .. n : stack[i] = b
      BY <1>1 DEF NestedInv, Stacked
    <3>3. n + 1 \in 1 .. n + 1 /\ \A i \in 1 .. n + 1 : i \in 1 .. n \/ i = n + 1
      BY <1>1
    <3> QED BY <1>1, <1>2, <3>1, <3>2, <3>3
  <2>3. \A i \in 1 .. n + 1 : i < n + 1 => InCallable(act'[stack'[i]])
    <3>1. \A i \in 1 .. n : i < n => InCallable(act[stack[i]])
      BY <1>1 DEF NestedInv, Stacked
    <3>2. n # 0 => InCallable(act[stack[n]])
      BY <1>1 DEF Innermost
    <3> QED BY <1>1, <1>2, <1>3, <3>1, <3>2
  <2> QED BY <1>2, <2>1, <2>2, <2>3 DEF Stacked
<1>5. Respectful'
  <2>1. \A i, j \in 1 .. n : i < j => Respects(act[stack[j]], act[stack[i]])
    BY <1>1 DEF NestedInv, Respectful
  <2>2. \A i \in 1 .. n : Respects(act'[a], act[stack[i]])
    BY <1>1, <1>3 DEF Onto
  <2>3. \A i, j \in 1 .. n + 1 : i < j => i \in 1 .. n /\ (j \in 1 .. n \/ j = n + 1)
    BY <1>1
  <2>4. \A i, j \in 1 .. n + 1 : i < j => Respects(act'[stack'[j]], act'[stack'[i]])
    BY <1>2, <1>3, <2>1, <2>2, <2>3
  <2> QED BY <1>2, <2>4 DEF Respectful
<1> QED BY <1>4, <1>5 DEF NestedInv, Onto

\* A level starts and ends at once, or the innermost goes on.
LEMMA StackStays ==
  ASSUME NestedInv, NEW a \in Threads, Onto(a), stack' = stack,
         \/ act[a] = Idle /\ act'[a] = Idle
         \/ stack # <<>> /\ a = Innermost /\ act'[a] # Idle
  PROVE  NestedInv'
<1> DEFINE n == Len(stack)
<1>1. /\ stack \in Seq(Threads) /\ n \in Nat /\ DOMAIN stack = 1 .. n
      /\ \A i \in 1 .. n : stack[i] \in Threads
      /\ \A i, j \in 1 .. n : i # j => stack[i] # stack[j]
      /\ \A b \in Threads : act[b] # Idle <=> \E i \in 1 .. n : stack[i] = b
      /\ \A i \in 1 .. n : i < n => InCallable(act[stack[i]])
      /\ \A i, j \in 1 .. n : i < j => Respects(act[stack[j]], act[stack[i]])
  BY DEF NestedInv, Stacked, Respectful
<1>2. /\ \A b \in Threads \ {a} : act'[b] = act[b]
      /\ \A b \in Threads \ {a} : Respects(act'[a], act[b])
  BY DEF Onto
<1>3. act'[a] # Idle <=> act[a] # Idle
  BY <1>1 DEF Innermost
<1>4. \A i \in 1 .. n : i < n => stack[i] # a
  BY <1>1 DEF Innermost
<1>5. Stacked'
  <2>1. \A b \in Threads : act'[b] # Idle <=> \E i \in 1 .. n : stack[i] = b
    BY <1>1, <1>2, <1>3
  <2>2. \A i \in 1 .. n : i < n => InCallable(act'[stack[i]])
    BY <1>1, <1>2, <1>4
  <2> QED BY <1>1, <2>1, <2>2 DEF Stacked
<1>6. Respectful'
  <2>1. \A i, j \in 1 .. n : i < j => i < n
    BY <1>1
  <2>2. \A i, j \in 1 .. n : i < j => Respects(act'[stack[j]], act'[stack[i]])
    BY <1>1, <1>2, <1>4, <2>1
  <2> QED BY <1>1, <2>2 DEF Respectful
<1> QED BY <1>5, <1>6 DEF NestedInv, Onto

\* The innermost level ends.
LEMMA StackShrinks ==
  ASSUME NestedInv, stack # <<>>, NEW a \in Threads, a = Innermost, Onto(a), act'[a] = Idle,
         stack' = SubSeq(stack, 1, Len(stack) - 1)
  PROVE  NestedInv'
<1> DEFINE n == Len(stack)
<1>1. /\ stack \in Seq(Threads) /\ n \in Nat \ {0} /\ DOMAIN stack = 1 .. n /\ stack[n] = a
      /\ \A i \in 1 .. n : stack[i] \in Threads
      /\ \A i, j \in 1 .. n : i # j => stack[i] # stack[j]
      /\ \A b \in Threads : act[b] # Idle <=> \E i \in 1 .. n : stack[i] = b
      /\ \A i \in 1 .. n : i < n => InCallable(act[stack[i]])
      /\ \A i, j \in 1 .. n : i < j => Respects(act[stack[j]], act[stack[i]])
  BY DEF NestedInv, Stacked, Respectful, Innermost
<1>2. /\ stack' \in Seq(Threads) /\ Len(stack') = n - 1 /\ DOMAIN stack' = 1 .. n - 1
      /\ \A i \in 1 .. n - 1 : stack'[i] = stack[i]
  BY <1>1
<1>3. \A i \in 1 .. n - 1 : i \in 1 .. n /\ i < n /\ stack[i] # a
  BY <1>1
<1>4. \A b \in Threads \ {a} : act'[b] = act[b]
  BY DEF Onto
<1>5. \A i \in 1 .. n - 1 : act'[stack'[i]] = act[stack[i]]
  BY <1>1, <1>2, <1>3, <1>4
<1>6. Stacked'
  <2>1. \A b \in Threads : act'[b] # Idle <=> \E i \in 1 .. n - 1 : stack'[i] = b
    <3> SUFFICES ASSUME NEW b \in Threads
                 PROVE  act'[b] # Idle <=> \E i \in 1 .. n - 1 : stack[i] = b
      BY <1>2
    <3>1. CASE b = a
      BY <3>1, <1>3
    <3>2. CASE b # a
      <4>1. ASSUME NEW i \in 1 .. n, stack[i] = b PROVE i \in 1 .. n - 1
        BY <1>1, <3>2, <4>1
      <4>2. (\E i \in 1 .. n : stack[i] = b) <=> (\E i \in 1 .. n - 1 : stack[i] = b)
        BY <1>3, <4>1
      <4> QED BY <1>1, <1>4, <3>2, <4>2
    <3> QED BY <3>1, <3>2
  <2>2. \A i, j \in 1 .. n - 1 : i # j => stack'[i] # stack'[j]
    BY <1>1, <1>2, <1>3
  <2>3. \A i \in 1 .. n - 1 : InCallable(act'[stack'[i]])
    BY <1>1, <1>3, <1>5
  <2> QED BY <1>2, <2>1, <2>2, <2>3 DEF Stacked
<1>7. Respectful'
  BY <1>1, <1>2, <1>3, <1>5 DEF Respectful
<1> QED BY <1>6, <1>7 DEF NestedInv, Onto

\* Stack discipline and what the levels rely on hold initially.
LEMMA NestedInitInvariant == NestedInit => NestedInv
<1> SUFFICES ASSUME NestedInit PROVE NestedInv
  OBVIOUS
<1>1. /\ act = [a \in Threads |-> Idle] /\ vt = [w \in Wrappers |-> NoType]
      /\ mem = EmptyMemory /\ stack = <<>>
  BY DEF NestedInit, Init
<1>2. Framed /\ defined
  BY InitInvariant, IsFramed DEF NestedInit, IInv
<1>3. \A s \in Slots : NestedKeepers[s] = NoType
  <2>1. \A s \in Slots : HoldsIn(act, vt, s) = NoType
    <3> SUFFICES ASSUME NEW s \in Slots PROVE HoldsIn(act, vt, s) = NoType
      OBVIOUS
    <3>1. CASE s \in Threads
      BY <1>1, <3>1, IdleFrame DEF HoldsIn
    <3>2. CASE s \notin Threads
      <4>1. {b \in Threads : act[b] # Idle /\ s \in Between(act[b])} = {} /\ vt[s] = NoType
        BY <1>1, <3>2 DEF Slots
      <4> QED BY <3>2, <4>1 DEF HoldsIn
    <3> QED BY <3>1, <3>2
  <2> QED BY <2>1 DEF NestedKeepers, Holds
<1>4. \A a \in Threads : Cells[a] = Null
  BY <1>1, IdleFrame DEF Cells
<1>5. Consistent(mem, NestedKeepers, Cells, Lives, Kinds)
  <2>1. mem \in Memory /\ \A l \in Loc : mem.obj[l] = NoObject
    BY <1>1, <1>2 DEF EmptyMemory, Framed, TypeOK
  <2> QED BY <1>3, <1>4, <2>1 DEF Consistent
<1>6. Stacked /\ Respectful
  BY <1>1 DEF Stacked, Respectful
<1> QED BY <1>2, <1>5, <1>6 DEF NestedInv, Sound

\* A step that changes nothing.
LEMMA NestedStutter == NestedInv /\ UNCHANGED nvars => NestedInv'
<1> SUFFICES ASSUME NestedInv, UNCHANGED nvars PROVE NestedInv'
  OBVIOUS
<1>1. /\ alive' = alive /\ vt' = vt /\ mem' = mem /\ act' = act /\ defined' = defined
      /\ stack' = stack
  BY DEF nvars, vars
<1>2. NestedKeepers' = NestedKeepers /\ Cells' = Cells /\ Lives' = Lives /\ Kinds' = Kinds
  BY <1>1 DEF NestedKeepers, Holds, Cells, Lives, Kinds
<1>3. Sound'
  BY <1>1, <1>2 DEF NestedInv, Sound, Framed, TypeOK, Frames, Unborn
<1>4. Stacked' /\ Respectful'
  BY <1>1 DEF NestedInv, Stacked, Respectful
<1> QED BY <1>3, <1>4 DEF NestedInv

\* Every step of the callables' code keeps the invariant.
LEMMA NestedStepInvariant == NestedInv /\ [NestedNext]_nvars => NestedInv'
<1> SUFFICES ASSUME NestedInv, [NestedNext]_nvars PROVE NestedInv'
  OBVIOUS
<1>1. CASE UNCHANGED nvars
  BY <1>1, NestedStutter
<1>2. CASE NestedBegin
  <2>1. PICK a \in Threads :
          /\ act[a] = Idle /\ Operate(a)
          /\ stack # <<>> => InCallable(act[Innermost])
          /\ stack' = IF act'[a] = Idle THEN stack ELSE Append(stack, a)
    BY <1>2 DEF NestedBegin
  <2>2. Onto(a)
    BY <2>1, ReadyFree, OperateStep DEF NestedInv
  <2> QED BY <2>1, <2>2, StackGrows, StackStays
<1>3. ASSUME NEW a \in Threads, NestedContinue(a)
      PROVE  NestedInv'
  <2>1. /\ stack # <<>> /\ a = Innermost /\ Continue(a)
        /\ stack' = IF act'[a] = Idle THEN SubSeq(stack, 1, Len(stack) - 1) ELSE stack
    BY <1>3 DEF NestedContinue
  <2>2. Onto(a)
    BY <2>1, ReadyInnermost, ContinueStep
  <2> QED BY <2>1, <2>2, StackShrinks, StackStays
<1> QED BY <1>1, <1>2, <1>3 DEF NestedNext

\* For any number of Functions and levels, every operation finds what it relies
\* on: what the operations nested in it may do leaves it that.
THEOREM NestedInvariance == NestedSpec => []NestedInv
<1>1. NestedInit => NestedInv
  BY NestedInitInvariant
<1>2. NestedInv /\ [NestedNext]_nvars => NestedInv'
  BY NestedStepInvariant
<1> QED BY <1>1, <1>2, PTL DEF NestedSpec

\* The levels in use are the operations in progress, and a suspended one is in
\* code of a callable.
THEOREM NestedTypes == NestedSpec => []TypeOKNested
<1>1. NestedInv => TypeOKNested
  <2> SUFFICES ASSUME NestedInv PROVE TypeOKNested
    OBVIOUS
  <2>1. {stack[i] : i \in DOMAIN stack} = {a \in Threads : act[a] # Idle}
    <3>1. \A i \in DOMAIN stack : stack[i] \in Threads
      BY DEF NestedInv, Stacked
    <3> QED BY <3>1 DEF NestedInv, Stacked
  <2> QED BY <2>1 DEF NestedInv, Sound, Framed, Stacked, TypeOKNested
<1> QED BY <1>1, NestedInvariance, PTL

\* Operations within operations have no undefined behaviour either: no step runs,
\* destroys or moves a callable that is not alive, or constructs over one.
THEOREM NestedDefined == NestedSpec => []Defined
<1>1. NestedInv => Defined
  BY DEF NestedInv, Sound, Defined
<1> QED BY <1>1, NestedInvariance, PTL

\* A Function used by the callable it stores still owns exactly one live callable
\* of its vtable's type, and none is lost.
THEOREM NestedOwners == NestedSpec => []NestedOwnership
<1>1. NestedInv => NestedOwnership
  <2> SUFFICES ASSUME NestedInv PROVE NestedOwnership
    OBVIOUS
  <2>1. \A s \in Slots : NestedKeepers[s] = Holds(s)
    BY DEF NestedKeepers
  <2>2. Consistent(mem, NestedKeepers, Cells, Lives, Kinds)
    BY DEF NestedInv, Sound
  <2>3. ASSUME NEW s \in Slots, Holds(s) # NoType
        PROVE  /\ Live(mem, Holds(s), s)
               /\ \A r \in Slots \ {s} :
                    Holds(r) # NoType => Place(mem, Holds(r), r) # Place(mem, Holds(s), s)
    BY <2>1, <2>2, <2>3 DEF Consistent
  <2>4. ASSUME NEW l \in Loc, mem.obj[l] # NoObject
        PROVE  \/ \E s \in Slots : Holds(s) # NoType /\ Place(mem, Holds(s), s) = l
               \/ \E f \in InProgress : f.cell = l /\ f.at \in {"build", "kill", "retire"}
    <3>1. CASE \E s \in Slots : NestedKeepers[s] # NoType /\ Place(mem, NestedKeepers[s], s) = l
      BY <2>1, <3>1
    <3>2. CASE \E a \in Threads : Cells[a] = l
      <4>1. PICK a \in Threads : Cells[a] = l
        BY <3>2
      <4>2. act[a].cell = l /\ act[a].at \in {"build", "kill", "retire"}
        BY <4>1, DistinctAssumption DEF Cells, CellOf, Loc, Slots
      <4>3. act[a] # Idle
        BY <4>2 DEF Idle, Doing
      <4>4. act[a] \in InProgress
        BY <4>3 DEF NestedInv, Stacked, InProgress
      <4> QED BY <4>2, <4>4
    <3> QED BY <2>2, <2>4, <3>1, <3>2 DEF Consistent
  <2> QED BY <2>3, <2>4 DEF NestedOwnership
<1> QED BY <1>1, NestedInvariance, PTL
=============================================================================
