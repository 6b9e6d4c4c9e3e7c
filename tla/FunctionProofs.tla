--------------------------- MODULE FunctionProofs ---------------------------
(***************************************************************************)
(* Proofs about Function, for any number of Functions, threads, callable   *)
(* types, heap cells and values.                                           *)
(*                                                                         *)
(* Section 1 shows what each memory update does to Consistent, section 2   *)
(* how the keepers of callables follow what the threads do, section 3 that *)
(* one thread's step disturbs no other's frame, and section 4 puts the     *)
(* three together, action by action.                                       *)
(***************************************************************************)
EXTENDS FunctionInvariant, TLAPS

-----------------------------------------------------------------------------
(* 1. Memory                                                                *)

\* C2, L2 and T2 are C, L and T for every thread but a.
OthersBusy(a, C, L, T, C2, L2, T2) ==
  \A b \in Threads \ {a} : C2[b] = C[b] /\ L2[b] = L[b] /\ T2[b] = T[b]

\* Redirecting the heap pointer of a slot that does not use it disturbs nobody.
LEMMA PointConsistent ==
  ASSUME NEW m, NEW K, NEW C, NEW L, NEW T, Consistent(m, K, C, L, T),
         NEW s \in Slots, NEW p \in Heap \cup {Null, Junk},
         K[s] = NoType \/ fits(K[s])
  PROVE  Consistent(Point(m, s, p), K, C, L, T)
<1> DEFINE n == Point(m, s, p)
<1>1. n \in Memory /\ n.obj = m.obj /\ \A r \in Slots \ {s} : n.ptr[r] = m.ptr[r]
  BY DEF Point, Memory, Consistent
<1>2. \A r \in Slots : K[r] # NoType => Place(n, K[r], r) = Place(m, K[r], r)
  BY <1>1 DEF Place
<1> HIDE DEF n
<1>3. Consistent(n, K, C, L, T)
  BY <1>1, <1>2 DEF Consistent, Live, LiveAt
<1> QED BY <1>3 DEF n

\* A constructor entered where no callable was.
LEMMA PutConsistent ==
  ASSUME NEW m, NEW K, NEW C, NEW L, NEW T, Consistent(m, K, C, L, T),
         NEW C2, NEW L2, NEW T2, NEW a \in Threads,
         OthersBusy(a, C, L, T, C2, L2, T2),
         NEW c \in Loc, m.obj[c] = NoObject, C[a] = Null,
         NEW t \in Types, NEW v \in Vals, c \in Slots <=> fits(t),
         C2[a] = c, L2[a] = "raw", T2[a] = t
  PROVE  Consistent(Put(m, c, [type |-> t, val |-> v, self |-> c, life |-> "raw"]),
                    K, C2, L2, T2)
<1> DEFINE o == [type |-> t, val |-> v, self |-> c, life |-> "raw"]
           n == Put(m, c, o)
<1>0. o \in Object /\ o # NoObject /\ o.self = c /\ o.life = "raw" /\ o.type = t
  BY NoObjectAssumption DEF Object
<1> HIDE DEF o
<1>1. n \in Memory /\ n.ptr = m.ptr /\ n.obj[c] = o /\ \A l \in Loc \ {c} : n.obj[l] = m.obj[l]
  BY <1>0 DEF Put, Memory, Consistent
<1>2. \A r \in Slots : Place(n, K[r], r) = Place(m, K[r], r)
  BY <1>1 DEF Place
<1>3. \A b \in Threads : C[b] # c
  BY DistinctAssumption DEF Consistent, Loc, Slots
<1>4. \A r \in Slots : K[r] # NoType => Place(m, K[r], r) # c
  BY DEF Consistent, Live, LiveAt
<1>5. c # Null
  BY DistinctAssumption DEF Loc, Slots
<1> HIDE DEF n
<1>6. \A r \in Slots : K[r] # NoType => K[r] \in Types /\ Live(n, K[r], r)
  BY <1>1, <1>2, <1>4 DEF Consistent, Live, LiveAt
<1>7. \A s, r \in Slots :
        s # r /\ K[s] # NoType /\ K[r] # NoType => Place(n, K[s], s) # Place(n, K[r], r)
  BY <1>2 DEF Consistent
<1>8. \A b \in Threads :
       C2[b] # Null => /\ C2[b] \in Loc
                       /\ n.obj[C2[b]] # NoObject
                       /\ n.obj[C2[b]].life = L2[b] /\ L2[b] # "live"
                       /\ L2[b] = "raw" => n.obj[C2[b]].type = T2[b]
  BY <1>0, <1>1, <1>3 DEF Consistent, OthersBusy
<1>9. \A b, d \in Threads : b # d /\ C2[b] # Null => C2[b] # C2[d]
  BY <1>3 DEF Consistent, OthersBusy
<1>10. ASSUME NEW l \in Loc, n.obj[l] # NoObject
       PROVE  /\ n.obj[l].self = l
              /\ l \in Slots <=> fits(n.obj[l].type)
              /\ \/ n.obj[l].life = "live"
                    /\ \E s \in Slots : K[s] # NoType /\ Place(n, K[s], s) = l
                 \/ n.obj[l].life # "live" /\ \E b \in Threads : C2[b] = l
  <2>1. CASE l = c
    BY <2>1, <1>0, <1>1
  <2>2. CASE l # c
    <3>1. n.obj[l] = m.obj[l]
      BY <2>2, <1>1
    <3>2. \A b \in Threads : C[b] = l => C2[b] = l
      BY <1>5, DistinctAssumption DEF OthersBusy, Loc, Slots
    <3> QED BY <3>1, <3>2, <1>2, <1>10 DEF Consistent
  <2> QED BY <2>1, <2>2
<1>11. Consistent(n, K, C2, L2, T2)
  BY <1>1, <1>6, <1>7, <1>8, <1>9, <1>10 DEF Consistent
<1> QED BY <1>11 DEF n, o

\* The constructor returns: slot s now keeps the callable.
LEMMA EndNewConsistent ==
  ASSUME NEW m, NEW K, NEW C, NEW L, NEW T, Consistent(m, K, C, L, T),
         NEW C2, NEW L2, NEW T2, NEW a \in Threads,
         OthersBusy(a, C, L, T, C2, L2, T2),
         NEW K2, NEW s \in Slots, NEW t \in Types,
         K[s] = NoType, K2[s] = t, \A r \in Slots \ {s} : K2[r] = K[r],
         C[a] # Null, L[a] = "raw", T[a] = t, CellFor(t, C[a], s), C2[a] = Null
  PROVE  Consistent(EndNew(m, t, s, C[a]), K2, C2, L2, T2)
<1> DEFINE c == C[a]
           n == EndNew(m, t, s, c)
<1>1. /\ c \in Loc /\ m.obj[c] \in Object /\ m.obj[c] # NoObject
      /\ m.obj[c].life = "raw" /\ m.obj[c].type = t
  BY DEF Consistent, Memory
<1>2. fits(t) => c = s
  BY DEF CellFor
<1>3. ~fits(t) => c \in Heap
  BY DEF CellFor
<1> HIDE DEF c
<1>4. n.obj = [k \in Loc |-> IF k = c /\ m.obj[k] # NoObject
                               THEN [m.obj[k] EXCEPT !.life = "live"] ELSE m.obj[k]]
  BY DEF EndNew, Mark, Point
<1>5. /\ fits(t) => n.ptr = m.ptr
      /\ ~fits(t) => n.ptr = [m.ptr EXCEPT ![s] = c]
  BY DEF EndNew, Mark, Point
<1>6. n \in Memory
  <2>1. n = [obj |-> n.obj, ptr |-> n.ptr]
    BY DEF EndNew, Mark, Point, Consistent, Memory
  <2>2. n.obj \in [Loc -> Object \cup {NoObject}]
    <3>1. [m.obj[c] EXCEPT !.life = "live"] \in Object
      BY <1>1 DEF Object
    <3> QED BY <3>1, <1>4 DEF Consistent, Memory
  <2>3. n.ptr \in [Slots -> Heap \cup {Null, Junk}]
    BY <1>3, <1>5 DEF Consistent, Memory
  <2> QED BY <2>1, <2>2, <2>3 DEF Memory
<1>7. /\ n.obj[c] # NoObject /\ n.obj[c].type = t /\ n.obj[c].life = "live"
      /\ n.obj[c].self = m.obj[c].self
      /\ \A l \in Loc \ {c} : n.obj[l] = m.obj[l]
  BY <1>1, <1>4, <1>6, NoObjectAssumption DEF Object, Memory
<1>8. Place(n, t, s) = c
  BY <1>2, <1>3, <1>5 DEF Place, Consistent, Memory
<1>9. \A r \in Slots \ {s} : Place(n, K2[r], r) = Place(m, K[r], r)
  BY <1>5 DEF Place, Consistent, Memory
<1>10. \A r \in Slots : K[r] # NoType => Place(m, K[r], r) # c
  BY <1>1 DEF Consistent, Live, LiveAt
<1>11. \A b \in Threads \ {a} : C[b] # c
  BY <1>1, DistinctAssumption DEF Consistent, Loc, Slots, c
<1>12. t # NoType /\ c # Null
  BY <1>1, DistinctAssumption DEF Loc, Slots
<1> HIDE DEF n
<1>13. \A r \in Slots : K2[r] # NoType => K2[r] \in Types /\ Live(n, K2[r], r)
  BY <1>1, <1>7, <1>8, <1>9, <1>10 DEF Consistent, Live, LiveAt
<1>14. \A q, r \in Slots :
        q # r /\ K2[q] # NoType /\ K2[r] # NoType => Place(n, K2[q], q) # Place(n, K2[r], r)
  BY <1>8, <1>9, <1>10 DEF Consistent
<1>15. \A b \in Threads :
       C2[b] # Null => /\ C2[b] \in Loc
                       /\ n.obj[C2[b]] # NoObject
                       /\ n.obj[C2[b]].life = L2[b] /\ L2[b] # "live"
                       /\ L2[b] = "raw" => n.obj[C2[b]].type = T2[b]
  BY <1>7, <1>11 DEF Consistent, OthersBusy
<1>16. \A b, d \in Threads : b # d /\ C2[b] # Null => C2[b] # C2[d]
  BY DEF Consistent, OthersBusy
<1>17. ASSUME NEW l \in Loc, n.obj[l] # NoObject
       PROVE  /\ n.obj[l].self = l
              /\ l \in Slots <=> fits(n.obj[l].type)
              /\ \/ n.obj[l].life = "live"
                    /\ \E r \in Slots : K2[r] # NoType /\ Place(n, K2[r], r) = l
                 \/ n.obj[l].life # "live" /\ \E b \in Threads : C2[b] = l
  <2>1. CASE l = c
    BY <2>1, <1>1, <1>7, <1>8, <1>12 DEF Consistent
  <2>2. CASE l # c
    <3>1. n.obj[l] = m.obj[l]
      BY <2>2, <1>7
    <3>2. \A b \in Threads : C[b] = l => C2[b] = l
      BY <2>2 DEF OthersBusy, c
    <3>3. \A r \in Slots : K[r] # NoType => r # s
      OBVIOUS
    <3> QED BY <3>1, <3>2, <3>3, <1>9, <1>17 DEF Consistent
  <2> QED BY <2>1, <2>2
<1>18. Consistent(n, K2, C2, L2, T2)
  BY <1>6, <1>13, <1>14, <1>15, <1>16, <1>17 DEF Consistent
<1> QED BY <1>18 DEF n, c

\* A constructor threw, or a destructor returned: the location is free.
LEMMA EraseConsistent ==
  ASSUME NEW m, NEW K, NEW C, NEW L, NEW T, Consistent(m, K, C, L, T),
         NEW C2, NEW L2, NEW T2, NEW a \in Threads,
         OthersBusy(a, C, L, T, C2, L2, T2),
         C[a] # Null, C2[a] = Null
  PROVE  Consistent(Erase(m, C[a]), K, C2, L2, T2)
<1> DEFINE c == C[a]
           n == Erase(m, c)
<1>1. c \in Loc /\ m.obj[c] # NoObject /\ m.obj[c].life # "live"
  BY DEF Consistent
<1>2. \A b \in Threads \ {a} : C[b] # c
  BY DistinctAssumption DEF Consistent, Loc, Slots
<1>3. \A b \in Threads, l \in Loc : l # c /\ C[b] = l => C2[b] = l
  BY DEF OthersBusy
<1> HIDE DEF c
<1>4. /\ n \in Memory /\ n.ptr = m.ptr /\ n.obj[c] = NoObject
      /\ \A l \in Loc \ {c} : n.obj[l] = m.obj[l]
  BY <1>1 DEF Erase, Put, Memory, Consistent
<1>5. \A r \in Slots : Place(n, K[r], r) = Place(m, K[r], r)
  BY <1>4 DEF Place
<1>6. \A r \in Slots : K[r] # NoType => Place(m, K[r], r) # c
  BY <1>1 DEF Consistent, Live, LiveAt
<1> HIDE DEF n
<1>7. \A r \in Slots : K[r] # NoType => K[r] \in Types /\ Live(n, K[r], r)
  BY <1>4, <1>5, <1>6 DEF Consistent, Live, LiveAt
<1>8. Consistent(n, K, C2, L2, T2)
  BY <1>2, <1>3, <1>4, <1>5, <1>7 DEF Consistent, OthersBusy
<1> QED BY <1>8 DEF n, c

\* destroy() enters the destructor of the callable of slot s.
LEMMA MarkConsistent ==
  ASSUME NEW m, NEW K, NEW C, NEW L, NEW T, Consistent(m, K, C, L, T),
         NEW C2, NEW L2, NEW T2, NEW a \in Threads,
         OthersBusy(a, C, L, T, C2, L2, T2), C[a] = Null,
         NEW K2, NEW s \in Slots,
         K[s] # NoType, K2[s] = NoType, \A r \in Slots \ {s} : K2[r] = K[r],
         C2[a] = Place(m, K[s], s), L2[a] = "dying"
  PROVE  Consistent(Mark(m, Place(m, K[s], s), "dying"), K2, C2, L2, T2)
<1> DEFINE c == Place(m, K[s], s)
           n == Mark(m, c, "dying")
<1>1. c \in Loc /\ m.obj[c] \in Object /\ m.obj[c] # NoObject /\ m.obj[c].life = "live"
  BY DEF Consistent, Live, LiveAt, Memory
<1>2. \A r \in Slots : K2[r] # NoType => Place(m, K2[r], r) # c /\ K2[r] = K[r]
  BY DEF Consistent
<1>3. \A r \in Slots : K[r] # NoType => Place(m, K[r], r) = c \/ K2[r] = K[r]
  OBVIOUS
<1> HIDE DEF c
<1>4. /\ n \in Memory /\ n.ptr = m.ptr
      /\ n.obj[c] # NoObject /\ n.obj[c].type = m.obj[c].type /\ n.obj[c].life = "dying"
      /\ n.obj[c].self = m.obj[c].self
      /\ \A l \in Loc \ {c} : n.obj[l] = m.obj[l]
  BY <1>1, NoObjectAssumption DEF Mark, Memory, Consistent, Object
<1>5. \A r \in Slots : Place(n, K2[r], r) = Place(m, K2[r], r)
  BY <1>4 DEF Place
<1>6. \A b \in Threads : C[b] # c
  BY <1>1, DistinctAssumption DEF Consistent, Loc, Slots
<1> HIDE DEF n
<1>7. \A r \in Slots : K2[r] # NoType => K2[r] \in Types /\ Live(n, K2[r], r)
  BY <1>2, <1>4, <1>5 DEF Consistent, Live, LiveAt
<1>8. \A q, r \in Slots :
        q # r /\ K2[q] # NoType /\ K2[r] # NoType => Place(n, K2[q], q) # Place(n, K2[r], r)
  BY <1>2, <1>5 DEF Consistent
<1>9. \A b \in Threads :
       C2[b] # Null => /\ C2[b] \in Loc
                       /\ n.obj[C2[b]] # NoObject
                       /\ n.obj[C2[b]].life = L2[b] /\ L2[b] # "live"
                       /\ L2[b] = "raw" => n.obj[C2[b]].type = T2[b]
  BY <1>1, <1>4, <1>6 DEF Consistent, OthersBusy, c
<1>10. \A b, d \in Threads : b # d /\ C2[b] # Null => C2[b] # C2[d]
  BY <1>6 DEF Consistent, OthersBusy, c
<1>11. ASSUME NEW l \in Loc, n.obj[l] # NoObject
       PROVE  /\ n.obj[l].self = l
              /\ l \in Slots <=> fits(n.obj[l].type)
              /\ \/ n.obj[l].life = "live"
                    /\ \E r \in Slots : K2[r] # NoType /\ Place(n, K2[r], r) = l
                 \/ n.obj[l].life # "live" /\ \E b \in Threads : C2[b] = l
  <2>1. CASE l = c
    BY <2>1, <1>1, <1>4 DEF Consistent, c
  <2>2. CASE l # c
    <3>1. n.obj[l] = m.obj[l]
      BY <2>2, <1>4
    <3>2. \A b \in Threads : C[b] = l => C2[b] = l
      BY DistinctAssumption DEF OthersBusy, Loc, Slots
    <3> QED BY <2>2, <3>1, <3>2, <1>3, <1>5, <1>11 DEF Consistent
  <2> QED BY <2>1, <2>2
<1>12. Consistent(n, K2, C2, L2, T2)
  BY <1>4, <1>7, <1>8, <1>9, <1>10, <1>11 DEF Consistent
<1> QED BY <1>12 DEF n, c

\* Nothing lives in a slot that keeps no callable and is nobody's construction
\* or destruction site.
LEMMA SlotIsFree ==
  ASSUME NEW m, NEW K, NEW C, NEW L, NEW T, Consistent(m, K, C, L, T),
         NEW s \in Slots, K[s] = NoType, \A b \in Threads : C[b] # s
  PROVE  m.obj[s] = NoObject
<1> SUFFICES ASSUME m.obj[s] # NoObject PROVE FALSE
  OBVIOUS
<1>1. s \in Loc
  BY DEF Loc
<1>2. PICK r \in Slots : K[r] # NoType /\ Place(m, K[r], r) = s
  BY <1>1 DEF Consistent
<1>3. fits(m.obj[s].type) /\ m.obj[s].type = K[r]
  BY <1>1, <1>2 DEF Consistent, Live, LiveAt
<1> QED BY <1>2, <1>3 DEF Place

\* An inline move: dst keeps the callable, src's is being destroyed.
LEMMA RelocateConsistent ==
  ASSUME NEW m, NEW K, NEW C, NEW L, NEW T, Consistent(m, K, C, L, T),
         NEW C2, NEW L2, NEW T2, NEW a \in Threads,
         OthersBusy(a, C, L, T, C2, L2, T2), C[a] = Null,
         NEW K2, NEW dst \in Slots, NEW src \in Slots, dst # src,
         K[src] # NoType, fits(K[src]), K[dst] = NoType, m.obj[dst] = NoObject,
         K2[src] = NoType, K2[dst] = K[src],
         \A r \in Slots \ {src, dst} : K2[r] = K[r],
         C2[a] = src, L2[a] = "dying"
  PROVE  Consistent(Relocate(m, dst, src), K2, C2, L2, T2)
<1> DEFINE t == K[src]
           n == Relocate(m, dst, src)
<1>1. /\ src \in Loc /\ dst \in Loc /\ Place(m, t, src) = src
      /\ m.obj[src] \in Object /\ m.obj[src] # NoObject
      /\ m.obj[src].life = "live" /\ m.obj[src].type = t /\ t \in Types
  BY DEF Consistent, Live, LiveAt, Memory, Place, Loc
<1>2. n = [obj |-> n.obj, ptr |-> [m.ptr EXCEPT ![dst] = Junk]]
  <2> DEFINE p == Put(m, dst, [m.obj[src] EXCEPT !.self = dst])
             q == Mark(p, src, "dying")
  <2>1. p = [obj |-> p.obj, ptr |-> m.ptr]
    BY DEF Put, Consistent, Memory
  <2> HIDE DEF p
  <2>2. q = [obj |-> q.obj, ptr |-> m.ptr]
    BY <2>1 DEF Mark
  <2>3. n = Point(q, dst, Junk)
    BY DEF Relocate, p
  <2> HIDE DEF q, n
  <2> QED BY <2>2, <2>3 DEF Point
<1>3. [m.obj[src] EXCEPT !.self = dst] \in Object
  BY <1>1 DEF Object
<1>4. /\ n.obj \in [Loc -> Object \cup {NoObject}]
      /\ n.obj[dst] = [m.obj[src] EXCEPT !.self = dst]
      /\ n.obj[src] = [m.obj[src] EXCEPT !.life = "dying"]
      /\ \A l \in Loc \ {src, dst} : n.obj[l] = m.obj[l]
  <2>1. n.obj = [k \in Loc |-> IF k = src
                                THEN [m.obj[src] EXCEPT !.life = "dying"]
                                ELSE IF k = dst THEN [m.obj[src] EXCEPT !.self = dst]
                                ELSE m.obj[k]]
    BY <1>1 DEF Relocate, Point, Mark, Put
  <2>2. [m.obj[src] EXCEPT !.life = "dying"] \in Object
    BY <1>1 DEF Object
  <2> HIDE DEF n
  <2> QED BY <2>1, <2>2, <1>1, <1>3 DEF Consistent, Memory
<1> HIDE DEF n
<1>5. n \in Memory
  BY <1>2, <1>4 DEF Memory, Consistent
<1>6. /\ n.obj[dst] # NoObject /\ n.obj[dst].type = t /\ n.obj[dst].life = "live"
      /\ n.obj[dst].self = dst
      /\ n.obj[src] # NoObject /\ n.obj[src].type = t /\ n.obj[src].life = "dying"
      /\ n.obj[src].self = src
  <2>1. n.obj[dst] \in Object /\ n.obj[src] \in Object
    BY <1>1, <1>3, <1>4 DEF Object
  <2> QED BY <2>1, <1>1, <1>4, NoObjectAssumption DEF Object, Consistent
<1>7. Place(n, t, dst) = dst
  BY DEF Place
<1>8. \A r \in Slots \ {dst} : K2[r] # NoType => /\ K2[r] = K[r] /\ r # src
                                                 /\ Place(n, K2[r], r) = Place(m, K[r], r)
  BY <1>2, <1>5 DEF Place, Consistent, Memory
<1>9. \A r \in Slots : K[r] # NoType => Place(m, K[r], r) # dst
  BY DEF Consistent, Live, LiveAt
<1>10. \A r \in Slots \ {src} : K[r] # NoType => Place(m, K[r], r) # src
  BY <1>1 DEF Consistent
<1>11. \A b \in Threads : C[b] # dst /\ C[b] # src
  BY <1>1, DistinctAssumption DEF Consistent, Loc, Slots
<1> HIDE DEF t
<1>12. \A r \in Slots : K2[r] # NoType => K2[r] \in Types /\ Live(n, K2[r], r)
  <2> SUFFICES ASSUME NEW r \in Slots, K2[r] # NoType
               PROVE  K2[r] \in Types /\ Live(n, K2[r], r)
    OBVIOUS
  <2>1. CASE r = dst
    BY <2>1, <1>1, <1>6, <1>7 DEF Live, LiveAt, t
  <2>2. CASE r # dst
    BY <2>2, <1>4, <1>8, <1>9, <1>10 DEF Consistent, Live, LiveAt
  <2> QED BY <2>1, <2>2
<1>13. \A q, r \in Slots :
        q # r /\ K2[q] # NoType /\ K2[r] # NoType => Place(n, K2[q], q) # Place(n, K2[r], r)
  BY <1>7, <1>8, <1>9 DEF Consistent, t
<1>14. \A b \in Threads :
       C2[b] # Null => /\ C2[b] \in Loc
                       /\ n.obj[C2[b]] # NoObject
                       /\ n.obj[C2[b]].life = L2[b] /\ L2[b] # "live"
                       /\ L2[b] = "raw" => n.obj[C2[b]].type = T2[b]
  <2> SUFFICES ASSUME NEW b \in Threads, C2[b] # Null
               PROVE  /\ C2[b] \in Loc
                      /\ n.obj[C2[b]] # NoObject
                      /\ n.obj[C2[b]].life = L2[b] /\ L2[b] # "live"
                      /\ L2[b] = "raw" => n.obj[C2[b]].type = T2[b]
    OBVIOUS
  <2>1. CASE b = a
    BY <2>1, <1>1, <1>6
  <2>2. CASE b # a
    <3>1. C2[b] = C[b] /\ L2[b] = L[b] /\ T2[b] = T[b]
      BY <2>2 DEF OthersBusy
    <3>2. C[b] \in Loc \ {src, dst}
      BY <3>1, <1>11 DEF Consistent
    <3>3. n.obj[C[b]] = m.obj[C[b]]
      BY <3>2, <1>4
    <3> QED BY <3>1, <3>3 DEF Consistent
  <2> QED BY <2>1, <2>2
<1>15. \A b, d \in Threads : b # d /\ C2[b] # Null => C2[b] # C2[d]
  BY <1>11 DEF Consistent, OthersBusy
<1>16. ASSUME NEW l \in Loc, n.obj[l] # NoObject
       PROVE  /\ n.obj[l].self = l
              /\ l \in Slots <=> fits(n.obj[l].type)
              /\ \/ n.obj[l].life = "live"
                    /\ \E r \in Slots : K2[r] # NoType /\ Place(n, K2[r], r) = l
                 \/ n.obj[l].life # "live" /\ \E b \in Threads : C2[b] = l
  <2>1. CASE l = src
    BY <2>1, <1>6 DEF t
  <2>2. CASE l = dst
    BY <2>2, <1>1, <1>6, <1>7, DistinctAssumption DEF t
  <2>3. CASE l # src /\ l # dst
    <3>1. n.obj[l] = m.obj[l]
      BY <2>3, <1>4
    <3>2. \A b \in Threads : C[b] = l => C2[b] = l
      BY DistinctAssumption DEF OthersBusy, Loc, Slots
    <3>3. \A r \in Slots : K[r] # NoType /\ Place(m, K[r], r) = l => r # src /\ r # dst
      BY <2>3, <1>1 DEF t
    <3> QED BY <3>1, <3>2, <3>3, <1>8, <1>16 DEF Consistent
  <2> QED BY <2>1, <2>2, <2>3
<1>17. Consistent(n, K2, C2, L2, T2)
  BY <1>5, <1>12, <1>13, <1>14, <1>15, <1>16 DEF Consistent
<1> QED BY <1>17 DEF n

\* A heap move: the callable stays where it is and changes keeper.
LEMMA TransferConsistent ==
  ASSUME NEW m, NEW K, NEW C, NEW L, NEW T, Consistent(m, K, C, L, T),
         NEW K2, NEW dst \in Slots, NEW src \in Slots, dst # src,
         K[src] # NoType, ~fits(K[src]), K[dst] = NoType,
         K2[src] = NoType, K2[dst] = K[src],
         \A r \in Slots \ {src, dst} : K2[r] = K[r]
  PROVE  Consistent(Transfer(m, dst, src), K2, C, L, T)
<1> DEFINE t == K[src]
           n == Transfer(m, dst, src)
<1>1. Place(m, t, src) = m.ptr[src] /\ m.ptr[src] \in Heap
  BY DistinctAssumption DEF Consistent, Live, LiveAt, Memory, Place, Loc
<1>2. /\ n \in Memory /\ n.obj = m.obj /\ n.ptr[dst] = m.ptr[src]
      /\ \A r \in Slots \ {src, dst} : n.ptr[r] = m.ptr[r]
  BY <1>1 DEF Transfer, Point, Memory, Consistent
<1>3. Place(n, t, dst) = Place(m, t, src)
  BY <1>1, <1>2 DEF Place
<1>4. \A r \in Slots \ {dst} : K2[r] # NoType => /\ K2[r] = K[r] /\ r # src
                                                 /\ Place(n, K2[r], r) = Place(m, K[r], r)
  BY <1>2 DEF Place
<1>5. \A r \in Slots \ {src} : K[r] # NoType => /\ K2[r] = K[r]
                                                /\ Place(n, K2[r], r) = Place(m, K[r], r)
  BY <1>2 DEF Place
<1> HIDE DEF n
<1>6. \A r \in Slots : K2[r] # NoType => K2[r] \in Types /\ Live(n, K2[r], r)
  BY <1>2, <1>3, <1>4 DEF Consistent, Live, LiveAt
<1>7. \A q, r \in Slots :
        q # r /\ K2[q] # NoType /\ K2[r] # NoType => Place(n, K2[q], q) # Place(n, K2[r], r)
  BY <1>3, <1>4 DEF Consistent
<1>8. \A l : (\E r \in Slots : K[r] # NoType /\ Place(m, K[r], r) = l)
               => \E r \in Slots : K2[r] # NoType /\ Place(n, K2[r], r) = l
  BY <1>3, <1>5
<1>9. Consistent(n, K2, C, L, T)
  BY <1>2, <1>6, <1>7, <1>8 DEF Consistent
<1> QED BY <1>9 DEF n

\* A call changes the value of the callable it runs and nothing else.
LEMMA CalledConsistent ==
  ASSUME NEW m, NEW K, NEW C, NEW L, NEW T, Consistent(m, K, C, L, T),
         NEW c \in Loc, m.obj[c] # NoObject
  PROVE  Consistent(Called(m, c), K, C, L, T)
<1> DEFINE n == Called(m, c)
<1>1. /\ n \in Memory /\ n.ptr = m.ptr
      /\ n.obj[c] # NoObject /\ n.obj[c].type = m.obj[c].type
      /\ n.obj[c].life = m.obj[c].life /\ n.obj[c].self = m.obj[c].self
      /\ \A l \in Loc \ {c} : n.obj[l] = m.obj[l]
  <2> DEFINE v == IF m.obj[c].type \in Mutable /\ m.obj[c].val + 1 \in Vals
                    THEN m.obj[c].val + 1 ELSE m.obj[c].val
             o == [m.obj[c] EXCEPT !.val = v]
  <2>1. m.obj[c] \in Object /\ v \in Vals
    BY DEF Consistent, Memory, Object
  <2> HIDE DEF v
  <2>2. /\ o \in Object /\ o # NoObject /\ o.type = m.obj[c].type
        /\ o.life = m.obj[c].life /\ o.self = m.obj[c].self
    BY <2>1, NoObjectAssumption DEF Object
  <2>3. n = Put(m, c, o)
    BY DEF Called, v
  <2> HIDE DEF o, n
  <2> QED BY <2>2, <2>3 DEF Put, Memory, Consistent
<1>2. \A r \in Slots : Place(n, K[r], r) = Place(m, K[r], r)
  BY <1>1 DEF Place
<1> HIDE DEF n
<1>3. \A r \in Slots : K[r] # NoType => K[r] \in Types /\ Live(n, K[r], r)
  BY <1>1, <1>2 DEF Consistent, Live, LiveAt
<1>4. Consistent(n, K, C, L, T)
  BY <1>1, <1>2, <1>3 DEF Consistent
<1> QED BY <1>4 DEF n

\* Consistent looks at the busy threads only.
LEMMA CellsAgree ==
  ASSUME NEW m, NEW K, NEW C, NEW L, NEW T, Consistent(m, K, C, L, T),
         NEW C2, NEW L2, NEW T2,
         \A b \in Threads : C2[b] = C[b],
         \A b \in Threads : C[b] # Null => L2[b] = L[b] /\ T2[b] = T[b]
  PROVE  Consistent(m, K, C2, L2, T2)
BY DEF Consistent

\* Redirecting a slot's heap pointer changes that pointer and nothing else.
LEMMA PointFields ==
  ASSUME NEW m \in Memory, NEW s \in Slots, NEW p
  PROVE  /\ Point(m, s, p).obj = m.obj
         /\ Point(m, s, p).ptr = [m.ptr EXCEPT ![s] = p]
BY DEF Point, Memory

-----------------------------------------------------------------------------
(* 2. Keepers                                                               *)

\* What an operation changes it uses; Null is no Function.
LEMMA WritesAreUses ==
  ASSUME NEW f, NEW w \in Wrappers, w \in Writes(f)
  PROVE  w \in Uses(f)
BY DistinctAssumption DEF Writes, Uses

\* Writer names the one thread that changes w.
LEMMA WriterIsUnique ==
  ASSUME NEW A, Exclusive(A), NEW a \in Threads, NEW w \in Wrappers, w \in Writes(A[a])
  PROVE  Writer(A, w) = a
<1>1. \A b \in Threads : w \in Writes(A[b]) => b = a
  BY WritesAreUses DEF Exclusive
<1> QED BY <1>1 DEF Writer

\* What slots keep, seen from thread a, in the state before or after a step of
\* a: A and A2 differ for a only, and a is idle in A or changes as much as in A2.
LEMMA KeptByThread ==
  ASSUME NEW A, NEW A2, NEW V, Exclusive(A), Exclusive(A2), NEW a \in Threads,
         \A b \in Threads \ {a} : A2[b] = A[b],
         A[a] = Idle \/ Writes(A2[a]) \subseteq Writes(A[a])
  PROVE  /\ KeptIn(A, V, a) = Keeps(A[a], a, a, NoType)
         /\ \A w \in Wrappers : w \in Writes(A[a]) \cup Writes(A2[a]) =>
              KeptIn(A, V, w) = Keeps(A[a], a, w, V[w])
<1>1. KeptIn(A, V, a) = Keeps(A[a], a, a, NoType)
  BY DEF KeptIn
<1>2. ASSUME NEW w \in Wrappers, w \in Writes(A[a])
      PROVE  KeptIn(A, V, w) = Keeps(A[a], a, w, V[w])
  <2>1. w \notin Threads /\ Writer(A, w) = a
    BY <1>2, WriterIsUnique, DistinctAssumption
  <2> QED BY <1>2, <2>1 DEF KeptIn
<1>3. ASSUME NEW w \in Wrappers, w \notin Writes(A[a]), w \in Writes(A2[a])
      PROVE  KeptIn(A, V, w) = Keeps(A[a], a, w, V[w])
  <2>1. \A b \in Threads : w \notin Writes(A[b])
    BY <1>3, WritesAreUses DEF Exclusive
  <2>2. KeptIn(A, V, w) = V[w]
    BY <2>1, DistinctAssumption DEF KeptIn
  <2>3. Keeps(Idle, a, w, V[w]) = V[w]
    BY DEF Keeps, Idle, Doing
  <2> QED BY <1>3, <2>2, <2>3
<1> QED BY <1>1, <1>2, <1>3

\* The slots a step of thread a does not concern keep what they kept.
LEMMA KeptByOthers ==
  ASSUME NEW A, NEW A2, NEW V, NEW V2, Exclusive(A), Exclusive(A2), NEW a \in Threads,
         \A b \in Threads \ {a} : A2[b] = A[b],
         NEW s \in Slots, s # a, s \notin Writes(A[a]), s \notin Writes(A2[a]),
         s \in Wrappers => V2[s] = V[s]
  PROVE  KeptIn(A2, V2, s) = KeptIn(A, V, s)
<1>1. CASE s \in Threads
  BY <1>1 DEF KeptIn
<1>2. CASE s \notin Threads
  <2>1. s \in Wrappers
    BY <1>2 DEF Slots
  <2>2. CASE \E b \in Threads : s \in Writes(A[b])
    <3>1. PICK b \in Threads : s \in Writes(A[b])
      BY <2>2
    <3>2. b # a /\ s \in Writes(A2[b])
      BY <3>1
    <3>3. Writer(A, s) = b /\ Writer(A2, s) = b
      BY <2>1, <3>1, <3>2, WriterIsUnique
    <3> QED BY <1>2, <2>1, <3>1, <3>2, <3>3 DEF KeptIn
  <2>3. CASE \A b \in Threads : s \notin Writes(A[b])
    <3>1. \A b \in Threads : s \notin Writes(A2[b])
      BY <2>3
    <3> QED BY <1>2, <2>1, <2>3, <3>1 DEF KeptIn
  <2> QED BY <2>2, <2>3
<1> QED BY <1>1, <1>2

\* A step of thread a, from its frame to frame g.
LEMMA KeepersStep ==
  ASSUME Exclusive(act), NEW a \in Threads, NEW g,
         act'[a] = g /\ \A b \in Threads \ {a} : act'[b] = act[b],
         act[a] = Idle \/ g = Idle \/ Writes(g) = Writes(act[a]),
         \A b \in Threads \ {a} : /\ Writes(g) \cap Uses(act[b]) = {}
                                 /\ Uses(g) \cap Writes(act[b]) = {},
         \A w \in Wrappers : w \notin Writes(act[a]) \cup Writes(g) => vt'[w] = vt[w]
  PROVE  /\ Exclusive(act')
         /\ Keepers[a] = Keeps(act[a], a, a, NoType)
         /\ Keepers'[a] = Keeps(g, a, a, NoType)
         /\ \A w \in Wrappers :
              w \in Writes(act[a]) \cup Writes(g) =>
                /\ Keepers[w] = Keeps(act[a], a, w, vt[w])
                /\ Keepers'[w] = Keeps(g, a, w, vt'[w])
         /\ \A s \in Slots :
              s # a /\ s \notin Writes(act[a]) \cup Writes(g) => Keepers'[s] = Keepers[s]
         /\ OthersBusy(a, Cells, Lives, Kinds, Cells', Lives', Kinds')
         /\ Cells[a] = CellOf(act[a]) /\ Lives[a] = LifeOf(act[a]) /\ Kinds[a] = act[a].ty
         /\ Cells'[a] = CellOf(g) /\ Lives'[a] = LifeOf(g) /\ Kinds'[a] = g.ty
<1>1. act'[a] = g /\ \A b \in Threads \ {a} : act'[b] = act[b]
  OBVIOUS
<1>2. Exclusive(act')
  BY <1>1 DEF Exclusive
<1>3. Writes(Idle) = {}
  BY DEF Writes, Idle, Doing
<1>4. /\ act[a] = Idle \/ Writes(act'[a]) \subseteq Writes(act[a])
      /\ act'[a] = Idle \/ Writes(act[a]) \subseteq Writes(act'[a])
  BY <1>1, <1>3
<1>5. /\ \A s \in Slots : Keepers[s] = KeptIn(act, vt, s) /\ Keepers'[s] = KeptIn(act', vt', s)
      /\ a \in Slots /\ Wrappers \subseteq Slots
  BY DEF Keepers, Kept, Slots
<1>6. /\ KeptIn(act, vt, a) = Keeps(act[a], a, a, NoType)
      /\ \A w \in Wrappers : w \in Writes(act[a]) \cup Writes(act'[a]) =>
           KeptIn(act, vt, w) = Keeps(act[a], a, w, vt[w])
  BY <1>1, <1>4, <1>2, KeptByThread
<1>7. /\ KeptIn(act', vt', a) = Keeps(act'[a], a, a, NoType)
      /\ \A w \in Wrappers : w \in Writes(act'[a]) \cup Writes(act[a]) =>
           KeptIn(act', vt', w) = Keeps(act'[a], a, w, vt'[w])
  BY <1>1, <1>4, <1>2, KeptByThread
<1>8. \A s \in Slots :
        s # a /\ s \notin Writes(act[a]) \cup Writes(g) => KeptIn(act', vt', s) = KeptIn(act, vt, s)
  BY <1>1, <1>2, KeptByOthers
<1>9. /\ OthersBusy(a, Cells, Lives, Kinds, Cells', Lives', Kinds')
      /\ Cells[a] = CellOf(act[a]) /\ Lives[a] = LifeOf(act[a]) /\ Kinds[a] = act[a].ty
      /\ Cells'[a] = CellOf(g) /\ Lives'[a] = LifeOf(g) /\ Kinds'[a] = g.ty
  BY <1>1 DEF OthersBusy, Cells, Lives, Kinds
<1> QED BY <1>1, <1>5, <1>6, <1>7, <1>8, <1>9, <1>2

-----------------------------------------------------------------------------
(* 3. Frames                                                                *)

\* A frame stays right as long as the Functions it uses stay as they are.
LEMMA FrameStable ==
  ASSUME NEW b \in Threads, NEW f, NEW al \in SUBSET Wrappers, NEW V, NEW m,
         FrameOK(b, f, al, V, m),
         NEW al2, NEW V2, NEW m2,
         \A w \in Uses(f) \cap Wrappers : /\ w \in al2 <=> w \in al
                                         /\ V2[w] = V[w]
                                         /\ m2.ptr[w] = m.ptr[w]
  PROVE  FrameOK(b, f, al2, V2, m2)
<1>1. CASE f = Idle
  BY <1>1 DEF FrameOK
<1>2. CASE f # Idle
  <2>1. f.this \in Wrappers
    BY <1>2 DEF FrameOK
  <2>2. f.this \in Uses(f)
    BY <2>1, DistinctAssumption DEF Uses
  <2>3. f.other \in Wrappers => f.other \in Uses(f)
    BY DistinctAssumption DEF Uses
  <2>4. /\ f.this \in al2 <=> f.this \in al
        /\ V2[f.this] = V[f.this]
        /\ Place(m2, f.ty, f.this) = Place(m, f.ty, f.this)
        /\ f.other \in al => f.other \in al2 /\ V2[f.other] = V[f.other]
    BY <2>1, <2>2, <2>3 DEF Place
  <2> QED BY <1>2, <2>1, <2>4 DEF FrameOK, Kills, Legs
<1> QED BY <1>1, <1>2

\* The frame of an operation at a callable's constructor, destructor or operator().
LEMMA DoingIsFrame ==
  ASSUME NEW op \in Ops, NEW at \in {"build", "kill", "run"},
         NEW w \in Wrappers, NEW o \in Wrappers \cup {Null},
         NEW t \in Types \cup {NoType}, NEW c \in Loc
  PROVE  Doing(op, at, w, o, t, c) \in Frame
BY DEF Doing, Frame

\* The frame of an operation inside a vtable's move.
LEMMA MovingIsFrame ==
  ASSUME NEW op \in Ops, NEW w \in Wrappers, NEW o \in Wrappers,
         NEW t \in Types \cup {NoType}, NEW dst \in Slots, NEW src \in Slots,
         NEW mine \in Types \cup {NoType}, NEW theirs \in Types \cup {NoType}
  PROVE  Moving(op, w, o, t, dst, src, mine, theirs) \in Frame
BY DEF Moving, Frame

\* A slot where a thread constructs or destroys a callable is one of its
\* operation's or its own.
LEMMA CellsAreOwn ==
  ASSUME Frames, NEW b \in Threads, Cells[b] \in Slots
  PROVE  Cells[b] \in Uses(act[b]) \cup {b}
<1>1. Cells[b] = act[b].cell /\ act[b].at \in {"build", "kill", "retire"}
  BY DistinctAssumption DEF Cells, CellOf, Slots
<1>2. act[b] # Idle
  BY <1>1 DEF Idle, Doing
<1>3. act[b].cell \in {b, act[b].this, act[b].other}
  BY <1>1, <1>2, DistinctAssumption DEF Frames, FrameOK, CellFor, Kills, Moves, Legs, Slots
<1> QED BY <1>1, <1>3, DistinctAssumption DEF Uses, Slots

\* The obligations of a step of thread a to frame g: what it must show for the
\* invariant to hold after it.
LEMMA StepKeepsInvariant ==
  ASSUME IInv, NEW a \in Threads, NEW g,
         act' \in [Threads -> Frame], act'[a] = g, \A b \in Threads \ {a} : act'[b] = act[b],
         alive' \in SUBSET Wrappers, vt' \in [Wrappers -> Types \cup {NoType}],
         \A b \in Threads \ {a} : /\ Writes(g) \cap Uses(act[b]) = {}
                                 /\ Uses(g) \cap Writes(act[b]) = {},
         \A b \in Threads \ {a} : \A w \in Uses(act[b]) \cap Wrappers :
           /\ w \in alive' <=> w \in alive
           /\ vt'[w] = vt[w]
           /\ mem'.ptr[w] = mem.ptr[w],
         FrameOK(a, g, alive', vt', mem'),
         Unborn',
         Consistent(mem', Keepers', Cells', Lives', Kinds'),
         defined'
  PROVE  IInv'
<1>1. act'[a] = g /\ \A b \in Threads \ {a} : act'[b] = act[b]
  OBVIOUS
<1>2. TypeOK'
  BY DEF TypeOK, IInv, Consistent
<1>3. Frames'
  <2> SUFFICES ASSUME NEW b \in Threads
               PROVE  FrameOK(b, act'[b], alive', vt', mem')
    BY DEF Frames
  <2>1. CASE b = a
    BY <1>1, <2>1
  <2>2. CASE b # a
    <3>1. FrameOK(b, act[b], alive, vt, mem) /\ alive \in SUBSET Wrappers
      BY DEF IInv, Frames, TypeOK
    <3>2. FrameOK(b, act[b], alive', vt', mem')
      BY <2>2, <3>1, FrameStable
    <3> QED BY <1>1, <2>2, <3>2
  <2> QED BY <2>1, <2>2
<1>4. Exclusive(act')
  BY <1>1 DEF IInv, Exclusive
<1> QED BY <1>2, <1>3, <1>4 DEF IInv

-----------------------------------------------------------------------------
(* 4. The steps                                                             *)

\* An empty Function appears or disappears; no code of a callable runs.
Appears(w) == /\ vt[w] = NoType
              /\ \/ alive' = alive \cup {w} /\ mem' = Fresh(mem, w)
                 \/ alive' = alive \ {w} /\ mem' = mem
              /\ UNCHANGED <<vt, act, defined>>

\* Starting the lifetime of an empty Function keeps the invariant.
LEMMA AppearsStep ==
  ASSUME IInv, NEW a \in Threads, act[a] = Idle, NEW w \in Wrappers, Apart(a, {w}, {}),
         Appears(w)
  PROVE  IInv' /\ Keepers' = Keepers /\ Keepers[w] = NoType
<1>1. act' \in [Threads -> Frame] /\ act'[a] = Idle /\ \A b \in Threads \ {a} : act'[b] = act[b]
  BY DEF Appears, IInv, TypeOK
<1>2. Uses(Idle) = {} /\ Writes(Idle) = {}
  BY DEF Uses, Writes, Idle, Doing
<1>3. Keepers' = Keepers /\ Cells' = Cells /\ Lives' = Lives /\ Kinds' = Kinds
  BY DEF Appears, Keepers, Kept, Cells, Lives, Kinds
<1>4. Keepers[w] = NoType
  <2>1. \A b \in Threads : w \notin Writes(act[b])
    BY <1>2, WritesAreUses DEF Apart
  <2>2. KeptIn(act, vt, w) = NoType
    BY <2>1, DistinctAssumption DEF Appears, KeptIn
  <2> QED BY <2>2 DEF Keepers, Kept, Slots
<1>5. Consistent(mem, Keepers, Cells, Lives, Kinds) /\ mem \in Memory
  BY DEF IInv, Consistent
<1>6. Consistent(Fresh(mem, w), Keepers, Cells, Lives, Kinds)
  BY <1>4, <1>5, PointConsistent DEF Fresh, Slots
<1>7. \A b \in Threads \ {a} : \A v \in Uses(act[b]) \cap Wrappers :
        /\ v \in alive' <=> v \in alive
        /\ vt'[v] = vt[v]
        /\ mem'.ptr[v] = mem.ptr[v]
  <2>1. \A v \in Wrappers \ {w} : mem'.ptr[v] = mem.ptr[v]
    <3>1. mem' = Point(mem, w, Null) \/ mem' = mem
      BY DEF Appears, Fresh
    <3>2. Point(mem, w, Null).ptr = [mem.ptr EXCEPT ![w] = Null]
      BY <1>5, PointFields DEF Slots
    <3>3. mem.ptr \in [Slots -> Heap \cup {Null, Junk}]
      BY <1>5 DEF Memory
    <3> QED BY <3>1, <3>2, <3>3 DEF Slots
  <2>2. \A b \in Threads \ {a} : w \notin Uses(act[b])
    BY DEF Apart
  <2>3. \A v \in Wrappers \ {w} : v \in alive' <=> v \in alive
    BY DEF Appears
  <2> QED BY <2>1, <2>2, <2>3 DEF Appears
<1>8. FrameOK(a, Idle, alive', vt', mem')
  BY DEF FrameOK
<1>9. Consistent(mem', Keepers', Cells', Lives', Kinds')
  BY <1>3, <1>5, <1>6 DEF Appears
<1>10. alive' \in SUBSET Wrappers /\ Unborn' /\ vt' \in [Wrappers -> Types \cup {NoType}]
  BY DEF Appears, IInv, TypeOK, Unborn
<1>11. defined'
  BY DEF Appears, IInv
<1> QED
  BY <1>1, <1>2, <1>3, <1>4, <1>7, <1>8, <1>9, <1>10, <1>11, StepKeepsInvariant

\* A callable's constructor is entered: in tmp for a copy assignment, in the new
\* object otherwise.
Builds(a, op, w, o, t, s, c, v) ==
  /\ c \in Room(mem, t, s)
  /\ s = IF op = "copyassign" THEN a ELSE w
  /\ mem' = BeginNew(Fresh(mem, s), t, s, c, v)
  /\ Go(a, Doing(op, "build", w, o, t, c))
  /\ UNCHANGED <<alive, vt>>

\* The constructor is entered where nothing was, for a slot that keeps nothing.
Entered(s, c) ==
  /\ Keepers' = Keepers /\ s \in Slots /\ Keepers[s] = NoType
  /\ c \in Loc /\ mem.obj[c] = NoObject

\* Entering a callable's constructor, from Idle, keeps the invariant.
LEMMA BuildsStep ==
  ASSUME IInv, NEW a \in Threads, act[a] = Idle, NEW w \in Wrappers, Apart(a, {w}, {}),
         NEW op \in {"construct", "copyctor", "copyassign"},
         NEW o \in Wrappers \cup {Null}, o \in Wrappers => Apart(a, {}, {o}),
         NEW t \in Types, NEW v \in Vals, NEW s, NEW c,
         op = "construct" => w \notin alive /\ o = Null,
         op = "copyctor" => w \notin alive /\ o \in alive /\ vt[o] = t,
         op = "copyassign" => w \in alive /\ o \in alive /\ w # o /\ vt[o] = t,
         Builds(a, op, w, o, t, s, c, v), defined'
  PROVE  IInv' /\ Entered(s, c)
<1> DEFINE g == Doing(op, "build", w, o, t, c)
<1>1. g = [op |-> op, at |-> "build", this |-> w, other |-> o, ty |-> t, cell |-> c,
           dst |-> Null, src |-> Null, mine |-> NoType, theirs |-> NoType]
  BY DEF Doing
<1>2. c \in Loc /\ c # Null /\ CellFor(t, c, s) /\ (c \in Slots <=> fits(t))
  BY DistinctAssumption DEF Builds, Room, CellFor, Loc, Slots
<1>3. act' \in [Threads -> Frame] /\ act'[a] = g /\ \A b \in Threads \ {a} : act'[b] = act[b]
  <2>1. g \in Frame
    BY <1>2, DoingIsFrame DEF Ops
  <2> HIDE DEF g
  <2>2. act' = [act EXCEPT ![a] = g]
    BY DEF Builds, Go, g
  <2> QED BY <2>1, <2>2 DEF IInv, TypeOK
<1> HIDE DEF g
<1>4. Writes(g) = {w} /\ Uses(g) = {w, o} \ {Null} /\ Writes(Idle) = {} /\ Uses(Idle) = {}
  BY <1>1, DistinctAssumption DEF Writes, Uses, Idle, Doing
<1>5. \A b \in Threads \ {a} : /\ Writes(g) \cap Uses(act[b]) = {}
                               /\ Uses(g) \cap Writes(act[b]) = {}
  BY <1>4, WritesAreUses DEF Apart
<1>6. /\ Keepers[a] = Keeps(Idle, a, a, NoType) /\ Keepers'[a] = Keeps(g, a, a, NoType)
      /\ Keepers[w] = Keeps(Idle, a, w, vt[w]) /\ Keepers'[w] = Keeps(g, a, w, vt'[w])
      /\ \A r \in Slots : r # a /\ r # w => Keepers'[r] = Keepers[r]
      /\ OthersBusy(a, Cells, Lives, Kinds, Cells', Lives', Kinds')
      /\ Cells[a] = CellOf(Idle)
      /\ Cells'[a] = CellOf(g) /\ Lives'[a] = LifeOf(g) /\ Kinds'[a] = g.ty
  <2>1. Exclusive(act) /\ \A u \in Wrappers : vt'[u] = vt[u]
    BY DEF IInv, Builds
  <2> QED BY <2>1, <1>3, <1>4, <1>5, KeepersStep
<1>7. /\ Keepers' = Keepers /\ Keepers[a] = NoType /\ Keepers[w] = vt[w]
      /\ Cells[a] = Null /\ Cells'[a] = c /\ Lives'[a] = "raw" /\ Kinds'[a] = t
  <2>1. \A r, x : Keeps(Idle, a, r, x) = x /\ Keeps(g, a, r, x) = x
    BY <1>1 DEF Keeps, Idle, Doing
  <2>2. \A r \in Slots : Keepers'[r] = Keepers[r]
    BY <1>6, <2>1 DEF Builds
  <2> QED BY <1>1, <1>6, <2>1, <2>2 DEF Keepers, CellOf, LifeOf, Idle, Doing
<1>8. Keepers[s] = NoType /\ s \in Slots /\ \A b \in Threads \ {a} : s \notin Uses(act[b]) \cup {b}
  <2>1. CASE op = "copyassign"
    BY <2>1, <1>7, DistinctAssumption DEF Slots, Builds, Uses, IInv, TypeOK, Frame
  <2>2. CASE op # "copyassign"
    <3>1. s = w /\ vt[w] = NoType
      BY <2>2 DEF Builds, IInv, Unborn
    <3> QED BY <3>1, <1>7, DistinctAssumption DEF Slots, Apart
  <2> QED BY <2>1, <2>2
<1>9. Consistent(Fresh(mem, s), Keepers, Cells, Lives, Kinds) /\ Fresh(mem, s).obj = mem.obj
  <2>1. Consistent(mem, Keepers, Cells, Lives, Kinds) /\ mem \in Memory
    BY DEF IInv, Consistent
  <2>2. Fresh(mem, s).obj = mem.obj
    BY <2>1 DEF Fresh, Point, Memory
  <2>3. Consistent(Fresh(mem, s), Keepers, Cells, Lives, Kinds)
    BY <1>8, <2>1, PointConsistent DEF Fresh
  <2> QED BY <2>2, <2>3
<1>10. mem.obj[c] = NoObject
  <2>1. CASE fits(t)
    <3>1. c = s
      BY <2>1 DEF Builds, Room
    <3>2. \A b \in Threads : Cells[b] # s
      BY <1>7, <1>8, CellsAreOwn, DistinctAssumption DEF IInv, Slots
    <3> QED BY <1>8, <3>1, <3>2, SlotIsFree DEF IInv
  <2>2. CASE ~fits(t)
    BY <2>2 DEF Builds, Room
  <2> QED BY <2>1, <2>2
<1>11. Consistent(mem', Keepers', Cells', Lives', Kinds')
  <2> DEFINE m == Put(Fresh(mem, s), c, [type |-> t, val |-> v, self |-> c, life |-> "raw"])
  <2>1. Consistent(m, Keepers, Cells', Lives', Kinds')
    BY <1>2, <1>6, <1>7, <1>9, <1>10, PutConsistent
  <2> HIDE DEF m
  <2>2. Consistent(Point(m, s, Junk), Keepers, Cells', Lives', Kinds')
    BY <1>8, <2>1, PointConsistent
  <2>3. mem' = IF fits(t) THEN Point(m, s, Junk) ELSE m
    BY DEF Builds, BeginNew, m
  <2> QED BY <1>7, <2>1, <2>2, <2>3
<1>12. \A u \in Wrappers \ {w} : mem'.ptr[u] = mem.ptr[u]
  BY <1>8, DistinctAssumption
  DEF Builds, BeginNew, Put, Point, Fresh, IInv, TypeOK, Memory, Slots
<1>13. \A b \in Threads \ {a} : \A u \in Uses(act[b]) \cap Wrappers :
        /\ u \in alive' <=> u \in alive
        /\ vt'[u] = vt[u]
        /\ mem'.ptr[u] = mem.ptr[u]
  BY <1>4, <1>5, <1>12 DEF Builds
<1>14. FrameOK(a, g, alive', vt', mem')
  <2>1. alive' = alive /\ vt' = vt /\ alive \subseteq Wrappers
    BY DEF Builds, IInv, TypeOK
  <2>2. FrameOK(a, g, alive, vt, mem')
    BY <1>1, <1>2 DEF FrameOK, Builds
  <2> QED BY <2>1, <2>2
<1>15. alive' \in SUBSET Wrappers /\ Unborn' /\ vt' \in [Wrappers -> Types \cup {NoType}]
  BY DEF Builds, IInv, TypeOK, Unborn
<1> QED
  BY <1>2, <1>3, <1>5, <1>7, <1>8, <1>10, <1>11, <1>13, <1>14, <1>15, StepKeepsInvariant DEF Entered

\* The frame of a beginning operation, from the client's rule.
LEMMA ApartFrame ==
  ASSUME NEW a \in Threads, NEW g, NEW W \in SUBSET Wrappers, NEW R, Apart(a, W, R),
         Writes(g) \subseteq W, Uses(g) \subseteq W \cup R
  PROVE  \A b \in Threads \ {a} : /\ Writes(g) \cap Uses(act[b]) = {}
                                 /\ Uses(g) \cap Writes(act[b]) = {}
BY WritesAreUses DEF Apart

\* An idle thread enters the destructor of w's callable.
LEMMA KillBegins ==
  ASSUME IInv, NEW a \in Threads, act[a] = Idle, NEW w \in alive, vt[w] # NoType,
         NEW op \in {"reset", "destroy", "moveassign"},
         NEW o \in Wrappers \cup {Null}, op = "moveassign" => o \in alive /\ w # o,
         op = "moveassign" => Apart(a, {w, o}, {}),
         Apart(a, {w}, {o} \ {Null}),
         BeginKill(a, op, w, o, NoType, mem), UNCHANGED <<alive, vt>>
  PROVE  /\ IInv' /\ Keepers[w] = vt[w] /\ Keepers'[w] = NoType
         /\ \A r \in Slots \ {w} : Keepers'[r] = Keepers[r]
<1> DEFINE l == Place(mem, vt[w], w)
           g == Doing(op, "kill", w, o, NoType, l)
<1>1. g = [op |-> op, at |-> "kill", this |-> w, other |-> o, ty |-> NoType, cell |-> l,
           dst |-> Null, src |-> Null, mine |-> NoType, theirs |-> NoType]
  BY DEF Doing
<1>2. /\ Consistent(mem, Keepers, Cells, Lives, Kinds) /\ mem \in Memory
      /\ w \in Wrappers /\ vt[w] \in Types /\ alive \subseteq Wrappers
  BY DEF IInv, TypeOK
<1> HIDE DEF g
<1>3. Writes(g) = (IF op = "moveassign" THEN {w, o} ELSE {w}) /\ Uses(g) = {w, o} \ {Null}
  BY <1>1, <1>2, DistinctAssumption DEF Writes, Uses
<1>4. \A b \in Threads \ {a} : /\ Writes(g) \cap Uses(act[b]) = {}
                               /\ Uses(g) \cap Writes(act[b]) = {}
  <2>1. CASE op = "moveassign"
    <3>1. Writes(g) \subseteq {w, o} /\ Uses(g) \subseteq {w, o} \cup {} /\ {w, o} \in SUBSET Wrappers
      BY <2>1, <1>2, <1>3
    <3> QED BY <2>1, <3>1, ApartFrame
  <2>2. CASE op # "moveassign"
    <3>1. Writes(g) \subseteq {w} /\ Uses(g) \subseteq {w} \cup ({o} \ {Null}) /\ {w} \in SUBSET Wrappers
      BY <2>2, <1>2, <1>3
    <3> QED BY <3>1, ApartFrame
  <2> QED BY <2>1, <2>2
<1>5. Writes(Idle) = {} /\ \A r, x : Keeps(Idle, a, r, x) = x
  BY DEF Writes, Keeps, Idle, Doing
<1>6. act'[a] = g /\ \A b \in Threads \ {a} : act'[b] = act[b]
  <2>1. act' = [act EXCEPT ![a] = g]
    BY DEF BeginKill, Go, g
  <2> QED BY <2>1 DEF IInv, TypeOK
<1>7. /\ Keepers[a] = Keeps(Idle, a, a, NoType) /\ Keepers'[a] = Keeps(g, a, a, NoType)
      /\ \A u \in Wrappers : u \in Writes(g) =>
           Keepers[u] = Keeps(Idle, a, u, vt[u]) /\ Keepers'[u] = Keeps(g, a, u, vt'[u])
      /\ \A r \in Slots : r # a /\ r \notin Writes(g) => Keepers'[r] = Keepers[r]
      /\ OthersBusy(a, Cells, Lives, Kinds, Cells', Lives', Kinds')
      /\ Cells[a] = CellOf(Idle)
      /\ Cells'[a] = CellOf(g) /\ Lives'[a] = LifeOf(g)
  <2>1. Exclusive(act) /\ \A u \in Wrappers : vt'[u] = vt[u]
    BY DEF IInv
  <2> QED BY <2>1, <1>4, <1>5, <1>6, KeepersStep
<1>8. /\ Keepers[w] = vt[w] /\ Keepers'[w] = NoType
      /\ \A r \in Slots \ {w} : Keepers'[r] = Keepers[r]
      /\ Cells[a] = Null /\ Cells'[a] = l /\ Lives'[a] = "dying"
  <2>1. \A r, x : Keeps(g, a, r, x) = IF r = w THEN NoType ELSE x
    BY <1>1 DEF Keeps
  <2>2. CellOf(Idle) = Null /\ CellOf(g) = l /\ LifeOf(g) = "dying"
    BY <1>1 DEF CellOf, LifeOf, Idle, Doing
  <2>3. a # w
    BY <1>2, DistinctAssumption
  <2>4. Keepers[w] = vt[w] /\ Keepers'[w] = NoType
    BY <1>2, <1>3, <1>5, <1>7, <2>1
  <2>5. ASSUME NEW r \in Slots \ {w} PROVE Keepers'[r] = Keepers[r]
    <3>1. CASE r = a
      BY <3>1, <1>5, <1>7, <2>1, <2>3
    <3>2. CASE r # a /\ r \in Writes(g)
      <4>1. r \in Wrappers /\ vt'[r] = vt[r]
        BY <3>2, <1>2, <1>3
      <4> QED BY <3>2, <4>1, <1>5, <1>7, <2>1
    <3>3. CASE r # a /\ r \notin Writes(g)
      BY <3>3, <1>7
    <3> QED BY <3>1, <3>2, <3>3
  <2> QED BY <1>7, <2>2, <2>4, <2>5
<1>9. l \in Loc /\ LiveAt(mem, vt[w], l) /\ CellFor(vt[w], l, w)
  <2>1. Live(mem, vt[w], w)
    BY <1>2, <1>8 DEF Consistent, Slots
  <2>2. mem.ptr[w] \in Heap \cup {Null, Junk}
    BY <1>2 DEF Memory, Slots
  <2>3. LiveAt(mem, vt[w], l) /\ l \in Loc
    BY <2>1 DEF Live, LiveAt
  <2>4. CellFor(vt[w], l, w)
    BY <2>2, <2>3, DistinctAssumption DEF Place, CellFor, Loc, Slots
  <2> QED BY <2>3, <2>4
<1> HIDE DEF l
<1>10. mem' = Mark(mem, l, "dying") /\ defined'
  BY <1>9 DEF BeginKill, Must, IInv, l
<1>11. Consistent(mem', Keepers', Cells', Lives', Kinds')
  <2>1. l = Place(mem, Keepers[w], w) /\ w \in Slots /\ Keepers[w] # NoType
    BY <1>2, <1>8 DEF l, Slots
  <2>2. Consistent(Mark(mem, Place(mem, Keepers[w], w), "dying"), Keepers', Cells', Lives', Kinds')
    BY <2>1, <1>2, <1>7, <1>8, MarkConsistent
  <2> QED BY <1>10, <2>1, <2>2
<1>12. act' \in [Threads -> Frame]
  <2>1. g \in Frame
    BY <1>2, <1>9, DoingIsFrame DEF g, Ops
  <2>2. act' = [act EXCEPT ![a] = g]
    BY DEF BeginKill, Go, g, l
  <2> QED BY <2>1, <2>2 DEF IInv, TypeOK
<1>13. \A b \in Threads \ {a} : \A u \in Uses(act[b]) \cap Wrappers :
        /\ u \in alive' <=> u \in alive
        /\ vt'[u] = vt[u]
        /\ mem'.ptr[u] = mem.ptr[u]
  BY <1>10, <1>2 DEF Mark, Memory
<1>14. FrameOK(a, g, alive', vt', mem')
  BY <1>1, <1>2, <1>9 DEF FrameOK, Kills
<1>15. alive' \in SUBSET Wrappers /\ Unborn' /\ vt' \in [Wrappers -> Types \cup {NoType}]
  BY DEF IInv, TypeOK, Unborn
<1> QED
  BY <1>4, <1>6, <1>8, <1>10, <1>11, <1>12, <1>13, <1>14, <1>15, StepKeepsInvariant

\* What an idle thread does to Writes and Keeps: nothing.
LEMMA IdleFrame ==
  /\ Idle \in Frame /\ Writes(Idle) = {} /\ Uses(Idle) = {} /\ CellOf(Idle) = Null
  /\ \A b, r, x : Keeps(Idle, b, r, x) = x
BY DEF Idle, Doing, Frame, Writes, Uses, CellOf, Keeps

\* A Function no operation changes keeps what its vtable says.
LEMMA NotWritten ==
  ASSUME NEW w \in Wrappers, \A b \in Threads : w \notin Writes(act[b])
  PROVE  Keepers[w] = vt[w]
<1>1. KeptIn(act, vt, w) = vt[w]
  BY DistinctAssumption DEF KeptIn
<1> QED BY <1>1 DEF Keepers, Kept, Slots

\* An idle thread enters a vtable's move from the Function src.
BeginsMove(a, op, w, o, t, dst, src, mine, theirs) ==
  /\ Go(a, Moving(op, w, o, t, dst, src, mine, theirs))
  /\ mem' \in {mem, Fresh(mem, dst)}
  /\ UNCHANGED <<alive, vt>>

\* Entering a vtable's move, from Idle, keeps the invariant.
LEMMA MoveBegins ==
  ASSUME IInv, NEW a \in Threads, act[a] = Idle, NEW w \in Wrappers, NEW o \in Wrappers,
         Apart(a, {w, o}, {}),
         NEW op \in {"movector", "moveassign", "swap"}, NEW t \in Types,
         NEW dst \in {a, w, o}, NEW src \in {w, o}, dst # src,
         vt[src] = t, dst # a => vt[dst] = NoType, dst = a => op = "swap" /\ src = w,
         NEW mine \in Types \cup {NoType}, NEW theirs \in Types \cup {NoType},
         op = "swap" => mine = vt[w] /\ theirs = vt[o],
         BeginsMove(a, op, w, o, t, dst, src, mine, theirs),
         FrameOK(a, Moving(op, w, o, t, dst, src, mine, theirs), alive, vt, mem'),
         defined'
  PROVE  IInv' /\ Keepers' = Keepers /\ Keepers[dst] = NoType
<1> DEFINE g == Moving(op, w, o, t, dst, src, mine, theirs)
<1>1. g = [op |-> op, at |-> "move", this |-> w, other |-> o, ty |-> t, cell |-> Null,
           dst |-> dst, src |-> src, mine |-> mine, theirs |-> theirs]
  BY DEF Moving
<1>2. /\ Consistent(mem, Keepers, Cells, Lives, Kinds) /\ mem \in Memory
      /\ alive \subseteq Wrappers /\ vt \in [Wrappers -> Types \cup {NoType}]
      /\ dst \in Slots /\ src \in Slots
  BY DEF IInv, TypeOK, Consistent, Slots
<1>3. act' \in [Threads -> Frame] /\ act'[a] = g /\ \A b \in Threads \ {a} : act'[b] = act[b]
  <2>1. g \in Frame
    BY <1>2, MovingIsFrame DEF Ops
  <2> HIDE DEF g
  <2>2. act' = [act EXCEPT ![a] = g]
    BY DEF BeginsMove, Go, g
  <2> QED BY <2>1, <2>2 DEF IInv, TypeOK
<1>4. FrameOK(a, g, alive, vt, mem')
  OBVIOUS
<1> HIDE DEF g
<1>5. Writes(g) = {w, o} /\ Uses(g) = {w, o}
  BY <1>1, DistinctAssumption DEF Writes, Uses
<1>6. \A b \in Threads \ {a} : /\ Writes(g) \cap Uses(act[b]) = {}
                               /\ Uses(g) \cap Writes(act[b]) = {}
  BY <1>5, ApartFrame
<1>7. /\ Keepers[a] = Keeps(Idle, a, a, NoType) /\ Keepers'[a] = Keeps(g, a, a, NoType)
      /\ \A u \in Wrappers : u \in {w, o} =>
           Keepers[u] = Keeps(Idle, a, u, vt[u]) /\ Keepers'[u] = Keeps(g, a, u, vt[u])
      /\ \A r \in Slots : r # a /\ r \notin {w, o} => Keepers'[r] = Keepers[r]
      /\ OthersBusy(a, Cells, Lives, Kinds, Cells', Lives', Kinds')
      /\ Cells[a] = CellOf(Idle) /\ Cells'[a] = CellOf(g)
  <2>1. Exclusive(act) /\ \A u \in Wrappers : vt'[u] = vt[u]
    BY DEF IInv, BeginsMove
  <2> QED BY <2>1, <1>3, <1>5, <1>6, IdleFrame, KeepersStep
<1>8. Keepers' = Keepers /\ Cells[a] = Null /\ Cells'[a] = Null
  <2>1. Keeps(g, a, a, NoType) = NoType
    BY <1>1, <1>2, DistinctAssumption DEF Keeps
  <2>2. Keeps(g, a, w, vt[w]) = vt[w] /\ Keeps(g, a, o, vt[o]) = vt[o]
    BY <1>1, <1>2, DistinctAssumption DEF Keeps
  <2>3. \A r \in Slots : Keepers'[r] = Keepers[r]
    BY <2>1, <2>2, <1>7, IdleFrame
  <2> QED BY <2>3, <1>1, <1>7, IdleFrame DEF Keepers, CellOf
<1>9. Keepers[dst] = NoType
  BY <1>7, <1>8, IdleFrame
<1>10. Consistent(mem', Keepers', Cells', Lives', Kinds')
  <2>1. Consistent(Fresh(mem, dst), Keepers, Cells, Lives, Kinds)
    BY <1>2, <1>9, PointConsistent DEF Fresh
  <2>2. Consistent(mem', Keepers, Cells, Lives, Kinds)
    BY <2>1, <1>2 DEF BeginsMove
  <2>3. \A b \in Threads : Cells'[b] = Cells[b]
    BY <1>7, <1>8 DEF OthersBusy
  <2>4. \A b \in Threads : Cells[b] # Null => Lives'[b] = Lives[b] /\ Kinds'[b] = Kinds[b]
    BY <1>7, <1>8 DEF OthersBusy
  <2> QED BY <1>8, <2>2, <2>3, <2>4, CellsAgree
<1>11. \A b \in Threads \ {a} : \A u \in Uses(act[b]) \cap Wrappers :
        /\ u \in alive' <=> u \in alive
        /\ vt'[u] = vt[u]
        /\ mem'.ptr[u] = mem.ptr[u]
  <2>1. \A u \in Wrappers \ {dst} : mem'.ptr[u] = mem.ptr[u]
    <3>1. Fresh(mem, dst).ptr = [mem.ptr EXCEPT ![dst] = Null]
      BY <1>2, PointFields DEF Fresh
    <3>2. mem'.ptr = mem.ptr \/ mem'.ptr = [mem.ptr EXCEPT ![dst] = Null]
      BY <3>1 DEF BeginsMove
    <3>3. mem.ptr \in [Slots -> Heap \cup {Null, Junk}]
      BY <1>2 DEF Memory
    <3> QED BY <3>2, <3>3 DEF Slots
  <2>2. \A b \in Threads \ {a} : dst \in Wrappers => dst \notin Uses(act[b])
    BY <1>5, <1>6, DistinctAssumption
  <2> QED BY <2>1, <2>2 DEF BeginsMove
<1>12. /\ alive' \in SUBSET Wrappers /\ Unborn' /\ vt' \in [Wrappers -> Types \cup {NoType}]
       /\ FrameOK(a, g, alive', vt', mem')
  BY <1>2, <1>4 DEF BeginsMove, IInv, Unborn
<1> QED BY <1>3, <1>6, <1>8, <1>9, <1>10, <1>11, <1>12, StepKeepsInvariant

\* An idle thread enters the operator() of w's callable.
LEMMA CallBegins ==
  ASSUME IInv, NEW a \in Threads, act[a] = Idle, NEW w \in Wrappers,
         IF vt[w] \in Mutable /\ ~ShareCalls THEN Apart(a, {w}, {}) ELSE Apart(a, {}, {w}),
         Call(a, w)
  PROVE  IInv' /\ Keepers' = Keepers /\ Keepers[w] = vt[w]
<1> DEFINE l == Place(mem, vt[w], w)
           g == Doing("call", "run", w, Null, vt[w], l)
<1>1. g = [op |-> "call", at |-> "run", this |-> w, other |-> Null, ty |-> vt[w],
           cell |-> l, dst |-> Null, src |-> Null, mine |-> NoType, theirs |-> NoType]
  BY DEF Doing
<1>2. /\ Consistent(mem, Keepers, Cells, Lives, Kinds) /\ mem \in Memory
      /\ alive \subseteq Wrappers /\ w \in alive /\ vt[w] \in Types
  BY DEF IInv, TypeOK, Consistent, Call
<1>3. act' = [act EXCEPT ![a] = g] /\ mem' = mem /\ alive' = alive /\ vt' = vt
  BY DEF Call, Go
<1>4. defined' = (defined /\ LiveAt(mem, vt[w], l))
  BY DEF Call, Must
<1> HIDE DEF g
<1>5. /\ Uses(g) = {w}
      /\ Writes(g) = IF vt[w] \in Mutable /\ ~ShareCalls THEN {w} ELSE {}
  BY <1>1, <1>2, DistinctAssumption DEF Writes, Uses
<1>6. \A b \in Threads \ {a} : /\ Writes(g) \cap Uses(act[b]) = {}
                               /\ Uses(g) \cap Writes(act[b]) = {}
  <2>1. CASE vt[w] \in Mutable /\ ~ShareCalls
    <3>1. Apart(a, {w}, {})
      BY <2>1
    <3> QED BY <2>1, <3>1, <1>5, ApartFrame
  <2>2. CASE ~(vt[w] \in Mutable /\ ~ShareCalls)
    <3>1. Apart(a, {}, {w})
      BY <2>2
    <3>2. Writes(g) \subseteq {} /\ Uses(g) \subseteq {} \cup {w} /\ {} \in SUBSET Wrappers
      BY <2>2, <1>5
    <3> QED BY <3>1, <3>2, ApartFrame
  <2> QED BY <2>1, <2>2
<1>7. Keepers[w] = vt[w]
  BY <1>5, <1>6, IdleFrame, NotWritten
<1>8. LiveAt(mem, vt[w], l) /\ l \in Loc
  <2>1. Live(mem, vt[w], w)
    BY <1>2, <1>7, DistinctAssumption DEF Consistent, Slots
  <2> QED BY <2>1 DEF Live, LiveAt
<1>9. act' \in [Threads -> Frame] /\ act'[a] = g /\ \A b \in Threads \ {a} : act'[b] = act[b]
  <2>1. g \in Frame
    BY <1>2, <1>8, DoingIsFrame DEF g, Ops
  <2> HIDE DEF l
  <2> QED BY <1>3, <2>1 DEF IInv, TypeOK
<1>10. /\ Keepers[a] = Keeps(Idle, a, a, NoType) /\ Keepers'[a] = Keeps(g, a, a, NoType)
       /\ \A u \in Wrappers : u \in Writes(g) =>
            Keepers[u] = Keeps(Idle, a, u, vt[u]) /\ Keepers'[u] = Keeps(g, a, u, vt[u])
       /\ \A r \in Slots : r # a /\ r \notin Writes(g) => Keepers'[r] = Keepers[r]
       /\ OthersBusy(a, Cells, Lives, Kinds, Cells', Lives', Kinds')
       /\ Cells[a] = CellOf(Idle) /\ Cells'[a] = CellOf(g)
  <2>1. Exclusive(act) /\ \A u \in Wrappers : vt'[u] = vt[u]
    BY <1>3 DEF IInv
  <2> QED BY <2>1, <1>9, <1>6, IdleFrame, KeepersStep
<1>11. Keepers' = Keepers /\ Cells[a] = Null /\ Cells'[a] = Null
  <2>1. \A r, x : Keeps(g, a, r, x) = x
    BY <1>1 DEF Keeps
  <2>2. \A r \in Slots : Keepers'[r] = Keepers[r]
    BY <1>5, <1>10, <2>1, IdleFrame
  <2> QED BY <1>1, <1>10, <2>2, IdleFrame DEF Keepers, CellOf
<1>12. Consistent(mem', Keepers', Cells', Lives', Kinds')
  <2>1. \A b \in Threads : Cells'[b] = Cells[b]
    BY <1>10, <1>11 DEF OthersBusy
  <2>2. \A b \in Threads : Cells[b] # Null => Lives'[b] = Lives[b] /\ Kinds'[b] = Kinds[b]
    BY <1>10, <1>11 DEF OthersBusy
  <2> QED BY <1>2, <1>3, <1>11, <2>1, <2>2, CellsAgree
<1>13. FrameOK(a, g, alive', vt', mem')
  BY <1>1, <1>2, <1>3 DEF FrameOK
<1>14. /\ alive' \in SUBSET Wrappers /\ Unborn' /\ vt' \in [Wrappers -> Types \cup {NoType}]
       /\ defined'
  BY <1>3, <1>4, <1>8 DEF IInv, TypeOK, Unborn
<1>15. \A b \in Threads \ {a} : \A u \in Uses(act[b]) \cap Wrappers :
        /\ u \in alive' <=> u \in alive
        /\ vt'[u] = vt[u]
        /\ mem'.ptr[u] = mem.ptr[u]
  BY <1>3
<1> QED BY <1>6, <1>7, <1>9, <1>11, <1>12, <1>13, <1>14, <1>15, StepKeepsInvariant

\* The callable of a Function nobody changes can be copied.
LEMMA SourceIsLive ==
  ASSUME IInv, NEW o \in Wrappers, vt[o] # NoType, \A b \in Threads : o \notin Writes(act[b])
  PROVE  Live(mem, vt[o], o) /\ mem.obj[Place(mem, vt[o], o)].val \in Vals
<1>1. Keepers[o] = vt[o] /\ o \in Slots
  BY NotWritten DEF Slots
<1>2. Live(mem, vt[o], o) /\ mem \in Memory
  BY <1>1 DEF IInv, Consistent
<1>3. mem.obj[Place(mem, vt[o], o)] \in Object
  BY <1>2 DEF Live, LiveAt, Memory
<1> QED BY <1>2, <1>3 DEF Object

\* An idle thread enters a callable's copy constructor.
LEMMA CloneStep ==
  ASSUME IInv, NEW a \in Threads, act[a] = Idle, NEW w \in Wrappers, NEW o \in alive,
         Apart(a, {w}, {o}), NEW op \in {"copyctor", "copyassign"}, vt[o] # NoType,
         op = "copyctor" => w \notin alive, op = "copyassign" => w \in alive /\ w # o,
         NEW s, s = IF op = "copyassign" THEN a ELSE w,
         Clone(a, op, w, o, s), UNCHANGED <<alive, vt>>
  PROVE  /\ IInv'
         /\ \E c : /\ Builds(a, op, w, o, vt[o], s, c, mem.obj[Place(mem, vt[o], o)].val)
                  /\ Entered(s, c)
<1> DEFINE v == mem.obj[Place(mem, vt[o], o)].val
<1>1. o \in Wrappers /\ vt[o] \in Types
  BY DEF IInv, TypeOK
<1>2. \A b \in Threads : o \notin Writes(act[b])
  BY IdleFrame DEF Apart
<1>3. Live(mem, vt[o], o) /\ v \in Vals
  BY <1>1, <1>2, SourceIsLive
<1> HIDE DEF v
<1>4. defined'
  BY <1>3 DEF Clone, Must, IInv
<1>5. PICK c : Builds(a, op, w, o, vt[o], s, c, v)
  BY DEF Clone, Builds, v
<1>6. Apart(a, {w}, {}) /\ Apart(a, {}, {o})
  BY DEF Apart
<1>7. IInv' /\ Entered(s, c)
  BY <1>1, <1>3, <1>4, <1>5, <1>6, BuildsStep
<1> QED BY <1>5, <1>7 DEF v

\* Every operation a thread can begin keeps the invariant.
LEMMA BeginStep ==
  ASSUME IInv, NEW a \in Threads, Begin(a)
  PROVE  IInv'
<1>1. /\ act[a] = Idle /\ alive \subseteq Wrappers /\ mem \in Memory
      /\ vt \in [Wrappers -> Types \cup {NoType}]
      /\ \A u \in Wrappers \ alive : vt[u] = NoType
  BY DEF Begin, IInv, TypeOK, Unborn
<1>2. Null \notin Wrappers /\ a \notin Wrappers /\ NoType \notin Types
  BY DistinctAssumption
<1>3. ASSUME NEW w \in Wrappers, Apart(a, {w}, {}), DefaultConstruct(a, w)
      PROVE  IInv'
  <2>1. Appears(w)
    BY <1>1, <1>3 DEF DefaultConstruct, Appears
  <2> QED BY <1>1, <1>3, <2>1, AppearsStep
<1>4. ASSUME NEW w \in Wrappers, Apart(a, {w}, {}),
             NEW t \in Types, NEW v \in Vals, Construct(a, w, t, v)
      PROVE  IInv'
  <2>1. w \notin alive /\ defined'
    BY <1>4 DEF Construct, IInv
  <2>2. PICK c : Builds(a, "construct", w, Null, t, w, c, v)
    BY <1>4 DEF Construct, Builds
  <2> QED BY <1>1, <1>2, <1>4, <2>1, <2>2, BuildsStep
<1>5. ASSUME NEW w \in Wrappers, Apart(a, {w}, {}), Reset(a, w)
      PROVE  IInv'
  <2>1. /\ w \in alive /\ vt[w] # NoType
        /\ BeginKill(a, "reset", w, Null, NoType, mem) /\ UNCHANGED <<alive, vt>>
    BY <1>5 DEF Reset
  <2>2. {Null} \ {Null} = {}
    OBVIOUS
  <2> QED BY <1>1, <1>5, <2>1, <2>2, KillBegins
<1>6. ASSUME NEW w \in Wrappers, Apart(a, {w}, {}), Destroy(a, w)
      PROVE  IInv'
  <2>1. CASE vt[w] = NoType
    <3>1. Appears(w)
      BY <1>6, <2>1 DEF Destroy, Appears
    <3> QED BY <1>1, <1>6, <3>1, AppearsStep
  <2>2. CASE vt[w] # NoType
    <3>1. /\ w \in alive
          /\ BeginKill(a, "destroy", w, Null, NoType, mem) /\ UNCHANGED <<alive, vt>>
      BY <1>6, <2>2 DEF Destroy
    <3>2. {Null} \ {Null} = {}
      OBVIOUS
    <3> QED BY <1>1, <1>6, <2>2, <3>1, <3>2, KillBegins
  <2> QED BY <2>1, <2>2
<1>7. ASSUME NEW w \in Wrappers, NEW o \in Wrappers, Apart(a, {w}, {o}), CopyConstruct(a, w, o)
      PROVE  IInv'
  <2>1. w \notin alive /\ o \in alive
    BY <1>7 DEF CopyConstruct
  <2>2. CASE vt[o] = NoType
    <3>1. Appears(w) /\ Apart(a, {w}, {})
      BY <1>1, <1>7, <2>1, <2>2 DEF CopyConstruct, Appears, Apart
    <3> QED BY <1>1, <3>1, AppearsStep
  <2>3. CASE vt[o] # NoType
    <3>1. Clone(a, "copyctor", w, o, w) /\ UNCHANGED <<alive, vt>>
      BY <1>7, <2>3 DEF CopyConstruct
    <3> QED BY <1>1, <1>7, <2>1, <2>3, <3>1, CloneStep
  <2> QED BY <2>2, <2>3
<1>8. ASSUME NEW w \in Wrappers, NEW o \in Wrappers, Apart(a, {w}, {o}), CopyAssign(a, w, o)
      PROVE  IInv'
  <2>1. w \in alive /\ o \in alive /\ w # o
    BY <1>8 DEF CopyAssign
  <2>2. CASE vt[o] = NoType
    <3>1. /\ vt[w] # NoType /\ UNCHANGED <<alive, vt>>
          /\ BeginKill(a, "reset", w, o, NoType, mem)
      BY <1>8, <2>2 DEF CopyAssign
    <3>2. {o} \ {Null} = {o}
      BY <1>2
    <3> QED BY <1>1, <1>8, <2>1, <3>1, <3>2, KillBegins
  <2>3. CASE vt[o] # NoType
    <3>1. Clone(a, "copyassign", w, o, a) /\ UNCHANGED <<alive, vt>>
      BY <1>8, <2>3 DEF CopyAssign
    <3> QED BY <1>1, <1>8, <2>1, <2>3, <3>1, CloneStep
  <2> QED BY <2>2, <2>3
<1>9. ASSUME NEW w \in Wrappers, NEW o \in Wrappers, Apart(a, {w, o}, {}),
             MoveConstruct(a, w, o)
      PROVE  IInv'
  <2>1. w \notin alive /\ o \in alive /\ mem' = Fresh(mem, w) /\ vt[w] = NoType
    BY <1>1, <1>9 DEF MoveConstruct
  <2>2. CASE vt[o] = NoType
    <3>1. Appears(w) /\ Apart(a, {w}, {})
      BY <1>9, <2>1, <2>2 DEF MoveConstruct, Appears, Apart
    <3> QED BY <1>1, <3>1, AppearsStep
  <2>3. CASE vt[o] # NoType
    <3>1. /\ BeginsMove(a, "movector", w, o, vt[o], w, o, NoType, NoType)
          /\ defined'
      BY <1>9, <2>1, <2>3 DEF MoveConstruct, BeginsMove, IInv
    <3>2. vt[o] \in Types
      BY <1>1, <2>1, <2>3
    <3>3. FrameOK(a, Moving("movector", w, o, vt[o], w, o, NoType, NoType), alive, vt, mem')
      BY <3>2, <2>1 DEF FrameOK, Moving, Moves
    <3> QED BY <1>1, <1>2, <1>9, <2>1, <3>1, <3>2, <3>3, MoveBegins
  <2> QED BY <2>2, <2>3
<1>10. ASSUME NEW w \in Wrappers, NEW o \in Wrappers, Apart(a, {w, o}, {}),
              MoveAssign(a, w, o)
       PROVE  IInv'
  <2>1. w \in alive /\ o \in alive /\ w # o
    BY <1>10 DEF MoveAssign
  <2>2. CASE vt[w] # NoType
    <3>1. BeginKill(a, "moveassign", w, o, NoType, mem) /\ UNCHANGED <<alive, vt>>
      BY <1>10, <2>2 DEF MoveAssign
    <3>2. Apart(a, {w}, {o} \ {Null})
      BY <1>10, WritesAreUses DEF Apart
    <3> QED BY <1>1, <1>10, <2>1, <2>2, <3>1, <3>2, KillBegins
  <2>3. CASE vt[w] = NoType
    <3>1. /\ BeginsMove(a, "moveassign", w, o, vt[o], w, o, NoType, NoType)
          /\ vt[o] # NoType /\ defined'
      BY <1>10, <2>3 DEF MoveAssign, BeginsMove, IInv
    <3>2. vt[o] \in Types
      BY <1>1, <2>1, <3>1
    <3>3. FrameOK(a, Moving("moveassign", w, o, vt[o], w, o, NoType, NoType), alive, vt, mem')
      BY <3>2, <2>1, <2>3 DEF FrameOK, Moving, Moves
    <3> QED BY <1>1, <1>2, <1>10, <2>1, <2>3, <3>1, <3>2, <3>3, MoveBegins
  <2> QED BY <2>2, <2>3
<1>11. ASSUME NEW w \in Wrappers, NEW o \in Wrappers, Apart(a, {w, o}, {}), Swap(a, w, o)
       PROVE  IInv'
  <2>1. /\ w \in alive /\ o \in alive /\ w # o /\ defined'
        /\ vt[w] \in Types \cup {NoType} /\ vt[o] \in Types \cup {NoType}
    BY <1>1, <1>11 DEF Swap, IInv
  <2>2. CASE /\ vt[w] # NoType /\ vt[o] # NoType
             /\ BeginsMove(a, "swap", w, o, vt[w], a, w, vt[w], vt[o])
    <3>1. FrameOK(a, Moving("swap", w, o, vt[w], a, w, vt[w], vt[o]), alive, vt, mem')
      BY <2>1, <2>2 DEF FrameOK, Moving, Legs, Moves
    <3> QED BY <1>1, <1>2, <1>11, <2>1, <2>2, <3>1, MoveBegins
  <2>3. CASE /\ vt[w] # NoType /\ vt[o] = NoType
             /\ BeginsMove(a, "swap", w, o, vt[w], o, w, vt[w], vt[o])
    <3>1. FrameOK(a, Moving("swap", w, o, vt[w], o, w, vt[w], vt[o]), alive, vt, mem')
      BY <2>1, <2>3 DEF FrameOK, Moving, Legs, Moves
    <3> QED BY <1>1, <1>2, <1>11, <2>1, <2>3, <3>1, MoveBegins
  <2>4. CASE /\ vt[w] = NoType /\ vt[o] # NoType
             /\ BeginsMove(a, "swap", w, o, vt[o], w, o, vt[w], vt[o])
    <3>1. FrameOK(a, Moving("swap", w, o, vt[o], w, o, vt[w], vt[o]), alive, vt, mem')
      BY <2>1, <2>4 DEF FrameOK, Moving, Legs, Moves
    <3> QED BY <1>1, <1>2, <1>11, <2>1, <2>4, <3>1, MoveBegins
  <2> QED BY <1>11, <2>2, <2>3, <2>4 DEF Swap, BeginsMove
<1>12. ASSUME NEW w \in Wrappers, Call(a, w),
              IF vt[w] \in Mutable /\ ~ShareCalls THEN Apart(a, {w}, {}) ELSE Apart(a, {}, {w})
       PROVE  IInv'
  BY <1>1, <1>12, CallBegins
<1> QED
  BY <1>3, <1>4, <1>5, <1>6, <1>7, <1>8, <1>9, <1>10, <1>11, <1>12 DEF Begin

\* The heap pointers each update changes.
LEMMA PtrFields ==
  ASSUME NEW m \in Memory
  PROVE  /\ \A t, c : \A s, u \in Slots : u # s => EndNew(m, t, s, c).ptr[u] = m.ptr[u]
         /\ \A c : Erase(m, c).ptr = m.ptr
         /\ \A c : Called(m, c).ptr = m.ptr
         /\ \A c, life : Mark(m, c, life).ptr = m.ptr
         /\ \A dst, src, u \in Slots : u # dst => Relocate(m, dst, src).ptr[u] = m.ptr[u]
         /\ \A dst, src, u \in Slots :
              u # dst /\ u # src => Transfer(m, dst, src).ptr[u] = m.ptr[u]
<1>1. \A c : Erase(m, c).ptr = m.ptr
  BY DEF Erase, Put, Memory
<1>2. \A c : Called(m, c).ptr = m.ptr
  BY DEF Called, Put, Memory
<1>3. \A c, life : Mark(m, c, life).ptr = m.ptr
  BY DEF Mark, Memory
<1>4. \A t, c : \A s, u \in Slots : u # s => EndNew(m, t, s, c).ptr[u] = m.ptr[u]
  BY DEF EndNew, Mark, Point, Memory
<1>5. \A dst, src, u \in Slots : u # dst => Relocate(m, dst, src).ptr[u] = m.ptr[u]
  BY DEF Relocate, Mark, Put, Point, Memory
<1>6. \A dst, src, u \in Slots :
        u # dst /\ u # src => Transfer(m, dst, src).ptr[u] = m.ptr[u]
  BY DEF Transfer, Point, Memory
<1> QED BY <1>1, <1>2, <1>3, <1>4, <1>5, <1>6

\* Thread a goes on to frame g, within the Functions its operation changes.
Proceeds(a, g) ==
  /\ act' \in [Threads -> Frame] /\ act'[a] = g
  /\ \A b \in Threads \ {a} : act'[b] = act[b]
  /\ g = Idle \/ (Writes(g) = Writes(act[a]) /\ Uses(g) \subseteq Uses(act[a]))
  /\ alive' \in SUBSET Wrappers /\ vt' \in [Wrappers -> Types \cup {NoType}]
  /\ \A w \in Wrappers \ Writes(act[a]) : (w \in alive' <=> w \in alive) /\ vt'[w] = vt[w]

\* An operation that goes on uses the Functions it already used.
LEMMA ProceedsApart ==
  ASSUME IInv, NEW a \in Threads, NEW g, Proceeds(a, g)
  PROVE  \A b \in Threads \ {a} : /\ Writes(g) \cap Uses(act[b]) = {}
                                 /\ Uses(g) \cap Writes(act[b]) = {}
<1>1. \A b \in Threads \ {a} : /\ Writes(act[a]) \cap Uses(act[b]) = {}
                               /\ Uses(act[a]) \cap Writes(act[b]) = {}
  BY DEF IInv, Exclusive
<1>2. Writes(g) \subseteq Writes(act[a]) /\ Uses(g) \subseteq Uses(act[a])
  BY IdleFrame DEF Proceeds
<1> QED BY <1>1, <1>2

\* Who keeps which callable before and after an operation goes on: only its own slots change.
LEMMA ProceedsKeepers ==
  ASSUME IInv, NEW a \in Threads, NEW g, Proceeds(a, g)
  PROVE  /\ Keepers[a] = Keeps(act[a], a, a, NoType)
         /\ Keepers'[a] = Keeps(g, a, a, NoType)
         /\ \A w \in Wrappers :
              w \in Writes(act[a]) => /\ Keepers[w] = Keeps(act[a], a, w, vt[w])
                                      /\ Keepers'[w] = Keeps(g, a, w, vt'[w])
         /\ \A s \in Slots : s # a /\ s \notin Writes(act[a]) => Keepers'[s] = Keepers[s]
         /\ OthersBusy(a, Cells, Lives, Kinds, Cells', Lives', Kinds')
         /\ Cells[a] = CellOf(act[a]) /\ Lives[a] = LifeOf(act[a]) /\ Kinds[a] = act[a].ty
         /\ Cells'[a] = CellOf(g) /\ Lives'[a] = LifeOf(g) /\ Kinds'[a] = g.ty
<1>1. \A b \in Threads \ {a} : /\ Writes(g) \cap Uses(act[b]) = {}
                               /\ Uses(g) \cap Writes(act[b]) = {}
  BY ProceedsApart
<1>2. Writes(act[a]) \cup Writes(g) = Writes(act[a])
  BY IdleFrame DEF Proceeds
<1>3. /\ act'[a] = g /\ \A b \in Threads \ {a} : act'[b] = act[b]
      /\ act[a] = Idle \/ g = Idle \/ Writes(g) = Writes(act[a])
      /\ \A w \in Wrappers : w \notin Writes(act[a]) \cup Writes(g) => vt'[w] = vt[w]
  BY <1>2 DEF Proceeds
<1> QED BY <1>1, <1>2, <1>3, KeepersStep DEF IInv

\* An operation that goes on keeps the invariant if its own frame and memory do.
LEMMA ProceedsStep ==
  ASSUME IInv, NEW a \in Threads, NEW g, Proceeds(a, g),
         \A w \in Wrappers \ Writes(act[a]) : mem'.ptr[w] = mem.ptr[w],
         FrameOK(a, g, alive', vt', mem'), Unborn',
         Consistent(mem', Keepers', Cells', Lives', Kinds'), defined'
  PROVE  IInv'
<1>1. \A b \in Threads \ {a} : /\ Writes(g) \cap Uses(act[b]) = {}
                               /\ Uses(g) \cap Writes(act[b]) = {}
  BY ProceedsApart
<1>2. \A b \in Threads \ {a} : \A w \in Uses(act[b]) \cap Wrappers :
        /\ w \in alive' <=> w \in alive
        /\ vt'[w] = vt[w]
        /\ mem'.ptr[w] = mem.ptr[w]
  BY DEF Proceeds, IInv, Exclusive
<1> QED BY <1>1, <1>2, StepKeepsInvariant DEF Proceeds

\* The invariant says so of every operation in progress.
LEMMA IsFramed == IInv => Framed
BY DEF IInv, Framed

\* A thread in the constructor of a new callable.
LEMMA BuildFrame ==
  ASSUME Framed, NEW a \in Threads, act[a].at = "build"
  PROVE  /\ act[a].op \in {"construct", "copyctor", "copyassign"}
         /\ act[a].this \in Wrappers /\ act[a].ty \in Types /\ act[a].ty # NoType
         /\ act[a].cell \in Loc /\ act[a].cell # Null
         /\ Writes(act[a]) = {act[a].this} /\ Uses(act[a]) = {act[a].this, act[a].other} \ {Null}
         /\ Cells[a] = act[a].cell /\ Lives[a] = "raw" /\ Kinds[a] = act[a].ty
         /\ \A r, x : Keeps(act[a], a, r, x) = x
         /\ act[a].op # "copyassign" =>
              /\ act[a].this \notin alive /\ CellFor(act[a].ty, act[a].cell, act[a].this)
              /\ vt[act[a].this] = NoType
              /\ act[a].op = "copyctor" => vt[act[a].other] = act[a].ty
         /\ act[a].op = "copyassign" =>
              /\ act[a].this \in alive /\ act[a].other \in alive
              /\ act[a].this # act[a].other /\ CellFor(act[a].ty, act[a].cell, a)
              /\ vt[act[a].other] = act[a].ty
<1>1. FrameOK(a, act[a], alive, vt, mem) /\ act[a] # Idle /\ alive \subseteq Wrappers
  BY DEF Framed, Frames, TypeOK, Idle, Doing
<1>2. /\ act[a].op \in {"construct", "copyctor", "copyassign"}
      /\ act[a].this \in Wrappers /\ act[a].ty \in Types
  BY <1>1 DEF FrameOK, Kills, Legs, Moves
<1>3. /\ act[a].op # "copyassign" =>
           /\ act[a].this \notin alive /\ CellFor(act[a].ty, act[a].cell, act[a].this)
           /\ act[a].op = "copyctor" => vt[act[a].other] = act[a].ty
      /\ act[a].op = "copyassign" =>
           /\ act[a].this \in alive /\ act[a].other \in alive
           /\ act[a].this # act[a].other /\ CellFor(act[a].ty, act[a].cell, a)
           /\ vt[act[a].other] = act[a].ty
  BY <1>1, <1>2 DEF FrameOK, Kills, Moves
<1>4. act[a].cell \in Loc /\ act[a].cell # Null /\ act[a].ty # NoType
  BY <1>2, <1>3, DistinctAssumption DEF CellFor, Loc, Slots
<1>5. Writes(act[a]) = {act[a].this} /\ Uses(act[a]) = {act[a].this, act[a].other} \ {Null}
  BY <1>2 DEF Writes, Uses
<1>6. Cells[a] = act[a].cell /\ Lives[a] = "raw" /\ Kinds[a] = act[a].ty
  BY DEF Cells, Lives, Kinds, CellOf, LifeOf
<1>7. \A r, x : Keeps(act[a], a, r, x) = x
  BY DEF Keeps
<1>8. act[a].op # "copyassign" => vt[act[a].this] = NoType
  BY <1>2, <1>3 DEF Framed, Unborn
<1> QED BY <1>2, <1>3, <1>4, <1>5, <1>6, <1>7, <1>8

\* The constructor throws.
LEMMA ThrowBuildStep ==
  ASSUME IInv, NEW a \in Threads, ThrowBuild(a)
  PROVE  IInv' /\ Keepers' = Keepers
<1>1. act[a].at = "build" /\ mem' = Erase(mem, act[a].cell) /\ act' = [act EXCEPT ![a] = Idle]
  BY DEF ThrowBuild, Go
<1>2. alive' = alive /\ vt' = vt /\ defined' = defined
  BY DEF ThrowBuild
<1>3. Proceeds(a, Idle)
  BY <1>1, <1>2, IdleFrame DEF Proceeds, IInv, TypeOK
<1>4. /\ Cells[a] = act[a].cell /\ Cells[a] # Null
      /\ \A r, x : Keeps(act[a], a, r, x) = x
  BY <1>1, BuildFrame, IsFramed
<1>5. Keepers' = Keepers
  <2>1. \A r \in Slots : Keepers'[r] = Keepers[r]
    <3>1. /\ Keepers[a] = Keeps(act[a], a, a, NoType) /\ Keepers'[a] = Keeps(Idle, a, a, NoType)
          /\ \A w \in Wrappers :
               w \in Writes(act[a]) => /\ Keepers[w] = Keeps(act[a], a, w, vt[w])
                                       /\ Keepers'[w] = Keeps(Idle, a, w, vt'[w])
          /\ \A s \in Slots : s # a /\ s \notin Writes(act[a]) => Keepers'[s] = Keepers[s]
      BY <1>3, ProceedsKeepers
    <3>2. Writes(act[a]) = {act[a].this} /\ act[a].this \in Wrappers
      BY <1>1, BuildFrame, IsFramed
    <3> QED BY <1>2, <1>4, <3>1, <3>2, IdleFrame
  <2> QED BY <2>1 DEF Keepers
<1>6. Cells'[a] = Null /\ OthersBusy(a, Cells, Lives, Kinds, Cells', Lives', Kinds')
  BY <1>3, IdleFrame, ProceedsKeepers
<1>7. Consistent(mem, Keepers, Cells, Lives, Kinds) /\ mem \in Memory
  BY DEF IInv, Consistent
<1>8. Consistent(Erase(mem, Cells[a]), Keepers, Cells', Lives', Kinds')
  BY <1>4, <1>6, <1>7, EraseConsistent
<1>9. Consistent(mem', Keepers', Cells', Lives', Kinds')
  BY <1>1, <1>4, <1>5, <1>8
<1>10. mem'.ptr = mem.ptr
  BY <1>1, <1>7, PtrFields
<1>11. FrameOK(a, Idle, alive', vt', mem') /\ Unborn' /\ defined'
  BY <1>2 DEF FrameOK, IInv, Unborn
<1> QED BY <1>3, <1>5, <1>9, <1>10, <1>11, ProceedsStep

\* What an operation goes on to is a frame of the same operation.
LEMMA OnwardFrame ==
  ASSUME NEW f \in Frame, f.op \in Ops, f.this \in Wrappers, f.other \in Wrappers,
         NEW t \in Types \cup {NoType}, NEW dst \in Slots, NEW src \in Slots
  PROVE  LET g == Onward(f, t, dst, src)
         IN  /\ g \in Frame
             /\ g = [op |-> f.op, at |-> "move", this |-> f.this, other |-> f.other, ty |-> t,
                     cell |-> Null, dst |-> dst, src |-> src, mine |-> f.mine,
                     theirs |-> f.theirs]
             /\ CellOf(g) = Null /\ Uses(g) = Uses(f)
             /\ f.op # "call" => Writes(g) = Writes(f)
BY DistinctAssumption DEF Onward, Moving, Frame, CellOf, Uses, Writes

\* The new callable of a new Function is complete.
LEMMA ConstructedStep ==
  ASSUME IInv, NEW a \in Threads, FinishBuild(a), act[a].op # "copyassign"
  PROVE  /\ IInv' /\ Keepers'[act[a].this] = act[a].ty
         /\ \A r \in Slots \ {act[a].this} : Keepers'[r] = Keepers[r]
<1> DEFINE w == act[a].this
           t == act[a].ty
           c == act[a].cell
<1>1. /\ act[a].at = "build" /\ mem' = EndNew(mem, t, w, c) /\ act' = [act EXCEPT ![a] = Idle]
      /\ vt' = [vt EXCEPT ![w] = IF act[a].op = "construct" THEN t ELSE vt[act[a].other]]
      /\ alive' = alive \cup {w} /\ defined' = defined
  BY DEF FinishBuild, Go
<1>2. /\ w \in Wrappers /\ t \in Types /\ t # NoType /\ c # Null
      /\ Writes(act[a]) = {w} /\ Cells[a] = c /\ Lives[a] = "raw" /\ Kinds[a] = t
      /\ CellFor(t, c, w) /\ vt[w] = NoType
      /\ \A r, x : Keeps(act[a], a, r, x) = x
      /\ act[a].op # "construct" => vt[act[a].other] = t
  BY <1>1, BuildFrame, IsFramed
<1> HIDE DEF w, t, c
<1>3. vt' = [vt EXCEPT ![w] = t]
  BY <1>1, <1>2
<1>4. Proceeds(a, Idle)
  BY <1>1, <1>2, <1>3, IdleFrame DEF Proceeds, IInv, TypeOK
<1>5. /\ Keepers[a] = Keeps(act[a], a, a, NoType) /\ Keepers'[a] = Keeps(Idle, a, a, NoType)
      /\ \A u \in Wrappers :
           u \in Writes(act[a]) => /\ Keepers[u] = Keeps(act[a], a, u, vt[u])
                                   /\ Keepers'[u] = Keeps(Idle, a, u, vt'[u])
      /\ \A s \in Slots : s # a /\ s \notin Writes(act[a]) => Keepers'[s] = Keepers[s]
      /\ OthersBusy(a, Cells, Lives, Kinds, Cells', Lives', Kinds')
      /\ Cells'[a] = CellOf(Idle)
  BY <1>4, ProceedsKeepers
<1>6. /\ Keepers[w] = NoType /\ Keepers'[w] = t /\ Cells'[a] = Null /\ w \in Slots
      /\ \A r \in Slots \ {w} : Keepers'[r] = Keepers[r]
  BY <1>2, <1>3, <1>5, IdleFrame DEF IInv, TypeOK, Slots
<1>7. Consistent(mem, Keepers, Cells, Lives, Kinds) /\ mem \in Memory
  BY DEF IInv, Consistent
<1>8. Consistent(EndNew(mem, t, w, Cells[a]), Keepers', Cells', Lives', Kinds')
  BY <1>2, <1>5, <1>6, <1>7, EndNewConsistent
<1>9. Consistent(mem', Keepers', Cells', Lives', Kinds')
  BY <1>1, <1>2, <1>8
<1>10. \A u \in Wrappers \ Writes(act[a]) : mem'.ptr[u] = mem.ptr[u]
  BY <1>1, <1>2, <1>7, PtrFields DEF Slots
<1>11. FrameOK(a, Idle, alive', vt', mem') /\ Unborn' /\ defined'
  BY <1>1, <1>2, <1>3 DEF FrameOK, IInv, TypeOK, Unborn
<1>12. IInv'
  BY <1>4, <1>9, <1>10, <1>11, ProceedsStep
<1> QED BY <1>6, <1>12 DEF w, t

\* The clone of a copy assignment is complete in tmp: nothing is there to
\* replace, or the destructor of what is there is entered.
LEMMA ClonedStep ==
  ASSUME IInv, NEW a \in Threads, FinishBuild(a), act[a].op = "copyassign"
  PROVE  /\ IInv' /\ Keepers'[a] = act[a].ty
         /\ \A r \in Slots \ {a, act[a].this} : Keepers'[r] = Keepers[r]
<1> DEFINE f == act[a]
           w == act[a].this
           t == act[a].ty
           m == EndNew(mem, t, a, f.cell)
           K == [Keepers EXCEPT ![a] = t]
           C == [Cells EXCEPT ![a] = Null]
<1>1. /\ f.at = "build" /\ alive' = alive /\ vt' = vt
      /\ IF vt[w] # NoType
           THEN BeginKill(a, "copyassign", w, f.other, t, m)
           ELSE mem' = m /\ Go(a, Onward(f, vt[f.other], w, a)) /\ UNCHANGED defined
  BY DEF FinishBuild
<1>2. /\ w \in Wrappers /\ t \in Types /\ t # NoType /\ f.cell # Null
      /\ Writes(f) = {w} /\ Uses(f) = {w, f.other} \ {Null}
      /\ Cells[a] = f.cell /\ Lives[a] = "raw" /\ Kinds[a] = t
      /\ CellFor(t, f.cell, a)
      /\ \A r, x : Keeps(f, a, r, x) = x
      /\ w \in alive /\ f.other \in alive /\ w # f.other /\ vt[f.other] = t
  BY <1>1, BuildFrame, IsFramed
<1>3. /\ Consistent(mem, Keepers, Cells, Lives, Kinds) /\ mem \in Memory
      /\ f \in Frame /\ alive \in SUBSET Wrappers /\ vt \in [Wrappers -> Types \cup {NoType}]
      /\ a \in Slots /\ w \in Slots /\ a # w /\ f.other \in Wrappers /\ defined
  BY <1>2, DistinctAssumption DEF IInv, TypeOK, Consistent, Slots
<1>4. /\ K[a] = t /\ \A r \in Slots \ {a} : K[r] = Keepers[r]
      /\ C[a] = Null /\ \A b \in Threads \ {a} : C[b] = Cells[b]
  BY <1>3 DEF Keepers, Cells
<1> HIDE DEF K, C, w, t
<1>5. Keepers[a] = NoType /\ Keepers[w] = vt[w]
  <2>1. \A b \in Threads \ {a} : w \notin Writes(act[b])
    BY <1>2, WritesAreUses DEF IInv, Exclusive
  <2>2. KeptIn(act, vt, a) = NoType
    BY <1>2 DEF KeptIn
  <2>3. KeptIn(act, vt, w) = vt[w]
    BY <1>2, <2>1, WriterIsUnique, DistinctAssumption DEF KeptIn, IInv
  <2> QED BY <1>3, <2>2, <2>3 DEF Keepers, Kept
<1>6. Consistent(m, K, C, Lives, Kinds) /\ m \in Memory
  <2>1. OthersBusy(a, Cells, Lives, Kinds, C, Lives, Kinds)
    BY <1>4 DEF OthersBusy
  <2>2. Consistent(EndNew(mem, t, a, Cells[a]), K, C, Lives, Kinds)
    BY <1>2, <1>3, <1>4, <1>5, <2>1, EndNewConsistent
  <2> QED BY <1>2, <2>2 DEF Consistent
<1>7. \A u \in Wrappers : m.ptr[u] = mem.ptr[u]
  BY <1>3, PtrFields, DistinctAssumption DEF Slots
<1> HIDE DEF m
<1>8. CASE vt[w] = NoType
  <2> DEFINE g == Onward(f, t, w, a)
  <2>1. /\ g \in Frame /\ Uses(g) = Uses(f) /\ Writes(g) = Writes(f) /\ CellOf(g) = Null
        /\ g = [op |-> "copyassign", at |-> "move", this |-> w, other |-> f.other, ty |-> t,
                cell |-> Null, dst |-> w, src |-> a, mine |-> f.mine, theirs |-> f.theirs]
    BY <1>2, <1>3, OnwardFrame DEF w, Ops
  <2> HIDE DEF g
  <2>2. mem' = m /\ act' = [act EXCEPT ![a] = g] /\ defined'
    BY <1>1, <1>2, <1>3, <1>8 DEF Go, g
  <2>3. Proceeds(a, g)
    BY <1>1, <1>3, <2>1, <2>2 DEF Proceeds, IInv, TypeOK
  <2>4. /\ Keepers'[a] = Keeps(g, a, a, NoType) /\ Keepers'[w] = Keeps(g, a, w, vt'[w])
        /\ \A s \in Slots : s # a /\ s # w => Keepers'[s] = Keepers[s]
        /\ OthersBusy(a, Cells, Lives, Kinds, Cells', Lives', Kinds')
        /\ Cells'[a] = CellOf(g)
    BY <1>2, <2>3, ProceedsKeepers
  <2>5. Keeps(g, a, a, NoType) = t /\ Keeps(g, a, w, vt[w]) = NoType
    BY <1>3, <2>1 DEF Keeps
  <2>6. Keepers' = K
    BY <1>1, <1>4, <1>5, <1>8, <2>4, <2>5 DEF Keepers, K
  <2>7. /\ \A b \in Threads : Cells'[b] = C[b]
        /\ \A b \in Threads : C[b] # Null => Lives'[b] = Lives[b] /\ Kinds'[b] = Kinds[b]
    BY <1>4, <2>1, <2>4 DEF OthersBusy
  <2>8. Consistent(mem', Keepers', Cells', Lives', Kinds')
    BY <1>6, <2>2, <2>6, <2>7, CellsAgree
  <2>9. FrameOK(a, g, alive', vt', mem')
    BY <1>1, <1>2, <1>8, <2>1 DEF FrameOK, Moves
  <2>10. Unborn'
    BY <1>1 DEF IInv, Unborn
  <2>11. IInv'
    BY <1>7, <2>2, <2>3, <2>8, <2>9, <2>10, ProceedsStep
  <2> QED BY <1>4, <2>6, <2>11 DEF t
<1>9. CASE vt[w] # NoType
  <2> DEFINE l == Place(m, vt[w], w)
             g == Doing("copyassign", "kill", w, f.other, t, l)
  <2>1. vt[w] \in Types /\ K[w] = vt[w]
    BY <1>2, <1>3, <1>4, <1>5, <1>9
  <2>2. LiveAt(m, vt[w], l) /\ l \in Loc
    <3>1. Live(m, vt[w], w)
      BY <1>3, <1>6, <1>9, <2>1 DEF Consistent
    <3> QED BY <3>1 DEF Live, LiveAt
  <2>3. CellFor(vt[w], l, w)
    <3>1. m.ptr[w] \in Heap \cup {Null, Junk}
      BY <1>3, <1>6 DEF Memory
    <3> QED BY <2>2, <3>1, DistinctAssumption DEF Place, CellFor, Loc, Slots
  <2>4. g = [op |-> "copyassign", at |-> "kill", this |-> w, other |-> f.other, ty |-> t,
             cell |-> l, dst |-> Null, src |-> Null, mine |-> NoType, theirs |-> NoType]
    BY DEF Doing
  <2>5. g \in Frame
    BY <1>2, <1>3, <2>2, DoingIsFrame DEF Ops
  <2>6. mem' = Mark(m, l, "dying") /\ act' = [act EXCEPT ![a] = g] /\ defined'
    BY <1>1, <1>3, <1>9, <2>2 DEF BeginKill, Must, Go
  <2> HIDE DEF l, g
  <2>7. Writes(g) = {w} /\ Uses(g) = {w, f.other} \ {Null}
    BY <2>4 DEF Writes, Uses
  <2>8. Proceeds(a, g)
    BY <1>1, <1>2, <1>3, <2>5, <2>6, <2>7 DEF Proceeds, IInv, TypeOK
  <2>9. /\ Keepers'[a] = Keeps(g, a, a, NoType) /\ Keepers'[w] = Keeps(g, a, w, vt'[w])
        /\ \A s \in Slots : s # a /\ s # w => Keepers'[s] = Keepers[s]
        /\ OthersBusy(a, Cells, Lives, Kinds, Cells', Lives', Kinds')
        /\ Cells'[a] = CellOf(g) /\ Lives'[a] = LifeOf(g)
    BY <1>2, <2>8, ProceedsKeepers
  <2>10. Keepers'[w] = NoType /\ \A r \in Slots \ {w} : Keepers'[r] = K[r]
    <3>1. Keeps(g, a, a, NoType) = t /\ Keeps(g, a, w, vt[w]) = NoType
      BY <1>3, <2>4 DEF Keeps
    <3> QED BY <1>1, <1>4, <2>9, <3>1
  <2>11. Cells'[a] = l /\ Lives'[a] = "dying" /\ l = Place(m, K[w], w)
    BY <2>1, <2>4, <2>9 DEF CellOf, LifeOf, l
  <2>12. OthersBusy(a, C, Lives, Kinds, Cells', Lives', Kinds')
    BY <1>4, <2>9 DEF OthersBusy
  <2>13. Consistent(Mark(m, Place(m, K[w], w), "dying"), Keepers', Cells', Lives', Kinds')
    BY <1>3, <1>4, <1>6, <1>9, <2>1, <2>10, <2>11, <2>12, MarkConsistent
  <2>14. Consistent(mem', Keepers', Cells', Lives', Kinds')
    BY <2>6, <2>11, <2>13
  <2>15. \A u \in Wrappers : mem'.ptr[u] = mem.ptr[u]
    BY <1>6, <1>7, <2>6, PtrFields
  <2>16. FrameOK(a, g, alive', vt', mem')
    BY <1>1, <1>2, <1>9, <2>1, <2>3, <2>4 DEF FrameOK, Kills
  <2>17. Unborn'
    BY <1>1 DEF IInv, Unborn
  <2>18. IInv'
    BY <2>6, <2>8, <2>14, <2>15, <2>16, <2>17, ProceedsStep
  <2> QED BY <1>3, <1>4, <2>10, <2>18 DEF w, t
<1> QED BY <1>8, <1>9

\* A thread in the destructor of a callable that reset() removes.
LEMMA KillFrame ==
  ASSUME Framed, NEW a \in Threads, act[a].at = "kill"
  PROVE  /\ act[a].op \in {"copyassign", "reset", "destroy", "moveassign"}
         /\ act[a].this \in alive /\ act[a].cell # Null
         /\ Cells[a] = act[a].cell
         /\ act[a].op \in {"copyassign", "moveassign"} =>
              act[a].other \in alive /\ act[a].this # act[a].other
         /\ act[a].op = "copyassign" => act[a].ty \in Types /\ vt[act[a].other] = act[a].ty
         /\ Writes(act[a]) = IF act[a].op = "moveassign" THEN {act[a].this, act[a].other}
                             ELSE {act[a].this}
         /\ \A r, x : Keeps(act[a], a, r, x) =
              IF r = act[a].this THEN NoType
              ELSE IF r = a /\ act[a].op = "copyassign" THEN act[a].ty ELSE x
<1>1. FrameOK(a, act[a], alive, vt, mem) /\ act[a] # Idle /\ alive \subseteq Wrappers
  BY DEF Framed, Frames, TypeOK, Idle, Doing
<1>2. /\ act[a].op \in {"copyassign", "reset", "destroy", "moveassign"}
      /\ act[a].this \in alive /\ Kills(act[a], vt, act[a].this)
      /\ act[a].op \in {"copyassign", "moveassign"} =>
           act[a].other \in alive /\ act[a].this # act[a].other
      /\ act[a].op = "copyassign" => act[a].ty \in Types /\ vt[act[a].other] = act[a].ty
  BY <1>1 DEF FrameOK, Moves, Legs
<1>3. act[a].cell # Null /\ Cells[a] = act[a].cell
  BY <1>1, <1>2, DistinctAssumption DEF Kills, CellFor, Cells, CellOf
<1>4. Writes(act[a]) = IF act[a].op = "moveassign" THEN {act[a].this, act[a].other}
                       ELSE {act[a].this}
  BY <1>2 DEF Writes
<1>5. \A r, x : Keeps(act[a], a, r, x) =
        IF r = act[a].this THEN NoType
        ELSE IF r = a /\ act[a].op = "copyassign" THEN act[a].ty ELSE x
  BY DEF Keeps
<1> QED BY <1>2, <1>3, <1>4, <1>5

\* The destructor returns and w is empty; g is what the operation goes on to.
Killed(a, g) ==
  /\ act[a].at = "kill"
  /\ mem' = Erase(mem, act[a].cell)
  /\ vt' = [vt EXCEPT ![act[a].this] = NoType]
  /\ alive' = IF act[a].op = "destroy" THEN alive \ {act[a].this} ELSE alive
  /\ act' = [act EXCEPT ![a] = g]
  /\ defined' = defined

\* The destructor reset() called returns: the callable is gone, its keeper keeps nothing.
LEMMA KilledStep ==
  ASSUME IInv, NEW a \in Threads, NEW g \in Frame, Killed(a, g),
         g = Idle \/ (Writes(g) = Writes(act[a]) /\ Uses(g) = Uses(act[a])),
         CellOf(g) = Null,
         Keeps(g, a, a, NoType) = Keeps(act[a], a, a, NoType),
         \A u \in Writes(act[a]) : Keeps(g, a, u, vt'[u]) = Keeps(act[a], a, u, vt[u]),
         FrameOK(a, g, alive', vt', mem')
  PROVE  IInv' /\ Keepers' = Keepers
<1> DEFINE w == act[a].this
<1>1. /\ w \in alive /\ Writes(act[a]) \subseteq Wrappers /\ w \in Writes(act[a])
      /\ Cells[a] = act[a].cell /\ Cells[a] # Null /\ act[a].at = "kill"
  BY KillFrame, IsFramed DEF Killed, IInv, TypeOK
<1>2. /\ mem' = Erase(mem, Cells[a]) /\ vt' = [vt EXCEPT ![w] = NoType]
      /\ alive' = (IF act[a].op = "destroy" THEN alive \ {w} ELSE alive)
      /\ act' = [act EXCEPT ![a] = g] /\ defined' = defined
  BY <1>1 DEF Killed
<1> HIDE DEF w
<1>3. Proceeds(a, g)
  BY <1>1, <1>2 DEF Proceeds, IInv, TypeOK
<1>4. /\ Keepers[a] = Keeps(act[a], a, a, NoType) /\ Keepers'[a] = Keeps(g, a, a, NoType)
      /\ \A u \in Wrappers :
           u \in Writes(act[a]) => /\ Keepers[u] = Keeps(act[a], a, u, vt[u])
                                   /\ Keepers'[u] = Keeps(g, a, u, vt'[u])
      /\ \A s \in Slots : s # a /\ s \notin Writes(act[a]) => Keepers'[s] = Keepers[s]
      /\ OthersBusy(a, Cells, Lives, Kinds, Cells', Lives', Kinds')
      /\ Cells'[a] = CellOf(g)
  BY <1>3, ProceedsKeepers
<1>5. Keepers' = Keepers
  <2>1. \A r \in Slots : Keepers'[r] = Keepers[r]
    BY <1>1, <1>4
  <2> QED BY <2>1 DEF Keepers
<1>6. Consistent(mem, Keepers, Cells, Lives, Kinds) /\ mem \in Memory
  BY DEF IInv, Consistent
<1>7. Consistent(Erase(mem, Cells[a]), Keepers, Cells', Lives', Kinds')
  BY <1>1, <1>4, <1>6, EraseConsistent
<1>8. Consistent(mem', Keepers', Cells', Lives', Kinds')
  BY <1>2, <1>5, <1>7
<1>9. mem'.ptr = mem.ptr
  BY <1>2, <1>6, PtrFields
<1>10. Unborn' /\ defined'
  BY <1>2 DEF IInv, TypeOK, Unborn
<1> QED BY <1>3, <1>5, <1>8, <1>9, <1>10, ProceedsStep

\* The return of that destructor keeps the invariant, whatever the operation.
LEMMA FinishKillStep ==
  ASSUME IInv, NEW a \in Threads, FinishKill(a)
  PROVE  IInv' /\ Keepers' = Keepers
<1> DEFINE f == act[a]
           w == act[a].this
           o == act[a].other
           next == CASE f.op = "copyassign" -> Onward(f, vt'[o], w, a)
                     [] f.op = "moveassign" /\ vt'[o] # NoType -> Onward(f, vt'[o], w, o)
                     [] OTHER -> Idle
<1>1. Killed(a, next)
  BY DEF FinishKill, Killed, Go
<1>2. f.at = "kill"
  BY <1>1 DEF Killed
<1>3. /\ f.op \in {"copyassign", "reset", "destroy", "moveassign"}
      /\ w \in alive
      /\ f.op \in {"copyassign", "moveassign"} => o \in alive /\ w # o
      /\ f.op = "copyassign" => f.ty \in Types /\ vt[o] = f.ty
      /\ Writes(f) = (IF f.op = "moveassign" THEN {w, o} ELSE {w})
      /\ \A r, x : Keeps(f, a, r, x) =
           IF r = w THEN NoType ELSE IF r = a /\ f.op = "copyassign" THEN f.ty ELSE x
  BY <1>2, KillFrame, IsFramed
<1>4. /\ alive \subseteq Wrappers /\ vt \in [Wrappers -> Types \cup {NoType}] /\ f \in Frame
      /\ a \in Slots /\ w \in Slots /\ w \in Wrappers /\ a # w /\ a \notin Wrappers
  BY <1>3, DistinctAssumption DEF IInv, TypeOK, Slots
<1>5. /\ vt' = [vt EXCEPT ![w] = NoType]
      /\ f.op # "destroy" => alive' = alive
  BY <1>1 DEF Killed
<1> HIDE DEF w, o
<1>6. CASE f.op = "copyassign"
  <2> DEFINE g == Onward(f, f.ty, w, a)
  <2>1. next = g
    BY <1>3, <1>4, <1>5, <1>6
  <2>2. /\ g \in Frame /\ Uses(g) = Uses(f) /\ Writes(g) = Writes(f) /\ CellOf(g) = Null
        /\ g = [op |-> "copyassign", at |-> "move", this |-> w, other |-> o, ty |-> f.ty,
                cell |-> Null, dst |-> w, src |-> a, mine |-> f.mine, theirs |-> f.theirs]
    BY <1>3, <1>4, <1>6, OnwardFrame DEF w, o, Ops
  <2> HIDE DEF g
  <2>3. Killed(a, g)
    BY <1>1, <2>1
  <2>4. /\ Keeps(g, a, a, NoType) = f.ty
        /\ \A u \in Writes(f) : Keeps(g, a, u, vt'[u]) = NoType
    BY <1>3, <1>4, <1>6, <2>2 DEF Keeps
  <2>5. FrameOK(a, g, alive', vt', mem')
    BY <1>3, <1>4, <1>5, <1>6, <2>2 DEF FrameOK, Moves
  <2>6. /\ Keeps(f, a, a, NoType) = f.ty
        /\ \A u \in Writes(f) : Keeps(f, a, u, vt[u]) = NoType
    BY <1>3, <1>4, <1>6
  <2> QED BY <2>2, <2>3, <2>4, <2>5, <2>6, KilledStep
<1>7. CASE f.op = "moveassign" /\ vt[o] # NoType
  <2> DEFINE g == Onward(f, vt[o], w, o)
  <2>1. next = g /\ vt'[o] = vt[o] /\ vt[o] \in Types /\ o \in Wrappers /\ o \in Slots
    BY <1>3, <1>4, <1>5, <1>7 DEF Slots
  <2>2. /\ g \in Frame /\ Uses(g) = Uses(f) /\ Writes(g) = Writes(f) /\ CellOf(g) = Null
        /\ g = [op |-> "moveassign", at |-> "move", this |-> w, other |-> o, ty |-> vt[o],
                cell |-> Null, dst |-> w, src |-> o, mine |-> f.mine, theirs |-> f.theirs]
    <3>1. /\ f \in Frame /\ f.op \in Ops /\ f.this = w /\ f.other = o /\ w \in Wrappers
          /\ o \in Wrappers /\ w \in Slots /\ o \in Slots /\ vt[o] \in Types \cup {NoType}
      BY <1>4, <1>7, <2>1 DEF w, o, Ops
    <3> QED BY <1>7, <3>1, OnwardFrame
  <2> HIDE DEF g
  <2>3. Killed(a, g)
    BY <1>1, <2>1
  <2>4. /\ Keeps(g, a, a, NoType) = NoType
        /\ Keeps(g, a, w, vt'[w]) = NoType /\ Keeps(g, a, o, vt'[o]) = vt[o]
    BY <1>3, <1>4, <1>7, <2>1, <2>2 DEF Keeps
  <2>5. FrameOK(a, g, alive', vt', mem')
    BY <1>3, <1>4, <1>5, <1>7, <2>1, <2>2 DEF FrameOK, Moves
  <2>6. /\ Keeps(f, a, a, NoType) = NoType
        /\ Keeps(f, a, w, vt[w]) = NoType /\ Keeps(f, a, o, vt[o]) = vt[o]
    BY <1>3, <1>4, <1>7
  <2>7. \A u \in Writes(f) : Keeps(g, a, u, vt'[u]) = Keeps(f, a, u, vt[u])
    BY <1>3, <1>7, <2>4, <2>6
  <2> QED BY <2>2, <2>3, <2>4, <2>5, <2>6, <2>7, KilledStep
<1>8. CASE f.op # "copyassign" /\ ~(f.op = "moveassign" /\ vt[o] # NoType)
  <2>1. Killed(a, Idle)
    BY <1>1, <1>3, <1>4, <1>5, <1>8
  <2>2. /\ Keeps(f, a, a, NoType) = NoType
        /\ \A u \in Writes(f) : Keeps(f, a, u, vt[u]) = vt'[u]
    BY <1>3, <1>4, <1>5, <1>8
  <2>3. FrameOK(a, Idle, alive', vt', mem')
    BY DEF FrameOK
  <2> QED BY <2>1, <2>2, <2>3, IdleFrame, KilledStep
<1> QED BY <1>6, <1>7, <1>8

\* What slot s keeps once the callable f moves is in f.dst.
Settled(f, b, s, v) == Keeps([f EXCEPT !.at = "retire"], b, s, v)

\* The moves of operation f of thread a: a one-way move, or a leg of a swap of
\* two callables (into tmp, across, out of tmp) or of one.
OneWay(f, a) ==
  /\ f.op \in {"copyassign", "movector", "moveassign"}
  /\ f.dst = f.this /\ f.src = (IF f.op = "copyassign" THEN a ELSE f.other)
  /\ f.ty = vt[f.other] /\ vt[f.this] = NoType
IntoTmp(f, a) == /\ f.op = "swap" /\ f.dst = a /\ f.src = f.this
                 /\ f.ty = f.mine /\ f.theirs \in Types
Across(f, a) == /\ f.op = "swap" /\ f.dst = f.this /\ f.src = f.other /\ f.ty = f.theirs
OutOf(f, a) == /\ f.op = "swap" /\ f.dst = f.other /\ f.ty = f.mine
               /\ f.src = (IF f.theirs = NoType THEN f.this ELSE a)

\* A thread in a vtable's move.
LEMMA MoveFrame ==
  ASSUME Framed, NEW a \in Threads, act[a].at \in {"move", "retire"}
  PROVE  /\ act[a] \in Frame /\ act[a].this \in Wrappers /\ act[a].other \in alive
         /\ act[a].other \in Wrappers /\ act[a].this # act[a].other
         /\ act[a].op # "movector" => act[a].this \in alive
         /\ act[a].op \in {"copyassign", "movector", "moveassign", "swap"}
         /\ Writes(act[a]) = IF act[a].op = "copyassign" THEN {act[a].this}
                             ELSE {act[a].this, act[a].other}
         /\ act[a].ty \in Types
         /\ \/ OneWay(act[a], a) \/ IntoTmp(act[a], a)
            \/ Across(act[a], a) \/ OutOf(act[a], a)
         /\ act[a].op = "swap" => /\ act[a].mine = vt[act[a].this]
                                  /\ act[a].theirs = vt[act[a].other]
         /\ act[a].at = "retire" => fits(act[a].ty) /\ act[a].cell = act[a].src
<1>1. /\ FrameOK(a, act[a], alive, vt, mem) /\ act[a] # Idle /\ act[a] \in Frame
      /\ alive \subseteq Wrappers
  BY DEF Framed, Frames, TypeOK, Idle, Doing
<1>2. /\ act[a].op \in {"copyassign", "movector", "moveassign", "swap"}
      /\ act[a].this \in Wrappers /\ act[a].other \in alive
      /\ act[a].op # "movector" => act[a].this \in alive
      /\ act[a].this # act[a].other
  BY <1>1 DEF FrameOK, Kills
<1>3. CASE act[a].op = "swap"
  <2>1. /\ act[a].mine = vt[act[a].this] /\ act[a].theirs = vt[act[a].other]
        /\ Legs(a, act[a], act[a].this, act[a].other)
    BY <1>1, <1>3 DEF FrameOK
  <2>2. /\ IntoTmp(act[a], a) \/ Across(act[a], a) \/ OutOf(act[a], a)
        /\ act[a].ty \in Types
        /\ act[a].at = "retire" => fits(act[a].ty) /\ act[a].cell = act[a].src
    BY <1>3, <2>1, DistinctAssumption DEF Legs, Moves, IntoTmp, Across, OutOf
  <2> QED BY <1>1, <1>2, <1>3, <2>1, <2>2 DEF Writes
<1>4. CASE act[a].op # "swap"
  <2>1. /\ Moves(act[a], vt[act[a].other], act[a].this,
                 IF act[a].op = "copyassign" THEN a ELSE act[a].other)
        /\ act[a].op # "movector" => vt[act[a].this] = NoType
        /\ act[a].op = "movector" => act[a].this \notin alive
    BY <1>1, <1>2, <1>4 DEF FrameOK, Kills
  <2>2. vt[act[a].this] = NoType
    BY <1>2, <2>1 DEF Framed, Unborn
  <2> QED BY <1>1, <1>2, <1>4, <2>1, <2>2 DEF Moves, OneWay, Writes
<1> QED BY <1>3, <1>4

\* What follows a move: the operation ends or goes on to frame g, and every slot
\* keeps what it kept when the move was over.
After(a, g) ==
  /\ g \in Frame /\ act' = [act EXCEPT ![a] = g]
  /\ g = Idle \/ (Writes(g) = Writes(act[a]) /\ Uses(g) = Uses(act[a]))
  /\ CellOf(g) = Null
  /\ Keeps(g, a, a, NoType) = Settled(act[a], a, a, NoType)
  /\ \A u \in Writes(act[a]) : Keeps(g, a, u, vt'[u]) = Settled(act[a], a, u, vt[u])
  /\ vt' \in [Wrappers -> Types \cup {NoType}] /\ alive' \in SUBSET Wrappers
  /\ \A u \in Wrappers \ Writes(act[a]) : (u \in alive' <=> u \in alive) /\ vt'[u] = vt[u]
  /\ \A m : FrameOK(a, g, alive', vt', m)
  /\ Unborn'

\* What follows a completed move is the next leg of the operation or its end.
LEMMA AfterMoveFrame ==
  ASSUME Framed, NEW a \in Threads, act[a].at \in {"move", "retire"}, AfterMove(a, act[a])
  PROVE  \E g : After(a, g)
<1> DEFINE f == act[a]
           w == act[a].this
           o == act[a].other
<1>1. /\ f \in Frame /\ w \in Wrappers /\ o \in alive /\ o \in Wrappers /\ w # o
      /\ f.op # "movector" => w \in alive
      /\ f.op \in {"copyassign", "movector", "moveassign", "swap"}
      /\ Writes(f) = (IF f.op = "copyassign" THEN {w} ELSE {w, o}) /\ f.ty \in Types
      /\ f.op = "swap" => f.mine = vt[w] /\ f.theirs = vt[o]
      /\ OneWay(f, a) \/ IntoTmp(f, a) \/ Across(f, a) \/ OutOf(f, a)
  BY MoveFrame
<1>2. /\ alive \in SUBSET Wrappers /\ vt \in [Wrappers -> Types \cup {NoType}]
      /\ \A u \in Wrappers \ alive : vt[u] = NoType
      /\ a \notin Wrappers /\ NoType \notin Types /\ a \in Slots /\ w \in Slots /\ o \in Slots
  BY <1>1, DistinctAssumption DEF Framed, TypeOK, Unborn, Slots
<1>3. \A s, v : Settled(f, a, s, v) =
        IF s = f.src THEN NoType
        ELSE IF s = f.dst THEN f.ty
        ELSE CASE f.op = "swap" /\ f.src = o /\ s = a -> f.mine
               [] f.op = "swap" /\ f.src = a /\ s = w -> f.theirs
               [] OTHER -> v
  BY <1>1 DEF Settled, Keeps, Frame
<1>4. \A m : FrameOK(a, Idle, alive', vt', m)
  BY DEF FrameOK
<1> HIDE DEF w, o
<1>5. CASE OneWay(f, a)
  <2>1. /\ vt' = (IF f.op = "copyassign" THEN [vt EXCEPT ![w] = vt[o]]
                  ELSE [vt EXCEPT ![w] = vt[o], ![o] = NoType])
        /\ alive' = (IF f.op = "copyassign" THEN alive ELSE alive \cup {w})
        /\ act' = [act EXCEPT ![a] = Idle]
    BY <1>5, <1>1 DEF OneWay, AfterMove, Go, w, o
  <2>2. /\ f.dst = w /\ f.src = (IF f.op = "copyassign" THEN a ELSE o) /\ f.ty = vt[o]
        /\ f.op \in {"copyassign", "movector", "moveassign"}
    BY <1>5 DEF OneWay, w, o
  <2>3. /\ Settled(f, a, a, NoType) = NoType
        /\ \A u \in Writes(f) : vt'[u] = Settled(f, a, u, vt[u])
    BY <1>1, <1>2, <1>3, <2>1, <2>2
  <2>4. Unborn' /\ vt' \in [Wrappers -> Types \cup {NoType}] /\ alive' \in SUBSET Wrappers
    BY <1>1, <1>2, <2>1 DEF Unborn
  <2>5. \A u \in Wrappers \ Writes(f) : (u \in alive' <=> u \in alive) /\ vt'[u] = vt[u]
    BY <1>1, <1>2, <2>1, <2>2
  <2>6. /\ Keeps(Idle, a, a, NoType) = Settled(f, a, a, NoType)
        /\ \A u \in Writes(f) : Keeps(Idle, a, u, vt'[u]) = Settled(f, a, u, vt[u])
    BY <2>3, IdleFrame
  <2>7. After(a, Idle)
    BY <1>4, <2>1, <2>4, <2>5, <2>6, IdleFrame DEF After
  <2> QED BY <2>7
<1>6. CASE IntoTmp(f, a)
  <2> DEFINE g == Onward(f, f.theirs, w, o)
  <2>1. f.op = "swap" /\ f.dst = a /\ f.src = w /\ f.ty = f.mine /\ f.theirs \in Types
    BY <1>6 DEF IntoTmp, w
  <2>2. /\ g \in Frame /\ Uses(g) = Uses(f) /\ Writes(g) = Writes(f) /\ CellOf(g) = Null
        /\ g = [op |-> "swap", at |-> "move", this |-> w, other |-> o, ty |-> f.theirs,
                cell |-> Null, dst |-> w, src |-> o, mine |-> f.mine, theirs |-> f.theirs]
    <3>1. /\ f \in Frame /\ f.op \in Ops /\ f.this = w /\ f.other = o /\ w \in Wrappers
          /\ o \in Wrappers /\ w \in Slots /\ o \in Slots /\ f.theirs \in Types \cup {NoType}
      BY <1>1, <1>2, <2>1 DEF w, o, Ops
    <3> QED BY <2>1, <3>1, OnwardFrame
  <2>3. act' = [act EXCEPT ![a] = g] /\ alive' = alive /\ vt' = vt
    BY <1>1, <1>2, <2>1 DEF AfterMove, Go, w, o
  <2> HIDE DEF g
  <2>4. /\ Keeps(g, a, a, NoType) = f.mine
        /\ Keeps(g, a, w, vt[w]) = NoType /\ Keeps(g, a, o, vt[o]) = f.theirs
    BY <1>1, <1>2, <2>2 DEF Keeps
  <2>5. /\ Settled(f, a, a, NoType) = f.mine
        /\ Settled(f, a, w, vt[w]) = NoType /\ Settled(f, a, o, vt[o]) = f.theirs
    BY <1>1, <1>2, <1>3, <2>1
  <2>6. \A m : FrameOK(a, g, alive, vt, m)
    BY <1>1, <2>1, <2>2 DEF FrameOK, Legs, Moves
  <2>7. After(a, g)
    BY <1>1, <1>2, <2>1, <2>2, <2>3, <2>4, <2>5, <2>6 DEF After, Unborn
  <2> QED BY <2>7
<1>7. CASE Across(f, a) /\ f.mine # NoType
  <2> DEFINE g == Onward(f, f.mine, o, a)
  <2>1. f.op = "swap" /\ f.dst = w /\ f.src = o /\ f.ty = f.theirs /\ f.mine \in Types
    BY <1>1, <1>2, <1>7 DEF Across, w, o
  <2>2. /\ g \in Frame /\ Uses(g) = Uses(f) /\ Writes(g) = Writes(f) /\ CellOf(g) = Null
        /\ g = [op |-> "swap", at |-> "move", this |-> w, other |-> o, ty |-> f.mine,
                cell |-> Null, dst |-> o, src |-> a, mine |-> f.mine, theirs |-> f.theirs]
    <3>1. /\ f \in Frame /\ f.op \in Ops /\ f.this = w /\ f.other = o /\ w \in Wrappers
          /\ o \in Wrappers /\ a \in Slots /\ o \in Slots /\ f.mine \in Types \cup {NoType}
      BY <1>1, <1>2, <2>1 DEF w, o, Ops
    <3> QED BY <2>1, <3>1, OnwardFrame
  <2>3. act' = [act EXCEPT ![a] = g] /\ alive' = alive /\ vt' = vt
    BY <1>1, <1>2, <2>1, <1>7 DEF AfterMove, Go, w, o
  <2> HIDE DEF g
  <2>4. /\ Keeps(g, a, a, NoType) = f.mine
        /\ Keeps(g, a, w, vt[w]) = f.theirs /\ Keeps(g, a, o, vt[o]) = NoType
    BY <1>1, <1>2, <2>2 DEF Keeps
  <2>5. /\ Settled(f, a, a, NoType) = f.mine
        /\ Settled(f, a, w, vt[w]) = f.theirs /\ Settled(f, a, o, vt[o]) = NoType
    BY <1>1, <1>2, <1>3, <2>1
  <2>6. \A m : FrameOK(a, g, alive, vt, m)
    BY <1>1, <2>1, <2>2 DEF FrameOK, Legs, Moves
  <2>7. After(a, g)
    BY <1>1, <1>2, <2>1, <2>2, <2>3, <2>4, <2>5, <2>6 DEF After, Unborn
  <2> QED BY <2>7
<1>8. CASE (Across(f, a) /\ f.mine = NoType) \/ OutOf(f, a)
  <2>1. f.op = "swap" /\ f.mine = vt[w] /\ f.theirs = vt[o]
    BY <1>1, <1>8 DEF Across, OutOf
  <2>2. \/ f.dst = w /\ f.src = o /\ f.ty = f.theirs /\ f.mine = NoType
        \/ f.dst = o /\ f.src = w /\ f.ty = f.mine /\ f.theirs = NoType
        \/ f.dst = o /\ f.src = a /\ f.ty = f.mine /\ f.theirs # NoType
    BY <1>8 DEF Across, OutOf, w, o
  <2>3. /\ vt' = [vt EXCEPT ![w] = f.theirs, ![o] = f.mine] /\ alive' = alive
        /\ act' = [act EXCEPT ![a] = Idle]
    BY <1>1, <1>2, <2>1, <2>2 DEF AfterMove, Go, w, o
  <2>4. /\ Settled(f, a, a, NoType) = NoType
        /\ Settled(f, a, w, vt[w]) = f.theirs /\ Settled(f, a, o, vt[o]) = f.mine
    BY <1>1, <1>2, <1>3, <2>1, <2>2
  <2>5. Writes(f) = {w, o} /\ vt'[w] = f.theirs /\ vt'[o] = f.mine
    BY <1>1, <1>2, <2>1, <2>3
  <2>6. vt' \in [Wrappers -> Types \cup {NoType}] /\ Unborn'
    BY <1>1, <1>2, <2>1, <2>3 DEF Unborn
  <2>7. /\ Keeps(Idle, a, a, NoType) = Settled(f, a, a, NoType)
        /\ \A u \in Writes(f) : Keeps(Idle, a, u, vt'[u]) = Settled(f, a, u, vt[u])
    BY <2>4, <2>5, IdleFrame
  <2>8. \A u \in Wrappers \ Writes(f) : (u \in alive' <=> u \in alive) /\ vt'[u] = vt[u]
    BY <1>2, <2>3, <2>5
  <2>9. After(a, Idle)
    BY <1>2, <1>4, <2>3, <2>6, <2>7, <2>8, IdleFrame DEF After
  <2> QED BY <2>9
<1> QED BY <1>1, <1>5, <1>6, <1>7, <1>8

\* What the slots keep, in terms of Settled, once a move is over.
LEMMA AfterKeepers ==
  ASSUME IInv, NEW a \in Threads, act[a].at \in {"move", "retire"}, NEW g, After(a, g)
  PROVE  /\ Proceeds(a, g)
         /\ \A r \in Slots :
              Keepers'[r] = IF r = a THEN Settled(act[a], a, a, NoType)
                            ELSE IF r \in Writes(act[a]) THEN Settled(act[a], a, r, vt[r])
                            ELSE Keepers[r]
         /\ OthersBusy(a, Cells, Lives, Kinds, Cells', Lives', Kinds') /\ Cells'[a] = Null
<1>1. Writes(act[a]) \subseteq Wrappers
  BY MoveFrame, IsFramed
<1>2. Proceeds(a, g)
  BY DEF After, Proceeds, IInv, TypeOK
<1>3. /\ Keepers'[a] = Keeps(g, a, a, NoType)
      /\ \A w \in Wrappers : w \in Writes(act[a]) => Keepers'[w] = Keeps(g, a, w, vt'[w])
      /\ \A s \in Slots : s # a /\ s \notin Writes(act[a]) => Keepers'[s] = Keepers[s]
      /\ OthersBusy(a, Cells, Lives, Kinds, Cells', Lives', Kinds')
      /\ Cells'[a] = CellOf(g)
  BY <1>2, ProceedsKeepers
<1>4. /\ CellOf(g) = Null
      /\ Keeps(g, a, a, NoType) = Settled(act[a], a, a, NoType)
      /\ \A u \in Writes(act[a]) : Keeps(g, a, u, vt'[u]) = Settled(act[a], a, u, vt[u])
  BY DEF After
<1> QED BY <1>1, <1>2, <1>3, <1>4

\* What the slots keep in a thread's move or after it.
LEMMA MoveKeepers ==
  ASSUME IInv, NEW a \in Threads, act[a].at \in {"move", "retire"}
  PROVE  /\ Keepers[a] = Keeps(act[a], a, a, NoType)
         /\ \A w \in Wrappers : w \in Writes(act[a]) => Keepers[w] = Keeps(act[a], a, w, vt[w])
<1>1. KeptIn(act, vt, a) = Keeps(act[a], a, a, NoType)
  BY DEF KeptIn
<1>2. ASSUME NEW w \in Wrappers, w \in Writes(act[a])
      PROVE  KeptIn(act, vt, w) = Keeps(act[a], a, w, vt[w])
  BY <1>2, WriterIsUnique, DistinctAssumption DEF KeptIn, IInv
<1> QED BY <1>1, <1>2 DEF Keepers, Kept, Slots

\* The destructor of a moved-from callable returns.
LEMMA FinishRetireStep ==
  ASSUME IInv, NEW a \in Threads, FinishRetire(a)
  PROVE  IInv' /\ Keepers' = Keepers
<1>1. /\ act[a].at = "retire" /\ AfterMove(a, act[a])
      /\ mem' = Erase(mem, act[a].cell) /\ defined' = defined
  BY DEF FinishRetire
<1>2. PICK g : After(a, g)
  BY <1>1, AfterMoveFrame, IsFramed
<1>3. /\ act[a].cell = act[a].src /\ act[a].src \in Slots /\ Writes(act[a]) \subseteq Wrappers
      /\ act[a] \in Frame
  BY <1>1, MoveFrame, IsFramed DEF OneWay, IntoTmp, Across, OutOf, Slots
<1>4. Cells[a] = act[a].cell /\ Cells[a] # Null
  BY <1>1, <1>3, DistinctAssumption DEF Cells, CellOf, Slots
<1>5. /\ Proceeds(a, g)
      /\ \A r \in Slots :
           Keepers'[r] = IF r = a THEN Settled(act[a], a, a, NoType)
                         ELSE IF r \in Writes(act[a]) THEN Settled(act[a], a, r, vt[r])
                         ELSE Keepers[r]
      /\ OthersBusy(a, Cells, Lives, Kinds, Cells', Lives', Kinds') /\ Cells'[a] = Null
  BY <1>1, <1>2, AfterKeepers
<1>6. Keepers' = Keepers
  <2>1. \A s, v : Settled(act[a], a, s, v) = Keeps(act[a], a, s, v)
    BY <1>1, <1>3 DEF Settled, Keeps, Frame
  <2>2. \A r \in Slots : Keepers'[r] = Keepers[r]
    BY <1>1, <1>3, <1>5, <2>1, MoveKeepers
  <2> QED BY <2>2 DEF Keepers
<1>7. Consistent(mem, Keepers, Cells, Lives, Kinds) /\ mem \in Memory
  BY DEF IInv, Consistent
<1>8. Consistent(Erase(mem, Cells[a]), Keepers, Cells', Lives', Kinds')
  BY <1>4, <1>5, <1>7, EraseConsistent
<1>9. Consistent(mem', Keepers', Cells', Lives', Kinds')
  BY <1>1, <1>4, <1>6, <1>8
<1>10. mem'.ptr = mem.ptr
  BY <1>1, <1>7, PtrFields
<1>11. FrameOK(a, g, alive', vt', mem') /\ Unborn' /\ defined'
  BY <1>1, <1>2 DEF After, IInv
<1> QED BY <1>5, <1>6, <1>9, <1>10, <1>11, ProceedsStep

\* A vtable's move: what its source and target keep, and that it is defined.
LEMMA MoveIsDefined ==
  ASSUME IInv, NEW a \in Threads, act[a].at = "move"
  PROVE  /\ act[a].src \in Slots /\ act[a].dst \in Slots /\ act[a].src # act[a].dst
         /\ act[a].src \in Writes(act[a]) \cup {a} /\ act[a].dst \in Writes(act[a]) \cup {a}
         /\ Keepers[act[a].src] = act[a].ty /\ Keepers[act[a].dst] = NoType
         /\ Live(mem, act[a].ty, act[a].src) /\ mem.obj[act[a].dst] = NoObject
<1> DEFINE f == act[a]
<1>1. /\ f \in Frame /\ f.this \in Wrappers /\ f.other \in Wrappers /\ f.this # f.other
      /\ Writes(f) = (IF f.op = "copyassign" THEN {f.this} ELSE {f.this, f.other})
      /\ f.ty \in Types
      /\ OneWay(f, a) \/ IntoTmp(f, a) \/ Across(f, a) \/ OutOf(f, a)
  BY MoveFrame, IsFramed
<1>2. a \notin Wrappers /\ a \in Slots /\ Wrappers \subseteq Slots
  BY DistinctAssumption DEF Slots
<1>3. /\ f.src \in Writes(f) \cup {a} /\ f.dst \in Writes(f) \cup {a} /\ f.src # f.dst
  BY <1>1, <1>2 DEF OneWay, IntoTmp, Across, OutOf
<1>4. f.src \in Slots /\ f.dst \in Slots
  BY <1>1, <1>2, <1>3
<1>5. Keepers[f.src] = f.ty /\ Keepers[f.dst] = NoType
  <2>1. \A v : Keeps(f, a, f.src, v) = f.ty /\ Keeps(f, a, f.dst, v) = NoType
    BY <1>3 DEF Keeps
  <2>2. ASSUME NEW s \in Writes(f) \cup {a}
        PROVE  \E v : Keepers[s] = Keeps(f, a, s, v)
    BY <1>1, MoveKeepers
  <2> QED BY <1>3, <2>1, <2>2
<1>6. Consistent(mem, Keepers, Cells, Lives, Kinds)
  BY DEF IInv
<1>7. Live(mem, f.ty, f.src)
  BY <1>1, <1>4, <1>5, <1>6, DistinctAssumption DEF Consistent
<1>8. \A b \in Threads : Cells[b] # f.dst
  <2>1. Cells[a] = Null /\ Null \notin Slots
    BY DistinctAssumption DEF Cells, CellOf, Slots
  <2>2. \A b \in Threads \ {a} : f.dst \notin Uses(act[b]) \cup {b}
    BY <1>1, <1>2, <1>3, WritesAreUses, DistinctAssumption
    DEF IInv, Exclusive, TypeOK, Frame, Uses
  <2> QED BY <1>4, <2>1, <2>2, CellsAreOwn DEF IInv
<1>9. mem.obj[f.dst] = NoObject
  BY <1>4, <1>5, <1>6, <1>8, SlotIsFree
<1> QED BY <1>3, <1>4, <1>5, <1>7, <1>9

\* The keepers of a step that completes the move of thread a.
MovedKeepers(a) ==
  /\ Keepers'[act[a].src] = NoType /\ Keepers'[act[a].dst] = act[a].ty
  /\ \A r \in Slots \ {act[a].src, act[a].dst} : Keepers'[r] = Keepers[r]

\* Who keeps which callable once a move is complete.
LEMMA SettledKeepers ==
  ASSUME IInv, NEW a \in Threads, act[a].at = "move",
         \A r \in Slots :
           Keepers'[r] = IF r = a THEN Settled(act[a], a, a, NoType)
                         ELSE IF r \in Writes(act[a]) THEN Settled(act[a], a, r, vt[r])
                         ELSE Keepers[r]
  PROVE  MovedKeepers(a)
<1> DEFINE f == act[a]
<1>1. /\ f.src \in Slots /\ f.dst \in Slots /\ f.src # f.dst
      /\ f.src \in Writes(f) \cup {a} /\ f.dst \in Writes(f) \cup {a}
  BY MoveIsDefined
<1>2. f \in Frame /\ Writes(f) \subseteq Wrappers
  BY MoveFrame, IsFramed
<1>3. \A s, v : /\ s = f.src => Settled(f, a, s, v) = NoType
                /\ s = f.dst => Settled(f, a, s, v) = f.ty
                /\ s # f.src /\ s # f.dst => Settled(f, a, s, v) = Keeps(f, a, s, v)
  BY <1>1, <1>2 DEF Settled, Keeps, Frame
<1>4. ASSUME NEW r \in Slots \ {f.src, f.dst} PROVE Keepers'[r] = Keepers[r]
  <2>1. r = a => Keepers[r] = Keeps(f, a, r, NoType)
    BY MoveKeepers
  <2>2. r \in Writes(f) => Keepers[r] = Keeps(f, a, r, vt[r])
    BY <1>2, MoveKeepers
  <2> QED BY <1>3, <2>1, <2>2
<1>5. Keepers'[f.src] = NoType /\ Keepers'[f.dst] = f.ty
  BY <1>1, <1>3
<1> QED BY <1>4, <1>5 DEF MovedKeepers

\* A vtable's move: inline, the source's destructor is entered; on the heap, the
\* pointer is handed over and the operation goes on.
LEMMA StepMoveStep ==
  ASSUME IInv, NEW a \in Threads, StepMove(a)
  PROVE  IInv' /\ MovedKeepers(a)
<1> DEFINE f == act[a]
<1>1. /\ f.at = "move"
      /\ defined' = (defined /\ Live(mem, f.ty, f.src) /\ mem.obj[f.dst] = NoObject)
      /\ IF fits(f.ty)
           THEN /\ mem' = Relocate(mem, f.dst, f.src)
                /\ act' = [act EXCEPT ![a] = [f EXCEPT !.at = "retire", !.cell = f.src]]
                /\ alive' = alive /\ vt' = vt
           ELSE mem' = Transfer(mem, f.dst, f.src) /\ AfterMove(a, f)
  BY DEF StepMove, Must, Go
<1>2. /\ f.src \in Slots /\ f.dst \in Slots /\ f.src # f.dst
      /\ f.src \in Writes(f) \cup {a} /\ f.dst \in Writes(f) \cup {a}
      /\ Keepers[f.src] = f.ty /\ Keepers[f.dst] = NoType
      /\ Live(mem, f.ty, f.src) /\ mem.obj[f.dst] = NoObject
  BY <1>1, MoveIsDefined
<1>3. /\ f \in Frame /\ Writes(f) \subseteq Wrappers /\ f.ty \in Types /\ f.ty # NoType
      /\ a \in Slots /\ a \notin Wrappers /\ Wrappers \subseteq Slots
  <2>1. /\ f \in Frame /\ f.ty \in Types /\ f.this \in Wrappers /\ f.other \in Wrappers
        /\ Writes(f) = IF f.op = "copyassign" THEN {f.this} ELSE {f.this, f.other}
    BY <1>1, MoveFrame, IsFramed
  <2> QED BY <2>1, DistinctAssumption DEF Slots
<1>4. /\ Consistent(mem, Keepers, Cells, Lives, Kinds) /\ mem \in Memory /\ defined'
      /\ alive \in SUBSET Wrappers /\ vt \in [Wrappers -> Types \cup {NoType}]
  BY <1>1, <1>2 DEF IInv, TypeOK, Consistent
<1>5. Cells[a] = Null
  BY <1>1 DEF Cells, CellOf
<1>6. CASE fits(f.ty)
  <2> DEFINE g == [f EXCEPT !.at = "retire", !.cell = f.src]
  <2>1. /\ g \in Frame /\ Writes(g) = Writes(f) /\ Uses(g) = Uses(f) /\ g # Idle
        /\ CellOf(g) = f.src /\ LifeOf(g) = "dying"
    BY <1>2, <1>3 DEF Frame, Writes, Uses, CellOf, LifeOf, Idle, Doing, Loc
  <2>2. \A s, v : Keeps(g, a, s, v) = Settled(f, a, s, v)
    BY <1>3 DEF Keeps, Settled, Frame
  <2>3. FrameOK(a, g, alive, vt, mem')
    <3>1. FrameOK(a, f, alive, vt, mem) /\ f # Idle
      BY <1>1 DEF IInv, Frames, Idle, Doing
    <3>2. \A t, dst, src : Moves(f, t, dst, src) => Moves(g, t, dst, src)
      BY <1>1, <1>3, <1>6 DEF Moves, Frame
    <3>3. /\ g.op = f.op /\ g.this = f.this /\ g.other = f.other /\ g.ty = f.ty
          /\ g.mine = f.mine /\ g.theirs = f.theirs
      BY <1>3 DEF Frame
    <3>4. ~Kills(f, vt, f.this)
      BY <1>1 DEF Kills
    <3> HIDE DEF f, g
    <3> QED BY <1>1, <3>1, <3>2, <3>3, <3>4 DEF FrameOK, Legs
  <2>4. /\ mem' = Relocate(mem, f.dst, f.src) /\ act' = [act EXCEPT ![a] = g]
        /\ alive' = alive /\ vt' = vt
    BY <1>1, <1>6
  <2> HIDE DEF g
  <2>5. Proceeds(a, g)
    BY <1>4, <2>1, <2>4 DEF Proceeds, IInv, TypeOK
  <2>6. /\ Keepers'[a] = Keeps(g, a, a, NoType)
        /\ \A w \in Wrappers : w \in Writes(f) => Keepers'[w] = Keeps(g, a, w, vt'[w])
        /\ \A s \in Slots : s # a /\ s \notin Writes(f) => Keepers'[s] = Keepers[s]
        /\ OthersBusy(a, Cells, Lives, Kinds, Cells', Lives', Kinds')
        /\ Cells'[a] = f.src /\ Lives'[a] = "dying"
    BY <2>1, <2>5, ProceedsKeepers
  <2>7. MovedKeepers(a)
    <3>1. \A r \in Slots :
            Keepers'[r] = IF r = a THEN Settled(f, a, a, NoType)
                          ELSE IF r \in Writes(f) THEN Settled(f, a, r, vt[r])
                          ELSE Keepers[r]
      BY <1>3, <2>2, <2>4, <2>6
    <3> QED BY <1>1, <3>1, SettledKeepers
  <2>8. Consistent(Relocate(mem, f.dst, f.src), Keepers', Cells', Lives', Kinds')
    BY <1>2, <1>3, <1>4, <1>5, <1>6, <2>6, <2>7, RelocateConsistent DEF MovedKeepers
  <2>9. \A u \in Wrappers \ Writes(f) : mem'.ptr[u] = mem.ptr[u]
    BY <1>2, <1>3, <1>4, <2>4, PtrFields
  <2>10. FrameOK(a, g, alive', vt', mem') /\ Unborn'
    BY <2>3, <2>4 DEF IInv, Unborn
  <2>11. Consistent(mem', Keepers', Cells', Lives', Kinds')
    BY <2>4, <2>8
  <2> QED BY <1>4, <2>5, <2>7, <2>9, <2>10, <2>11, ProceedsStep
<1>7. CASE ~fits(f.ty)
  <2>1. mem' = Transfer(mem, f.dst, f.src) /\ AfterMove(a, f)
    BY <1>1, <1>7
  <2>2. PICK g : After(a, g)
    BY <1>1, <2>1, AfterMoveFrame, IsFramed
  <2>3. /\ Proceeds(a, g)
        /\ \A r \in Slots :
             Keepers'[r] = IF r = a THEN Settled(f, a, a, NoType)
                           ELSE IF r \in Writes(f) THEN Settled(f, a, r, vt[r])
                           ELSE Keepers[r]
        /\ OthersBusy(a, Cells, Lives, Kinds, Cells', Lives', Kinds') /\ Cells'[a] = Null
    BY <1>1, <2>2, AfterKeepers
  <2>4. MovedKeepers(a)
    BY <1>1, <2>3, SettledKeepers
  <2>5. Consistent(Transfer(mem, f.dst, f.src), Keepers', Cells, Lives, Kinds)
    BY <1>2, <1>3, <1>4, <1>7, <2>4, TransferConsistent DEF MovedKeepers
  <2>6. Consistent(mem', Keepers', Cells', Lives', Kinds')
    <3>1. /\ \A b \in Threads : Cells'[b] = Cells[b]
          /\ \A b \in Threads : Cells[b] # Null => Lives'[b] = Lives[b] /\ Kinds'[b] = Kinds[b]
      BY <1>5, <2>3 DEF OthersBusy
    <3> QED BY <2>1, <2>5, <3>1, CellsAgree
  <2>7. \A u \in Wrappers \ Writes(f) : mem'.ptr[u] = mem.ptr[u]
    BY <1>2, <1>3, <1>4, <2>1, PtrFields
  <2>8. FrameOK(a, g, alive', vt', mem') /\ Unborn'
    BY <2>2 DEF After
  <2> QED BY <1>4, <2>3, <2>4, <2>6, <2>7, <2>8, ProceedsStep
<1> QED BY <1>6, <1>7

\* operator() of a callable returns or throws.
LEMMA FinishCallStep ==
  ASSUME IInv, NEW a \in Threads, FinishCall(a)
  PROVE  /\ IInv' /\ Keepers' = Keepers
         /\ act[a].this \in Wrappers /\ act[a].ty \in Types
         /\ Keepers[act[a].this] = act[a].ty /\ vt[act[a].this] = act[a].ty
         /\ act[a].cell = Place(mem, act[a].ty, act[a].this)
         /\ act[a].op = "call" /\ act[a].this \in alive
<1> DEFINE f == act[a]
<1>1. /\ f.at = "run" /\ mem' \in {mem, Called(mem, f.cell)}
      /\ act' = [act EXCEPT ![a] = Idle] /\ alive' = alive /\ vt' = vt
      /\ defined' = (defined /\ LiveAt(mem, f.ty, f.cell))
  BY DEF FinishCall, Must, Go
<1>2. /\ FrameOK(a, f, alive, vt, mem) /\ f # Idle /\ alive \subseteq Wrappers
      /\ Consistent(mem, Keepers, Cells, Lives, Kinds) /\ mem \in Memory
  BY <1>1 DEF IInv, Frames, TypeOK, Consistent, Idle, Doing
<1>3. /\ f.op = "call" /\ f.this \in alive /\ f.this \in Wrappers /\ f.ty \in Types
      /\ f.ty = vt[f.this] /\ f.cell = Place(mem, f.ty, f.this)
  BY <1>1, <1>2 DEF FrameOK, Kills, Legs, Moves
<1>4. \A s, v : Keeps(f, a, s, v) = v
  BY <1>1, <1>3 DEF Keeps
<1>5. Keepers[f.this] = f.ty
  <2>1. f.this \in Uses(f)
    BY <1>3, DistinctAssumption DEF Uses
  <2>2. \A b \in Threads \ {a} : f.this \notin Writes(act[b])
    BY <2>1 DEF IInv, Exclusive
  <2>3. KeptIn(act, vt, f.this) = f.ty
    BY <1>3, <1>4, <2>2, WriterIsUnique, DistinctAssumption DEF KeptIn, IInv
  <2> QED BY <1>3, <2>3 DEF Keepers, Kept, Slots
<1>6. LiveAt(mem, f.ty, f.cell) /\ f.cell \in Loc
  <2>1. Live(mem, f.ty, f.this)
    BY <1>2, <1>3, <1>5, DistinctAssumption DEF Consistent, Slots
  <2> QED BY <1>3, <2>1 DEF Live, LiveAt
<1>7. Proceeds(a, Idle)
  BY <1>1, IdleFrame DEF Proceeds, IInv, TypeOK
<1>8. /\ Keepers[a] = Keeps(f, a, a, NoType) /\ Keepers'[a] = Keeps(Idle, a, a, NoType)
      /\ \A w \in Wrappers :
           w \in Writes(f) => /\ Keepers[w] = Keeps(f, a, w, vt[w])
                              /\ Keepers'[w] = Keeps(Idle, a, w, vt'[w])
      /\ \A s \in Slots : s # a /\ s \notin Writes(f) => Keepers'[s] = Keepers[s]
      /\ OthersBusy(a, Cells, Lives, Kinds, Cells', Lives', Kinds')
      /\ Cells[a] = CellOf(f) /\ Cells'[a] = CellOf(Idle)
  BY <1>7, ProceedsKeepers
<1>9. Keepers' = Keepers
  <2>1. Writes(f) \subseteq Wrappers
    BY <1>3 DEF Writes
  <2>2. \A r \in Slots : Keepers'[r] = Keepers[r]
    BY <1>1, <1>4, <1>8, <2>1, IdleFrame
  <2> QED BY <2>2 DEF Keepers
<1>10. Consistent(mem', Keepers', Cells', Lives', Kinds')
  <2>1. Consistent(mem', Keepers, Cells, Lives, Kinds)
    <3>1. mem.obj[f.cell] # NoObject
      BY <1>6 DEF LiveAt
    <3>2. Consistent(Called(mem, f.cell), Keepers, Cells, Lives, Kinds)
      BY <1>2, <1>6, <3>1, CalledConsistent
    <3> QED BY <1>1, <1>2, <3>2
  <2>2. Cells[a] = Null /\ Cells'[a] = Null
    BY <1>1, <1>8, IdleFrame DEF CellOf
  <2>3. /\ \A b \in Threads : Cells'[b] = Cells[b]
        /\ \A b \in Threads : Cells[b] # Null => Lives'[b] = Lives[b] /\ Kinds'[b] = Kinds[b]
    BY <1>8, <2>2 DEF OthersBusy
  <2> QED BY <1>9, <2>1, <2>3, CellsAgree
<1>11. mem'.ptr = mem.ptr
  BY <1>1, <1>2, PtrFields
<1>12. FrameOK(a, Idle, alive', vt', mem') /\ Unborn' /\ defined'
  BY <1>1, <1>6 DEF FrameOK, IInv, Unborn
<1> QED BY <1>3, <1>5, <1>7, <1>9, <1>10, <1>11, <1>12, ProceedsStep

-----------------------------------------------------------------------------
(* 5. The invariant and what it implies                                     *)

\* The invariant holds before any Function exists.
LEMMA InitInvariant == Init => IInv
<1> SUFFICES ASSUME Init PROVE IInv
  OBVIOUS
<1>1. /\ alive = {} /\ vt = [w \in Wrappers |-> NoType] /\ mem = EmptyMemory
      /\ act = [a \in Threads |-> Idle] /\ defined = TRUE
  BY DEF Init
<1>2. EmptyMemory \in Memory
  BY DEF EmptyMemory, Memory
<1>3. TypeOK
  BY <1>1, <1>2, IdleFrame DEF TypeOK
<1>4. \A s \in Slots : Keepers[s] = NoType
  <2>1. \A a \in Threads : Writes(act[a]) = {} /\ \A r, x : Keeps(act[a], a, r, x) = x
    BY <1>1, IdleFrame
  <2>2. \A s \in Slots : KeptIn(act, vt, s) = NoType
    BY <1>1, <2>1 DEF KeptIn, Slots
  <2> QED BY <2>2 DEF Keepers, Kept
<1>5. \A a \in Threads : Cells[a] = Null
  BY <1>1, IdleFrame DEF Cells
<1>6. Consistent(mem, Keepers, Cells, Lives, Kinds)
  <2>1. mem \in Memory /\ \A l \in Loc : mem.obj[l] = NoObject
    BY <1>1, <1>2 DEF EmptyMemory
  <2> QED BY <1>4, <1>5, <2>1 DEF Consistent
<1>7. Frames /\ Exclusive(act) /\ Unborn
  BY <1>1, IdleFrame DEF Frames, FrameOK, Exclusive, Unborn
<1> QED BY <1>1, <1>3, <1>6, <1>7 DEF IInv

\* A step that changes nothing.
LEMMA StutterStep == IInv /\ UNCHANGED vars => IInv'
<1> SUFFICES ASSUME IInv, UNCHANGED vars PROVE IInv'
  OBVIOUS
<1>1. alive' = alive /\ vt' = vt /\ mem' = mem /\ act' = act /\ defined' = defined
  BY DEF vars
<1>2. Keepers' = Keepers /\ Cells' = Cells /\ Lives' = Lives /\ Kinds' = Kinds
  BY <1>1 DEF Keepers, Kept, Cells, Lives, Kinds
<1>3. TypeOK' /\ Frames' /\ Exclusive(act)' /\ Unborn'
  BY <1>1 DEF IInv, TypeOK, Frames, Exclusive, Unborn
<1> QED BY <1>1, <1>2, <1>3 DEF IInv

\* Every step of every thread keeps the invariant.
LEMMA StepInvariant == IInv /\ [Next]_vars => IInv'
<1> SUFFICES ASSUME IInv, [Next]_vars PROVE IInv'
  OBVIOUS
<1>1. ASSUME NEW a \in Threads, Begin(a) PROVE IInv'
  BY <1>1, BeginStep
<1>2. ASSUME NEW a \in Threads, FinishBuild(a) PROVE IInv'
  BY <1>2, ConstructedStep, ClonedStep
<1>3. ASSUME NEW a \in Threads, ThrowBuild(a) PROVE IInv'
  BY <1>3, ThrowBuildStep
<1>4. ASSUME NEW a \in Threads, FinishKill(a) PROVE IInv'
  BY <1>4, FinishKillStep
<1>5. ASSUME NEW a \in Threads, StepMove(a) PROVE IInv'
  BY <1>5, StepMoveStep
<1>6. ASSUME NEW a \in Threads, FinishRetire(a) PROVE IInv'
  BY <1>6, FinishRetireStep
<1>7. ASSUME NEW a \in Threads, FinishCall(a) PROVE IInv'
  BY <1>7, FinishCallStep
<1>8. CASE UNCHANGED vars
  BY <1>8, StutterStep
<1> QED
  BY <1>1, <1>2, <1>3, <1>4, <1>5, <1>6, <1>7, <1>8 DEF Next, Continue

\* The invariant holds throughout, for every client that keeps the rule of
\* Begin, whatever the callables' sizes and whichever of their copies throw.
THEOREM Invariance == Spec => []IInv
<1>1. Init => IInv
  BY InitInvariant
<1>2. IInv /\ [Next]_vars => IInv'
  BY StepInvariant
<1> QED BY <1>1, <1>2, PTL DEF Spec

\* The variables have their types.
THEOREM TypeCorrectness == Spec => []TypeOK
<1>1. IInv => TypeOK
  BY DEF IInv
<1> QED BY <1>1, Invariance, PTL

\* No operation of any thread has undefined behaviour: every invoke, copy, move
\* and destroy through a vtable finds a live callable of the vtable's type.
THEOREM DefinedBehaviour == Spec => []Defined
<1>1. IInv => Defined
  BY DEF IInv, Defined
<1> QED BY <1>1, Invariance, PTL

\* Every callable a slot holds is alive, of the type of the slot's vtable, and
\* held by that slot alone.
THEOREM SoleOwnership == Spec => []Ownership
<1>1. IInv => Ownership
  <2> SUFFICES ASSUME IInv PROVE Ownership
    OBVIOUS
  <2>1. \A s \in Slots : Keepers[s] = Kept(s)
    BY DEF Keepers
  <2> QED BY <2>1 DEF IInv, Consistent, Ownership
<1> QED BY <1>1, Invariance, PTL

\* No callable outlives its owner: nothing in memory is unreachable, after any
\* sequence of operations and any failed copy.
THEOREM NothingLeaks == Spec => []NoLeak
<1>1. IInv => NoLeak
  <2> SUFFICES ASSUME IInv, NEW l \in Loc, mem.obj[l] # NoObject
               PROVE  CASE mem.obj[l].life = "live" ->
                             \E s \in Slots : Kept(s) # NoType /\ Place(mem, Kept(s), s) = l
                        [] mem.obj[l].life = "raw" ->
                             \E b \in Threads : act[b].at = "build" /\ act[b].cell = l
                        [] mem.obj[l].life = "dying" ->
                             \E b \in Threads : act[b].at \in {"kill", "retire"} /\ act[b].cell = l
    BY DEF NoLeak
  <2>1. \A s \in Slots : Keepers[s] = Kept(s)
    BY DEF Keepers
  <2>2. mem.obj[l].life \in {"raw", "live", "dying"}
    BY DEF IInv, Consistent, Memory, Object
  <2>3. CASE mem.obj[l].life = "live"
    BY <2>1, <2>3 DEF IInv, Consistent
  <2>4. CASE mem.obj[l].life # "live"
    <3>1. PICK b \in Threads : Cells[b] = l
      BY <2>4 DEF IInv, Consistent
    <3>2. l # Null
      BY DistinctAssumption DEF Loc, Slots
    <3>3. act[b].at \in {"build", "kill", "retire"} /\ act[b].cell = l
      BY <3>1, <3>2 DEF Cells, CellOf
    <3>4. mem.obj[l].life = LifeOf(act[b])
      BY <3>1, <3>2 DEF IInv, Consistent, Lives
    <3> QED BY <2>4, <3>3, <3>4 DEF LifeOf
  <2> QED BY <2>3, <2>4
<1> QED BY <1>1, Invariance, PTL

\* Internal pointers of a callable follow it wherever moves and swaps take it.
THEOREM AddressesFollow == Spec => []OwnAddress
<1>1. IInv => OwnAddress
  BY DEF IInv, Consistent, OwnAddress
<1> QED BY <1>1, Invariance, PTL

\* The inline buffer holds exactly the callables that fit it.
THEOREM BufferIsEnough == Spec => []BufferHolds
<1>1. IInv => BufferHolds
  <2> SUFFICES ASSUME IInv, NEW l \in Loc, mem.obj[l] # NoObject
               PROVE  l \in Slots <=> /\ Size[mem.obj[l].type] \in 0 .. (32 + PointerSize)
                                      /\ Align[mem.obj[l].type] \in 0 .. 8
    BY DEF BufferHolds
  <2>1. (l \in Slots <=> fits(mem.obj[l].type)) /\ mem.obj[l].type \in Types
    BY DEF IInv, Consistent, Memory, Object
  <2> QED BY <2>1, SizesAssumption DEF fits, SBO_SIZE, SBO_ALIGNMENT
<1> QED BY <1>1, Invariance, PTL

-----------------------------------------------------------------------------
(* 6. Data races                                                            *)

\* A Function that thread b's operation uses keeps what its vtable says, unless
\* the operation itself is in between.
LEMMA UsedKeeps ==
  ASSUME IInv, NEW b \in Threads, NEW w \in Wrappers, w \in Uses(act[b]),
         Keeps(act[b], b, w, vt[w]) = vt[w]
  PROVE  Keepers[w] = vt[w]
<1>1. \A d \in Threads \ {b} : w \notin Writes(act[d])
  BY DEF IInv, Exclusive
<1>2. KeptIn(act, vt, w) = vt[w]
  BY <1>1, WriterIsUnique, DistinctAssumption DEF KeptIn, IInv
<1> QED BY <1>2 DEF Keepers, Kept, Slots

\* A thread in the operator() of a callable: the Function it was called through
\* keeps it.
RunFrame(a) ==
  /\ act[a].op = "call" /\ act[a].this \in alive /\ act[a].this \in Wrappers
  /\ act[a].ty \in Types /\ act[a].ty # NoType
  /\ Keepers[act[a].this] = act[a].ty
  /\ act[a].cell = Place(mem, Keepers[act[a].this], act[a].this)
  /\ act[a].this \in Uses(act[a])

\* A call in progress runs the callable its Function keeps.
LEMMA RunsItsOwn ==
  ASSUME IInv, NEW a \in Threads, act[a].at = "run"
  PROVE  RunFrame(a)
<1>1. FrameOK(a, act[a], alive, vt, mem) /\ act[a] # Idle /\ alive \subseteq Wrappers
  BY DEF IInv, Frames, TypeOK, Idle, Doing
<1>2. /\ act[a].op = "call" /\ act[a].this \in alive /\ act[a].this \in Wrappers
      /\ act[a].ty \in Types /\ act[a].ty = vt[act[a].this]
      /\ act[a].cell = Place(mem, act[a].ty, act[a].this)
  BY <1>1 DEF FrameOK, Kills, Legs, Moves
<1>3. act[a].this \in Uses(act[a]) /\ act[a].ty # NoType
  BY <1>2, DistinctAssumption DEF Uses
<1>4. Keeps(act[a], a, act[a].this, vt[act[a].this]) = vt[act[a].this]
  BY <1>2 DEF Keeps
<1>5. Keepers[act[a].this] = vt[act[a].this]
  BY <1>2, <1>3, <1>4, UsedKeeps
<1> QED BY <1>2, <1>3, <1>5 DEF RunFrame

\* The callable at l is one that thread d constructs or destroys, or that a slot
\* of S keeps.
BelongsTo(l, d, S) ==
  \/ Cells[d] # Null /\ l = Cells[d]
  \/ \E s \in Slots : /\ s \in S
                      /\ Keepers[s] # NoType /\ l = Place(mem, Keepers[s], s)

\* What a thread changes is the callable it constructs or destroys, or one that
\* a slot of its own keeps.
LEMMA ChangesItsOwn ==
  ASSUME IInv, NEW a \in Threads, ~ShareCalls \/ act[a].at # "run", NEW l, l \in Changing(a)
  PROVE  BelongsTo(l, a, Writes(act[a]) \cup {a})
<1>1. CASE act[a].at = "build"
  <2>1. Cells[a] = act[a].cell /\ act[a].cell # Null
    BY <1>1, BuildFrame, IsFramed
  <2> QED BY <1>1, <2>1 DEF Changing, BelongsTo
<1>2. CASE act[a].at = "kill"
  <2>1. Cells[a] = act[a].cell /\ act[a].cell # Null
    BY <1>2, KillFrame, IsFramed
  <2> QED BY <1>2, <2>1 DEF Changing, BelongsTo
<1>3. CASE act[a].at = "retire"
  <2>1. act[a].cell = act[a].src /\ act[a].src \in Slots
    BY <1>3, MoveFrame, IsFramed DEF OneWay, IntoTmp, Across, OutOf, Slots
  <2>2. Cells[a] = act[a].cell /\ act[a].cell # Null
    BY <1>3, <2>1, DistinctAssumption DEF Cells, CellOf, Slots
  <2> QED BY <1>3, <2>2 DEF Changing, BelongsTo
<1>4. CASE act[a].at = "move"
  <2>1. /\ act[a].src \in Slots /\ act[a].src \in Writes(act[a]) \cup {a}
        /\ Keepers[act[a].src] = act[a].ty
    BY <1>4, MoveIsDefined
  <2>2. act[a].ty # NoType
    BY <1>4, MoveFrame, IsFramed, DistinctAssumption
  <2>3. l = Place(mem, act[a].ty, act[a].src)
    BY <1>4 DEF Changing
  <2> QED BY <2>1, <2>2, <2>3 DEF BelongsTo
<1>5. CASE act[a].at = "run" /\ act[a].ty \in Mutable
  <2>1. RunFrame(a)
    BY <1>5, RunsItsOwn
  <2>2. act[a].this \in Writes(act[a])
    BY <1>5, <2>1 DEF RunFrame, Writes
  <2>3. l = act[a].cell
    BY <1>5 DEF Changing
  <2> QED BY <2>1, <2>2, <2>3 DEF RunFrame, Slots, BelongsTo
<1> QED BY <1>1, <1>2, <1>3, <1>4, <1>5 DEF Changing

\* What a thread reads, a Function it uses keeps.
LEMMA ReadsWhatItUses ==
  ASSUME IInv, NEW b \in Threads, NEW l, l \in Reading(b)
  PROVE  BelongsTo(l, b, Uses(act[b]) \cup {b})
<1>1. CASE act[b].at = "build" /\ act[b].other # Null
  <2>1. /\ \A r, x : Keeps(act[b], b, r, x) = x
        /\ Uses(act[b]) = {act[b].this, act[b].other} \ {Null}
        /\ act[b].op \in {"construct", "copyctor", "copyassign"} /\ act[b].ty # NoType
        /\ act[b].op # "construct" => vt[act[b].other] = act[b].ty
    BY <1>1, BuildFrame, IsFramed
  <2>2. act[b].other \in Wrappers /\ act[b].op # "construct"
    <3>1. FrameOK(b, act[b], alive, vt, mem) /\ alive \subseteq Wrappers /\ act[b] # Idle
      BY <1>1 DEF IInv, Frames, TypeOK, Idle, Doing
    <3> QED BY <1>1, <2>1, <3>1 DEF FrameOK
  <2>3. Keepers[act[b].other] = vt[act[b].other]
    BY <1>1, <2>1, <2>2, UsedKeeps
  <2>4. l = Place(mem, vt[act[b].other], act[b].other)
    BY <1>1 DEF Reading
  <2> QED BY <1>1, <2>1, <2>2, <2>3, <2>4 DEF Slots, BelongsTo
<1>2. CASE act[b].at = "run"
  <2>1. RunFrame(b) /\ l = act[b].cell
    BY <1>2, RunsItsOwn DEF Reading
  <2> QED BY <2>1 DEF RunFrame, Slots, BelongsTo
<1> QED BY <1>1, <1>2 DEF Reading

\* Two threads' callables differ when their slots do.
LEMMA BelongingsApart ==
  ASSUME IInv, NEW a \in Threads, NEW b \in Threads, a # b, NEW l,
         NEW P, NEW Q, P \cap Q \cap Slots = {},
         BelongsTo(l, a, P), BelongsTo(l, b, Q)
  PROVE  FALSE
<1> DEFINE Held(S) == \E s \in Slots : /\ s \in S
                                       /\ Keepers[s] # NoType /\ l = Place(mem, Keepers[s], s)
           Busy(d) == Cells[d] # Null /\ l = Cells[d]
<1>1. Consistent(mem, Keepers, Cells, Lives, Kinds)
  BY DEF IInv
<1>2. ~(Busy(a) /\ Busy(b))
  BY <1>1 DEF Consistent
<1>3. \A s \in Slots : Keepers[s] # NoType => mem.obj[Place(mem, Keepers[s], s)].life = "live"
  BY <1>1 DEF Consistent, Live, LiveAt
<1>4. \A d \in Threads : Busy(d) => mem.obj[l].life # "live"
  BY <1>1 DEF Consistent
<1>5. ~(Held(P) /\ Held(Q))
  <2>1. SUFFICES ASSUME NEW s \in Slots, s \in P, Keepers[s] # NoType,
                        l = Place(mem, Keepers[s], s),
                        NEW r \in Slots, r \in Q, Keepers[r] # NoType,
                        l = Place(mem, Keepers[r], r)
                 PROVE  FALSE
    OBVIOUS
  <2>2. s # r
    BY <2>1
  <2>3. \A q, u \in Slots : q # u /\ Keepers[q] # NoType /\ Keepers[u] # NoType =>
          Place(mem, Keepers[q], q) # Place(mem, Keepers[u], u)
    BY <1>1 DEF Consistent
  <2> QED BY <2>1, <2>2, <2>3
<1>6. (Busy(a) \/ Held(P)) /\ (Busy(b) \/ Held(Q))
  BY DEF BelongsTo
<1> QED BY <1>2, <1>3, <1>4, <1>5, <1>6

\* No two threads touch a callable at once, one of them changing it, if a call
\* of a callable that changes itself is no mere reading of its Function.
THEOREM RaceFreedom ==
  ASSUME ~ShareCalls
  PROVE  Spec => []NoDataRace
<1>1. IInv => NoDataRace
  <2> SUFFICES ASSUME IInv, NEW a \in Threads, NEW b \in Threads, a # b,
                      NEW l \in Changing(a), l \in Changing(b) \cup Reading(b)
               PROVE  FALSE
    BY DEF NoDataRace
  <2>1. BelongsTo(l, a, Writes(act[a]) \cup {a})
    BY ChangesItsOwn
  <2>2. BelongsTo(l, b, Uses(act[b]) \cup {b})
    <3>1. CASE l \in Changing(b)
      <4>1. Writes(act[b]) \subseteq Uses(act[b]) \cup {Null} /\ Null \notin Slots
        BY DistinctAssumption DEF Writes, Uses, Slots
      <4>2. BelongsTo(l, b, Writes(act[b]) \cup {b})
        BY <3>1, ChangesItsOwn
      <4> QED BY <4>1, <4>2 DEF BelongsTo
    <3>2. CASE l \in Reading(b)
      BY <3>2, ReadsWhatItUses
    <3> QED BY <3>1, <3>2
  <2>3. (Writes(act[a]) \cup {a}) \cap (Uses(act[b]) \cup {b}) \cap Slots = {}
    BY DistinctAssumption DEF IInv, Exclusive, TypeOK, Frame, Writes, Uses, Slots
  <2> QED BY <2>1, <2>2, <2>3, BelongingsApart
<1> QED BY <1>1, Invariance, PTL
=============================================================================
