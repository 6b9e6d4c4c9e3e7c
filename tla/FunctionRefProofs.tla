------------------------- MODULE FunctionRefProofs -------------------------
(***************************************************************************)
(* Proofs about FunctionRef and its two clients.                           *)
(*                                                                         *)
(* For any number of FunctionRefs, functions, variables and objects and    *)
(* for calls nested to any depth: the type invariant, that nothing         *)
(* undefined is ever done, that a call runs what its FunctionRef was bound *)
(* to when it was made, and that an object only changes through a binding  *)
(* that may change it.                                                     *)
(*                                                                         *)
(* Then the fuzz harness: over inputs of any length it never aborts, and   *)
(* its calls reach their target only.  The harness is a client of the      *)
(* library, so each of its statements is an operation of FunctionRef or    *)
(* none, and the library's own invariant holds in the middle of each.      *)
(* What is left to show is that the harness and the library mean the same: *)
(* Staged, one action at a time.                                           *)
(*                                                                         *)
(* Last, the library with either of the two clients: any program that      *)
(* keeps to the header's rule, or the harness.                             *)
(***************************************************************************)
EXTENDS FunctionRefClients, TLAPS

\* What Faithful says of one FunctionRef.
FaithfulRef(r) ==
  /\ meant[r].ptr # Dangling => ref[r] = meant[r]
  /\ meant[r].ptr \in Objects =>
       /\ obj[meant[r].ptr] # Gone
       /\ meant[r].invoke \in {"object", "const"}
       /\ meant[r].ptr \in Constant => meant[r].invoke = "const"
  /\ meant[r].ptr \in Functions \cup {NoPointer} => meant[r].invoke = "function"
  /\ meant[r].ptr = Nothing => meant[r].invoke = "none"

\* What Faithful says of one call in progress.
FaithfulCall(c) ==
  /\ c.held = c.means
  /\ c.means.ptr \in Functions \cup Objects
  /\ c.means.ptr \in Objects =>
       /\ obj[c.means.ptr] # Gone
       /\ c.means.invoke \in {"object", "const"}
       /\ c.means.ptr \in Constant => c.means.invoke = "const"
  /\ c.means.ptr \in Functions => c.means.invoke = "function"

LEMMA FaithfulParts ==
  Faithful <=> /\ \A r \in Refs : FaithfulRef(r)
               /\ \A i \in DOMAIN calls : FaithfulCall(calls[i])
BY DEF Faithful, FaithfulRef, FaithfulCall

LEMMA UnboundTyped == Unbound \in Binding /\ Binding \subseteq Meaning
BY DEF Unbound, Binding, Meaning, Referents, Invokers

-----------------------------------------------------------------------------
(* The steps                                                                *)

\* A FunctionRef is built with a faithful binding.
LEMMA BuildFaithful ==
  ASSUME IInv, NEW r \in Refs, NEW b \in Binding, NEW m \in Meaning, Build(r, b, m),
         m.ptr # Dangling => b = m,
         m.ptr \in Objects => /\ obj[m.ptr] # Gone
                              /\ m.invoke \in {"object", "const"}
                              /\ m.ptr \in Constant => m.invoke = "const",
         m.ptr \in Functions \cup {NoPointer} => m.invoke = "function",
         m.ptr = Nothing => m.invoke = "none"
  PROVE  IInv'
<1>1. TypeOK'
  BY DEF IInv, TypeOK, Build
<1>2. ASSUME NEW s \in Refs
      PROVE  FaithfulRef(s)'
  <2>1. CASE s = r
    BY <2>1 DEF IInv, TypeOK, Build, FaithfulRef
  <2>2. CASE s # r
    BY <2>2, FaithfulParts DEF IInv, TypeOK, Build, FaithfulRef
  <2> QED BY <2>1, <2>2
<1>3. \A i \in DOMAIN calls' : FaithfulCall(calls[i])'
  BY FaithfulParts DEF IInv, Build, FaithfulCall
<1>4. Faithful'
  BY <1>2, <1>3 DEF Faithful, FaithfulRef, FaithfulCall
<1> QED BY <1>1, <1>4 DEF IInv, Build

LEMMA ConstructFaithful ==
  ASSUME IInv, NEW r \in Refs,
         \/ DefaultConstruct(r)
         \/ \E p \in Pointers : BindPointer(r, p)
         \/ \E f \in Functions : BindFunction(r, f)
         \/ \E o \in Objects, cv \in {"object", "const"} : BindObject(r, o, cv)
         \/ \E s \in Refs : CopyConstruct(r, s)
  PROVE  IInv'
<1>1. CASE DefaultConstruct(r)
  <2>1. Unbound.ptr = Nothing /\ Unbound.invoke = "none"
    BY DEF Unbound
  <2>2. Nothing \notin Objects /\ Nothing \notin Functions \cup {NoPointer}
    BY ReferentsAssumption
  <2> QED BY <1>1, <2>1, <2>2, UnboundTyped, BuildFaithful DEF DefaultConstruct
<1>2. ASSUME NEW p \in Pointers, BindPointer(r, p)
      PROVE  IInv'
  <2> DEFINE b == [ptr |-> var[p], invoke |-> "function"]
  <2>1. var[p] \in Functions \cup {NoPointer}
    BY <1>2 DEF IInv, TypeOK, BindPointer
  <2>2. b \in Binding /\ b \in Meaning /\ Build(r, b, b)
    BY <1>2, <2>1, UnboundTyped DEF BindPointer, Binding, Referents, Invokers
  <2>3. b.ptr \notin Objects /\ b.ptr # Nothing /\ b.invoke = "function"
    BY <2>1, ReferentsAssumption
  <2> QED BY <2>2, <2>3, BuildFaithful
<1>3. ASSUME NEW f \in Functions, BindFunction(r, f)
      PROVE  IInv'
  <2> DEFINE b == [ptr |-> f, invoke |-> "function"]
  <2>1. b \in Binding /\ b \in Meaning /\ Build(r, b, b)
    BY <1>3, UnboundTyped DEF BindFunction, Binding, Referents, Invokers
  <2>2. b.ptr \notin Objects /\ b.ptr # Nothing /\ b.invoke = "function"
    BY <1>3, ReferentsAssumption
  <2> QED BY <2>1, <2>2, BuildFaithful
<1>4. ASSUME NEW o \in Objects, NEW cv \in {"object", "const"}, BindObject(r, o, cv)
      PROVE  IInv'
  <2> DEFINE b == [ptr |-> o, invoke |-> cv]
  <2>1. b \in Binding /\ b \in Meaning /\ Build(r, b, b)
    BY <1>4, UnboundTyped DEF BindObject, Binding, Referents, Invokers
  <2>2. /\ b.ptr = o /\ b.invoke = cv /\ obj[o] # Gone
        /\ o \in Constant => cv = "const"
        /\ o # Nothing /\ o \notin Functions \cup {NoPointer}
    BY <1>4, ReferentsAssumption DEF BindObject
  <2> QED BY <2>1, <2>2, BuildFaithful
<1>5. ASSUME NEW s \in Refs, CopyConstruct(r, s)
      PROVE  IInv'
  <2>1. ref[s] \in Binding /\ meant[s] \in Meaning /\ Build(r, ref[s], meant[s])
    BY <1>5 DEF IInv, TypeOK, CopyConstruct
  <2>2. FaithfulRef(s)
    BY FaithfulParts DEF IInv
  <2> QED BY <2>1, <2>2, BuildFaithful DEF FaithfulRef
<1> QED BY <1>1, <1>2, <1>3, <1>4, <1>5

\* Assignment and destruction leave the calls in progress alone.
LEMMA RefFaithful ==
  ASSUME IInv, NEW r \in Refs, Destroy(r) \/ \E s \in Refs : Assign(r, s)
  PROVE  IInv'
<1>1. CASE Destroy(r)
  <2>1. TypeOK'
    BY <1>1, UnboundTyped DEF IInv, TypeOK, Destroy
  <2>2. FaithfulRef(r)'
    BY <1>1, ReferentsAssumption DEF IInv, TypeOK, Destroy, FaithfulRef, Unbound
  <2>3. ASSUME NEW q \in Refs \ {r} PROVE FaithfulRef(q)'
    BY <1>1, FaithfulParts DEF IInv, TypeOK, Destroy, FaithfulRef
  <2>4. \A i \in DOMAIN calls' : FaithfulCall(calls[i])'
    BY <1>1, FaithfulParts DEF IInv, Destroy, FaithfulCall
  <2>5. Faithful'
    BY <2>2, <2>3, <2>4 DEF Faithful, FaithfulRef, FaithfulCall
  <2> QED BY <1>1, <2>1, <2>5 DEF IInv, Destroy
<1>2. ASSUME NEW s \in Refs, Assign(r, s) PROVE IInv'
  <2>1. TypeOK'
    BY <1>2 DEF IInv, TypeOK, Assign
  <2>2. ASSUME NEW q \in Refs PROVE FaithfulRef(q)'
    BY <1>2, FaithfulParts DEF IInv, TypeOK, Assign, FaithfulRef
  <2>3. \A i \in DOMAIN calls' : FaithfulCall(calls[i])'
    BY <1>2, FaithfulParts DEF IInv, Assign, FaithfulCall
  <2>4. Faithful'
    BY <2>2, <2>3 DEF Faithful, FaithfulRef, FaithfulCall
  <2> QED BY <1>2, <2>1, <2>4 DEF IInv, Assign
<1> QED BY <1>1, <1>2

\* A call that may be made is of something that is there.
LEMMA CallFaithful ==
  ASSUME IInv, NEW r \in Refs, Call(r)
  PROVE  IInv'
<1> DEFINE c == [via |-> r, held |-> ref[r], means |-> meant[r]]
<1>1. /\ calls' = Append(calls, c) /\ UNCHANGED <<ref, live, var, obj, meant>>
      /\ defined' = (defined /\ Callable(ref[r]))
  BY DEF Call
<1>2. ref[r] = meant[r] /\ meant[r].ptr \in Functions \cup Objects
  <2>1. FaithfulRef(r) /\ meant[r] \in Meaning
    BY FaithfulParts DEF IInv, TypeOK
  <2> QED BY <2>1 DEF Call, Bound, FaithfulRef, Meaning, Referents
<1>3. FaithfulCall(c)
  BY <1>2, FaithfulParts DEF IInv, FaithfulRef, FaithfulCall
<1>4. Callable(ref[r])
  BY <1>2, <1>3 DEF FaithfulCall, Callable
<1>5. c \in Frame
  BY DEF Frame, IInv, TypeOK
<1> HIDE DEF c
<1>6. TypeOK'
  BY <1>1, <1>4, <1>5 DEF IInv, TypeOK
<1>7. \A i \in DOMAIN calls' : FaithfulCall(calls'[i])
  BY <1>1, <1>3, FaithfulParts DEF IInv, TypeOK
<1>8. Faithful'
  BY <1>1, <1>7 DEF IInv, Faithful, FaithfulCall
<1> QED BY <1>1, <1>4, <1>6, <1>8 DEF IInv

\* The innermost call runs what it means, and is of something that is there.
LEMMA Innermost ==
  ASSUME IInv, calls # <<>>
  PROVE  /\ Len(calls) \in DOMAIN calls
         /\ FaithfulCall(calls[Len(calls)])
         /\ Running(calls[Len(calls)]) = calls[Len(calls)].means
         /\ Callable(Running(calls[Len(calls)]))
<1>1. Len(calls) \in DOMAIN calls
  BY DEF IInv, TypeOK
<1>2. FaithfulCall(calls[Len(calls)])
  BY <1>1, FaithfulParts DEF IInv
<1> QED BY <1>1, <1>2 DEF FaithfulCall, Running, Callable

LEMMA ReturnFaithful ==
  ASSUME IInv, Return
  PROVE  IInv'
<1> DEFINE b == Running(calls[Len(calls)])
           Changes == IF b.invoke = "object" /\ b.ptr \in Objects THEN {b.ptr} ELSE {}
<1>1. /\ calls # <<>> /\ calls' = SubSeq(calls, 1, Len(calls) - 1)
      /\ UNCHANGED <<ref, live, var, meant>>
      /\ UNCHANGED obj \/ \E o \in Changes, v \in Values : obj' = [obj EXCEPT ![o] = v]
      /\ defined' = (defined /\ Callable(b) /\ (obj' # obj => Changes \cap Constant = {}))
  BY DEF Return
<1>2. Callable(b) /\ Changes \cap Constant = {}
  BY <1>1, Innermost DEF FaithfulCall
<1>3. Changes \subseteq Objects
  OBVIOUS
<1> HIDE DEF b, Changes
<1>4. /\ obj' \in [Objects -> Values \cup {Gone}]
      /\ \A o \in Objects : obj[o] # Gone => obj'[o] # Gone
  BY <1>1, <1>3, ReferentsAssumption DEF IInv, TypeOK
<1>5. /\ calls' \in Seq(Frame)
      /\ DOMAIN calls' \subseteq DOMAIN calls
      /\ \A i \in DOMAIN calls' : calls'[i] = calls[i]
  BY <1>1 DEF IInv, TypeOK
<1>6. TypeOK'
  BY <1>1, <1>2, <1>4, <1>5 DEF IInv, TypeOK
<1>7. ASSUME NEW r \in Refs PROVE FaithfulRef(r)'
  BY <1>1, <1>4, FaithfulParts DEF IInv, FaithfulRef
<1>8. ASSUME NEW i \in DOMAIN calls' PROVE FaithfulCall(calls[i])'
  BY <1>4, <1>5, FaithfulParts DEF IInv, FaithfulCall
<1>9. Faithful'
  BY <1>7, <1>8 DEF Faithful, FaithfulRef, FaithfulCall
<1> QED BY <1>1, <1>2, <1>6, <1>9 DEF IInv

\* Objects and variables come and go.
LEMMA ClientFaithful ==
  ASSUME IInv,
         \/ \E o \in Objects : DestroyObject(o) \/ \E v \in Values : CreateObject(o, v)
         \/ \E p \in Pointers, f \in Functions \cup {NoPointer, Gone} : SetPointer(p, f)
  PROVE  IInv'
<1>1. ASSUME NEW o \in Objects, DestroyObject(o) PROVE IInv'
  <2>1. TypeOK'
    <3>1. \A r \in Refs : meant'[r] \in Meaning
      BY <1>1 DEF IInv, TypeOK, DestroyObject, Meaning
    <3>2. meant' = [r \in Refs |-> meant'[r]]
      BY <1>1 DEF DestroyObject
    <3>3. meant' \in [Refs -> Meaning]
      BY <3>1, <3>2
    <3> QED BY <1>1, <3>3 DEF IInv, TypeOK, DestroyObject
  <2>2. ASSUME NEW r \in Refs PROVE FaithfulRef(r)'
    <3>1. CASE meant[r].ptr = o
      <4>1. meant'[r].ptr = Dangling
        BY <1>1, <3>1 DEF DestroyObject, IInv, TypeOK, Meaning
      <4> QED BY <4>1, ReferentsAssumption DEF FaithfulRef
    <3>2. CASE meant[r].ptr # o
      <4>1. meant'[r] = meant[r] /\ ref' = ref /\ \A q \in Objects \ {o} : obj'[q] = obj[q]
        BY <1>1, <3>2 DEF DestroyObject, IInv, TypeOK
      <4> QED BY <4>1, <3>2, FaithfulParts DEF IInv, FaithfulRef
    <3> QED BY <3>1, <3>2
  <2>3. ASSUME NEW i \in DOMAIN calls' PROVE FaithfulCall(calls[i])'
    BY <1>1, FaithfulParts DEF IInv, TypeOK, FaithfulCall, DestroyObject
  <2>4. Faithful'
    BY <2>2, <2>3 DEF Faithful, FaithfulRef, FaithfulCall
  <2> QED BY <1>1, <2>1, <2>4 DEF IInv, DestroyObject
<1>2. ASSUME NEW o \in Objects, NEW v \in Values, CreateObject(o, v) PROVE IInv'
  <2>1. TypeOK' /\ \A q \in Objects : obj[q] # Gone => obj'[q] # Gone
    BY <1>2, ReferentsAssumption DEF IInv, TypeOK, CreateObject
  <2>2. Faithful'
    BY <1>2, <2>1 DEF IInv, Faithful, CreateObject
  <2> QED BY <1>2, <2>1, <2>2 DEF IInv, CreateObject
<1>3. ASSUME NEW p \in Pointers, NEW f \in Functions \cup {NoPointer, Gone},
             SetPointer(p, f)
      PROVE  IInv'
  BY <1>3 DEF IInv, TypeOK, Faithful, SetPointer
<1> QED BY <1>1, <1>2, <1>3

-----------------------------------------------------------------------------
(* The invariant                                                            *)

LEMMA InitFaithful == Init => IInv
<1> SUFFICES ASSUME Init PROVE IInv
  OBVIOUS
<1>1. TypeOK
  BY UnboundTyped DEF Init, TypeOK
<1>2. Faithful
  BY ReferentsAssumption DEF Init, Faithful, Unbound
<1> QED BY <1>1, <1>2 DEF Init, IInv

LEMMA NextFaithful == IInv /\ [Next]_vars => IInv'
<1> SUFFICES ASSUME IInv, [Next]_vars PROVE IInv'
  OBVIOUS
<1>1. CASE UNCHANGED vars
  BY <1>1 DEF vars, IInv, TypeOK, Faithful
<1>2. CASE Next
  BY <1>2, ConstructFaithful, RefFaithful, CallFaithful, ReturnFaithful, ClientFaithful
     DEF Next
<1> QED BY <1>1, <1>2

\* The type invariant and the invariant behind the next three theorems: a
\* FunctionRef always holds what the client last bound it to (FunctionRef.h:117-123,
\* FunctionRef.tpp:41-62).
THEOREM Invariant == Spec => []IInv
BY InitFaithful, NextFaithful, PTL DEF Spec

\* No call is of something that is not there, and no const object is written,
\* whatever is rebound, copied or destroyed meanwhile (FunctionRef.tpp:44-60, 70-99).
THEOREM AlwaysDefined == Spec => []Defined
<1>1. IInv => Defined
  BY DEF IInv, Defined
<1> QED BY <1>1, Invariant, PTL

\* A call runs what its FunctionRef was bound to when it was made, even if the
\* callable has rebound or destroyed that FunctionRef since (FunctionRef.tpp:70-77).
THEOREM AlwaysRunsWhatWasBound == Spec => []RunsWhatWasBound
<1>1. IInv => RunsWhatWasBound
  BY DEF IInv, Faithful, RunsWhatWasBound, Running
<1> QED BY <1>1, Invariant, PTL

\* What a step may do to the objects: only a call of an object that is not const, made
\* through a binding that is not const either, may write it.
WritesAsBound ==
  \A o \in Objects :
    obj[o] # obj'[o] /\ Gone \notin {obj[o], obj'[o]} =>
      /\ calls # <<>> /\ o \notin Constant
      /\ calls[Len(calls)].means = [ptr |-> o, invoke |-> "object"]

LEMMA NextWritesAsBound == ASSUME IInv, Next PROVE WritesAsBound
<1> SUFFICES ASSUME NEW o \in Objects, obj[o] # obj'[o],
                    obj[o] # Gone, obj'[o] # Gone
             PROVE  /\ calls # <<>> /\ o \notin Constant
                    /\ calls[Len(calls)].means = [ptr |-> o, invoke |-> "object"]
  BY DEF WritesAsBound
<1>1. Return
  BY DEF Next, DefaultConstruct, BindPointer, BindFunction, BindObject, CopyConstruct,
         Build, Assign, Destroy, Call, DestroyObject, CreateObject, SetPointer,
         IInv, TypeOK
<1> DEFINE b == Running(calls[Len(calls)])
<1>2. calls # <<>> /\ b.invoke = "object" /\ b.ptr = o
  BY <1>1 DEF Return, IInv, TypeOK
<1>3. b = calls[Len(calls)].means /\ FaithfulCall(calls[Len(calls)])
  BY <1>2, Innermost
<1>4. b \in Binding
  <2>1. calls \in Seq(Frame) /\ Len(calls) \in DOMAIN calls
    BY <1>2, Innermost DEF IInv, TypeOK
  <2>2. calls[Len(calls)] \in Frame
    BY <2>1
  <2> QED BY <2>2 DEF Running, Frame
<1> HIDE DEF b
<1>5. b = [ptr |-> o, invoke |-> "object"]
  BY <1>2, <1>4 DEF Binding
<1> QED BY <1>2, <1>3, <1>5 DEF FaithfulCall

\* An object changes only when it runs, and only through a binding that is not const
\* (FunctionRef.tpp:53-62).
THEOREM OnlyChangesAsBound == Spec => ChangesAsBound
<1>1. IInv /\ [Next]_vars => [WritesAsBound]_vars
  BY NextWritesAsBound
<1> QED BY <1>1, Invariant, PTL DEF Spec, ChangesAsBound, WritesAsBound

-----------------------------------------------------------------------------
(* The fuzz harness                                                         *)

\* The names of the harness are all different, and none of them is Dangling.
LEMMA Names ==
  /\ {Ref, Copy, Temporary} = Refs /\ Copy # Ref /\ Temporary # Ref /\ Temporary # Copy
  /\ mutObj # constObj /\ mutObj # freeAdd /\ constObj # freeAdd
  /\ Nothing \notin {mutObj, constObj, freeAdd}
  /\ Dangling \notin Targets /\ NoPointer \notin Targets
  /\ Objects = {mutObj, constObj}
BY FuzzRefAssumption, ReferentsAssumption DEF Targets

\* A binding for t is empty if, and only if, t is Nothing.
LEMMA MeantForTarget ==
  ASSUME NEW t \in Targets
  PROVE  /\ MeantFor(t).ptr = t
         /\ MeantFor(t).invoke = "none" <=> t = Nothing
         /\ MeantFor(t).invoke = "function" <=> t = freeAdd
         /\ t = Nothing => MeantFor(t) = Unbound
         /\ t = mutObj => MeantFor(t) = [ptr |-> mutObj, invoke |-> "object"]
         /\ t = constObj => MeantFor(t) = [ptr |-> constObj, invoke |-> "const"]
         /\ t = freeAdd => MeantFor(t) = [ptr |-> freeAdd, invoke |-> "function"]
BY Names DEF MeantFor, Targets, Unbound

\* A FunctionRef that means a target holds its binding.
LEMMA HoldsItsTarget ==
  ASSUME IInv, NEW r \in Refs, NEW t \in Targets, meant[r] = MeantFor(t)
  PROVE  ref[r] = MeantFor(t) /\ (Bound(r) <=> t # Nothing)
<1>1. FaithfulRef(r)
  BY FaithfulParts DEF IInv
<1>2. meant[r].ptr # Dangling
  BY MeantForTarget, Names
<1> QED BY <1>1, <1>2, MeantForTarget DEF FaithfulRef, Bound

-----------------------------------------------------------------------------
(* The steps of the fuzz harness                                            *)

LEMMA FuzzRefInitInv == FuzzRefInit => HarnessInv
<1> SUFFICES ASSUME FuzzRefInit PROVE HarnessInv
  OBVIOUS
<1>1. TypeOK
  BY UnboundTyped, FuzzRefAssumption DEF FuzzRefInit, TypeOK
<1>2. Faithful
  BY ReferentsAssumption DEF FuzzRefInit, Faithful, Unbound
<1>3. meant[Ref] = MeantFor(Nothing) /\ Nothing \in Targets
  BY Names, MeantForTarget DEF FuzzRefInit, Targets
<1>4. Staged
  BY <1>3, Names DEF FuzzRefInit, Staged
<1>5. IInv
  BY <1>1, <1>2 DEF FuzzRefInit, IInv
<1>6. /\ var[fnPtrVar] = freeAdd /\ target = Nothing /\ stage = "next" /\ ~refAborted
      /\ before \in [Objects -> Nat] /\ after \in [Objects -> Nat]
  BY FuzzRefAssumption DEF FuzzRefInit
<1> QED BY <1>3, <1>4, <1>5, <1>6 DEF HarnessInv

\* Every action of the harness is a step of the library, or leaves it alone.
LEMMA HarnessIsAClient ==
  ASSUME FuzzRefNext PROVE [Next]_vars
<1> USE Names
<1>1. ASSUME NEW t \in Targets, Rebind(t) PROVE Next
  BY <1>1, FuzzRefAssumption DEF Rebind, BindTemporary, Targets, Next
<1>2. ASSUME FinishRebind PROVE Next
  BY <1>2 DEF FinishRebind, Next
<1>3. ASSUME MakeCopy PROVE Next
  BY <1>3 DEF MakeCopy, Next
<1>4. ASSUME NEW r \in {Ref, Copy}, Enter(r) PROVE [Next]_vars
  BY <1>4 DEF Enter, Next
<1>5. ASSUME Leave PROVE Next
  BY <1>5 DEF Leave, Next
<1>6. ASSUME Check PROVE [Next]_vars
  BY <1>6 DEF Check
<1>7. ASSUME EndCall PROVE [Next]_vars
  BY <1>7 DEF EndCall, Next
<1> QED BY <1>1, <1>2, <1>3, <1>4, <1>5, <1>6, <1>7 DEF FuzzRefNext, Targets

\* The temporary of a binding is what the harness will take the reference for.
LEMMA RebindStaged ==
  ASSUME HarnessInv, NEW t \in Targets, Rebind(t)
  PROVE  HarnessInv'
<1> USE Names
<1>1. IInv'
  BY HarnessIsAClient, NextFaithful DEF FuzzRefNext, HarnessInv, Targets
<1>2. stage = "next" /\ live = {Ref} /\ calls = <<>> /\ meant \in [Refs -> Meaning]
  BY DEF Rebind, HarnessInv, Staged, IInv, TypeOK
<1>3. \E b : Build(Temporary, b, MeantFor(t))
  <2>1. CASE t = mutObj
    BY <2>1, MeantForTarget DEF Rebind, BindTemporary, BindObject
  <2>2. CASE t = constObj
    BY <2>2, MeantForTarget DEF Rebind, BindTemporary, BindObject
  <2>3. CASE t = freeAdd
    BY <2>3, MeantForTarget DEF Rebind, BindTemporary, BindFunction, BindPointer, HarnessInv
  <2>4. CASE t = Nothing
    BY <2>4, MeantForTarget DEF Rebind, BindTemporary, DefaultConstruct
  <2> QED BY <2>1, <2>2, <2>3, <2>4 DEF Targets
<1>4. /\ live' = {Ref, Temporary} /\ calls' = <<>> /\ var' = var
      /\ meant'[Temporary] = MeantFor(t)
  BY <1>2, <1>3 DEF Build
<1>5. stage' = "assign" /\ target' = t /\ UNCHANGED <<before, after, refAborted>>
  BY DEF Rebind
<1>6. Staged'
  BY <1>4, <1>5 DEF Staged, MeantFor
<1> QED BY <1>1, <1>4, <1>5, <1>6 DEF HarnessInv

LEMMA FinishRebindStaged ==
  ASSUME HarnessInv, FinishRebind
  PROVE  HarnessInv'
<1> USE Names
<1>1. IInv'
  BY HarnessIsAClient, NextFaithful DEF FuzzRefNext, HarnessInv
<1>2. UNCHANGED <<target, before, after, refAborted, var>> /\ meant \in [Refs -> Meaning]
  BY DEF FinishRebind, HarnessInv, IInv, TypeOK, Assign, Destroy
<1>3. CASE stage = "assign" /\ Assign(Ref, Temporary) /\ stage' = "discard"
  <2>1. /\ live = {Ref, Temporary} /\ calls = <<>> /\ meant[Temporary] = MeantFor(target)
    BY <1>3 DEF HarnessInv, Staged
  <2>2. /\ live' = {Ref, Temporary} /\ calls' = <<>> /\ meant'[Ref] = MeantFor(target)
    BY <1>2, <1>3, <2>1 DEF Assign
  <2>3. Staged'
    BY <1>2, <1>3, <2>2 DEF Staged, MeantFor
  <2> QED BY <1>1, <1>2, <1>3, <2>3 DEF HarnessInv
<1>4. CASE stage = "discard" /\ Destroy(Temporary) /\ stage' = "next"
  <2>1. /\ live = {Ref, Temporary} /\ calls = <<>> /\ meant[Ref] = MeantFor(target)
    BY <1>4 DEF HarnessInv, Staged
  <2>2. /\ live' = {Ref} /\ calls' = <<>> /\ meant'[Ref] = MeantFor(target)
    BY <1>2, <1>4, <2>1 DEF Destroy
  <2>3. Staged'
    BY <1>2, <1>4, <2>2 DEF Staged, MeantFor
  <2> QED BY <1>1, <1>2, <1>4, <2>3 DEF HarnessInv
<1> QED BY <1>3, <1>4 DEF FinishRebind

\* The copy is bound to what the reference is, and compares equal.
LEMMA MakeCopyStaged ==
  ASSUME HarnessInv, MakeCopy
  PROVE  HarnessInv'
<1> USE Names
<1>1. IInv'
  BY HarnessIsAClient, NextFaithful DEF FuzzRefNext, HarnessInv
<1>2. /\ stage = "next" /\ live = {Ref} /\ calls = <<>> /\ meant[Ref] = MeantFor(target)
      /\ meant \in [Refs -> Meaning] /\ ref \in [Refs -> Binding]
  BY DEF MakeCopy, HarnessInv, Staged, IInv, TypeOK
<1>3. Build(Copy, ref[Ref], meant[Ref]) /\ stage' = "copied"
      /\ UNCHANGED <<target, before, after>>
  BY DEF MakeCopy, CopyConstruct
<1>4. /\ live' = {Ref, Copy} /\ calls' = <<>> /\ var' = var
      /\ meant'[Ref] = MeantFor(target) /\ meant'[Copy] = MeantFor(target)
      /\ ref'[Copy] = ref[Ref]
  BY <1>2, <1>3 DEF Build
<1>5. ~refAborted'
  BY <1>4 DEF MakeCopy, Bound
<1>6. Staged'
  BY <1>3, <1>4 DEF Staged, MeantFor
<1> QED BY <1>1, <1>3, <1>4, <1>5, <1>6 DEF HarnessInv

\* A call is entered if, and only if, there is a target.
LEMMA EnterStaged ==
  ASSUME HarnessInv, NEW r \in {Ref, Copy}, Enter(r)
  PROVE  HarnessInv'
<1> USE Names
<1>1. IInv'
  BY HarnessIsAClient, NextFaithful DEF FuzzRefNext, HarnessInv
<1>2. /\ r \in Refs /\ meant[r] = MeantFor(target) /\ meant[Ref] = MeantFor(target)
      /\ live \in {{Ref}, {Ref, Copy}} /\ calls = <<>> /\ target \in Targets
  BY DEF Enter, HarnessInv, Staged
<1>3. Bound(r) <=> target # Nothing
  BY <1>2, HoldsItsTarget DEF HarnessInv
<1>4. before' = after /\ UNCHANGED <<target, after, refAborted>>
  BY DEF Enter
<1>5. CASE Bound(r)
  <2>1. Call(r) /\ stage' = "calling"
    BY <1>5 DEF Enter
  <2>2. /\ UNCHANGED <<live, var, meant>>
        /\ Len(calls') = 1 /\ calls'[1].means = MeantFor(target)
    BY <1>2, <2>1 DEF Call
  <2>3. Staged'
    BY <1>2, <1>3, <1>4, <1>5, <2>1, <2>2 DEF Staged, MeantFor
  <2> QED BY <1>1, <1>4, <2>1, <2>2, <2>3 DEF HarnessInv
<1>6. CASE ~Bound(r)
  <2>1. UNCHANGED vars /\ stage' = "threw"
    BY <1>6 DEF Enter
  <2>2. Advanced'
    BY <1>2, <1>3, <1>4, <1>6, <2>1, Names DEF Advanced, HarnessInv
  <2>3. Staged'
    BY <1>2, <1>3, <1>4, <1>6, <2>1, <2>2 DEF Staged, MeantFor, vars
  <2> QED BY <1>1, <1>4, <2>1, <2>3 DEF HarnessInv, vars
<1> QED BY <1>5, <1>6

\* The call runs the target, so it is the target that advances.
LEMMA LeaveStaged ==
  ASSUME HarnessInv, Leave
  PROVE  HarnessInv'
<1> USE Names
<1>1. IInv'
  BY HarnessIsAClient, NextFaithful DEF FuzzRefNext, HarnessInv
<1>2. /\ stage = "calling" /\ live \in {{Ref}, {Ref, Copy}} /\ meant[Ref] = MeantFor(target)
      /\ target # Nothing /\ after = before /\ target \in Targets
      /\ Len(calls) = 1 /\ calls[1].means = MeantFor(target) /\ calls \in Seq(Frame)
  BY DEF Leave, HarnessInv, Staged, IInv, TypeOK
<1>3. Running(calls[Len(calls)]).ptr = target
  <2>1. calls # <<>>
    BY <1>2
  <2>2. Running(calls[Len(calls)]) = calls[1].means
    BY <1>2, <2>1, Innermost DEF HarnessInv
  <2> QED BY <1>2, <2>2, MeantForTarget
<1>4. /\ stage' = "returned" /\ UNCHANGED <<target, before, refAborted>>
      /\ after' = IF target \in Objects THEN [after EXCEPT ![target] = @ + 1] ELSE after
  BY <1>3 DEF Leave
<1>5. calls' = <<>> /\ UNCHANGED <<live, var, meant>>
  BY <1>2 DEF Leave, Return
<1>6. Advanced' /\ after' \in [Objects -> Nat]
  BY <1>2, <1>4 DEF Advanced, HarnessInv
<1>7. Staged'
  BY <1>2, <1>4, <1>5, <1>6 DEF Staged, MeantFor
<1> QED BY <1>1, <1>4, <1>5, <1>6, <1>7 DEF HarnessInv

\* No check of the harness fails.
LEMMA CheckStaged ==
  ASSUME HarnessInv, Check
  PROVE  HarnessInv'
<1> USE Names
<1>1. IInv'
  BY HarnessIsAClient, NextFaithful DEF FuzzRefNext, HarnessInv
<1>2. /\ stage \in {"threw", "returned"} /\ stage' = "checked"
      /\ UNCHANGED <<ref, live, var, obj, calls, meant, defined, target, before, after>>
      /\ refAborted' = \/ (stage = "threw") # (target = Nothing)
                       \/ \E o \in Expected : after[o] # before[o] + 1
  BY DEF Check, vars
<1>3. /\ live \in {{Ref}, {Ref, Copy}} /\ meant[Ref] = MeantFor(target)
      /\ calls = <<>> /\ Advanced
      /\ stage = "threw" => target = Nothing
      /\ stage = "returned" => target # Nothing
  BY <1>2 DEF HarnessInv, Staged
<1>4. (stage = "threw") = (target = Nothing)
  BY <1>2, <1>3
<1>5. \A o \in Expected : after[o] = before[o] + 1
  BY <1>3 DEF Advanced, Expected
<1>6. ~refAborted'
  BY <1>2, <1>4, <1>5
<1>7. Advanced'
  BY <1>2, <1>3 DEF Advanced
<1>8. Staged'
  BY <1>2, <1>3, <1>7 DEF Staged, MeantFor
<1> QED BY <1>1, <1>2, <1>6, <1>8 DEF HarnessInv

LEMMA EndCallStaged ==
  ASSUME HarnessInv, EndCall
  PROVE  HarnessInv'
<1> USE Names
<1>1. IInv'
  BY HarnessIsAClient, NextFaithful DEF FuzzRefNext, HarnessInv
<1>2. /\ stage = "checked" /\ stage' = "next"
      /\ UNCHANGED <<target, before, after, refAborted>>
  BY DEF EndCall
<1>3. /\ live \in {{Ref}, {Ref, Copy}} /\ meant[Ref] = MeantFor(target) /\ calls = <<>>
      /\ meant \in [Refs -> Meaning]
  BY <1>2 DEF HarnessInv, Staged, IInv, TypeOK
<1>4. /\ live' = {Ref} /\ calls' = <<>> /\ var' = var /\ meant'[Ref] = MeantFor(target)
  <2>1. CASE Copy \in live
    BY <1>3, <2>1 DEF EndCall, Destroy
  <2>2. CASE Copy \notin live
    BY <1>3, <2>2 DEF EndCall, vars
  <2> QED BY <2>1, <2>2
<1>5. Staged'
  BY <1>2, <1>4 DEF Staged, MeantFor
<1> QED BY <1>1, <1>2, <1>4, <1>5 DEF HarnessInv

-----------------------------------------------------------------------------
(* The theorems about the fuzz harness                                      *)

LEMMA FuzzRefNextInv == HarnessInv /\ [FuzzRefNext]_refFuzzVars => HarnessInv'
<1> SUFFICES ASSUME HarnessInv, [FuzzRefNext]_refFuzzVars PROVE HarnessInv'
  OBVIOUS
<1>1. CASE UNCHANGED refFuzzVars
  BY <1>1 DEF refFuzzVars, vars, HarnessInv, IInv, TypeOK, Faithful, Staged, MeantFor, Advanced
<1>2. CASE FuzzRefNext
  BY <1>2, RebindStaged, FinishRebindStaged, MakeCopyStaged, EnterStaged, LeaveStaged,
     CheckStaged, EndCallStaged DEF FuzzRefNext, Targets
<1> QED BY <1>1, <1>2

\* In the middle of every operation of the harness the library's invariant holds, and
\* every FunctionRef is bound to what the harness's enum says it is
\* (fuzz_function_ref.cpp:137-203).
THEOREM FuzzRefInvariance == FuzzRefSpec => []HarnessInv
BY FuzzRefInitInv, FuzzRefNextInv, PTL DEF FuzzRefSpec

\* No input makes the harness abort or call something undefined, however long it is:
\* an abort would be a fault of the library (fuzz_function_ref.cpp:84-129, 182-200).
THEOREM FuzzRefNeverAborts == FuzzRefSpec => []RefNoFalseAlarm
<1>1. HarnessInv => RefNoFalseAlarm
  BY DEF HarnessInv, IInv, RefNoFalseAlarm
<1> QED BY <1>1, FuzzRefInvariance, PTL

\* A call advances the target by one and leaves every other object as it was, which
\* the harness does not look at itself (fuzz_function_ref.cpp:89-90, 109-130).
THEOREM FuzzRefReachesTarget == FuzzRefSpec => []OnlyTarget
<1>1. HarnessInv => OnlyTarget
  BY DEF HarnessInv, Staged, Advanced, OnlyTarget
<1> QED BY <1>1, FuzzRefInvariance, PTL

-----------------------------------------------------------------------------
(* The library with either client                                           *)

\* What holds whichever the client is: the harness's own invariant implies the
\* library's, and the other client leaves the harness's variables alone.
ClientInv ==
  \/ client = "any" /\ IInv /\ ~refAborted /\ stage = "next"
  \/ client = "fuzz" /\ HarnessInv

LEMMA ClientInitInv == ClientInit => ClientInv
BY InitFaithful, FuzzRefInitInv DEF ClientInit, ClientInv, HarnessIdle

LEMMA ClientNextInv == ClientInv /\ [ClientNext]_clientVars => ClientInv'
<1> SUFFICES ASSUME ClientInv, [ClientNext]_clientVars PROVE ClientInv'
  OBVIOUS
<1>1. CASE UNCHANGED clientVars
  <2>1. UNCHANGED refFuzzVars /\ UNCHANGED vars /\ UNCHANGED <<client, refAborted, stage>>
    BY <1>1 DEF clientVars, refFuzzVars
  <2>2. HarnessInv => HarnessInv'
    BY <2>1, FuzzRefNextInv
  <2>3. IInv => IInv'
    BY <2>1, NextFaithful
  <2> QED BY <2>1, <2>2, <2>3 DEF ClientInv
<1>2. CASE AnyClient
  <2>1. IInv /\ Next /\ UNCHANGED <<client, refAborted, stage>> /\ client = "any"
        /\ ~refAborted /\ stage = "next"
    BY <1>2 DEF AnyClient, ClientInv, harnessVars
  <2>2. IInv'
    BY <2>1, NextFaithful
  <2> QED BY <2>1, <2>2 DEF ClientInv
<1>3. CASE FuzzClient
  <2>1. HarnessInv /\ FuzzRefNext /\ client' = client /\ client = "fuzz"
    BY <1>3 DEF FuzzClient, ClientInv
  <2>2. HarnessInv'
    BY <2>1, FuzzRefNextInv
  <2> QED BY <2>1, <2>2 DEF ClientInv
<1> QED BY <1>1, <1>2, <1>3 DEF ClientNext

LEMMA ClientInvariance == ClientSpec => []ClientInv
BY ClientInitInv, ClientNextInv, PTL DEF ClientSpec

\* While it is the harness that runs, its inductive invariant holds: it knows in the
\* middle of each operation what every FunctionRef refers to and how often each
\* object was called (fuzz_function_ref.cpp:137-203).
THEOREM HarnessAlwaysKnows == ClientSpec => []HarnessKnows
<1>1. ClientInv => HarnessKnows
  BY DEF ClientInv, HarnessKnows
<1> QED BY <1>1, ClientInvariance, PTL

\* Whichever the client is, a FunctionRef holds what it was last bound to, nothing
\* undefined is done, every call runs what was bound when it was made, and the
\* harness sees no fault (FunctionRef.tpp:41-77).
THEOREM ClientsSafe ==
  ClientSpec => [](IInv /\ Defined /\ RunsWhatWasBound /\ RefNoFalseAlarm /\ OnlyTarget)
<1>1. ClientInv => IInv /\ Defined /\ RefNoFalseAlarm
  BY DEF ClientInv, HarnessInv, IInv, Defined, RefNoFalseAlarm
<1>2. IInv => RunsWhatWasBound
  BY DEF IInv, Faithful, RunsWhatWasBound, Running
<1>3. ClientInv => OnlyTarget
  BY DEF ClientInv, HarnessInv, Staged, Advanced, OnlyTarget
<1> QED BY <1>1, <1>2, <1>3, ClientInvariance, PTL

\* Nor does either client ever write an object through a binding that is const
\* (FunctionRef.tpp:53-62).
THEOREM ClientsChangeAsBound == ClientSpec => ChangesAsBound
<1>1. ASSUME ClientInv, [ClientNext]_clientVars PROVE [WritesAsBound]_vars
  <2>1. IInv
    BY <1>1 DEF ClientInv, HarnessInv
  <2>2. [Next]_vars
    <3>1. CASE UNCHANGED clientVars
      BY <3>1 DEF clientVars, refFuzzVars
    <3>2. CASE ClientNext
      BY <3>2, HarnessIsAClient DEF ClientNext, AnyClient, FuzzClient
    <3> QED BY <1>1, <3>1, <3>2
  <2> QED BY <2>1, <2>2, NextWritesAsBound
<1>2. ClientInv /\ [ClientNext]_clientVars => [WritesAsBound]_vars
  BY <1>1
<1> QED BY <1>2, ClientInvariance, PTL DEF ClientSpec, ChangesAsBound, WritesAsBound
=============================================================================
