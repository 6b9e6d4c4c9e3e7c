---------------------------- MODULE FunctionRef ----------------------------
(***************************************************************************)
(* FunctionPro::FunctionRef (include/FunctionPro/FunctionRef.h and .tpp).  *)
(*                                                                         *)
(* A FunctionRef is a pointer and the address of the lambda that knows     *)
(* what the pointer points to.  It owns nothing: the callable is a         *)
(* function, or an object whose lifetime is the client's business.  The    *)
(* callable it calls is client code, which may use any FunctionRef, the    *)
(* one it was called through included, before it returns.                  *)
(*                                                                         *)
(* The client keeps to the header's rule in its weakest form: a callable   *)
(* may die before the FunctionRefs bound to it, but is not called through  *)
(* them any more, even if another object now lives at its address.         *)
(***************************************************************************)
EXTENDS Sequences, Naturals

CONSTANTS
  Refs,       \* the places where a FunctionRef can be
  Functions,  \* the free functions
  Pointers,   \* the client's function pointer variables
  Objects,    \* the addresses of the client's callable objects
  Constant,   \* those where the objects are declared const
  Values,     \* the states of a callable object
  NoPointer,  \* the null function pointer
  Nothing,    \* the pointer of an empty FunctionRef
  Dangling,   \* what a FunctionRef means whose callable died
  Gone,       \* an address without an object, a variable out of scope
  MaxCalls    \* bound: how deep calls nest

ASSUME ReferentsAssumption ==
  /\ Constant \subseteq Objects
  /\ Functions \cap Objects = {}
  /\ {NoPointer, Nothing, Dangling} \cap (Functions \cup Objects) = {}
  /\ Nothing \notin {NoPointer, Dangling} /\ NoPointer # Dangling
  /\ Gone \notin Values
  /\ MaxCalls \in Nat

VARIABLES
  ref,      \* ptr_ and invoke_ of every FunctionRef
  live,     \* the FunctionRefs that exist
  var,      \* the values of the function pointer variables
  obj,      \* the callable objects
  calls,    \* the calls in progress, the innermost last
  meant,    \* history: what the client bound each FunctionRef to
  defined   \* TRUE while nothing undefined was done

vars == <<ref, live, var, obj, calls, meant, defined>>

\* The lambda in invoke_ was generated for a function, for T or for const T.
Invokers == {"none", "function", "object", "const"}
Referents == Functions \cup Objects \cup {NoPointer, Nothing}
Binding == [ptr: Referents, invoke: Invokers]
Meaning == [ptr: Referents \cup {Dangling}, invoke: Invokers]
Frame == [via: Refs, held: Binding, means: Meaning]

Unbound == [ptr |-> Nothing, invoke |-> "none"]

TypeOK == /\ ref \in [Refs -> Binding]
          /\ live \subseteq Refs
          /\ var \in [Pointers -> Functions \cup {NoPointer, Gone}]
          /\ obj \in [Objects -> Values \cup {Gone}]
          /\ calls \in Seq(Frame)
          /\ meant \in [Refs -> Meaning]
          /\ defined \in BOOLEAN

Init == /\ ref = [r \in Refs |-> Unbound]
        /\ live = {}
        /\ var = [p \in Pointers |-> Gone]
        /\ obj = [o \in Objects |-> Gone]
        /\ calls = <<>>
        /\ meant = [r \in Refs |-> Unbound]
        /\ defined = TRUE

-----------------------------------------------------------------------------
(* Construction and assignment                                              *)

\* A FunctionRef is built at r, and the client binds it to m.
Build(r, b, m) ==
  /\ r \notin live
  /\ live' = live \cup {r}
  /\ ref' = [ref EXCEPT ![r] = b]
  /\ meant' = [meant EXCEPT ![r] = m]
  /\ UNCHANGED <<var, obj, calls, defined>>

\* FunctionRef().
DefaultConstruct(r) == Build(r, Unbound, Unbound)

\* FunctionRef(T&), T a function pointer: the pointer's value is kept.
BindPointer(r, p) ==
  LET b == [ptr |-> var[p], invoke |-> "function"]
  IN  var[p] # Gone /\ Build(r, b, b)

\* FunctionRef(T&), T a function.
BindFunction(r, f) ==
  LET b == [ptr |-> f, invoke |-> "function"] IN Build(r, b, b)

\* Mutant: the lambda is generated for the decayed type.
BindObjectDecayed(r, o, cv) ==
  /\ obj[o] # Gone
  /\ o \in Constant => cv = "const"
  /\ Build(r, [ptr |-> o, invoke |-> "object"], [ptr |-> o, invoke |-> cv])

\* FunctionRef(T&), T an object type, const or not (cv): the object's address
\* is kept and T's qualification with it.  A const object only has a const T.
BindObject(r, o, cv) ==
  /\ obj[o] # Gone
  /\ o \in Constant => cv = "const"
  /\ Build(r, [ptr |-> o, invoke |-> cv], [ptr |-> o, invoke |-> cv])

\* The copy and the move constructor: both copy the two fields.
CopyConstruct(r, s) == s \in live /\ Build(r, ref[s], meant[s])

\* Mutant: an assignment that forgets invoke_.
AssignPointerOnly(r, s) ==
  /\ {r, s} \subseteq live
  /\ ref' = [ref EXCEPT ![r].ptr = ref[s].ptr]
  /\ meant' = [meant EXCEPT ![r] = meant[s]]
  /\ UNCHANGED <<live, var, obj, calls, defined>>

\* Copy and move assignment, to itself included.
Assign(r, s) ==
  /\ {r, s} \subseteq live
  /\ ref' = [ref EXCEPT ![r] = ref[s]]
  /\ meant' = [meant EXCEPT ![r] = meant[s]]
  /\ UNCHANGED <<live, var, obj, calls, defined>>

\* ~FunctionRef(): trivial, also in the middle of a call through r.  The
\* memory is anyone's afterwards.
Destroy(r) ==
  /\ r \in live
  /\ live' = live \ {r}
  /\ ref' = [ref EXCEPT ![r] = Unbound]
  /\ meant' = [meant EXCEPT ![r] = Unbound]
  /\ UNCHANGED <<var, obj, calls, defined>>

-----------------------------------------------------------------------------
(* Invocation                                                               *)

\* operator bool.
Bound(r) == ref[r].invoke # "none"

\* A call by binding b is of a function or of an object that is alive.
Callable(b) == \/ b.invoke = "function" /\ b.ptr \in Functions
               \/ b.invoke \in {"object", "const"} /\ b.ptr \in Objects /\ obj[b.ptr] # Gone

\* operator(): an empty FunctionRef throws and nothing changes; else the lambda
\* is entered with a copy of ptr_.
Call(r) ==
  /\ r \in live
  /\ meant[r].ptr \notin {Dangling, NoPointer}
  /\ Bound(r) /\ Len(calls) < MaxCalls
  /\ calls' = Append(calls, [via |-> r, held |-> ref[r], means |-> meant[r]])
  /\ defined' = (defined /\ Callable(ref[r]))
  /\ UNCHANGED <<ref, live, var, obj, meant>>

\* Mutant: the lambda is passed the FunctionRef's ptr_ by reference.
RunningThroughRef(c) == ref[c.via]

\* What the call c runs: ptr_ was passed by value.
Running(c) == c.held

\* The callable returns.  An object called through a non-const lambda may have
\* changed itself, which only an object that is not const may.
Return ==
  LET b == Running(calls[Len(calls)])
      Changes == IF b.invoke = "object" /\ b.ptr \in Objects THEN {b.ptr} ELSE {}
  IN  /\ calls # <<>>
      /\ calls' = SubSeq(calls, 1, Len(calls) - 1)
      /\ \/ UNCHANGED obj
         \/ \E o \in Changes, v \in Values : obj' = [obj EXCEPT ![o] = v]
      /\ defined' = (defined /\ Callable(b) /\ (obj' # obj => Changes \cap Constant = {}))
      /\ UNCHANGED <<ref, live, var, meant>>

-----------------------------------------------------------------------------
(* The client's objects and variables                                       *)

CreateObject(o, v) ==
  /\ obj[o] = Gone
  /\ obj' = [obj EXCEPT ![o] = v]
  /\ UNCHANGED <<ref, live, var, calls, meant, defined>>

\* An object does not die while it runs.  Who was bound to it knows.
DestroyObject(o) ==
  /\ obj[o] # Gone
  /\ \A i \in DOMAIN calls : calls[i].means.ptr # o
  /\ obj' = [obj EXCEPT ![o] = Gone]
  /\ meant' = [r \in Refs |-> IF meant[r].ptr = o THEN [meant[r] EXCEPT !.ptr = Dangling]
                                                  ELSE meant[r]]
  /\ UNCHANGED <<ref, live, var, calls, defined>>

\* A function pointer variable is set, or goes out of scope.
SetPointer(p, f) ==
  /\ f # var[p]
  /\ var' = [var EXCEPT ![p] = f]
  /\ UNCHANGED <<ref, live, obj, calls, meant, defined>>

Next ==
  \/ \E r \in Refs :
       \/ DefaultConstruct(r)
       \/ \E p \in Pointers : BindPointer(r, p)
       \/ \E f \in Functions : BindFunction(r, f)
       \/ \E o \in Objects, cv \in {"object", "const"} : BindObject(r, o, cv)
       \/ \E s \in Refs : CopyConstruct(r, s) \/ Assign(r, s)
       \/ Destroy(r)
       \/ Call(r)
  \/ Return
  \/ \E o \in Objects : DestroyObject(o) \/ \E v \in Values : CreateObject(o, v)
  \/ \E p \in Pointers, f \in Functions \cup {NoPointer, Gone} : SetPointer(p, f)

Spec == Init /\ [][Next]_vars

-----------------------------------------------------------------------------
(* Safety                                                                   *)

\* No call is of an object that is not there, of a null function pointer, or
\* through a null lambda, and no const object is written: FunctionRef's casts
\* (FunctionRef.tpp:44-60) rely on pointer and lambda always changing together,
\* whatever is copied, reassigned or destroyed while calls are in progress.
Defined == defined

\* Every call in progress runs what the client bound the FunctionRef to when
\* the call was made, although the FunctionRef may have been rebound by the
\* callable, or destroyed, since (operator() passes ptr_ by value).
RunsWhatWasBound ==
  \A i \in DOMAIN calls : Running(calls[i]) = calls[i].means

\* A callable object changes only in a call made through a non-const binding
\* of that very object, over any chain of copies: a const binding, which may be
\* of an object that is not const, never leads to the other overload.
ChangesAsBound ==
  [][\A o \in Objects :
       obj[o] # obj'[o] /\ Gone \notin {obj[o], obj'[o]} =>
         /\ calls # <<>> /\ o \notin Constant
         /\ calls[Len(calls)].means = [ptr |-> o, invoke |-> "object"]]_vars

\* For the proofs: what the client still means is what the FunctionRef holds,
\* and what may be called is there.
Faithful ==
  /\ \A r \in Refs :
       /\ meant[r].ptr # Dangling => ref[r] = meant[r]
       /\ meant[r].ptr \in Objects =>
            /\ obj[meant[r].ptr] # Gone
            /\ meant[r].invoke \in {"object", "const"}
            /\ meant[r].ptr \in Constant => meant[r].invoke = "const"
       /\ meant[r].ptr \in Functions \cup {NoPointer} => meant[r].invoke = "function"
       /\ meant[r].ptr = Nothing => meant[r].invoke = "none"
  /\ \A i \in DOMAIN calls :
       LET b == calls[i].means
       IN  /\ calls[i].held = b
           /\ b.ptr \in Functions \cup Objects
           /\ b.ptr \in Objects =>
                /\ obj[b.ptr] # Gone
                /\ b.invoke \in {"object", "const"}
                /\ b.ptr \in Constant => b.invoke = "const"
           /\ b.ptr \in Functions => b.invoke = "function"

IInv == TypeOK /\ defined /\ Faithful
=============================================================================
