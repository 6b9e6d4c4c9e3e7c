----------------------------- MODULE FuzzOwning -----------------------------
(***************************************************************************)
(* The fuzz harnesses of the two owning wrappers, fuzz_function.cpp and    *)
(* fuzz_move_only_function.cpp, as clients of the library: one loop over   *)
(* the input's bytes, each an operation on two wrappers, with an oracle    *)
(* that must always agree with them.  The library's part is the actions of *)
(* Function; the input is whatever the fuzzer likes.                       *)
(*                                                                         *)
(* An operation of a harness is a list of tasks: calls of the library and  *)
(* the checks that abort.  Not modelled are the argument of a call, which  *)
(* both sides add to the same state, and checkSelfConsistency, whose two   *)
(* sides are one comparison of vtable_.                                    *)
(***************************************************************************)
EXTENDS Function, Sequences

CONSTANTS
  A, B,          \* the harness's two wrappers
  Temp,          \* the temporary of an assignment from a callable
  Main,          \* its only thread
  Small, Large,  \* the two callable types
  Empty,         \* an oracle without a callable
  Unspecified    \* a moved-from std::function

\* The tasks of a harness, beside the construction of a callable of a type.
Calls == {"default", "copy", "move", "swap", "reset", "destroy", "call"}
Checks == {"emptied", "same", "agree", "result"}

ASSUME FuzzAssumption ==
  /\ Wrappers = {A, B, Temp} /\ A # B /\ Temp \notin {A, B}
  /\ Threads = {Main} /\ ShareCalls = FALSE
  /\ Types = {Small, Large} /\ fits(Small) /\ ~fits(Large)
  /\ Mutable = Types  \* operator() is `state += 1; return state + x`
  /\ {Empty, Unspecified} \cap Vals = {} /\ Empty # Unspecified
  /\ Types \cap (Calls \cup Checks) = {}

VARIABLES
  harness,  \* which of the programs this is; "over" once it returned
  todo,     \* what is left of the operation in progress
  oracle,   \* Pair::ref or Slot::model: the state of the expected callable
  aborted   \* std::abort was called

fuzzVars == <<vars, harness, todo, oracle, aborted>>

FuzzInit == /\ Init
            /\ harness \in {"function", "move_only"}
            /\ todo = <<[do |-> "default", w |-> A, o |-> A, x |-> 0],
                        [do |-> "default", w |-> B, o |-> B, x |-> 0]>>
            /\ oracle = [w \in {A, B} |-> Empty]
            /\ aborted = FALSE

Task(do, w, o) == [do |-> do, w |-> w, o |-> o, x |-> 0]
Holding(w) == vt[w] # NoType

-----------------------------------------------------------------------------
(* The tasks                                                                *)

\* The library's operations.
Operation(k) ==
  CASE k.do = "default" -> DefaultConstruct(Main, k.w)
    [] k.do \in Types -> Construct(Main, k.w, k.do, k.x)
    [] k.do = "copy" -> CopyAssign(Main, k.w, k.o)
    [] k.do = "move" -> MoveAssign(Main, k.w, k.o)
    [] k.do = "swap" -> Swap(Main, k.w, k.o)
    [] k.do = "reset" -> Reset(Main, k.w)
    [] k.do = "destroy" -> Destroy(Main, k.w)
    [] k.do = "call" -> Call(Main, k.w)

\* What happens otherwise: the wrappers are one or are empty, and nothing
\* changes; a call of an empty wrapper throws, which the harness catches.
HasWork(k) ==
  /\ k.do \in {"copy", "move", "swap"} => k.w # k.o /\ (Holding(k.w) \/ Holding(k.o))
  /\ k.do \in {"reset", "call"} => Holding(k.w)

\* What a check aborts on: a moved-from wrapper that is not empty, one that a
\* self-assignment emptied or filled (x says how it was), one that is empty
\* when its oracle is not, a result that is not the oracle's.  A std::function
\* that was moved from may be either, and hold anything.
Fails(k) ==
  CASE k.do = "emptied" -> Holding(k.w)
    [] k.do = "same" -> Holding(k.w) # (k.x = 1)
    [] k.do = "agree" -> oracle[k.w] = Unspecified \/ Holding(k.w) # (oracle[k.w] # Empty)
    [] k.do = "result" ->
         Holding(k.w) /\ mem.obj[Place(mem, vt[k.w], k.w)].val # oracle[k.w]

\* The next task.  A harness whose `new` finds no memory ends here.
NextTask ==
  LET k == Head(todo)
  IN  /\ todo # <<>> /\ act[Main] = Idle /\ ~aborted
      /\ todo' = Tail(todo)
      /\ IF k.do \in Checks
           THEN aborted' = Fails(k) /\ UNCHANGED vars
           ELSE /\ IF HasWork(k) THEN Operation(k) ELSE UNCHANGED vars
                /\ UNCHANGED aborted
      /\ UNCHANGED <<harness, oracle>>

\* The callables' code returns: no constructor throws, every call counts.
Proceed ==
  /\ \/ FinishBuild(Main) \/ FinishKill(Main) \/ StepMove(Main) \/ FinishRetire(Main)
     \/ FinishCall(Main) /\ mem' = Called(mem, act[Main].cell)
  /\ UNCHANGED <<harness, todo, oracle, aborted>>

-----------------------------------------------------------------------------
(* The operations of both harnesses                                         *)

Do(tasks, expected) ==
  /\ todo' = tasks
  /\ oracle' = expected
  /\ UNCHANGED <<vars, harness, aborted>>

\* w = callable: a temporary wrapper is made of it and moved from.
Replace(w, t, v) ==
  Do(<<[do |-> t, w |-> Temp, o |-> Temp, x |-> v],
       Task("move", w, Temp), Task("destroy", Temp, Temp)>>,
     [oracle EXCEPT ![w] = v])

\* Mutant: the oracles are not swapped.
SwapOneSide(which) ==
  /\ harness = which
  /\ Do(<<Task("swap", A, B)>>, oracle)

SwapBoth(which) ==
  /\ harness = which
  /\ Do(<<Task("swap", A, B)>>, [oracle EXCEPT ![A] = oracle[B], ![B] = oracle[A]])

\* Mutant: the oracle is not emptied.
ClearOneSide(w) == Do(<<Task("reset", w, w)>>, oracle)

Clear(w) == Do(<<Task("reset", w, w)>>, [oracle EXCEPT ![w] = Empty])

\* A call of wrapper and oracle with one argument.  Bound: the callable is not
\* called more often than Vals can count.
Invoke(w) ==
  /\ oracle[w] \in Vals => oracle[w] + 1 \in Vals
  /\ Do(<<Task("agree", w, w), Task("call", w, w), Task("result", w, w)>>,
        [oracle EXCEPT ![w] = IF @ \in Vals THEN @ + 1 ELSE @])

\* An operation of a on itself must keep its bool().
Self(do) ==
  Do(<<Task(do, A, A), [do |-> "same", w |-> A, o |-> A, x |-> IF Holding(A) THEN 1 ELSE 0]>>,
     oracle)

-----------------------------------------------------------------------------
(* fuzz_function.cpp: the oracle is a std::function                         *)

FunctionAssign(w, t, v) == harness = "function" /\ Replace(w, t, v)

FunctionCopy ==
  /\ harness = "function"
  /\ Do(<<Task("copy", A, B)>>, [oracle EXCEPT ![A] = oracle[B]])

\* Mutant: without `b.ref = nullptr`.
FunctionMoveUnforced ==
  /\ harness = "function"
  /\ Do(<<Task("move", A, B), Task("emptied", B, B)>>,
        [oracle EXCEPT ![A] = oracle[B], ![B] = Unspecified])

FunctionMove ==
  /\ harness = "function"
  /\ Do(<<Task("move", A, B), Task("emptied", B, B)>>,
        [oracle EXCEPT ![A] = oracle[B], ![B] = Empty])

FunctionReset(w) == harness = "function" /\ Clear(w)
checkPair(w) == harness = "function" /\ Invoke(w)
FunctionSelf(do) == harness = "function" /\ Self(do)

-----------------------------------------------------------------------------
(* fuzz_move_only_function.cpp: the oracle is the harness's own Model       *)

MoveOnlyAssign(w, t, v) == harness = "move_only" /\ Replace(w, t, v)

MoveOnlyMove ==
  /\ harness = "move_only"
  /\ Do(<<Task("move", A, B), Task("emptied", B, B)>>,
        [oracle EXCEPT ![A] = oracle[B], ![B] = Empty])

MoveOnlyReset(w) == harness = "move_only" /\ Clear(w)
checkInvoke(w) == harness = "move_only" /\ Invoke(w)
MoveOnlySelf(do) == harness = "move_only" /\ do # "copy" /\ Self(do)

-----------------------------------------------------------------------------
\* The input is over: the two wrappers are destroyed and 0 is returned.
Over == /\ harness # "over"
        /\ harness' = "over"
        /\ todo' = <<Task("destroy", B, B), Task("destroy", A, A)>>
        /\ UNCHANGED <<vars, oracle, aborted>>

\* The loop takes the next byte of the input.
NextByte ==
  /\ todo = <<>> /\ act[Main] = Idle /\ ~aborted
  /\ \/ \E w \in {A, B}, t \in Types, v \in Vals :
          FunctionAssign(w, t, v) \/ MoveOnlyAssign(w, t, v)
     \/ FunctionCopy \/ FunctionMove \/ MoveOnlyMove
     \/ SwapBoth("function") \/ SwapBoth("move_only")
     \/ \E w \in {A, B} : \/ FunctionReset(w) \/ MoveOnlyReset(w)
                          \/ checkPair(w) \/ checkInvoke(w)
     \/ \E do \in {"copy", "move", "swap"} : FunctionSelf(do) \/ MoveOnlySelf(do)
     \/ Over

FuzzNext == NextByte \/ NextTask \/ Proceed

FuzzSpec == FuzzInit /\ [][FuzzNext]_fuzzVars

-----------------------------------------------------------------------------
\* No input makes a harness abort as long as the library keeps to Function: an
\* abort is a fault of the library and never one of the harness, whose oracle
\* therefore follows every operation, the moved-from state included.
NoFalseAlarm == ~aborted

\* Between two bytes wrapper and oracle hold the same, whether or not this
\* input ever calls them: a disagreement cannot hide until a later swap or copy
\* has overwritten it, nor two of them cancel out.
OracleAgrees ==
  todo = <<>> /\ act[Main] = Idle /\ harness # "over" =>
    \A w \in {A, B} :
      oracle[w] = IF Holding(w) THEN mem.obj[Place(mem, vt[w], w)].val ELSE Empty

\* When a harness has returned every callable of the run is gone, so that a
\* leak the sanitizers report is one of the library.
NothingLeft ==
  harness = "over" /\ todo = <<>> /\ act[Main] = Idle => \A l \in Loc : mem.obj[l] = NoObject
=============================================================================
