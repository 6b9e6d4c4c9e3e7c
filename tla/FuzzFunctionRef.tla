-------------------------- MODULE FuzzFunctionRef --------------------------
(***************************************************************************)
(* fuzz_function_ref.cpp: one FunctionRef, bound over and over to an       *)
(* object, a const object, a function or nothing, and called, with the     *)
(* states of the real objects read before and after each call.             *)
(***************************************************************************)
EXTENDS FunctionRef

CONSTANTS
  Ref, Copy, Temporary, \* the FunctionRef, its copy, the temporary of a binding
  mutObj, constObj,     \* the two objects
  freeAdd, fnPtrVar     \* the function, the variable that points to it

ASSUME FuzzRefAssumption ==
  /\ Refs = {Ref, Copy, Temporary} /\ Copy # Ref /\ Temporary \notin {Ref, Copy}
  /\ Objects = {mutObj, constObj} /\ mutObj # constObj /\ Constant = {constObj}
  /\ freeAdd \in Functions /\ Pointers = {fnPtrVar}
  /\ Values \subseteq Nat /\ 1 \in Values

VARIABLES
  target,     \* what the harness takes Ref to refer to
  stage,      \* where the loop's body is
  before,     \* mutBefore and constBefore
  after,      \* the objects' `state` now: constObj's is a mutable member
  refAborted  \* std::abort was called

refFuzzVars == <<vars, target, stage, before, after, refAborted>>

FuzzRefInit ==
  /\ ref = [r \in Refs |-> Unbound]
  /\ live = {Ref}
  /\ var = [p \in Pointers |-> freeAdd]
  /\ obj = [o \in Objects |-> 1]
  /\ calls = <<>>
  /\ meant = [r \in Refs |-> Unbound]
  /\ defined = TRUE
  /\ target = Nothing
  /\ stage = "next"
  /\ before = [o \in Objects |-> 1]
  /\ after = [o \in Objects |-> 1]
  /\ refAborted = FALSE

\* FunctionRef(...), with the variable's value for a function pointer.
BindTemporary(t) ==
  CASE t = mutObj -> BindObject(Temporary, mutObj, "object")
    [] t = constObj -> BindObject(Temporary, constObj, "const")
    [] t = freeAdd -> BindFunction(Temporary, freeAdd) \/ BindPointer(Temporary, fnPtrVar)
    [] t = Nothing -> DefaultConstruct(Temporary)

\* Mutant: without `target = Target::Empty`.
RebindKeepsTarget(t) ==
  /\ stage = "next" /\ ~refAborted
  /\ BindTemporary(t)
  /\ stage' = "assign"
  /\ target' = IF t = Nothing THEN target ELSE t
  /\ UNCHANGED <<before, after, refAborted>>

\* ref = FunctionRef(...); target = t.
Rebind(t) ==
  /\ stage = "next" /\ ~refAborted
  /\ BindTemporary(t)
  /\ stage' = "assign"
  /\ target' = t
  /\ UNCHANGED <<before, after, refAborted>>

FinishRebind ==
  /\ \/ stage = "assign" /\ Assign(Ref, Temporary) /\ stage' = "discard"
     \/ stage = "discard" /\ Destroy(Temporary) /\ stage' = "next"
  /\ UNCHANGED <<target, before, after, refAborted>>

\* The objects a call of the target must advance, by one.
Expected == {target} \cap Objects

\* Bound: no object is called more often than Values can count.
Countable == \A o \in Expected : after[o] + 1 \in Values

\* FunctionRef copy = ref: its bool() is compared before it is called.
MakeCopy ==
  /\ stage = "next" /\ ~refAborted /\ Countable
  /\ CopyConstruct(Copy, Ref)
  /\ stage' = "copied"
  /\ refAborted' = (Bound(Copy)' # Bound(Ref))
  /\ UNCHANGED <<target, before, after>>

\* invokeAndCheck: the call.  An empty FunctionRef throws.
Enter(r) ==
  /\ ~refAborted
  /\ \/ stage = "next" /\ r = Ref
     \/ stage = "copied" /\ r = Copy
  /\ Countable
  /\ before' = after
  /\ IF Bound(r) THEN Call(r) /\ stage' = "calling"
                 ELSE UNCHANGED vars /\ stage' = "threw"
  /\ UNCHANGED <<target, after, refAborted>>

\* The callable: `state += 1; return state + x`, or freeAdd.  constObj counts in
\* its mutable member, which a const call may write.
Leave ==
  LET o == Running(calls[Len(calls)]).ptr
  IN  /\ stage = "calling"
      /\ Return
      /\ after' = IF o \in Objects THEN [after EXCEPT ![o] = @ + 1] ELSE after
      /\ o = mutObj => obj'[o] = after'[o]
      /\ stage' = "returned"
      /\ UNCHANGED <<target, before, refAborted>>

\* What invokeAndCheck aborts on: the call threw though there is a target or
\* returned though there is none, or the target's state did not advance by one.
Check ==
  /\ stage \in {"threw", "returned"}
  /\ stage' = "checked"
  /\ refAborted' = \/ (stage = "threw") # (target = Nothing)
                   \/ \E o \in Expected : after[o] # before[o] + 1
  /\ UNCHANGED <<vars, target, before, after>>

\* The copy's scope ends.
EndCall ==
  /\ stage = "checked"
  /\ IF Copy \in live THEN Destroy(Copy) ELSE UNCHANGED vars
  /\ stage' = "next"
  /\ UNCHANGED <<target, before, after, refAborted>>

FuzzRefNext ==
  \/ \E t \in {mutObj, constObj, freeAdd, Nothing} : Rebind(t)
  \/ FinishRebind \/ MakeCopy \/ \E r \in {Ref, Copy} : Enter(r)
  \/ Leave \/ Check \/ EndCall

FuzzRefSpec == FuzzRefInit /\ [][FuzzRefNext]_refFuzzVars

-----------------------------------------------------------------------------
\* No input makes the harness abort, and every call is defined: the FunctionRef
\* always reaches the object the harness has last bound it to, through a copy
\* too, and the enum it keeps beside it is never behind.
RefNoFalseAlarm == ~refAborted /\ defined

\* A call reaches its target only: the other object stays as it was, which the
\* harness itself does not look at.
OnlyTarget ==
  stage = "checked" =>
    \A o \in Objects : after[o] = before[o] + IF o = target THEN 1 ELSE 0

-----------------------------------------------------------------------------
(* The invariant behind both, and behind the proofs                         *)

Targets == {mutObj, constObj, freeAdd, Nothing}

\* What a FunctionRef means that the harness has bound to t.
MeantFor(t) ==
  [ptr |-> t, invoke |-> CASE t = mutObj -> "object" [] t = constObj -> "const"
                           [] t = freeAdd -> "function" [] t = Nothing -> "none"]

\* The objects, as the last call of the target has left them.
Advanced == \A o \in Objects : after[o] = before[o] + IF o = target THEN 1 ELSE 0

\* Between which statements the FunctionRefs are bound to the target, a call is
\* under way and the objects have advanced.
Staged ==
  /\ stage = "next" => live = {Ref}
  /\ stage \in {"assign", "discard"} => live = {Ref, Temporary}
  /\ stage = "copied" => live = {Ref, Copy} /\ meant[Copy] = MeantFor(target)
  /\ live \in {{Ref}, {Ref, Copy}, {Ref, Temporary}}
  /\ Temporary \in live <=> stage \in {"assign", "discard"}
  /\ IF stage = "assign" THEN meant[Temporary] = MeantFor(target)
                         ELSE meant[Ref] = MeantFor(target)
  /\ stage # "calling" => calls = <<>>
  /\ stage = "calling" => /\ Len(calls) = 1 /\ calls[1].means = MeantFor(target)
                          /\ target # Nothing /\ after = before
  /\ stage \in {"threw", "returned", "checked"} => Advanced
  /\ stage = "threw" => target = Nothing
  /\ stage = "returned" => target # Nothing

\* The library's invariant holds in the middle of every operation of the
\* harness, which knows of each FunctionRef what it refers to and of each object
\* how often it was called.
HarnessInv ==
  /\ IInv
  /\ ~refAborted /\ target \in Targets
  /\ stage \in {"next", "assign", "discard", "copied", "calling", "threw", "returned", "checked"}
  /\ var[fnPtrVar] = freeAdd
  /\ before \in [Objects -> Nat] /\ after \in [Objects -> Nat]
  /\ Staged
=============================================================================
