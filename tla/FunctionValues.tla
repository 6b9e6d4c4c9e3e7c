--------------------------- MODULE FunctionValues ---------------------------
(***************************************************************************)
(* What Function promises its users: every Function object is a variable   *)
(* that is empty or holds a callable by value, as std::function is.  There *)
(* are no vtables, storages or heap cells here, and no intermediate states:*)
(* an operation takes effect at one instant between its call and its       *)
(* return, and the only operations that can fail are the ones that create  *)
(* a callable; they fail before they have any effect.                      *)
(***************************************************************************)
CONSTANTS
  Wrappers,   \* the places where a Function object can be
  Threads,
  Callables,  \* the callable values
  Empty,      \* a Function that holds no callable: not one of Callables
  Raw,        \* a place with no Function object
  NoCall,     \* a thread that is not inside an operation
  NoOne,      \* the other Function of an operation that has none
  Runs        \* Runs[x]: the values callable x may have after it was called

VARIABLES val, call

vars == <<val, call>>

Start(op, w, o) == [op |-> op, this |-> w, other |-> o, done |-> FALSE]
Done(c) == [c EXCEPT !.done = TRUE]

Init == /\ val = [w \in Wrappers |-> Raw]
        /\ call = [a \in Threads |-> NoCall]

\* The contents the operation c can leave.  An operation's other Function may
\* be the same object, and then nothing changes.
Effects(c) ==
  CASE c.op = "construct" -> {[val EXCEPT ![c.this] = x] : x \in Callables}
    [] c.op \in {"copyctor", "copyassign"} -> {[val EXCEPT ![c.this] = val[c.other]]}
    [] c.op \in {"movector", "moveassign"} ->
         {[val EXCEPT ![c.other] = Empty, ![c.this] = val[c.other]]}
    [] c.op = "swap" -> {[val EXCEPT ![c.this] = val[c.other], ![c.other] = val[c.this]]}
    [] c.op = "reset" -> {[val EXCEPT ![c.this] = Empty]}
    [] c.op = "destroy" -> {[val EXCEPT ![c.this] = Raw]}
    [] c.op = "call" -> {[val EXCEPT ![c.this] = x] : x \in Runs[val[c.this]]}
    [] OTHER -> {}

\* Construction is of a place without an object, everything else of an object.
Sensible(c) ==
  /\ (c.op \in {"construct", "copyctor", "movector"}) <=> (val[c.this] = Raw)
  /\ c.op \in {"copyctor", "copyassign", "movector", "moveassign", "swap"} =>
       c.other \in Wrappers /\ val[c.other] # Raw
  /\ c.op = "call" => val[c.this] \in Callables

Enter(a, op, w, o) ==
  /\ call[a] = NoCall
  /\ Sensible(Start(op, w, o))
  /\ \/ /\ call' = [call EXCEPT ![a] = Start(op, w, o)]
        /\ UNCHANGED val
     \/ /\ call' = [call EXCEPT ![a] = Done(Start(op, w, o))]
        /\ val' \in Effects(Start(op, w, o))

\* What no code of a callable runs in: an empty Function is created or destroyed.
Instant(a, w) ==
  /\ call[a] = NoCall
  /\ \/ val[w] = Raw /\ val' = [val EXCEPT ![w] = Empty]
     \/ val[w] = Empty /\ val' = [val EXCEPT ![w] = Raw]
  /\ UNCHANGED call

TakeEffect(a) ==
  /\ call[a] # NoCall /\ ~call[a].done
  /\ val' \in Effects(call[a])
  /\ call' \in {[call EXCEPT ![a] = Done(call[a])], [call EXCEPT ![a] = NoCall]}

Return(a) ==
  /\ call[a] # NoCall /\ call[a].done
  /\ call' = [call EXCEPT ![a] = NoCall]
  /\ UNCHANGED val

\* Only an operation that creates a callable can end without effect.
Fail(a) ==
  /\ call[a] # NoCall /\ ~call[a].done
  /\ call[a].op \in {"construct", "copyctor", "copyassign"}
  /\ call' = [call EXCEPT ![a] = NoCall]
  /\ UNCHANGED val

Next ==
  \E a \in Threads :
    \/ \E w \in Wrappers, o \in Wrappers \cup {NoOne},
          op \in {"construct", "copyctor", "copyassign", "movector", "moveassign",
                  "swap", "reset", "destroy", "call"} : Enter(a, op, w, o)
    \/ \E w \in Wrappers : Instant(a, w)
    \/ TakeEffect(a)
    \/ Return(a)
    \/ Fail(a)

\* What may happen, and that every operation that was called ends.
Behaves == Init /\ [][Next]_vars

Fairness == \A a \in Threads : WF_vars(TakeEffect(a) \/ Return(a) \/ Fail(a))

Spec == Behaves /\ Fairness
=============================================================================
