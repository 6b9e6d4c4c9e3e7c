------------------------- MODULE FunctionRefClients -------------------------
(***************************************************************************)
(* FunctionRef with one client of two: any program that keeps to the       *)
(* header's rule, or the fuzz harness.  Which one it is is decided once.   *)
(***************************************************************************)
EXTENDS FuzzFunctionRef

VARIABLE client

clientVars == <<client, refFuzzVars>>

harnessVars == <<target, stage, before, after, refAborted>>

\* The harness's own variables, which the other client leaves alone.
HarnessIdle ==
  /\ target = Nothing /\ stage = "next" /\ refAborted = FALSE
  /\ before = [o \in Objects |-> 1] /\ after = before

ClientInit == \/ client = "any" /\ Init /\ HarnessIdle
              \/ client = "fuzz" /\ FuzzRefInit

\* Bound: any program has two FunctionRefs, and none for temporaries.
AnyClient ==
  /\ client = "any"
  /\ Next /\ Temporary \notin live'
  /\ UNCHANGED <<client, harnessVars>>

FuzzClient == client = "fuzz" /\ FuzzRefNext /\ UNCHANGED client

ClientNext == AnyClient \/ FuzzClient

ClientSpec == ClientInit /\ [][ClientNext]_clientVars

-----------------------------------------------------------------------------
\* The harness's inductive invariant holds while it is the harness that runs: it
\* knows in the middle of each operation what every FunctionRef refers to and
\* how often each object was called (fuzz_function_ref.cpp).
HarnessKnows == client = "fuzz" => HarnessInv
=============================================================================
