\* Two FunctionRefs (and the harness's temporary), calls two deep, an object of
\* each kind: enough for a callable to rebind, copy or destroy the FunctionRef it
\* was called through and call again, and for an address to be used by a second
\* object.  The harness reads inputs of any length and calls an object until it
\* has counted as far as Values.
SPECIFICATION ClientSpec
CONSTANTS
  Ref = Ref
  Copy = Copy
  Temporary = Temporary
  Refs = {Ref, Copy, Temporary}
  freeAdd = freeAdd
  Functions = {freeAdd, f2}
  fnPtrVar = fnPtrVar
  Pointers = {fnPtrVar}
  mutObj = mutObj
  constObj = constObj
  Objects = {mutObj, constObj}
  Constant = {constObj}
  Values = {1, 2, 3}
  NoPointer = NoPointer
  Nothing = Nothing
  Dangling = Dangling
  Gone = Gone
  MaxCalls = 2
INVARIANT
  IInv
  Defined
  RunsWhatWasBound
  RefNoFalseAlarm
  OnlyTarget
  HarnessKnows
PROPERTY
  ChangesAsBound
