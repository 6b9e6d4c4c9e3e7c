\* Two threads, two Functions: every behaviour is one of FunctionValues.
SPECIFICATION Spec
CONSTANTS
  full = full
  over = over
  Types = {full, over}
  Size <- MCSize
  Align <- MCAlign
  PointerSize = 8
  Mutable = {over}
  Vals = {0, 1}
  Wrappers = {w1, w2}
  Threads = {t1, t2}
  Heap = {h1, h2, h3, h4}
  Null = Null
  Junk = Junk
  NoType = NoType
  NoObject = NoObject
  ShareCalls = FALSE
INVARIANT
  CopiesItsSource
PROPERTIES
  BehavesAsValues
  OperationsEnd
