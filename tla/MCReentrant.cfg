\* Operations three deep on two Functions.
SPECIFICATION NestedSpec
CONSTANTS
  full = full
  over = over
  Types = {full, over}
  Size <- MCSize
  Align <- MCAlign
  PointerSize = 8
  Mutable = {over}
  Vals = {0, 1}
  Wrappers = {w1, w2}
  Threads = {t1, t2, t3}
  Heap = {h1, h2, h3}
  Null = Null
  Junk = Junk
  NoType = NoType
  NoObject = NoObject
  ShareCalls = FALSE
INVARIANT
  NestedOwnership
  NestedValuesInv
PROPERTY
  ImplementsNested
  NestedOperationsEnd
