\* Two threads share three Functions: every sequence of operations, overlapping
\* wherever the rule for clients allows.
SPECIFICATION Spec
CONSTANTS
  full = full
  over = over
  wide = wide
  Types = {full, over, wide}
  Size <- MCSize
  Align <- MCAlign
  PointerSize = 8
  Mutable = {full, over}
  Vals = {0, 1}
  Wrappers = {w1, w2, w3}
  Threads = {t1, t2}
  Heap = {h1, h2, h3}
  Null = Null
  Junk = Junk
  NoType = NoType
  NoObject = NoObject
  ShareCalls = FALSE
SYMMETRY Interchangeable
INVARIANTS
  IInv
  Defined
  Ownership
  NoLeak
  OwnAddress
  BufferHolds
  NoDataRace
