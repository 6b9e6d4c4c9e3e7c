\* Two threads, three MoveOnlyFunctions, and callables that all change when
\* called; a call is not taken for a change by the client's rule, it is one of
\* the operations that need the object for themselves.
SPECIFICATION MoveOnlySpec
CONSTANTS
  full = full
  over = over
  Types = {full, over}
  Size <- MCSize
  Align <- MCAlign
  PointerSize = 8
  Mutable = {full, over}
  Vals = {0, 1}
  Wrappers = {w1, w2, w3}
  Threads = {t1, t2}
  Heap = {h1, h2, h3}
  Null = Null
  Junk = Junk
  NoType = NoType
  NoObject = NoObject
  ShareCalls = TRUE
SYMMETRY Interchangeable
INVARIANT
  NoDataRace
PROPERTY
  NeverCopied
