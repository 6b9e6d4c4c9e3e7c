\* Inputs of any length.  A cell for every wrapper and for `tmp`: a harness does
\* not run out of memory.
SPECIFICATION FuzzSpec
CONSTANTS
  Small = Small
  Large = Large
  Types = {Small, Large}
  Size <- MCSize
  Align <- MCAlign
  PointerSize = 8
  Mutable = {Small, Large}
  Vals = {0, 1, 2}
  A = A
  B = B
  Temp = Temp
  Wrappers = {A, B, Temp}
  Main = Main
  Threads = {Main}
  Heap = {h1, h2, h3, h4}
  Null = Null
  Junk = Junk
  NoType = NoType
  NoObject = NoObject
  ShareCalls = FALSE
  Empty = Empty
  Unspecified = Unspecified
CHECK_DEADLOCK FALSE
INVARIANT
  NoFalseAlarm
  OracleAgrees
  NothingLeft
  FuzzInv
