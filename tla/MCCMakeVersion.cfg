\* One job for one tag.
SPECIFICATION Spec
CONSTANTS
  Runs = {r1}
  Tags = {a}
  Old = Old
  Unversioned = Unversioned
  NoTag = NoTag
  NoTree = NoTree
  CMake <- MCCMake
  Matching <- MCMatching
  Default = default
  Branches = {default}
  Sources <- AllDefault
INVARIANT
  CMakeFollows
CHECK_DEADLOCK FALSE
