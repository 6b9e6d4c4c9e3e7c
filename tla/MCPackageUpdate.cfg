\* Three jobs for two tags.
SPECIFICATION Spec
CONSTANTS
  Runs = {r1, r2, r3}
  Tags = {a, b}
  Old = Old
  Unversioned = Unversioned
  NoTag = NoTag
  NoTree = NoTree
  CMake <- MCCMake
  Matching <- MCMatching
  Default = default
  Branches = {default, maintenance}
  Sources <- MCSources
INVARIANTS
  IInv
  RecipesAgree
PROPERTY
  FaultlessJobsOffer
CHECK_DEADLOCK FALSE
