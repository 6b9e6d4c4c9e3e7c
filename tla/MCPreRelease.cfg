SPECIFICATION Spec
CONSTANTS
  Disks <- MCDisks
  Calls <- MCCalls
  Spelling <- MCSpelling
INVARIANT NewestBaseline
CHECK_DEADLOCK FALSE
