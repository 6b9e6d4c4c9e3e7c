SPECIFICATION Spec
CONSTANTS
  Disks <- MCDisks
  Calls <- MCCalls
  Spelling <- MCSpelling
INVARIANT WinsAreMeasured
CHECK_DEADLOCK FALSE
