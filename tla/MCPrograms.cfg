SPECIFICATION Spec
CONSTANTS
  Files <- MCFiles
  Id <- MCId
  Plain <- MCPlain
  Lower <- MCLower
  Requests <- MCRequests
  Body <- MCBody
  Timings <- MCTimings
  Disks <- MCDisks
  Calls <- MCCalls
  Spelling <- MCSpelling
  WorkingCopies <- MCWorkingCopies
  CallsAfter <- MCCallsAfter
  NameOf <- MCNameOf
INVARIANTS
  RunsRequested
  IdsIdentify
  BenchTables
  ComparesWhatRan
  ReportFaithful
  NumbersDecide
  ListedIdsResolve
  TableShape
  CellsAligned
  ReportOnlyOnSuccess
CHECK_DEADLOCK FALSE
