SPECIFICATION Spec
CONSTANTS
  FileSizes <- MCEmptyOrTwo
  ChunkSize = 2
  Windows <- MCWindows
  Environment <- MCAllEvents
CHECK_DEADLOCK FALSE
INVARIANTS
  CreditConserved
  OutcomesAgree
PROPERTIES
  KeepsOutcome
