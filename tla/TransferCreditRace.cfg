SPECIFICATION Spec
CONSTANTS
  FileSizes <- MCFileSizes
  ChunkSize = 2
  Windows <- MCWindows
  Environment <- MCNoEvents
CHECK_DEADLOCK FALSE
INVARIANTS
  GrantedCreditIsHonoured
