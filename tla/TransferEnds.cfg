SPECIFICATION DrivenSpec
CONSTANTS
  FileSizes <- MCFileSizes
  ChunkSize = 2
  Windows <- MCWindows
  Environment <- MCSenderCancels
CHECK_DEADLOCK FALSE
PROPERTIES
  AcceptedTransferEnds
