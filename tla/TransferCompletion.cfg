SPECIFICATION DrivenSpec
CONSTANTS
  FileSizes <- MCFileSizes
  ChunkSize = 2
  Windows <- MCWindows
  Environment <- MCReceiverCancels
CHECK_DEADLOCK FALSE
PROPERTIES
  CompletionIsAnswered
