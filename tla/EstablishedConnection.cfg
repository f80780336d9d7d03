\* Two threads of the user with three calls, one call of a handler, a thread
\* that reads and two that write, and memory that may run out.
CONSTANTS
  Users <- TwoUsers
  Openers <- SecondUser
  MaxCalls <- FewCalls
  MaxEvents = 1
  Reads <- OneRead
  Writes <- TwoWrites
  Size <- OneByte
  MaxBytes = 2
  MaxWrites = 2
  Places = 2
  MemoryFails = TRUE
  NoOp = NoOp
SPECIFICATION FairConnection
INVARIANTS
  OneOutcome
  StopSettles
PROPERTIES
  CancelledNeverRuns
  CallsReturn
  CloseAnswers
CHECK_DEADLOCK FALSE
