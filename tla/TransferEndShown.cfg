SPECIFICATION ViewSpec
CONSTANTS
  Ids = {t1, t2}
  Total = 1
  MaxRecords = 2
  Capacity = 2
  MaxRevision = 4
  MaxNoise = 1
  PageSize = 1
  Attempts = 2
INVARIANT EndShown
CHECK_DEADLOCK FALSE
