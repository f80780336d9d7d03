SPECIFICATION FairSpec
CONSTANTS
  Threads = {t1, t2}
  NoThread = none
  Capacity = 2
  MaxEvents = 4
  MaxRegistrations = 2
INVARIANTS
  UnregisterBarrier
  LossIsFlagged
PROPERTIES
  BarriersReturn
  EventsAreDrained
CHECK_DEADLOCK FALSE
