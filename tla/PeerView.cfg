\* One observation, two devices, both left in the repository by an earlier run,
\* two attempts; a queue of two events.
CONSTANTS
  o1 = o1
  o2 = o2
  d1 = d1
  d2 = d2
  Peers <- OnePeer
  Devices <- TwoDevices
  NoOne = NoOne
  Kept <- TwoDevices
  MaxTrust = 2
  Capacity = 2
  MaxAttempts = 2
  PageSize = 1
  Tries = 1
  MaxWishes = 1
SPECIFICATION ViewSpec
SYMMETRY Symmetry
INVARIANTS
  ViewIsExact
  SentAsMeant
  StopEndsAttempt
  TrustIsDurable
CHECK_DEADLOCK FALSE
