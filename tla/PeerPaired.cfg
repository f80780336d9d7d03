\* Two observations, paired with two devices, and one more attempt; a queue
\* of one event.
CONSTANTS
  o1 = o1
  o2 = o2
  d1 = d1
  d2 = d2
  Peers <- TwoPeers
  Devices <- TwoDevices
  NoOne = NoOne
  Kept <- TwoDevices
  MaxTrust = 2
  Capacity = 1
  MaxAttempts = 3
  PageSize = 1
  Tries = 2
  MaxWishes = 0
SPECIFICATION PairedSpec
INVARIANTS
  ViewIsExact
  SentAsMeant
  StopEndsAttempt
  TrustIsDurable
CHECK_DEADLOCK FALSE
