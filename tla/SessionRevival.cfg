\* Revoked in the repository, and paired again by a record of the same revision.
CONSTANTS
  p1 = p1
  k1 = k1
  k2 = k2
  s1 = s1
  s2 = s2
  Procs <- OneProcess
  Mortal <- OneProcess
  Owner = p1
  Keys <- TwoKeys
  NoKey = NoKey
  Sessions <- TwoSessions
  MaxPending = 1
  NoSession = NoSession
  MaxPeers = 1
  MaxTombstones = 1
  MaxRevision = 3
  MaxGenerations = 3
SPECIFICATION SessionSpec
PROPERTY LostStaysLost
CHECK_DEADLOCK FALSE
