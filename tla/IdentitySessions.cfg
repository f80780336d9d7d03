\* One process that may die, one peer of two keys at a time, three
\* generations, two sessions.
CONSTANTS
  p1 = p1
  k1 = k1
  k2 = k2
  s1 = s1
  s2 = s2
  Procs <- OneProcess
  Mortal <- OneProcess
  Owner = p1
  Keys <- TwoKeys
  NoKey = NoKey
  Sessions <- TwoSessions
  MaxPending = 1
  NoSession = NoSession
  MaxPeers = 1
  MaxTombstones = 1
  MaxRevision = 3
  MaxGenerations = 3
SPECIFICATION SessionSpec
SYMMETRY Symmetry
INVARIANTS
  MemoryIsDurable
  NothingOrphaned
  AuthorizedIsDurable
  RevokedSessionsStayEnded
