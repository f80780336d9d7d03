CONSTANTS
  o1 = o1
  o2 = o2
  s1 = s1
  s2 = s2
  p1 = p1
  p2 = p2
  None = None
  Owners <- TwoOwners
  Sources <- TwoSources
  Peers <- TwoPeers
  Smaller <- SmallPeer
  MaxEntries = 3
  UserSlots = 1
  PerSource = 2
  GlobalTokens = 2
  SourceTokens = 2
  MaxSources = 1
  MaxLeases = 3
  MaxWindows = 2
  MaxRefills = 1
SPECIFICATION BothSpec
SYMMETRY Symmetry
INVARIANTS
  RateKept
  SameConnectionShown
  AdmittedInItsWindow
CHECK_DEADLOCK FALSE
