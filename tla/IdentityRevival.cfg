\* Two processes, a record that is forgotten and committed anew.
CONSTANTS
  p1 = p1
  p2 = p2
  k1 = k1
  k2 = k2
  k3 = k3
  Procs <- TwoProcesses
  Mortal <- TwoProcesses
  Keys <- ThreeKeys
  NoKey = NoKey
  MaxPeers = 2
  MaxTombstones = 2
  MaxRevision = 3
  MaxGenerations = 1
SPECIFICATION Spec
SYMMETRY Symmetry
PROPERTIES
  RevokedStaysRevoked
