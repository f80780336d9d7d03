\* Two processes that may die at any step, two keys, two generations, three
\* items.
CONSTANTS
  p1 = p1
  p2 = p2
  k1 = k1
  k2 = k2
  k3 = k3
  Procs <- TwoProcesses
  Mortal <- TwoProcesses
  Keys <- TwoKeys
  NoKey = NoKey
  MaxPeers = 2
  MaxTombstones = 1
  MaxRevision = 2
  MaxGenerations = 2
SPECIFICATION Spec
SYMMETRY Symmetry
CONSTRAINT FewItems
INVARIANTS
  TrustIsUnambiguous
  OneIdentity
PROPERTIES
  CleanupSparesCurrent
