\* The timer cannot be armed: Start fails while the io thread handles a datagram.
CONSTANTS
  k1 = k1
  k2 = k2
  k3 = k3
  s1 = s1
  NoEntry = NoEntry
  Keys = {k1, k2, k3}
  Scopes = {s1}
  ScopeOf <- MCScopeOf
  MaxSequence = 2
  Contents = {1, 2}
  Ttls = {1}
  Datagrams <- MCDatagrams
  TombstoneLifetime = 2
  MaxCandidates = 1
  MaxCandidatesPerScope = 1
  MaxEntries = 2
  MaxEntriesPerScope = 2
  MaxBytes = 2
  MaxTokens = 1
  MaxStarts = 1
  MaxWakes = 1
  MaxChanges = 1
  Faults = {"timer"}
SPECIFICATION Spec
PROPERTY CallsReturn
CHECK_DEADLOCK FALSE
