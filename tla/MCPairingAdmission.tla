-------------------------- MODULE MCPairingAdmission --------------------------
(***************************************************************************)
(* Admission for TLC, in two scenarios that have no step in common: one      *)
(* device with several runtimes, sources and peers (PairingAdmission), or two *)
(* devices that connect to each other at once (CrossedPairing).               *)
(***************************************************************************)
EXTENDS PairingAdmission, TLC

CONSTANTS o1, o2, s1, s2, p1, p2

TwoOwners == {o1, o2}
TwoSources == {s1, s2}
TwoPeers == {p1, p2}
SmallPeer == {p1}

\* Owners, and sources, are told apart by nothing; the peers by their keys.
Symmetry == Permutations(TwoOwners) \cup Permutations(TwoSources)

VARIABLES
  scenario,                      \* "device" or "crossed", for good
  phase, sent, lost, displayed   \* of CrossedPairing

Crossed == INSTANCE CrossedPairing
crossedVars == <<phase, sent, lost, displayed>>

BothInit == scenario \in {"device", "crossed"} /\ Init /\ Crossed!Init

BothNext ==
  /\ \/ scenario = "device" /\ Next /\ UNCHANGED crossedVars
     \/ scenario = "crossed" /\ Crossed!Next /\ UNCHANGED vars
  /\ UNCHANGED scenario

BothSpec == BothInit /\ [][BothNext]_<<vars, scenario, crossedVars>>

\* Two users whose devices connect to each other never look at the strings of
\* two different connections at once (Bind and MarkVisible).
SameConnectionShown == Crossed!SameConnectionShown
==============================================================================
