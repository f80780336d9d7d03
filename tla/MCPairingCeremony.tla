------------------------- MODULE MCPairingCeremony -------------------------
(* Instances of PairingCeremony for TLC: what may disturb the ceremony.      *)
EXTENDS PairingCeremony

Everything == Disturbances
Nothing == {}
LateCompletions == {"late"}
=============================================================================
