---------------------------- MODULE MCDiscovery ----------------------------
(* Three peers on one interface, which may hold one candidate and two      *)
(* entries between them: the first announces, refreshes or changes itself  *)
(* and withdraws, the second only announces and the third only withdraws,  *)
(* so that either may take the last entry.  A tombstone outlasts a lease,  *)
(* and the interface may go and come back.                                 *)
EXTENDS DiscoveryService

CONSTANTS k1, k2, k3, s1

MCScopeOf == (k1 :> s1) @@ (k2 :> s1) @@ (k3 :> s1)
Announces(k, seq, content) ==
  [type |-> "announce", key |-> k, seq |-> seq, content |-> content, ttl |-> 1]
Withdraws(k, seq) == [type |-> "withdraw", key |-> k, seq |-> seq]
MCDatagrams ==
  {Announces(k1, 1, 1), Announces(k1, 2, 1), Announces(k1, 2, 2), Withdraws(k1, 1),
   Withdraws(k1, 2), Announces(k2, 1, 1), Withdraws(k3, 1)}
MCFaults == {"entropy", "transport"}
=============================================================================
