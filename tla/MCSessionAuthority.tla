-------------------------- MODULE MCSessionAuthority --------------------------
(* Sessions over the repository of one process, for TLC.                     *)
EXTENDS SessionAuthority, TLC

CONSTANTS p1, k1, k2, s1, s2

OneProcess == {p1}
TwoKeys == {k1, k2}
TwoSessions == {s1, s2}

\* Keys and sessions are told apart by nothing.
Symmetry == Permutations(Keys) \cup Permutations(Sessions)

==============================================================================
