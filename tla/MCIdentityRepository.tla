------------------------- MODULE MCIdentityRepository -------------------------
(* The repository with small sets of processes and keys for TLC.             *)
EXTENDS IdentityRepository, TLC

CONSTANTS p1, p2, k1, k2, k3

TwoProcesses == {p1, p2}
TwoKeys == {k1, k2}
ThreeKeys == {k1, k2, k3}

\* Processes and keys are told apart by nothing.
KeySymmetry == Permutations(Keys)
Symmetry == Permutations(Procs) \cup KeySymmetry

\* At most three items of peers, of both generations together.
FewItems == Cardinality({x \in Generations \X Keys : items[x[1]][x[2]].rev > 0}) <= 3

==============================================================================
