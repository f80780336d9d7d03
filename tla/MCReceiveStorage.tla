-------------------------- MODULE MCReceiveStorage --------------------------
EXTENDS ReceiveStorage, TLC

Symmetric == Permutations(Processes) \cup Permutations(Files) \cup Permutations(Paths)
=============================================================================
