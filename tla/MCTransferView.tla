---------------------------- MODULE MCTransferView ----------------------------
EXTENDS TransferView, TLC

Symmetric == Permutations(Ids)
=============================================================================
