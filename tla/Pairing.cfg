\* Everything may go wrong, in any order.
SPECIFICATION FairSpec
CONSTANT Environment <- Everything
INVARIANTS
  TrustNeedsBothUsers
  OutcomesAgree
PROPERTY PairingEnds
CHECK_DEADLOCK FALSE
