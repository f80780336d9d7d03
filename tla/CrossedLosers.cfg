SPECIFICATION Spec
INVARIANT LosersAreNotShown
CHECK_DEADLOCK FALSE
