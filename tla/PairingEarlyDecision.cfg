\* A write's completion may be handled after the peer's answer has arrived.
SPECIFICATION Spec
CONSTANT Environment <- LateCompletions
INVARIANT FramesAreExpected
CHECK_DEADLOCK FALSE
