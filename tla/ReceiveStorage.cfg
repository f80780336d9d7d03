SPECIFICATION Spec
CONSTANTS
  Processes = {p1, p2}
  Files = {f1, f2}
  Paths = {a, b}
  Sizes = {0, 1, 2}
  Limit = 2
SYMMETRY Symmetric
INVARIANTS
  PublishedIsWhole
  CommittedIsKept
  TemporariesAccounted
CHECK_DEADLOCK FALSE
