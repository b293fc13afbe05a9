SPECIFICATION Spec
CONSTANTS
  s1 = s1
  s2 = s2
  Sessions = {s1, s2}
  Streams = {"boot1", "boot2"}
  MaxStreams = 1
  Window = 1
  MaxRanges = 1
  Budgets <- EvictBudgets
SYMMETRY Symmetry
INVARIANT AckedIsHeld
CHECK_DEADLOCK FALSE
