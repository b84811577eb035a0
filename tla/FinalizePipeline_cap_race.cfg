SPECIFICATION Spec
CONSTANTS
  c1 = c1
  c2 = c2
  c3 = c3
  c4 = c4
  Calls = {c1, c2, c3, c4}
  Expected = TRUE
  Grace = TRUE
INVARIANT
  NoCommitAfterCap
CHECK_DEADLOCK FALSE
