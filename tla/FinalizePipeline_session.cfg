SPECIFICATION FairSpec
CONSTANTS
  c1 = c1
  c2 = c2
  c3 = c3
  c4 = c4
  Calls = {c1, c2, c3}
  Expected = TRUE
  Grace = TRUE
INVARIANTS
  TypeOK
  OneOutcome
  AcceptedCallDecides
  RetryCap
  CostKnown
PROPERTY
  SessionEnds
CHECK_DEADLOCK FALSE
