SPECIFICATION Spec
CONSTANTS
  Proposals = {"p1"}
  Operators = {o1, o2}
  Editors = {}
  MaxChange = 0
  MaxRosterFault = 0
INVARIANT HiredWasApproved
CHECK_DEADLOCK FALSE
