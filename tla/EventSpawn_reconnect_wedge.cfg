SPECIFICATION FairSpec
CONSTANTS
  s1 = s1
  s2 = s2
  t1 = t1
  t2 = t2
  Supervisors = {s1}
  NoSupervisor = NoSupervisor
  NoTicket = NoTicket
  Tickets = {t1}
  Predecessor <- NoPredecessors
  Cap = 1
  PollLimit = 9
  UseContainer = FALSE
  HasBudget = FALSE
  Budget = 0
  Estimate = 1
  SessionCost = 1
  MaxOps = 1
  MaxCrashes = 0
  MaxStops = 0
  MaxDrops = 1
  MaxFaults = 0
  MaxReloads = 0
PROPERTY
  WorkNotLost
CHECK_DEADLOCK FALSE
