SPECIFICATION Spec
CONSTANTS
  s1 = s1
  s2 = s2
  t1 = t1
  t2 = t2
  Supervisors = {s1, s2}
  NoSupervisor = NoSupervisor
  NoTicket = NoTicket
  Tickets = {t1}
  Predecessor <- NoPredecessors
  Cap = 1
  PollLimit = 2
  UseContainer = FALSE
  HasBudget = FALSE
  Budget = 0
  Estimate = 1
  SessionCost = 1
  MaxOps = 1
  MaxCrashes = 1
  MaxStops = 1
  MaxDrops = 0
  MaxFaults = 1
  MaxReloads = 0
INVARIANTS
  OneSupervisor
PROPERTY
  ImplementsOutbox
CHECK_DEADLOCK FALSE
