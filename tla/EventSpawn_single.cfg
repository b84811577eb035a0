SPECIFICATION Spec
CONSTANTS
  s1 = s1
  s2 = s2
  t1 = t1
  t2 = t2
  Supervisors = {s1}
  NoSupervisor = NoSupervisor
  NoTicket = NoTicket
  Tickets = {t1}
  Predecessor <- NoPredecessors
  Cap = 1
  PollLimit = 2
  UseContainer = TRUE
  HasBudget = FALSE
  Budget = 0
  Estimate = 1
  SessionCost = 1
  MaxOps = 2
  MaxCrashes = 1
  MaxStops = 0
  MaxDrops = 1
  MaxFaults = 1
  MaxReloads = 0
INVARIANTS
  TypeOK
  OneHandlerPerEvent
  OneEffectPerEvent
  ProcessedMeansSettled
  CapBound
  TransitionHasDiary
  RunningRowsOwned
CHECK_DEADLOCK FALSE
