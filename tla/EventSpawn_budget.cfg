SPECIFICATION Spec
CONSTANTS
  s1 = s1
  s2 = s2
  t1 = t1
  t2 = t2
  Supervisors = {s1}
  NoSupervisor = NoSupervisor
  NoTicket = NoTicket
  Tickets = {t1, t2}
  Predecessor <- Chain
  Cap = 2
  PollLimit = 2
  UseContainer = TRUE
  HasBudget = TRUE
  Budget = 2
  Estimate = 1
  SessionCost = 2
  MaxOps = 2
  MaxCrashes = 0
  MaxStops = 0
  MaxDrops = 0
  MaxFaults = 0
  MaxReloads = 2
INVARIANTS
  BudgetOvershoot
  DependentsWait
  AgentSlotExclusive
CHECK_DEADLOCK FALSE
