SPECIFICATION FairSpec
CONSTANTS
  Parts = {"broker", "hygiene", "chat", "intake", "exec"}
  MaxAction = 2
  ActionTypes = {"comment"}
  FloorTypes = {"comment"}
  PolicyTypes = {}
  PolicyTier = "notify"
  Brokers = {b1, b2}
  Outboxes = {o1}
  MaxLapse = 1
  SweepLimit = 2
  MaxTransition = 1
  MaxAgentless = 1
  MaxHygFault = 2
  CostCap = 1
  TurnCost = 1
  ToolCallCeiling = 1
  MaxRow = 4
  MaxChatFault = 1
  Guids = {"g1"}
  Requests = {r1, r2}
  Creators = {c1}
  Burst = 1
  WeeklyBudget = 1
  MaxCreated = 0
  MaxNoise = 1
  MaxIntakeFault = 1
  Slugs = {"todo", "dev"}
  FirstSlug = "todo"
  Chats = {c1, c2}
  MaxTrail = 1
  MaxEdit = 2
  MaxVerbFault = 1
  ExecEvents = {"x1", "x2"}
  MaxExecFault = 2
  ServerNames = {n1, n2}
  BearerNames = {n2}
  Supers = {p1, p2}
  McpAgents = {a1, a2}
  MaxFault = 0
  MaxBoot = 0
  TicketTasks = {k1}
  OneshotTasks = {s1}
  Period = 1
  ClaimLimit = 1
  MaxNow = 1
  MaxRuns = 1
  MaxMishap = 0
  MaxRewrite = 0
  MaxReopen = 0
  MaxReset = 0
  Proposals = {"p1", "p2", "p3"}
  Operators = {o1, o2}
  Editors = {e1}
  MaxChange = 2
  MaxRosterFault = 0
  NAgents = 3
  Seeded = 2
  UIDStart = 1
  UIDEnd = 2
  MaxDeploy = 0
  MaxFleetFault = 0
  Installs = {"v1", "v2"}
  MaxInstallFault = 0
  ExcerptHalf = 1
  MaxText = 0
  MaxToolFault = 0
PROPERTIES
  HeadIsServed
  JudgedEventually
  QueuedIsServed
  RedeliveryArrives
  EventsSettle
CHECK_DEADLOCK FALSE
