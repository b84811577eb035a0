SPECIFICATION Spec
CONSTANTS
  Parts = {"broker", "registry", "reconcile", "schedule", "hygiene", "chat", "intake", "verbs",
           "hiring", "roster", "fleet", "install", "exec", "tool"}
  MaxAction = 2
  ActionTypes = {"comment", "memo"}
  FloorTypes = {"comment"}
  PolicyTypes = {"memo"}
  PolicyTier = "notify"
  Brokers = {b1, b2}
  Outboxes = {o1}
  MaxLapse = 1
  SweepLimit = 2
  MaxTransition = 2
  MaxAgentless = 1
  MaxHygFault = 1
  CostCap = 1
  TurnCost = 1
  ToolCallCeiling = 1
  MaxRow = 4
  MaxChatFault = 2
  Guids = {"g1"}
  Requests = {r1, r2}
  Creators = {c1, c2}
  Burst = 1
  WeeklyBudget = 1
  MaxCreated = 3
  MaxNoise = 1
  MaxIntakeFault = 1
  Slugs = {"todo", "dev"}
  FirstSlug = "todo"
  Chats = {c1, c2}
  MaxTrail = 2
  MaxEdit = 2
  MaxVerbFault = 1
  ExecEvents = {"x1", "x2"}
  MaxExecFault = 2
  ServerNames = {n1, n2}
  BearerNames = {n2}
  Supers = {p1, p2}
  McpAgents = {a1, a2}
  MaxFault = 2
  MaxBoot = 2
  TicketTasks = {k1}
  OneshotTasks = {s1}
  Period = 1
  ClaimLimit = 1
  MaxNow = 3
  MaxRuns = 2
  MaxMishap = 1
  MaxRewrite = 1
  MaxReopen = 1
  MaxReset = 1
  Proposals = {"p1", "p2", "p3"}
  Operators = {o1, o2}
  Editors = {e1}
  MaxChange = 2
  MaxRosterFault = 2
  NAgents = 3
  Seeded = 2
  UIDStart = 1
  UIDEnd = 2
  MaxDeploy = 2
  MaxFleetFault = 2
  Installs = {"v1", "v2"}
  MaxInstallFault = 3
  ExcerptHalf = 1
  MaxText = 3
  MaxToolFault = 2
INVARIANTS
  TypeOK
  PostsAreJustified
  RegistryAgrees
  SlotsFireOnce
  RunsAreOrderly
  TurnsAddUp
  IntakeIsCounted
  NothingOverwritten
  RosterIsSound
  FleetIsSound
  InstallIsSound
  SessionsAreCounted
  
PROPERTIES
  SettledStays
  PausesAndFormsHold
CHECK_DEADLOCK FALSE
