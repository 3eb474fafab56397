SPECIFICATION RuntimeSpec
CONSTANTS
  None = None
  Components = {"groups", "approvals", "interactions", "tools", "mcp", "memory", "runs",
                "codex", "context", "routines", "triggers", "jobs"}
  Bots = {b1, b2}
  NoBot = NoBot
  Handlers = {h1, h2}
  Keys = {k1, k2}
  Turns = {t1, t2}
  NoTurn = NoTurn
  FewestMembers = 2
  MostMembers = 3
  MaxTurns = 2
  MaxParallel = 1
  Crashes = TRUE
  AskingTurns = {"turn"}
  AskingRequests = {"request"}
  Tickets = {"ticket"}
  OwnerRequests = {"x1"}
  MostPending = 1
  PolicyRevisions = 2
  OwnerActions = 2
  Cards = {"card"}
  Responders = {"x1", "x2", "x3"}
  ToolTurns = {"o1"}
  MaxToolCalls = 3
  McpPages = 3
  McpTools = 4
  Texts = {"x1", "x2"}
  Named = {"n1"}
  FactCalls = {"w1", "w2"}
  MaxFacts = 2
  MaxFactCalls = 4
  ProviderKinds = {"claude", "generic", "openai"}
  ProviderTurns = {"o1"}
  ProviderCalls = {"c1", "c2"}
  CodexTurns = {"o1", "o2"}
  MaxCodexClients = 1
  MaxProviderEvents = 2
  ContextProfiles = {"p1", "p2"}
  PlanProfiles = {"p1"}
  ContextRequests = {"q1", "q2"}
  ContextTurns = 1
  ContextFaults = 1
  RoutineEditors = {"e1"}
  RoutineVersions = 3
  RoutineRestarts = 1
  EventBatch = 1
  EventsInspected = 2
  SchedulePeriod = 1
  ScheduleGrace = 1
  MissedPolicy = "run_once"
  MostCaughtUp = 1
  TriggerBounds <- EventsOrDeliveries
  JobNames = {"j1", "j2", "j3"}
  JobTriggers = {"queues", "skips", "pairs"}
  JobTrigger <- ThreePolicies
  JobRoutines = {"r1"}
  JobRoutine <- OneJobRoutine
  JobLimit <- TwoForPairs
  SkippingTriggers = {"skips"}
  ClaimWindow = 2
  JobAttempts = 2
  JobCancels = {"c1"}
  JobRestarts = 1
INVARIANTS
  RuntimeTypeOK
  TurnsPaid
  RunsAsShown
  OneAnswer
  FoundByStop
  OutcomeHolds
  IdsMeanOneFact
  EndsClean
  NoneStranded
  BusyWhileOperating
  DraftsNeverRun
  NothingUndelivered
  OverlapRespected
  WorkIsShown
CHECK_DEADLOCK FALSE
