SPECIFICATION OwnerSpec
CONSTANTS
  None = None
  Components = {"plugins", "browser", "workspaces", "records", "devices", "attachments",
                "secrets", "timeline", "group_view", "unread", "commands", "android"}
  RosterHandlers = {"h1", "h2"}
  RosterKeys = {"k1", "k2"}
  MaxUnread = 2
  VcsKeys = {"k1", "k2"}
  VcsRequests = {"r1", "r2"}
  MaxEdits = 1
  PairingOffers = {"o1", "o2"}
  DeviceSessions = {"d1", "d2"}
  CommandKeys = {"k1"}
  PairingLifetime = 1
  PairingAttempts = 1
  MaxInstants = 1
  MaxCommandCopies = 2
  UploadFiles = {"f1", "f2"}
  MadeFiles = {"a1"}
  UploadRequests = {"u1"}
  FinalRequests = {"c1", "c2"}
  SecretIds = {"i1", "i2"}
  SecretLabels = {"l1", "l2"}
  SecretRequests = {"r1", "r2"}
  RecordKeys = {"k1", "k2"}
  RecordRequests = {"r1"}
  FirstBotId = "b0"
  PackSkillId = "p0"
  PluginIds = {"p1"}
  PluginCallers = {"c1", "c2"}
  AuthFlows = {"f1"}
  ConnectorSessions = {"s1", "s2"}
  WebhookIds = {"d1"}
  FlowLimit = 1
  PluginCalls = 4
  BrowserKeys = {"k1"}
  BrowserTargets = {"t1", "t2"}
  BrowserDevices = {"d1", "d2"}
  BotCaller = "bot"
  BrowserCallers = {"c1", "c2"}
  BrowserSlots = 1
  BrowserCalls = 4
  TimelineBots = {"b1", "b2"}
  WorkingBots = {"b1"}
  MaxDeltas = 1
  MaxViewShifts = 1
  OpenGroups = {"g1", "g2"}
  GroupItems = {"m1"}
  MaxGroupWrites = 2
  MaxGroupShifts = 2
  AskedKinds = {"bot", "first_message", "upload", "public_mcp", "token_mcp", "composio", "switch",
                "shutdown"}
  MaxAsked = 2
  MaxDrops = 1
  AndroidSockets = {"s1", "s2"}
  EventBuffer = 1
  MaxAndroidEvents = 1
  MaxAndroidOrders = 1
INVARIANTS
  OwnerTypeOK
  ConnectorHasSession
  EachKeyOnce
  AnsweredMeansDone
  CommandEndsOnce
  KeptAsRowsSay
  SettledViewAgrees
  LastEventTells
  FailedSetupKeepsNoSecret
  ProjectionAtCursor
PROPERTY
  LeaseRespected
CHECK_DEADLOCK FALSE
