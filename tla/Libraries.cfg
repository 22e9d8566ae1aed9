CONSTANTS
  Parts = {"session", "ledger", "mcp", "gate", "skill", "webhook", "deletion", "wif",
           "translator", "aging", "conversion", "listing", "models", "usage", "files", "results", "proxy", "run", "lxc"}
  Clients = {"a", "b"}
  ToolCalls = {"t"}
  MaxTurns = 6
  MinRecent = 2
  ContextTokens = 5
  TotalTokens = 11
  OutputTokens = 2
  Usages <- MCUsages
  MaxRevision = 1
  NoSession = NoSession
  Writers = {"a", "b"}
  MaxEventBytes = 2
  MaxLogBytes = 6
  MaxAppends = 4
  NoWriter = NoWriter
  Requesters = {"a", "b"}
  MaxRequests = 4
  MaxPeers = 2
  MaxNotices = 1
  NoRequester = NoRequester
  Calls <- MCCalls
  Contexts <- MCContexts
  PlanSessions = {1}
  RuleSet <- MCRuleSet
  Hooks <- MCHooks
  ReadOnly = {}
  MaxDecisions = 2
  MaxPlans = 2
  NoPlan = NoPlan
  ResourcePaths = {"SKILL.md", "data"}
  Entrypoint = "SKILL.md"
  ManifestPath = "manifest"
  SkillName = "skill"
  Placeable <- MCPlaceable
  MaxResources = 2
  MaxFileBytes = 2
  MaxPackageBytes = 2
  Verifiers = {"a", "b"}
  Events = {"e", "f"}
  Tolerance = 1
  Retention = 3
  LockWait = 1
  MaxClock = 3
  Principals = {"a", "b"}
  Lifetime = 2
  GrantLife = 1
  MaxPreviews = 1
  MaxGrants = 2
  MaxTime = 2
  Versions <- MCVersions
  Callers = {"a", "b"}
  Lives = {3, 4}
  Margin = 1
  Delay = 1
  MaxSecond = 6
  NoCaller = NoCaller
  ToolIndexes = {0, 1, 2}
  MaxChunks = 3
  RouteModels = {"m"}
  Announceable = {"m", "n"}
  Pollers = {"p"}
  Ttl = 2
  Window = 2
  RateLimit = 2
  MaxInstant = 3
  MaxAsked = 4
  MaxBlocks = 6
  Ids = {1, 2, 3, 4}
  PageLimit = 2
  PagesLimit = 3
  ItemsLimit = 4
  MaxEdits = 2
  Models = {1, 2, 3}
  Announced = {"active"}
  Refreshers = {"a", "b"}
  PageSize = 1
  MaxPages = 2
  RetireAfter = 2
  MaxRefreshes = 3
  UsageEvents <- MCUsageEvents
  CostEvents <- MCCostEvents
  MaxAudits = 5
  Tokens = {"sig", "line", "lead", "trail"}
  Media = {"image", "jsonl", "text", "octets"}
  MaxChunkLen = 1
  MaxUpload = 2
  MaxDownload = 2
  MaxLines = 1
  MaxUploads = 1
  Letters = {1, 2, 3, 4}
  Broken = {4}
  Newline = 0
  MaxLine = 2
  MaxResults = 2
  MaxResultBytes = 3
  MaxOutput = 5
  Connections = {"a", "b"}
  Destinations <- MCDestinations
  Addresses <- MCAddresses
  MaxConnections = 1
  MaxRelayed = 2
  Channels = {"o", "e"}
  Bytes = {1, 2}
  Secrets <- MCSecrets
  MaxBytes = 2
  MaxWritten = 3
  Mark = Mark
  Names = {"a"}
  Settings = {"apparmor", "swap"}
  Verified = {"apparmor"}
  MaxCrashes = 2
SPECIFICATION MCSpec
CHECK_DEADLOCK FALSE
INVARIANT LedgerSound
INVARIANT AnswersOwn
INVARIANT SkillWhole
INVARIANT ReplayRejected
INVARIANT DeletedAsAuthorized
INVARIANT HandedOutAlive
INVARIANT StreamCoherent
INVARIANT TablesExact
INVARIANT DialogueKept
INVARIANT ListingWhole
INVARIANT CatalogKept
INVARIANT ChargedOnce
INVARIANT TransferFaithful
INVARIANT ResultsExact
INVARIANT EgressContained
INVARIANT OutputAccounted
INVARIANT NoHiddenContainer
PROPERTY SessionKept
PROPERTY ExecutedAuthorized
