INIT Init
NEXT Next
CONSTANTS
  Parts = {"cache", "routing", "stream", "journal", "delegation", "memory", "pipes", "servers", "reload", "boxes", "calibration", "workbook"}
  None = None
  a = a
  b = b
  c = c
  xa = xa
  xb = xb
  ua = ua
  ub = ub
  Users = {ua, ub}
  Calls = {a, b}
  Slots = {a, b}
  Scopes = {xa, xb}
  Owner <- MCOwner
  Resetters = {ua}
  MaxMishaps = 1
  ResetWhileBusy = FALSE
  Rules <- MCRules
  Conns = {"local", "cloud"}
  Profiles <- MCProfiles
  Runs = {r1, r2}
  Queued = TRUE
  Answers <- MCAnswers
  Dialects = {"openai", "anthropic"}
  Offered = {"x"}
  MaxPieces = 3
  MaxArgs = 2
  MaxStreamedCalls = 2
  LongReasoning = 2
  MaxStalls = 1
  AgentRuns = {a, b}
  Files = {f1}
  ToolCalls = {a, b}
  Undoers = {v1}
  MaxContents = 2
  MaxCalls = 1
  Urls = {a, b}
  MaxSources <- MCMaxSources
  MaxWaves <- MCMaxWaves
  MaxRereads <- MCMaxRereads
  Growth = 1
  Strict = TRUE
  MaxSteps = 7
  Facts = {a, b}
  StoreCalls = {t1}
  WordsOf <- MCWordsOf
  Cues = {"a", "b"}
  CueSets = {{"a"}, {"a", "b"}}
  MaxCues = 1
  RecallLimit = 2
  ScanLimit = 1
  PipeCalls = {a, b, c}
  MCPPipes = {mcp}
  PluginPipes = {plug}
  MaxNotices = 1
  MaxDeaths = 1
  s1 = s1
  s2 = s2
  Servers = {s1, s2}
  ToolsOf <- MCToolsOf
  MaxConfigs = 4
  MaxClients = 7
  Documents = {1, 2}
  PluginDirs = {3}
  NameOf <- MCNameOf
  StemOf <- MCStemOf
  MaxEdits = 3
  Tenants = {u1}
  Requests = {a, b}
  TenantOf <- MCTenantOf
  Pruners = {"loop", "command"}
  MaxCreate = 1
  MaxSweeps = 2
  MaxBoxes = 2
  Surfaces = {"prompt", "shots"}
  Scenarios = 2
  MaxIterations = 3
  MaxProposals = 3
  MaxCrashes = 1
  Labels <- MCLabels
  Fold <- MCFold
  Rank <- MCRank
  Markers <- MCMarkers
  LateLabels <- MCLate
  SourceBooks <- MCSources
  Templates <- MCTemplates
  SheetNames <- MCSheets
  MaxFills = 2
  EmptyCell = EmptyCell
  Formula = Formula
  Merged = Merged
INVARIANTS
  ServicesTypeOK
  ModelCallsAreSound
  DelegationHolds
  MemoryHolds
  ExtensionsAreSound
  SandboxIsCurrent
  ReportIsRight
  BestStays
PROPERTIES
  CacheIsKept
  JournalIsKept
SYMMETRY ServicesSymmetry
CHECK_DEADLOCK FALSE
