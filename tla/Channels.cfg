INIT Init
NEXT Next
CONSTANTS
  Parts = {"telegram", "browser", "approvals", "process", "bot", "login", "notices", "files", "accounts", "budget"}
  None = None
  a = a
  b = b
  c = c
  u1 = u1
  u2 = u2
  Users = {u1, u2}
  Updates = {1, 2, 3, 4}
  KindOf <- MCKindOf
  Handlers = {a, b}
  MaxDeliveries = 4
  Remembered = 2
  PerMinute = 3
  Questions = 2
  MaxSlips = 1
  Listing <- MCListing
  Folders = {"d"}
  ParentOf <- MCParentOf
  Root = "/"
  FirstFree <- MCFirstFree
  Boards = {a, b}
  Taps = {a, b}
  PageSize = 2
  MaxTaps = 4
  Calls = {a, b, c}
  Tabs = {w1}
  Loops = {1, 2}
  UserOf <- MCUserOf
  Rules <- MCGuardRules
  MaxBatches = 2
  MaxConnects = 1
  Browsers = {b1, b2}
  Requests = {q1, q2}
  Scheduled = {t1}
  Incoming = {a, b}
  InitMaxRetries = 2
  NetworkMaxRetries = 2
  ConflictMaxRetries = 1
  Addresses = {ip1, ip2}
  Logins = {alice}
  Passes = {p1}
  KeyLimit = 2
  UserLimit = 3
  Window = 1
  Lockout = 3
  PassTTL = 1
  MaxClock = 5
  Announcements = {n1}
  Headless = {n2}
  Viewers = {a, b}
  KeptRows = 2
  MaxSystem = 2
  FirstTree <- MCTree
  GivenNames <- MCGivenNames
  ProtectedRoots <- MCGuarded
  FileRequests = {a, b}
  MaxDepth = 2
  MaxRequests = 2
  Source = src
  Target = dst
  Tokens = {k1, k2}
  i1 = i1
  i2 = i2
  i3 = i3
  h1 = h1
  h2 = h2
  Items = {i1, i2, i3}
  NameOf <- MCItemName
  HomeOf <- MCItemHome
  Chats = {h1, h2}
  ChatOf <- MCChatOf
  Telegrams = {x1}
  Starters = {p1, p2}
  MaxPassword = 2
  Files = {a, b}
  Sizes = {2, 14}
  Portion = 3
  ContextLimit = 20
  PinRatio = 25
  MaxPendingFiles = 2
  Usages = {8}
  Asks = {a, b}
INVARIANTS
  ChannelsTypeOK
  BotIsSound
  UserFilesAreSafe
  PromptsAreSound
  ShutdownIsClean
  SignInIsSound
  NoticesArrive
  BudgetFits
SYMMETRY ChannelsSymmetry
CHECK_DEADLOCK FALSE
