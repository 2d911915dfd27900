\* Fourteen parts, one of which moves: two or three requests each and one fault.
SPECIFICATION DataSpec
CONSTANTS
  Parts = {"observations", "compaction", "exports", "attachments", "dashboards", "pages", "accounts", "sessions", "directory", "masking", "decimals", "analytics", "otlp", "tools"}
  ObsIds = {1, 2}
  ObsTimes = {1, 2}
  ObsKinds = {"started", "failed"}
  Agents = {1}
  Rebuilders = {x, y}
  MaxRetentions = 1
  MaxObsFaults = 1
  NoAgent = 9
  Tenants = {1, 2}
  Compactors = {c1, c2}
  Exporters = {x1}
  MaxSpineRows = 3
  SizeTrigger = 2
  ObjectRows = 2
  ObjectsPerRun = 2
  TenantsPerRun = 1
  ExportPage = 1
  ExportRows = 2
  MaxColdFaults = 1
  Uploads = {f1, f2, f3}
  Kinds = {k1, k2}
  FileNames = {n1}
  LastSecond = 1
  MaxUploadFaults = 1
  Writers = {e1, e2, e3}
  Links = {l1}
  Revokers = {v1, v2}
  DashSeconds = {0, 1}
  MaxVersions = 3
  MaxDashFaults = 2
  RowIds = {1, 2, 3}
  KeyTimes = {1, 2, 3}
  PageLimit = 1
  MaxPages = 4
  Subjects = {s1, s2, s3}
  Callbacks = {b1, b2}
  MaxAccounts = 2
  MaxCasAttempts = 2
  MaxAccountFaults = 1
  BrowserRequests = {q1, q2}
  SessionIds = {1, 2}
  MaxTokens = 3
  DeviceIds = {1, 2, 3}
  MaxDevices = 1
  MaxDeviceIssuances = 2
  DirectoryCalls = {d1, d2}
  Rotators = {o1, o2}
  Addresses = {m1}
  Seats = 3
  InviteLife = 1
  LastDay = 1
  MaxScimTokens = 2
  MaxInviteRows = 2
  MaxChain = 3
  Globstar = Globstar
  Patterns <- MCPatterns
  Payloads <- MCPayloads
  MaxRules = 2
  MaxMaskDepth = 3
  MaxMaskNodes = 5
  Radix = 2
  WholeDigits = 2
  FractionDigits = 2
  WidestSql = 4
  SumScale = 2
  RateScale = 2
  MaxRate = 4
  MaxCharges = 3
  MaxTerms = 2
  SpanIds = {1, 2, 3, 4}
  LastStart = 2
  BucketWidth = 2
  TraceOf <- MCTraceOf
  GroupOf <- MCGroupOf
  StepKinds = {"a", "b"}
  KindOf <- MCKindOf
  MaxSteps = 3
  MaxFunnelTraces = 1
  TelemetrySpans = {"s1", "s2", "s3", "s4", "s5", "s6"}
  OtlpSpan <- MCOtlpSpan
  NoKey = ""
  BadServices = {"v3"}
  Tiers = {"metadata", "full"}
  SpanOrders <- MCOrders
  MaxSpansSent = 3
  MaxExports = 2
  ToolCallers = {"u1", "u2"}
  HomeOf <- MCHomeOf
  CanWrite = {"u1"}
  ToolCalls = {"t1", "t2"}
  Chats = {"a1"}
  WriteFlag <- MCWriteFlag
  ScoreBodies = {1}
  MaxToolCalls = 2
  LastMoment = 1
  MaxRepeats = 1
INVARIANTS
  RowsAreFolds
  ColdRowsAreWhole
  AnswersStand
  
  IssuancesAreBurned
  RulesAreExact
  DirectoryIsOrderly
  ExportsAreAbsorbed
  ToolsAreFaithful
PROPERTIES
  SessionsAreSound
CHECK_DEADLOCK FALSE
