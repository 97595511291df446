SPECIFICATION ServicesSpec
CONSTANTS
    Nodes = {"w1", "w2"}  Namespaces = {"n1", "n2"}  Schedulers = {"s1", "s2"}  MaxGeneration = 3  MaxMoves = 2
    Jobs = {"j1", "j2"}  Daemons = {"d1", "d2"}  TargetOf <- Targets2  JobRetries = 1  MaxJobLeases = 3
    Requests <- TenantRequests  LimitOf <- Limits  Burst = 2  MaxBuckets = 1  MaxPermits = 4  MaxTicks = 3
    Starts = {"s1", "s2"}  BaseRetryDelay = 1  MaxRetryDelay = 2  MaxMutations = 3  MaxHealthTime = 2
    MetricKeys = {"k1", "k2"}  MaxCardinality = 1  BucketSize = 2  MaxRollingBuckets = 2  RuleWindow = 2
    MaxEvents = 4  MaxMetricTime = 7
    RpaTasks = {"t1"}  RpaSteps = 1  MaxAttempts = 1  MaxRuns = 1  MaxCrashes = 1
    Checks = {"k1", "k2"}  Servers = {"a", "b"}  FailThreshold = 2  BaseCooldown = 1  MaxCooldown = 2
    MaxResults = 4  MaxOverlapped = 2  MaxEdits = 1  MaxProxyTime = 2
    Personas = {"p", "q"}  MaxStoreOps = 3
    Restores = {"r1", "r2"}  BackupFiles = {1, 2}  MaxBackupCrashes = 1  MaxArchivings = 1
    Fetches = {"f1", "f2"}  AllowedHosts = {"h1"}  OtherHosts = {"x"}  PublicAddresses = {"p"}  ProtectedAddresses = {"q"}
    DnsTtl = 2  DnsCacheLimit = 1  MaxRedirects = 1  MaxDnsChanges = 1  MaxFetchTime = 2
    GatewayCalls = {"c1", "c2"}  Names = {"a", "a2"}  Similar <- SimilarNames  MaxGatewayRefs = 2  GuardBurst = 1  MaxChanges = 1
    ApiRequests = {"r1", "r2"}  ApiProfiles = {"p1"}  ApiExtensions = {"e"}  MaxApiSessions = 2
    Listed = {1, 2, 3}  PageLimits = {1, 2}  FetchCap = 4  MaxTasks = 5  MaxListTime = 4
    Windows = {"w1", "w2"}  MaxMessages = 3  MaxActions = 3
    Observations = {"small", "big", "huge"}  SizeOf <- Sizes  MaxSnapshots = 2  MaxHistoryBytes = 7  MaxSnapshotBytes = 5
    HistoryTtl = 2  MaxSnapshotIds = 3  MaxRetained = 3  MaxTime = 2
    Pages = {1, 2, 3}  MaxTabs = 2  DocumentsOf <- Documents  MaxRefs = 1  NoPage = 0
    MaxBytes = {100, 101, 150, 152, 170, 220, 260, 999, 1000, 1005}  ContentSizes = {30, 700}  MaxReports = 3
    CellLength = 3  MaxWindows = 14  ScreenSizes <- Screens
    Octets = {0, 9, 10, 11, 15, 16, 17, 18, 19, 20, 31, 32, 51, 63, 64, 88, 100, 127, 128, 168, 169, 172, 192, 198, 203,
              223, 224, 239, 240, 254, 255}
    Groups = {0, 1, 255, 256, 257, 8193, 64511, 64512, 64768, 65023, 65024, 65151, 65152, 65215, 65216, 65279, 65280, 65535}
    HostLength = 5
INVARIANTS
    QueueServes OperationsBounded RunsAccounted ChecksHold FetchesGuarded CallsAccountable
    ListingsExact OrderKept TabsAgree ContractsHold VerdictSound RulesExact
PROPERTIES PlacementHonoured HealthKept IdentityKept ProfileSurvives SessionMapSound HistorySound
CHECK_DEADLOCK FALSE
