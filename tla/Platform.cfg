\* The parts of the product around its audits, one per behaviour.
SPECIFICATION Spec
CONSTANTS
  q1 = q1
  q2 = q2
  b1 = b1
  s1 = s1
  s2 = s2
  t1 = t1
  t2 = t2
  mail = mail
  shop = shop
  None = None
  \* Accounts
  Reqs <- Pair
  Browsers = {b1}
  Emails = {mail}
  Subjects = {s1, s2}
  GoogleSubjects = {s1}
  GoogleStates = {1, 2}
  EmailOf <- MCEmailOf
  Hosts = {shop}
  Indexed = TRUE
  MaxUsers = 2
  MaxSessions = 2
  MaxStates = 3
  MaxSites = 1
  MaxCalls = 4
  \* GoogleIntegration
  Calls <- Pair
  Instances = {b1}
  Accounts = {s1, s2}
  Properties = {shop}
  MaxAuthorizations = 1
  MaxDocs = 2
  MaxRequests = 4
  CacheTtl = 1
  Absent = None
  \* ApiGate
  Slots <- Pair
  MaxPerWindow = 2
  WindowMs = 1
  MaxTicks = 3
  Kinds = {"website", "anonymous"}
  Workloads <- GateWorkloads
  \* Dashboard
  Sites = {t1, t2}
  Flows <- Pair
  MaxJobs = 2
  Visits <- MCVisits
  Nothing = None
  \* ConsolePanels
  PanelInputs <- Pair
  MaxPanelRequests = 4
  NoInput = None
  \* LinkReads, LinkReports
  WorkerMax = 3
  TopN = 3
  PageLimits = {1, 2, 3}
  ScoreLists <- TiedScores
  WorkerDefault = 2
  Indexes <- LinkIndexes
  Gaps = 3
  PageNumbers = {1, 2}
  SummaryTop = 2
  V1Limits = {2}
  \* BacklinkSample
  Samplers <- Pair
  HostOf <- MCHostOf
  ObservationsOf <- MCRowsOf
  SiteOf <- MCSiteOf
  AskedPages = {0, 1, 2}
  AskedSizes = {2, 9}
  MaxPage = 3
  MaxPageSize = 3
  MaxEntries = 1
  SampleTtl = 1
  SampleMaxTime = 2
  NoHost = None
  \* SiteScore
  PageResults <- ScoredPages
  MaxResults = 2
  NoTitle = "-"
  \* AiReadiness
  AuditedSites <- MCAuditedSites
  KnownAgents = {"gpt", "claude"}
  Parallel = 3
  MaxFailures = 1
  \* StartAdmission
  Lanes <- Pair
  Interval = 2
  MaxBackoff = 6
  MaxStreak = 2
  MaxTime = 7
  MaxEvents = 5
  \* OneShotLaunch
  Requests <- MCBuckets
  MaxRestarts = 1
  \* DomainJsonBuild
  Buckets <- MCBuckets
  MaxDeliveries = 2
  MaxDeaths = 1
  NoBucket = None
SYMMETRY Symmetry
\* A reader is answered, a crawl ends, bounds are reached.
CHECK_DEADLOCK FALSE
INVARIANTS
  AccountsHold
  IntegrationsHold
  GateHolds
  ConsoleHolds
  SettledShowsCurrent
  LinksServed
  ClaimsHold
  ReportsTellTheData
  FleetStarts
