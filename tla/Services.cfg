\* The services around the audit queue, one per behaviour.
SPECIFICATION ServicesSpec
CONSTANTS
  p1 = p1
  p2 = p2
  p3 = p3
  ann = ann
  guest = guest
  shop = shop
  i1 = i1
  i2 = i2
  w1 = w1
  w2 = w2
  None = None
\* leases of archive retrievals: ticks of 24 seconds
CONSTANTS
  Workers = {p1, p2, p3}
  Requesters = {ann, guest}
  GlobalSlotCount = 1
  Nobody = Nobody
  LeaseTime = 5
  Deadline = 3
  SetupTime = 1
\* admission transaction
CONSTANTS
  Reqs = {p1, p2, p3}
  Asks <- ServiceAsks
  Accounts = {ann}
  AccountLimit = 2
  GuestLimit = 1
  QueueCap = 2
  Window = 2
  Cooldown = 1
  ClaimTime = 2
  MaxTries = 2
  TxnTime = 1
  MaxTime = 3
  NoReq = None
\* slots of immediate audits
CONSTANTS
  Dispatches = {p1, p2, p3}
  SlotJobs = {i1, i2}
  SlotCount = 2
  SlotLease = 3
  Duration = 2
  NoDispatch = None
\* shared backlink cache
CONSTANTS
  Readers = {p1, p2, p3}
  Instances = {i1, i2}
  QuotaLimit = 2
  Minutes = 1
  LeaseTtl = 3
  SharedTtl = 2
  LocalTtl = 1
  LoadTime = 1
  Setup = 1
  NoReader = None
\* legacy scans
CONSTANTS
  ScanIds = {1, 2}
  ScanWorkers = {w1, w2}
  ArchiveScans = {1}
  MaxScanAttempts = 2
  MaxScanFaults = 1
  NoWorker = None
  NoScan = None
\* issue history
CONSTANTS
  IssueKeys = {i1, i2}
  MaxAudits = 4
  MaxResolves = 2
  EventLimit = 4
\* page fetches
CONSTANTS
  Urls <- FetchUrls
  Literals <- LiteralHosts
  LocalNames = {"local"}
  DnsAnswers <- SomeAnswers
  FirstParty = {"shop"}
  MaxRedirects = 2
  MaxSize = 3
  Chunks = {1, 2}
\* archive retrievals
CONSTANTS
  ArchiveTargets <- SomeTargets
  CollectionLists <- SomeCollections
  Listings <- SomeListings
  FetchWorkers = {1, 2}
  MaxPages = 3
  MaxRange = 2
  MaxTotal = 3
  MaxRecord = 1
  MaxTotalInflated = 2
  TotalTime = 1
  MaxRetries = 1
\* crawls
CONSTANTS
  Inputs <- CrawlInputs
  MaxLinks = 3
  MaxChildren = 1
  MaxLost = 1
SYMMETRY Symmetry
CHECK_DEADLOCK FALSE
INVARIANTS
  GlobalLimit
  OnePerRequester
  LimitsHold
  SlotLimit
  ReadsBounded
  ResultOfOneAttempt
  HistoryIsTrue
  FetchContained
  CrawlReachesAll
  ArchiveExact
PROPERTIES
  AdmitsAtomically
  RowsNeverOlder
  ScansImplementQueue
