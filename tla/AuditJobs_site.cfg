\* Two audits of one saved website; claims run out, deletions, one fault.
SPECIFICATION Spec
CONSTANTS
  Jobs = {1, 2}
  Workers = {w1, w2}
  Sites = {site}
  Actors = {alice}
  Accounts = {alice}
  Targets = {shop}
  Requests <- SiteRequests
  Nobody = Nobody
  NoJob = NoJob
  NoSite = NoSite
  MaxAttempts = 2
  QueueCap = 2
  ClaimTtl = TRUE
  MaxFaults = 1
  w1 = w1
  w2 = w2
  w3 = w3
  alice = alice
  guest = guest
  shop = shop
  blog = blog
  site = site
SYMMETRY WorkerSymmetry
INVARIANTS
  CapacityCovered
  HolderNotOvertaken
  NoOrphanResult
  PublishedWhenCompleted
PROPERTIES
  NoLiveTakeover
CHECK_DEADLOCK FALSE
