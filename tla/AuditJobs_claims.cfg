\* Three jobs for two claims and two queue slots, one from the archive.
SPECIFICATION Spec
CONSTANTS
  Jobs = {1, 2, 3}
  Workers = {w1, w2}
  Sites = {}
  Actors = {guest}
  Accounts = {}
  Targets = {shop, blog}
  Requests <- GuestRequests
  Nobody = Nobody
  NoJob = NoJob
  NoSite = NoSite
  MaxAttempts = 1
  QueueCap = 2
  ClaimTtl = FALSE
  MaxFaults = 1
  w1 = w1
  w2 = w2
  w3 = w3
  alice = alice
  guest = guest
  shop = shop
  blog = blog
  site = site
SYMMETRY WorkerSymmetry
INVARIANTS
  TypeOK
  CrawlsWithinAttempts
  OneOpenPerClaim
PROPERTIES
  TerminalIsFinal
  ImplementsQueue
CHECK_DEADLOCK FALSE
