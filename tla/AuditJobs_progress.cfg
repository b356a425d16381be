\* Anonymous audits with no fault: leases are still lost.
SPECIFICATION FairSpec
CONSTANTS
  Jobs = {1, 2}
  Workers = {w1, w2, w3}
  Sites = {}
  Actors = {guest}
  Accounts = {}
  Targets = {shop}
  Requests <- ShopRequests
  Nobody = Nobody
  NoJob = NoJob
  NoSite = NoSite
  MaxAttempts = 2
  QueueCap = 2
  ClaimTtl = FALSE
  MaxFaults = 0
  w1 = w1
  w2 = w2
  w3 = w3
  alice = alice
  guest = guest
  shop = shop
  blog = blog
  site = site
PROPERTIES
  SettledOrStranded
  SlotsDrain
CHECK_DEADLOCK FALSE
