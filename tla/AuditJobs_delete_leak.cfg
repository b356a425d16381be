\* A website is deleted while its audit is queued.
SPECIFICATION FairSpec
CONSTANTS
  Jobs = {1}
  Workers = {w1, w2}
  Sites = {site}
  Actors = {alice}
  Accounts = {alice}
  Targets = {shop}
  Requests <- SiteRequests
  Nobody = Nobody
  NoJob = NoJob
  NoSite = NoSite
  MaxAttempts = 2
  QueueCap = 2
  ClaimTtl = FALSE
  MaxFaults = 0
  w1 = w1
  w2 = w2
  w3 = w3
  alice = alice
  guest = guest
  shop = shop
  blog = blog
  site = site
PROPERTIES
  SlotsDrain
CHECK_DEADLOCK FALSE
