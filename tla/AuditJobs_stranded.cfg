\* One job, one crash: is there finally a terminal result?
SPECIFICATION FairSpec
CONSTANTS
  Jobs = {1}
  Workers = {w1, w2}
  Sites = {}
  Actors = {guest}
  Accounts = {}
  Targets = {shop}
  Requests <- ShopRequests
  Nobody = Nobody
  NoJob = NoJob
  NoSite = NoSite
  MaxAttempts = 2
  QueueCap = 2
  ClaimTtl = FALSE
  MaxFaults = 1
  w1 = w1
  w2 = w2
  w3 = w3
  alice = alice
  guest = guest
  shop = shop
  blog = blog
  site = site
PROPERTIES
  EveryJobSettles
CHECK_DEADLOCK FALSE
