-------------------------- MODULE SharedBacklinks --------------------------
(***************************************************************************)
(* The shared protection of backlink reads                                 *)
(* (lib/backlinks/shared-protection.ts, lib/backlinks/service.ts): a       *)
(* persistent quota per user and minute, and one cache document per query, *)
(* leased to one loader and then readable for a while, behind a cache in   *)
(* the memory of each instance.  All readers here belong to one user and   *)
(* ask one query.  Rows are named by the turn of the loader that read      *)
(* them.  Time is counted down; the minute of the quota turns over in a    *)
(* step of its own.                                                        *)
(***************************************************************************)
EXTENDS Naturals, FiniteSets

CONSTANTS
  Readers,      \* requests
  Instances,    \* serverless instances, each with its memory
  QuotaLimit,   \* REQUESTS_PER_USER_PER_MINUTE
  Minutes,      \* the quota windows of a behaviour
  LeaseTtl,     \* LEASE_TTL_MS
  SharedTtl,    \* CACHE_TTL_MS of shared-protection.ts
  LocalTtl,     \* CACHE_TTL_MS of service.ts
  LoadTime,     \* QUERY_TIMEOUT_MS
  Setup,        \* time between taking the clock and the answer of the lease claim
  NoReader

BacklinksOK ==
  /\ NoReader \notin Readers
  /\ {QuotaLimit, LeaseTtl, SharedTtl, LocalTtl} \subseteq Nat \ {0}
  /\ {LoadTime, Setup, Minutes} \subseteq Nat
  /\ Setup + LoadTime < LeaseTtl

VARIABLES
  minute, quota,        \* the current window, and the count document of each
  entry, entryLeft,     \* the cache document: state, leaseId, rows; time until expiresAt
  local, localLeft,     \* the in-memory cache of each instance
  readPc, host, window, \* a reader: where it stands, its instance, its quota window
  waited,               \* time since it took the clock, or since its load began
  loads, published,     \* history: loads begun, and the last one stored
  got                   \* what a reader returned: the turn of its rows, or 0

quotaVars == <<minute, quota>>
cacheVars == <<entry, entryLeft, local, localLeft>>
backVars == <<quotaVars, cacheVars, readPc, host, window, waited, loads, published, got>>

Windows == 0..Minutes
NoEntry == [state |-> "none", lease |-> NoReader, rows |-> 0]

BacklinksInit ==
  /\ minute = 0
  /\ quota = [m \in Windows |-> 0]
  /\ entry = NoEntry
  /\ entryLeft = 0
  /\ local = [i \in Instances |-> 0]
  /\ localLeft = [i \in Instances |-> 0]
  /\ readPc = [r \in Readers |-> "new"]
  /\ host \in [Readers -> Instances]
  /\ window = [r \in Readers |-> 0]
  /\ waited = [r \in Readers |-> 0]
  /\ loads = 0
  /\ published = 0
  /\ got = [r \in Readers |-> 0]

Move(r, pc) == readPc' = [readPc EXCEPT ![r] = pc]

\* The upsert of enforceBacklinkRequestQuota.  It finds the document open, or full, in
\* which case its insertion is a duplicate; or it finds none and is about to insert.
AskQuota(r) ==
  /\ readPc[r] = "new"
  /\ window' = [window EXCEPT ![r] = minute]
  /\ \/ /\ quota[minute] \in 1..QuotaLimit - 1
        /\ quota' = [quota EXCEPT ![minute] = @ + 1]
        /\ Move(r, "local")
     \/ quota[minute] >= QuotaLimit /\ Move(r, "askAgain") /\ UNCHANGED quota
     \/ quota[minute] = 0 /\ Move(r, "insert") /\ UNCHANGED quota
  /\ UNCHANGED <<minute, cacheVars, host, waited, loads, published, got>>

InsertQuota(r) ==
  /\ readPc[r] = "insert"
  /\ \/ /\ quota[window[r]] = 0
        /\ quota' = [quota EXCEPT ![window[r]] = 1]
        /\ Move(r, "local")
     \/ quota[window[r]] > 0 /\ Move(r, "askAgain") /\ UNCHANGED quota
  /\ UNCHANGED <<minute, cacheVars, host, window, waited, loads, published, got>>

\* Bug for the run to find: the duplicate key counts as a denial.
DenyDuplicate(r) ==
  /\ readPc[r] = "askAgain"
  /\ Move(r, "denied")
  /\ UNCHANGED <<minute, quota, cacheVars, host, window, waited, loads, published, got>>

\* increment(false), after a duplicate key.
AskQuotaAgain(r) ==
  /\ readPc[r] = "askAgain"
  /\ \/ /\ quota[window[r]] < QuotaLimit
        /\ quota' = [quota EXCEPT ![window[r]] = @ + 1]
        /\ Move(r, "local")
     \/ quota[window[r]] >= QuotaLimit /\ Move(r, "denied") /\ UNCHANGED quota
  /\ UNCHANGED <<minute, cacheVars, host, window, waited, loads, published, got>>

Return(r, rows) ==
  /\ Move(r, "done")
  /\ got' = [got EXCEPT ![r] = rows]
  /\ waited' = [waited EXCEPT ![r] = 0]

Keep(r, rows) ==
  /\ local' = [local EXCEPT ![host[r]] = rows]
  /\ localLeft' = [localLeft EXCEPT ![host[r]] = LocalTtl]

\* The connection fails, the instance remembers the rows, or the shared cache is asked.
ReadLocal(r) ==
  /\ readPc[r] = "local"
  /\ \/ Return(r, 0)
     \/ localLeft[host[r]] > 0 /\ Return(r, local[host[r]])
     \/ localLeft[host[r]] = 0 /\ Move(r, "shared") /\ UNCHANGED <<got, waited>>
  /\ UNCHANGED <<quotaVars, cacheVars, host, window, loads, published>>

SharedHit == entry.state = "ready" /\ entryLeft > 0

ReadShared(r) ==
  /\ readPc[r] = "shared"
  /\ \/ SharedHit /\ Return(r, entry.rows) /\ Keep(r, entry.rows)
     \/ ~SharedHit /\ Move(r, "claim") /\ UNCHANGED <<got, waited, local, localLeft>>
  /\ UNCHANGED <<quotaVars, entry, entryLeft, host, window, loads, published>>

\* Bugs for the run to find: pending entries are not respected, nor the lease of one.
EntryUnread == entry.state # "ready" \/ entryLeft = 0
EntryFree == entry.state = "none" \/ entryLeft = 0

\* The claim compares with the clock the reader has taken before: an entry that has run
\* out since may still look alive to it.
ClaimEntry(r) ==
  /\ readPc[r] = "claim"
  /\ \/ /\ EntryFree
        /\ entry' = [state |-> "pending", lease |-> r, rows |-> 0]
        /\ entryLeft' = LeaseTtl - waited[r]
        /\ loads' = loads + 1
        /\ got' = [got EXCEPT ![r] = loads']
        /\ Move(r, "load")
     \/ /\ entry.state # "none"
        /\ entryLeft > 0 \/ waited[r] > 0
        /\ Move(r, "wait")
        /\ UNCHANGED <<entry, entryLeft, loads, got>>
  /\ waited' = [waited EXCEPT ![r] = 0]
  /\ UNCHANGED <<quotaVars, local, localLeft, host, window, published>>

\* After COALESCED_WAIT_MS: what the other one has loaded, or a partial answer.
ReadAgain(r) ==
  /\ readPc[r] = "wait"
  /\ \/ SharedHit /\ Return(r, entry.rows) /\ Keep(r, entry.rows)
     \/ ~SharedHit /\ Return(r, 0) /\ UNCHANGED <<local, localLeft>>
  /\ UNCHANGED <<quotaVars, entry, entryLeft, host, window, loads, published>>

\* The query ends, within its time limit, with rows or an error.  What follows may be
\* late.
LoadEnds(r) ==
  /\ readPc[r] = "load"
  /\ Move(r, "publish") \/ Move(r, "release")
  /\ waited' = [waited EXCEPT ![r] = 0]
  /\ UNCHANGED <<quotaVars, cacheVars, host, window, loads, published, got>>

LeasedToSomebody(r) == entry.state = "pending"
Leased(r) == entry.lease = r

Publish(r) ==
  /\ readPc[r] = "publish"
  /\ \/ /\ Leased(r)
        /\ entry' = [state |-> "ready", lease |-> NoReader, rows |-> got[r]]
        /\ entryLeft' = SharedTtl
        /\ published' = got[r]
     \/ ~Leased(r) /\ UNCHANGED <<entry, entryLeft, published>>
  /\ Return(r, got[r])
  /\ Keep(r, got[r])
  /\ UNCHANGED <<quotaVars, host, window, loads>>

ReleaseEntry(r) ==
  /\ readPc[r] = "release"
  /\ IF Leased(r) THEN entry' = NoEntry /\ entryLeft' = 0
     ELSE UNCHANGED <<entry, entryLeft>>
  /\ Return(r, 0)
  /\ UNCHANGED <<quotaVars, local, localLeft, host, window, loads, published>>

\* The TTL index; the minute of the quota; the clock.
DropEntry ==
  /\ entry.state # "none" /\ entryLeft = 0
  /\ entry' = NoEntry
  /\ UNCHANGED <<quotaVars, entryLeft, local, localLeft, readPc, host, window, waited, loads, published, got>>

NextMinute ==
  /\ minute < Minutes
  /\ minute' = minute + 1
  /\ UNCHANGED <<quota, cacheVars, readPc, host, window, waited, loads, published, got>>

Timed(r) == readPc[r] \in {"shared", "claim", "load"}
Less(n) == IF n = 0 THEN 0 ELSE n - 1

BackTick ==
  /\ \A r \in Readers :
       /\ readPc[r] \in {"shared", "claim"} => waited[r] < Setup
       /\ readPc[r] = "load" => waited[r] < LoadTime
  /\ entryLeft > 0 \/ \E i \in Instances : localLeft[i] > 0
  /\ waited' = [r \in Readers |-> IF Timed(r) THEN waited[r] + 1 ELSE 0]
  /\ entryLeft' = Less(entryLeft)
  /\ localLeft' = [i \in Instances |-> Less(localLeft[i])]
  /\ UNCHANGED <<quotaVars, entry, local, readPc, host, window, loads, published, got>>

BacklinksNext ==
  \/ \E r \in Readers :
       \/ AskQuota(r) \/ InsertQuota(r) \/ AskQuotaAgain(r)
       \/ ReadLocal(r) \/ ReadShared(r) \/ ClaimEntry(r) \/ ReadAgain(r)
       \/ LoadEnds(r) \/ Publish(r) \/ ReleaseEntry(r)
  \/ DropEntry \/ NextMinute \/ BackTick

BacklinksSpec == BacklinksInit /\ [][BacklinksNext]_backVars

-----------------------------------------------------------------------------
Served(m) == {r \in Readers : window[r] = m /\ readPc[r] \notin {"new", "insert", "askAgain", "denied"}}

\* No more requests of a minute pass than the quota allows, and one is denied only
\* when that many have passed: a lost race for the first insertion denies nobody
\* (enforceBacklinkRequestQuota: "avoids treating a race during the first insert as a
\* false quota denial").
QuotaIsExact ==
  \A m \in Windows :
    /\ Cardinality(Served(m)) <= QuotaLimit
    /\ (\E r \in Readers : readPc[r] = "denied" /\ window[r] = m) =>
         Cardinality(Served(m)) = QuotaLimit

\* Equal queries run one at a time (getSharedBacklinkRows: "instead of starting another
\* scan while the first request runs"), because the query's time limit and the set-up
\* before it fit into the lease.
SingleLoader == Cardinality({r \in Readers : readPc[r] = "load"}) <= 1

\* Both: what a minute grants is its quota, and one reader at a time loads on behalf of
\* the others.
ReadsBounded == QuotaIsExact /\ SingleLoader

\* A loader that publishes late never puts its rows over those of a later load.
RowsNeverOlder == [][published' >= published]_backVars
=============================================================================
