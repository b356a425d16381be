--------------------------- MODULE BacklinkSample ---------------------------
(***************************************************************************)
(* The preview of a host's backlinks (lib/backlinks/service.ts): one page  *)
(* of the observations of exactly that host, of which the external ones    *)
(* are shown, behind a bounded cache in the memory of the instance.        *)
(* Requests overlap; the shared cache and its lease are SharedBacklinks.   *)
(***************************************************************************)
EXTENDS Naturals, Sequences, Lists

CONSTANTS
  Samplers,
  HostOf,          \* what is asked for -> the host it names, or NoHost
  ObservationsOf,          \* host -> its observations: [id, from]
  SiteOf,          \* source host -> its registrable domain, or NoHost
  AskedPages, AskedSizes,
  MaxPage, MaxPageSize, MaxEntries,
  SampleTtl, SampleMaxTime,
  NoHost

SampleOK ==
  /\ {MaxPage, MaxPageSize, MaxEntries, SampleTtl} \subseteq Nat \ {0} /\ SampleMaxTime \in Nat
  /\ AskedPages \cup AskedSizes \subseteq Nat
  /\ \A name \in DOMAIN HostOf : HostOf[name] \in DOMAIN ObservationsOf \cup {NoHost}
  /\ \A h \in DOMAIN ObservationsOf : LET found == ObservationsOf[h] IN
       /\ found \in Seq(Elements(found))
       /\ \A i, j \in DOMAIN found : found[i] = found[j] => i = j

VARIABLES
  sampleCache, \* entries in the order of their insertion: key, rows, expiresAt
  sampleTime,
  sampled      \* what each request asks and where it stands, with its report

sampleVars == <<sampleCache, sampleTime, sampled>>

NoSample == [rows |-> <<>>, unavailable |-> {}]
SummaryParts ==
  {"totalBacklinks", "uniqueReferringDomains", "uniqueLinkedPages", "uniqueAnchors",
   "referringDomains", "topAnchors", "topLinkedPages"}

SampleInit ==
  /\ sampleCache = <<>> /\ sampleTime = 0
  /\ \E ask \in [Samplers -> [name : DOMAIN HostOf, page : AskedPages, size : AskedSizes]] :
       sampled = [r \in Samplers |-> [ask |-> ask[r], step |-> "asked", report |-> NoSample]]

\* normalizeBacklinkPagination
Clamped(v, max) == IF v < 1 THEN 1 ELSE IF v > max THEN max ELSE v
SampleQuery(ask) == [host |-> HostOf[ask.name], page |-> Clamped(ask.page, MaxPage),
                     size |-> Clamped(ask.size, MaxPageSize)]

\* a bug for the run to find: a key that does not hold the page
KeyOfHost(q) == [q EXCEPT !.page = 1]
Key(q) == q
Live(key) == {i \in DOMAIN sampleCache : sampleCache[i].key = key /\ sampleTime < sampleCache[i].until}
Without(key) == Filtered(sampleCache, {e \in Elements(sampleCache) : e.key # key})

\* isExternalBacklinkObservation: an unknown registrable domain is taken for another one
External(row, host) == row.from # NoHost /\ (SiteOf[row.from] = NoHost \/ SiteOf[row.from] # SiteOf[host])
\* the page is cut first, and then its internal rows are left out
PageOf(q) ==
  LET rows == ObservationsOf[q.host]
      last == q.page * q.size IN
  SubSeq(rows, (q.page - 1) * q.size + 1, IF last < Len(rows) THEN last ELSE Len(rows))
Fetch(q) == Filtered(PageOf(q), {row \in Elements(PageOf(q)) : External(row, q.host)})

\* the map keeps the place of a key that is there, and the oldest goes before it is looked for
Stored(key, rows) ==
  LET kept == IF Len(sampleCache) >= MaxEntries THEN Tail(sampleCache) ELSE sampleCache
      new == [key |-> key, rows |-> rows, until |-> sampleTime + SampleTtl] IN
  IF \E i \in DOMAIN kept : kept[i].key = key
    THEN [i \in DOMAIN kept |-> IF kept[i].key = key THEN new ELSE kept[i]]
    ELSE Append(kept, new)

Given(r, rows, missing) ==
  sampled' = [sampled EXCEPT ![r].step = "given",
                ![r].report = [rows |-> rows, unavailable |-> SummaryParts \cup missing]]

\* a name that is no public host, or a federation that cannot be reached
RefuseSample(r) ==
  /\ sampled[r].step = "asked"
  /\ sampled' = [sampled EXCEPT ![r].step = "refused"]
  /\ UNCHANGED <<sampleCache, sampleTime>>

\* after the connection: the cache, whose expired entry goes, or the query
Look(r) ==
  LET q == SampleQuery(sampled[r].ask) IN
  /\ sampled[r].step = "asked" /\ q.host # NoHost
  /\ \/ \E i \in Live(Key(q)) : Given(r, sampleCache[i].rows, {}) /\ UNCHANGED sampleCache
     \/ /\ Live(Key(q)) = {}
        /\ sampleCache' = Without(Key(q))
        /\ sampled' = [sampled EXCEPT ![r].step = "loading"]
  /\ UNCHANGED sampleTime

Rows(r) ==
  LET q == SampleQuery(sampled[r].ask) IN
  /\ sampled[r].step = "loading"
  /\ Given(r, Fetch(q), {})
  /\ sampleCache' = Stored(Key(q), Fetch(q))
  /\ UNCHANGED sampleTime

\* the query is already in progress elsewhere, times out or fails: a partial report
NoRows(r) ==
  /\ sampled[r].step = "loading" /\ Given(r, <<>>, {"backlinks"})
  /\ UNCHANGED <<sampleCache, sampleTime>>

Later == sampleTime < SampleMaxTime /\ sampleTime' = sampleTime + 1 /\ UNCHANGED <<sampleCache, sampled>>

SampleNext == (\E r \in Samplers : RefuseSample(r) \/ Look(r) \/ Rows(r) \/ NoRows(r)) \/ Later
SampleSpec == SampleInit /\ [][SampleNext]_sampleVars
----------------------------------------------------------------------------
\* A report of backlinks holds the external observations of the page and host its own
\* request asks for, and one without them says so; two pages of a host share no
\* observation; whatever the requests that fill the instance's cache meanwhile, it stays
\* within its bound and holds no key twice.
SampleHonest ==
  /\ \A r \in Samplers : LET q == SampleQuery(sampled[r].ask)  given == sampled[r].report IN
       sampled[r].step = "given" =>
         IF "backlinks" \in given.unavailable THEN given.rows = <<>>
         ELSE \A i \in DOMAIN ObservationsOf[q.host] :
                ObservationsOf[q.host][i] \in Elements(given.rows) <=>
                  /\ External(ObservationsOf[q.host][i], q.host)
                  /\ (q.page - 1) * q.size < i /\ i <= q.page * q.size
  /\ \A r, s \in Samplers : LET q == SampleQuery(sampled[r].ask)  p == SampleQuery(sampled[s].ask) IN
       q.host = p.host /\ q.size = p.size /\ q.page # p.page =>
         Elements(sampled[r].report.rows) \cap Elements(sampled[s].report.rows) = {}
  /\ Len(sampleCache) <= MaxEntries
  /\ \A i, j \in DOMAIN sampleCache : sampleCache[i].key = sampleCache[j].key => i = j
============================================================================
