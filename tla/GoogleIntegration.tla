------------------------- MODULE GoogleIntegration -------------------------
(***************************************************************************)
(* A website's connection to Search Console or to Google Analytics: the    *)
(* authorization round trip, the stored tokens and their refresh, the      *)
(* selected property, and the reports with their per-instance caches.      *)
(* src/lib/integrations/google.ts and its routes in src/lib/api/router.ts. *)
(*                                                                         *)
(* One website of one user and one of the two providers, which never meet; *)
(* one browser holds the nonce cookie.  A handler works on the document it *)
(* has read while others change or remove it.                              *)
(***************************************************************************)
EXTENDS Naturals, FiniteSets

CONSTANTS
  Calls,        \* request slots
  Instances,    \* processes of the API, each with its own caches
  Accounts,     \* Google accounts the user may choose
  Properties,   \* Analytics properties to select from
  MaxAuthorizations,    \* bound on authorizations started
  MaxDocs,      \* bound on connections made
  MaxRequests,  \* bound on the requests of a behaviour
  CacheTtl,     \* CACHE_TTL_MS, in steps of the clock
  Absent

VARIABLES
  provider,    \* "search" or "analytics", for the whole behaviour
  site,        \* the website is there
  live,        \* authorization states that may be consumed
  started,     \* authorization states handed out
  cookieState, \* the state the nonce cookie belongs to, 0 without
  integ,       \* the integration document or NoDoc
  docs,        \* integration documents created
  connected,   \* document id -> Google accounts saved into it
  cache,       \* instance -> kind of report -> the one kept for CacheTtl
  flight,      \* instance -> the intelligence load others join, or Absent
  requests,    \* requests begun
  call         \* the request in each slot

googleVars == <<provider, site, live, started, cookieState, integ, docs, connected, cache,
                flight, requests, call>>

DocIds == 1 .. MaxDocs
GoogleOK ==
  /\ \A n \in {MaxAuthorizations, MaxDocs, MaxRequests, CacheTtl} : n \in Nat \ {0}
  /\ Absent \notin Calls \cup Accounts \cup Properties

NoDoc == [id |-> 0, access |-> Absent, refresh |-> Absent, fresh |-> FALSE, active |-> FALSE,
          property |-> Absent]
NoReport == [doc |-> 0, property |-> Absent, left |-> 0]
\* The reports an instance keeps: gscReportCache or ga4ReportCache, of the provider, and
\* gscIntelligenceCache.
KeptReports == {"report", "intelligence"}
NoCall == [op |-> "none", at |-> "idle", on |-> Absent, arg |-> Absent, state |-> 0,
           doc |-> NoDoc]

\* The document after saving account a's tokens: Google may leave out the refresh token,
\* and what the update does not name stays.
Saved(d, a, renewed) ==
  [d EXCEPT !.access = a, !.refresh = IF renewed THEN a ELSE @, !.fresh = TRUE, !.active = TRUE]

\* Not connected yet, or connected before.
GoogleInit ==
  /\ provider \in {"search", "analytics"}
  /\ site = TRUE /\ live = {} /\ started = 0 /\ cookieState = 0
  /\ \/ integ = NoDoc /\ docs = 0 /\ connected = [d \in DocIds |-> {}]
     \/ \E a \in Accounts :
          /\ integ = Saved([NoDoc EXCEPT !.id = 1], a, TRUE) /\ docs = 1
          /\ connected = [d \in DocIds |-> IF d = 1 THEN {a} ELSE {}]
  /\ cache = [i \in Instances |-> [k \in KeptReports |-> NoReport]]
  /\ flight = [i \in Instances |-> Absent]
  /\ requests = 0 /\ call = [c \in Calls |-> NoCall]
-----------------------------------------------------------------------------
Is(c, op, at) == call[c].op = op /\ call[c].at = at
Move(c, at) == call' = [call EXCEPT ![c].at = at]
End(c) == call' = [call EXCEPT ![c] = NoCall]

connection == <<integ, docs, connected>>
reading    == <<cache, flight>>
journey    == <<live, started, cookieState>>

\* report: with the cache (the full reports); plain: without one; intelligence: with the
\* cache and the loads in flight.
GoogleOps == {"connect", "callback", "select", "disconnect", "report", "plain", "intelligence"}

GoogleArguments(op) ==
  CASE op = "callback" -> Accounts [] op = "select" -> Properties [] OTHER -> {Absent}

\* The request has been authenticated.  A callback brings a state and the cookie's nonce.
Begin(c, op, i, x) ==
  /\ call[c] = NoCall /\ requests < MaxRequests
  /\ x \in GoogleArguments(op)
  /\ op = "callback" => cookieState # 0
  /\ op = "select" => provider = "analytics"
  /\ op = "intelligence" => provider = "search"
  /\ requests' = requests + 1
  /\ call' = [call EXCEPT ![c] = [op |-> op, on |-> i, arg |-> x,
                                  at |-> IF op \in KeptReports THEN "cache"
                                         ELSE IF op = "plain" THEN "open" ELSE "run",
                                  state |-> IF op = "callback" THEN cookieState ELSE 0,
                                  doc |-> NoDoc]]
  /\ UNCHANGED <<provider, site, journey, connection, reading>>
-----------------------------------------------------------------------------
(* Connecting.                                                             *)

\* The route looks the website up, and then a state is stored and its nonce set as a
\* cookie: the website may be gone by then.
Connect(c) ==
  /\ Is(c, "connect", "run")
  /\ IF site THEN Move(c, "store") ELSE End(c)
  /\ UNCHANGED <<provider, site, journey, connection, reading, requests>>

StoreState(c) ==
  /\ Is(c, "connect", "store") /\ started < MaxAuthorizations
  /\ started' = started + 1 /\ live' = live \cup {started'} /\ cookieState' = started'
  /\ End(c)
  /\ UNCHANGED <<provider, site, connection, reading, requests>>

\* completeGoogleAuthorization: the state is consumed, by one callback ...
ConsumeAuthorization(c) ==
  /\ Is(c, "callback", "run")
  /\ IF call[c].state \in live
     THEN live' = live \ {call[c].state} /\ Move(c, "website") /\ UNCHANGED cookieState
     ELSE End(c) /\ cookieState' = 0 /\ UNCHANGED live
  /\ UNCHANGED <<provider, site, started, connection, reading, requests>>

\* ... the website is looked up before the code is exchanged ...
CheckWebsite(c) ==
  /\ Is(c, "callback", "website")
  /\ IF site THEN Move(c, "save") /\ UNCHANGED cookieState ELSE End(c) /\ cookieState' = 0
  /\ UNCHANGED <<provider, site, live, started, connection, reading, requests>>

\* ... and the tokens are saved afterwards, into the document that is there or a new one;
\* or the exchange fails.
SaveTokens(c) ==
  /\ Is(c, "callback", "save")
  /\ \/ UNCHANGED connection
     \/ \E renewed \in BOOLEAN :
          LET id == IF integ = NoDoc THEN docs + 1 ELSE integ.id
          IN /\ id <= MaxDocs
             /\ docs' = IF integ = NoDoc THEN docs + 1 ELSE docs
             /\ integ' = Saved([integ EXCEPT !.id = id], call[c].arg, renewed)
             /\ connected' = [connected EXCEPT ![id] = @ \cup {call[c].arg}]
  /\ End(c) /\ cookieState' = 0
  /\ UNCHANGED <<provider, site, live, started, reading, requests>>

\* setGoogleAnalyticsProperty: the selection does not touch the cached reports.
SelectProperty(c) ==
  /\ Is(c, "select", "run")
  /\ integ' = IF integ.active THEN [integ EXCEPT !.property = call[c].arg] ELSE integ
  /\ End(c)
  /\ UNCHANGED <<provider, site, journey, docs, connected, reading, requests>>

\* disconnectGoogleIntegration, after the route has looked the website up: one step, for
\* the deletion of a website takes its integration with it.
Disconnect(c) ==
  /\ Is(c, "disconnect", "run")
  /\ integ' = IF site THEN NoDoc ELSE integ
  /\ End(c)
  /\ UNCHANGED <<provider, site, journey, docs, connected, reading, requests>>

\* deleteWebsiteData, or the account's deletion: one transaction.
DeleteWebsite ==
  /\ site /\ site' = FALSE
  /\ integ' = NoDoc /\ live' = {}
  /\ UNCHANGED <<provider, started, cookieState, docs, connected, reading, requests, call>>
-----------------------------------------------------------------------------
(* Reading.                                                                *)

Hit(c) == cache[call[c].on][call[c].op].left > 0

\* A cached report is answered without a look at the integration.
AnswerFromCache(c) ==
  /\ call[c].at = "cache" /\ Hit(c)
  /\ End(c)
  /\ UNCHANGED <<provider, site, journey, connection, reading, requests>>

Flying(c) == call[c].op = "intelligence" /\ flight[call[c].on] # Absent

\* The load is under way on this instance: its promise is returned.
JoinLoad(c) ==
  /\ call[c].at = "cache" /\ ~Hit(c) /\ Flying(c)
  /\ Move(c, "joined")
  /\ UNCHANGED <<provider, site, journey, connection, reading, requests>>

StartLoad(c) ==
  /\ call[c].at = "cache" /\ ~Hit(c) /\ ~Flying(c)
  /\ Move(c, "open")
  /\ flight' = IF call[c].op = "intelligence" THEN [flight EXCEPT ![call[c].on] = c] ELSE flight
  /\ UNCHANGED <<provider, site, journey, connection, cache, requests>>

\* A bug for the run to find: whoever waits removes the entry.
LandedForAll(c) == [flight EXCEPT ![call[c].on] = Absent]
\* The load ends, well or badly: its own entry goes.
Landed(c) == IF flight[call[c].on] = c THEN [flight EXCEPT ![call[c].on] = Absent] ELSE flight

Joined(c) == {j \in Calls : Is(j, "intelligence", "joined") /\ call[j].on = call[c].on}

\* Everyone who joined gets the load's report, or its error.
EndLoad(c) ==
  /\ flight' = Landed(c)
  /\ call' = [j \in Calls |->
                IF j = c \/ (flight[call[c].on] = c /\ j \in Joined(c)) THEN NoCall ELSE call[j]]

NeedsProperty(c) == provider = "analytics" /\ call[c].op \in {"report", "plain"}

\* getWebsiteForUser, getActiveIntegration: the document as it is now is what the load
\* works with; a token that is about to expire is refreshed, if it can be.
OpenIntegration(c) ==
  /\ call[c].at = "open"
  /\ IF ~integ.active \/ (NeedsProperty(c) /\ integ.property = Absent)
          \/ (~integ.fresh /\ integ.refresh = Absent)
     THEN EndLoad(c)
     ELSE /\ call' = [call EXCEPT ![c].doc = integ,
                                  ![c].at = IF integ.fresh THEN "query" ELSE "refresh"]
          /\ UNCHANGED flight
  /\ UNCHANGED <<provider, site, journey, connection, cache, requests>>

\* A bug for the run to find: the document is addressed by its website and provider.
SameWebsite(d) == integ # NoDoc
\* The refreshed token is written by the id of the document that was read.
SameDoc(d) == integ # NoDoc /\ integ.id = d.id

\* getValidAccessToken: Google answers with a token for the account of the refresh token
\* that was read, or refuses, which the document is marked with.
Refresh(c) ==
  LET d == call[c].doc
  IN /\ call[c].at = "refresh"
     /\ \/ /\ integ' = IF SameDoc(d)
                       THEN [integ EXCEPT !.access = d.refresh, !.fresh = TRUE, !.active = TRUE]
                       ELSE integ
           /\ Move(c, "query") /\ UNCHANGED flight
        \/ /\ integ' = IF SameDoc(d) THEN [integ EXCEPT !.active = FALSE] ELSE integ
           /\ EndLoad(c)
     /\ UNCHANGED <<provider, site, journey, docs, connected, cache, requests>>

\* The reports' requests run together; the rows of those that fail are empty, or, for
\* the plain reports and for intelligence, the whole load fails.
Query(c) ==
  /\ call[c].at = "query"
  /\ \/ cache' = IF call[c].op = "plain" THEN cache
                 ELSE [cache EXCEPT ![call[c].on][call[c].op] =
                         [doc |-> call[c].doc.id, property |-> call[c].doc.property,
                          left |-> CacheTtl]]
     \/ UNCHANGED cache
  /\ EndLoad(c)
  /\ UNCHANGED <<provider, site, journey, connection, requests>>

\* Access tokens last about an hour, cached reports a minute.
TokenExpires ==
  /\ integ.fresh
  /\ integ' = [integ EXCEPT !.fresh = FALSE]
  /\ UNCHANGED <<provider, site, journey, docs, connected, reading, requests, call>>

Tick(i, k) ==
  /\ cache[i][k].left > 0
  /\ cache' = [cache EXCEPT ![i][k] = IF @.left = 1 THEN NoReport ELSE [@ EXCEPT !.left = @ - 1]]
  /\ UNCHANGED <<provider, site, journey, connection, flight, requests, call>>

GoogleNext ==
  \/ \E c \in Calls :
       \/ \E op \in GoogleOps, i \in Instances, x \in Accounts \cup Properties \cup {Absent} :
            Begin(c, op, i, x)
       \/ Connect(c) \/ StoreState(c) \/ ConsumeAuthorization(c) \/ CheckWebsite(c) \/ SaveTokens(c)
       \/ SelectProperty(c) \/ Disconnect(c)
       \/ AnswerFromCache(c) \/ JoinLoad(c) \/ StartLoad(c) \/ OpenIntegration(c)
       \/ Refresh(c) \/ Query(c)
  \/ DeleteWebsite \/ TokenExpires \/ \E i \in Instances, k \in KeptReports : Tick(i, k)

GoogleSpec == GoogleInit /\ [][GoogleNext]_googleVars
-----------------------------------------------------------------------------
\* However late a refresh ends, the tokens of an integration are of Google accounts that
\* were connected to this very document: a disconnected account's token never comes back
\* into the connection that replaced it.
TokensOfOwnConnections ==
  integ # NoDoc => {integ.access, integ.refresh} \ {Absent} \subseteq connected[integ.id]

\* An instance loads a search intelligence report once at a time, and whoever waits for
\* it waits for a load that is still under way.
OneLoadAtATime ==
  \A i \in Instances :
    LET loading == {c \in Calls : call[c].op = "intelligence" /\ call[c].on = i
                                    /\ call[c].at \in {"open", "refresh", "query"}}
    IN /\ Cardinality(loading) <= 1
       /\ {c \in Calls : Is(c, "intelligence", "joined") /\ call[c].on = i} # {}
            => loading # {}

\* A website's stored tokens are of a connection its own user made, and one request at a
\* time loads a cached report on behalf of the others (integrations/google.ts).
IntegrationsHold == TokensOfOwnConnections /\ OneLoadAtATime
=============================================================================
