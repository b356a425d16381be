------------------------------ MODULE ApiGate ------------------------------
(***************************************************************************)
(* One instance of the HTTP API: the handlers of src/api, the database     *)
(* connection and the index provisioning they wait for, the rate limiter,  *)
(* and the routes of src/lib/api/router.ts, each the sequence of checks it *)
(* makes before it touches what it answers with.                           *)
(*                                                                         *)
(* Requests interleave at every await.  Meanwhile the account that owns    *)
(* the website may be deleted, and the audit's owner with it.  What the    *)
(* handlers behind the checks do to accounts, integrations, audits and     *)
(* backlinks is the subject of the other modules.                          *)
(***************************************************************************)
EXTENDS Naturals, Sequences, FiniteSets, Functions

CONSTANTS
  Slots,        \* requests in progress
  MaxPerWindow, \* maxRequests of the address's rate limit
  WindowMs,     \* its window, in ticks
  MaxTicks,     \* bound on the clock
  Kinds,        \* the kinds of audits a run reads
  Workloads     \* what a behaviour's requests ask for, one route, and their number:
                \* requests to several routes meet in nothing but what all routes share

VARIABLES
  route,     \* the route of the behaviour
  provision, \* PROVISION_MONGODB_INDEXES, and the unique ones audited first
  indexes,   \* the memoised promise: none, audit, create, ready or failed
  creations, \* times the instance has begun to create the indexes
  client,    \* the shared connection: none, connecting or open
  clock,     \* time
  bucket,    \* the rate limiter's entry of the address
  admitted,  \* the times of the requests it allowed
  owner,     \* the account of the website is there, and owns it
  arrivals,  \* requests still to come
  slot       \* the request in each slot

gateVars == <<route, provision, indexes, creations, client, clock, bucket, admitted, owner, arrivals,
              slot>>
-----------------------------------------------------------------------------
(* The routes, each by the checks it makes in turn.  What a check looks at *)
(* and what its failure is answered with is Passes, MayFail and Refusals.  *)

Reads(resource, checks) == [resource |-> resource, checks |-> checks]
Owned(checks) == Reads("site", <<"user">> \o checks)

RunWorker        == Reads("internal", <<"cron">>)
WorkerHealth     == Reads("internal", <<"cron">>)
Health           == Reads("public", <<>>)
Backlinks        == Reads("account", <<"user", "input", "quota", "sample">>)
LinkSummary      == Reads("account", <<"user">>)
LinkRating       == Reads("account", <<"user">>)
LinkDomains      == Reads("account", <<"user">>)
LinkPages        == Reads("account", <<"user">>)
LinkAnchors      == Reads("account", <<"user">>)
LinkBroken       == Reads("account", <<"user">>)
LinkGap          == Reads("account", <<"user", "input">>)
StartIntegration == Owned(<<"input", "site">>)
ShowIntegration  == Owned(<<"input", "site">>)
EndIntegration   == Owned(<<"input", "site">>)
IntegrationCallback == Reads("public", <<"redirect">>)
Keywords         == Owned(<<"input", "search">>)
Intelligence     == Owned(<<"input", "keptSearch">>)
SearchReport     == Owned(<<"input", "keptSearch">>)
PropertyList     == Owned(<<"input", "tokens">>)
PropertyChoice   == Owned(<<"input", "tokens">>)
VisitorReport    == Owned(<<"input", "visitors">>)
FullVisitorReport == Owned(<<"input", "keptVisitors">>)
StartAudit       == Reads("public", <<"input", "target", "admission">>)
StartSiteAudit   == Reads("site", <<"input", "user", "site", "target", "admission">>)
AuditStatus      == Reads("scan", <<"scan">>)
Share            == Owned(<<"site">>)
SharedAudit      == Reads("public", <<"shared">>)
LegacyStart      == Reads("public", <<"disabled">>)
Scan             == Reads("scan", <<"scan">>)
ScanPages        == Reads("scan", <<"scan">>)
ScanIssues       == Reads("scan", <<"scan">>)
StartLogin       == Reads("public", <<"provider">>)
LoginCallback    == Reads("public", <<"redirect">>)
SignUp           == Reads("public", <<"input", "human">>)
SignIn           == Reads("public", <<"input", "human", "password">>)
SignOut          == Reads("cookie", <<>>)
Me               == Reads("account", <<"user">>)
DeleteMe         == Reads("account", <<"user">>)
NewWebsite       == Reads("account", <<"user", "input">>)
Websites         == Reads("account", <<"user">>)
Website          == Owned(<<"site">>)
Readiness        == Owned(<<"budget", "site", "target">>)
LatestScan       == Owned(<<"site">>)
RemoveWebsite    == Owned(<<"site">>)
WebsiteScans     == Owned(<<"site">>)
Collect          == Owned(<<"input", "record">>)
Analytics        == Owned(<<"site">>)
AdminStats       == Reads("internal", <<"admin">>)
Unknown          == Reads("public", <<"nowhere">>)

AllRoutes ==
  {RunWorker, WorkerHealth, Health, Backlinks, LinkSummary, LinkRating, LinkDomains,
   LinkPages, LinkAnchors, LinkBroken, LinkGap, StartIntegration, ShowIntegration,
   EndIntegration, IntegrationCallback, Keywords, Intelligence, SearchReport, PropertyList,
   PropertyChoice, VisitorReport, FullVisitorReport, StartAudit, StartSiteAudit,
   AuditStatus, Share, SharedAudit, LegacyStart, Scan, ScanPages, ScanIssues, StartLogin,
   LoginCallback, SignUp, SignIn, SignOut, Me, DeleteMe, NewWebsite, Websites, Website,
   Readiness, LatestScan, RemoveWebsite, WebsiteScans, Collect, Analytics, AdminStats,
   Unknown}

\* What a check that fails is answered with.  redirect: whatever comes of a callback, the
\* browser is sent on.  The services behind "tokens" and "record" throw, and no handler
\* of theirs catches it.
Refusals ==
  [user |-> {401}, admin |-> {403}, cron |-> {401}, input |-> {400}, site |-> {404},
   scan |-> {404}, quota |-> {429}, budget |-> {429}, admission |-> {429, 503},
   target |-> {400, 422}, human |-> {400, 503}, password |-> {401}, provider |-> {503},
   sample |-> {400, 503, 504}, redirect |-> {302}, disabled |-> {410}, nowhere |-> {404},
   search |-> {400, 404}, keptSearch |-> {400, 404}, visitors |-> {400},
   keptVisitors |-> {400}, tokens |-> {500}, record |-> {500}, shared |-> {404}]

\* What an audit belongs to, in the order canAccessScan asks.
ScanKinds == {"website", "account", "legacy", "anonymous"}

GateOK ==
  /\ \A n \in {MaxPerWindow, WindowMs, MaxTicks} : n \in Nat \ {0}
  /\ Workloads \subseteq [route : AllRoutes, requests : Nat] /\ "anonymous" \in Kinds /\ Kinds \subseteq ScanKinds

NoSlot == [at |-> "free", user |-> FALSE, role |-> "none", token |-> FALSE,
           kind |-> "anonymous", step |-> 1, status |-> 0, owned |-> FALSE]

GateInit ==
  /\ \E t \in Workloads : route = t.route /\ arrivals = t.requests
  /\ provision \in BOOLEAN
  /\ indexes = "none" /\ creations = 0 /\ client = "none" /\ clock = 0
  /\ bucket = [count |-> 0, resetAt |-> 0, set |-> FALSE]
  /\ admitted = <<>> /\ owner = TRUE
  /\ slot = [s \in Slots |-> NoSlot]
-----------------------------------------------------------------------------
Goes(s, at) == slot' = [slot EXCEPT ![s].at = at]
Replies(s, status) == slot' = [slot EXCEPT ![s].at = "answer", ![s].status = status]

\* A request of the owner, of an administrator, of a stranger, or with no session; with
\* the audit's bearer token or not; where a check tells them apart.
Receive(s, role, token, kind) ==
  /\ slot[s].at = "free" /\ arrivals > 0
  /\ route.resource # "scan" => kind = "anonymous" /\ ~token
  /\ role = "admin" => "admin" \in Range(route.checks)
  /\ role = "scheduler" => "cron" \in Range(route.checks)
  /\ role = "stranger" => route.resource \in {"site", "scan"}
  /\ arrivals' = arrivals - 1
  /\ slot' = [slot EXCEPT ![s] = [NoSlot EXCEPT !.at = "provision", !.role = role,
                                    !.token = token, !.kind = kind]]
  /\ UNCHANGED <<route, provision, indexes, creations, client, clock, bucket, admitted, owner>>

\* parseBoundedRequestBody: too large a body is answered before the router is reached.
ReadBody(s) == Goes(s, "limit") \/ Replies(s, 413)

Provisioned == indexes = "ready"

\* The operator's gate: the first request starts the provisioning and all wait for it; a
\* failure is remembered as long as the instance lives.
AwaitIndexes(s) ==
  /\ slot[s].at = "provision"
  /\ \/ ~provision /\ ReadBody(s) /\ UNCHANGED <<indexes, creations>>
     \/ /\ provision /\ indexes = "none"
        /\ indexes' = "audit" /\ creations' = creations + 1 /\ UNCHANGED slot
     \/ provision /\ Provisioned /\ ReadBody(s) /\ UNCHANGED <<indexes, creations>>
     \/ provision /\ indexes = "failed" /\ Replies(s, 500) /\ UNCHANGED <<indexes, creations>>
  /\ UNCHANGED <<route, provision, client, clock, bucket, admitted, owner, arrivals>>

\* Duplicates stop the provisioning before anything is created.
AuditDuplicates ==
  /\ indexes = "audit" /\ client = "open"
  /\ indexes' \in {"create", "failed"}
  /\ UNCHANGED <<route, provision, creations, client, clock, bucket, admitted, owner, arrivals, slot>>

\* Every definition is tried; one failure is a failure of the whole.
CreateIndexes ==
  /\ indexes = "create"
  /\ indexes' \in {"ready", "failed"}
  /\ UNCHANGED <<route, provision, creations, client, clock, bucket, admitted, owner, arrivals, slot>>

HasCookie(s) == slot[s].role \in {"owner", "stranger", "admin"}
CheckOf(s) == route.checks[slot[s].step]
Checking(s) == slot[s].at = "check" /\ slot[s].step <= Len(route.checks)

\* A request waits for the database with its session, and, if it has none, at the first
\* check that looks something up or with the route's own work.
Waits(s) ==
  \/ slot[s].at = "session" /\ HasCookie(s)
  \/ Checking(s) /\ CheckOf(s) \in {"scan", "admission", "shared", "provider"}
  \/ slot[s].at = "check" /\ ~Checking(s) /\ route.resource # "cookie"
NeedsDatabase == indexes = "audit" \/ \E s \in Slots : Waits(s)

\* connectToDatabase: one attempt that everybody waits for; a failed one is forgotten.
StartConnecting ==
  /\ client = "none" /\ NeedsDatabase
  /\ client' = "connecting"
  /\ UNCHANGED <<route, provision, indexes, creations, clock, bucket, admitted, owner, arrivals, slot>>

FinishConnecting ==
  /\ client = "connecting"
  /\ \/ client' = "open" /\ UNCHANGED <<indexes, slot>>
     \/ /\ client' = "none"
        /\ indexes' = IF indexes = "audit" THEN "failed" ELSE indexes
        /\ slot' = [s \in Slots |-> IF Waits(s)
                                    THEN [slot[s] EXCEPT !.at = "answer", !.status = 500]
                                    ELSE slot[s]]
  /\ UNCHANGED <<route, provision, creations, clock, bucket, admitted, owner, arrivals>>

Full == bucket.count >= MaxPerWindow
WindowOver == ~bucket.set \/ clock > bucket.resetAt

\* checkRateLimit: a fixed window that starts with its first request.
Limit(s) ==
  /\ slot[s].at = "limit"
  /\ IF ~WindowOver /\ Full
     THEN Replies(s, 429) /\ UNCHANGED <<bucket, admitted>>
     ELSE /\ bucket' = IF WindowOver
                       THEN [count |-> 1, resetAt |-> clock + WindowMs, set |-> TRUE]
                       ELSE [bucket EXCEPT !.count = @ + 1]
          /\ admitted' = Append(admitted, clock)
          /\ Goes(s, IF "cron" \in Range(route.checks) THEN "check" ELSE "session")
  /\ UNCHANGED <<route, provision, indexes, creations, client, clock, owner, arrivals>>

\* validateSession: a stranger's session is as good as the owner's, of another account.
\* Without a cookie there is nothing to look up.
Authenticate(s) ==
  /\ slot[s].at = "session" /\ (HasCookie(s) => client = "open")
  /\ slot' = [slot EXCEPT ![s].at = "check",
                ![s].user = slot[s].role \in {"stranger", "admin"}
                              \/ (slot[s].role = "owner" /\ owner)]
  /\ UNCHANGED <<route, provision, indexes, creations, client, clock, bucket, admitted, owner,
                 arrivals>>

OwnsSite(s) == slot[s].user /\ slot[s].role = "owner" /\ owner

\* A bug for the run to find: the token opens whatever it was issued for.
TokenOrOwner(s) == slot[s].token \/ OwnsSite(s)
\* canAccessScan: an audit of a website or of an account is its owner's, whatever token
\* comes along; an anonymous one is read with its token.
MayReadScan(s) ==
  IF slot[s].kind = "anonymous" THEN slot[s].token
  ELSE slot[s].user /\ slot[s].role = "owner" /\ (slot[s].kind = "website" => owner)

\* The checks that look for a website of the user, or for its connection to Google; an
\* instance that keeps the user's report answers with it without a look.
KeptChecks == {"keptSearch", "keptVisitors"}
OwnerChecks == {"site", "record", "tokens", "search", "visitors"} \cup KeptChecks

Passes(s, check) ==
  CASE check = "user"  -> slot[s].user
    [] check = "admin" -> slot[s].user /\ slot[s].role = "admin"
    [] check = "cron"  -> slot[s].role = "scheduler"
    [] check \in KeptChecks -> slot[s].user /\ slot[s].role = "owner"
    [] check \in OwnerChecks -> OwnsSite(s)
    [] check = "scan"  -> MayReadScan(s)
    [] check \in {"disabled", "nowhere", "redirect"} -> FALSE
    [] OTHER -> TRUE

\* The checks on the input, on limits and on third parties may fail whoever asks.
MayFail(check) == check \notin {"user", "admin", "cron", "site", "record", "scan"}

Check(s) ==
  LET check == CheckOf(s)
  IN /\ Checking(s) /\ (Waits(s) => client = "open")
     /\ \/ /\ Passes(s, check)
           /\ slot' = [slot EXCEPT ![s].step = @ + 1, ![s].owned = @ \/ check \in OwnerChecks]
        \/ /\ ~Passes(s, check) \/ MayFail(check)
           /\ \E status \in Refusals[check] : Replies(s, status)
     /\ UNCHANGED <<route, provision, indexes, creations, client, clock, bucket, admitted, owner,
                    arrivals>>

\* The route's own work, 200 standing for every success, or an error that becomes a 500.
Serve(s) ==
  /\ slot[s].at = "check" /\ ~Checking(s) /\ (Waits(s) => client = "open")
  /\ Replies(s, 200) \/ Replies(s, 500)
  /\ UNCHANGED <<route, provision, indexes, creations, client, clock, bucket, admitted, owner,
                 arrivals>>

\* The response ends; the background task of a new audit, which ImmediateSlots follows,
\* is registered after it.
Respond(s) ==
  /\ slot[s].at = "answer"
  /\ slot' = [slot EXCEPT ![s] = NoSlot]
  /\ UNCHANGED <<route, provision, indexes, creations, client, clock, bucket, admitted, owner,
                 arrivals>>

\* The owner's account, or the website, is deleted by a request of its own.
OwnerLeaves ==
  /\ owner /\ owner' = FALSE
  /\ UNCHANGED <<route, provision, indexes, creations, client, clock, bucket, admitted, arrivals,
                 slot>>

TimePasses ==
  /\ clock < MaxTicks /\ clock' = clock + 1
  /\ UNCHANGED <<route, provision, indexes, creations, client, bucket, admitted, owner, arrivals,
                 slot>>

GateNext ==
  \/ \E s \in Slots :
       \/ \E role \in {"owner", "stranger", "admin", "scheduler", "none"},
            token \in BOOLEAN, kind \in Kinds : Receive(s, role, token, kind)
       \/ AwaitIndexes(s) \/ Limit(s) \/ Authenticate(s) \/ Check(s) \/ Serve(s)
       \/ Respond(s)
  \/ AuditDuplicates \/ CreateIndexes \/ StartConnecting \/ FinishConnecting
  \/ OwnerLeaves \/ TimePasses

GateSpec == GateInit /\ [][GateNext]_gateVars
-----------------------------------------------------------------------------
\* No request passes the operator's gate before the indexes are all there, and the
\* requests that meet at the gate provision them once.
ReadyBeforeServed ==
  /\ creations <= 1
  /\ provision => \A s \in Slots :
       slot[s].at \in {"limit", "session", "check"} => indexes = "ready"

\* A fixed window lets fewer than twice its limit through in any time as long as a window:
\* what it admits late, and what the next one admits at once.
BurstBounded ==
  \A k \in DOMAIN admitted :
    Cardinality({j \in DOMAIN admitted : admitted[j] \in admitted[k] .. admitted[k] + WindowMs})
      < 2 * MaxPerWindow

\* A successful answer with data of a website went to a request that had found the user to
\* be its owner; an audit that has an owner is never read with the bearer token alone.
OnlyOwnersServed ==
  \A s \in Slots : slot[s].at = "answer" /\ slot[s].status = 200 =>
    /\ route.resource = "site" => slot[s].role = "owner" /\ slot[s].owned
    /\ route.resource = "account" => slot[s].user
    /\ route.resource = "scan" /\ slot[s].kind # "anonymous" => slot[s].role = "owner"

\* Nothing is served before the database and its indexes are ready, an address gets no more
\* than its burst, and private data goes to its owner (api/index.ts, api/router.ts).
GateHolds == ReadyBeforeServed /\ BurstBounded /\ OnlyOwnersServed
=============================================================================
