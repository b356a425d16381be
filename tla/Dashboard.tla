------------------------------ MODULE Dashboard ------------------------------
(***************************************************************************)
(* One browser page of the product: the root component with the session it *)
(* restores, the landing page's URL bar, the console with its list of      *)
(* websites, the report it shows and the audit it polls, and the dialogs   *)
(* that add or delete a website (src/src/App.tsx,                          *)
(* src/src/components/dashboard/AppConsole.tsx).                           *)
(*                                                                         *)
(* React runs one callback at a time, so a callback up to its next await   *)
(* is one action; every fetch in flight is state, and the answers arrive   *)
(* in any order.  The server is external and answers as it likes.  The     *)
(* console is mounted at most once in a behaviour.                         *)
(***************************************************************************)
EXTENDS Naturals, Sequences

CONSTANTS
  Sites,       \* websites the visitor may name
  Flows,       \* asynchronous handlers in flight at once
  MaxJobs,     \* bound: audits started in a behaviour
  Visits,      \* bound: the sets of handlers a visitor may use in one behaviour
  Nothing         \* a null reference

DashboardOK == MaxJobs \in Nat /\ Nothing \notin Sites

Pollers == {"UrlBar", "Console"}
NoJob == 0
Jobs == 1..MaxJobs

VARIABLES
  account,   \* the root component: user shown, session being restored, view
  uses,      \* the handlers this visitor uses
  listRequest,   \* the console's one request for the list of websites
  list,      \* websites shown
  active,    \* activeWebsiteId
  shown,     \* site of the scan in scanResult, or Nothing
  loads,     \* sites whose saved data is being fetched
  flow,      \* handlers suspended at an await: their kind, for which site, at which stage
  jobSite,   \* site of every audit started
  poller,    \* per poller: mounted, scanning, timerRef, in-flight flag, live intervals
  polls      \* progress requests in flight

dashboardVars == <<account, uses, listRequest, list, active, shown, loads, flow,
                   jobSite, poller, polls>>
consoleData == <<listRequest, list, active, shown, loads>>

IdleFlow == [kind |-> "go", site |-> Nothing, stage |-> "idle"]
Who(kind) == IF kind = "go" THEN "UrlBar" ELSE "Console"
FreshPoller == [mounted |-> TRUE, scanning |-> FALSE, timer |-> NoJob, busy |-> FALSE, live |-> {}]

DashboardInit ==
  /\ account = [user |-> FALSE, asking |-> TRUE, landing |-> TRUE]
  /\ uses \in Visits
  /\ listRequest = "idle"
  /\ list = {} /\ active = Nothing /\ shown = Nothing /\ loads = {}
  /\ flow = [f \in Flows |-> IdleFlow]
  /\ jobSite = <<>>
  /\ poller = [UrlBar |-> FreshPoller, Console |-> [FreshPoller EXCEPT !.mounted = FALSE]]
  /\ polls = {}

----------------------------------------------------------------------------
(* Pollers: the same bounded poll of an audit, in the URL bar and in the   *)
(* console.                                                                *)

\* stopPolling / stopAuditPolling: clear the interval the ref names
Stopped(p) == [p EXCEPT !.live = @ \ {p.timer}, !.timer = NoJob, !.busy = FALSE]
\* setInterval: the ref names the new interval, whatever it named before
Started(p, j) == [p EXCEPT !.live = @ \cup {j}, !.timer = j]
StartedOver(p, j) == Started([p EXCEPT !.scanning = TRUE], j)
StartedAnew(p, j) == Started([Stopped(p) EXCEPT !.scanning = TRUE], j)
\* The console's pollAudit stops the previous poll first; the URL bar did so
\* before its request.
Polling(who, j) == IF who = "Console" THEN StartedAnew(poller[who], j) ELSE Started(poller[who], j)
\* the immediate first poll, unless one is in flight
PollNow(who, p, j) ==
  /\ poller' = [poller EXCEPT ![who] = [p EXCEPT !.busy = TRUE]]
  /\ polls' = IF p.busy THEN polls ELSE polls \cup {<<who, j>>}

PollTick(who, j) ==
  /\ j \in poller[who].live /\ ~poller[who].busy
  /\ PollNow(who, poller[who], j)
  /\ UNCHANGED <<account, uses, consoleData, flow, jobSite>>

PollRunning(who, j) ==
  /\ <<who, j>> \in polls
  /\ polls' = polls \ {<<who, j>>}
  /\ poller' = [poller EXCEPT ![who].busy = FALSE]
  /\ UNCHANGED <<account, uses, consoleData, flow, jobSite>>

\* completed, failed, unreadable or unreachable: the poll of any job stops the
\* poller's current interval
PollEnded(who, j) ==
  /\ <<who, j>> \in polls
  /\ polls' = polls \ {<<who, j>>}
  /\ poller' = [poller EXCEPT ![who] = [Stopped(@) EXCEPT !.scanning = FALSE]]
  /\ \/ UNCHANGED shown
     \/ who = "Console" /\ poller[who].mounted /\ shown' = jobSite[j]
  /\ UNCHANGED <<account, uses, listRequest, list, active, loads, flow, jobSite>>

----------------------------------------------------------------------------
(* The console's list and selection.                                       *)

\* activeWebsiteId changes: its effect fetches the saved data, or clears it
Select(s) ==
  /\ active' = s
  /\ loads' = IF s = Nothing \/ s = active THEN loads ELSE loads \cup {s}

ListAnswered ==
  /\ listRequest = "sent" /\ poller["Console"].mounted
  /\ listRequest' = "done"
  /\ \/ UNCHANGED <<list, active, loads>>
     \/ \E seen \in SUBSET Sites \ {{}} : list' = seen /\ \E s \in seen : Select(s)
  /\ UNCHANGED <<account, uses, shown, flow, jobSite, poller, polls>>

\* loadWebsiteData has no cancellation: the answer of a site left meanwhile still lands
DataLoaded(s) ==
  /\ s \in loads /\ loads' = loads \ {s}
  /\ \/ UNCHANGED shown
     \/ poller["Console"].mounted /\ shown' = s
  /\ UNCHANGED <<account, uses, listRequest, list, active, flow, jobSite, poller, polls>>

SelectWebsite(s) ==
  /\ poller["Console"].mounted /\ s \in list /\ Select(s)
  /\ UNCHANGED <<account, uses, listRequest, list, shown, flow, jobSite, poller, polls>>

\* the sidebar does not look at the answer: the site leaves the list even when
\* the server kept it; the settings view goes on only when the server deleted it
Remaining(s) == list \ {s}
KeptSelection(s) == UNCHANGED <<active, loads, shown>>
Reselected(s) ==
  /\ IF Remaining(s) = {} THEN Select(Nothing) ELSE \E t \in Remaining(s) : Select(t)
  /\ shown' = IF active' = Nothing THEN Nothing ELSE shown
DropWebsite(s) ==
  /\ poller["Console"].mounted /\ s \in list
  /\ list' = Remaining(s) /\ Reselected(s)
  /\ UNCHANGED <<account, uses, listRequest, flow, jobSite, poller, polls>>

----------------------------------------------------------------------------
(* Handlers that start an audit: UrlBar.go, handleScanForUrl, and the      *)
(* dialog that adds a website.                                             *)

Suspend(f, kind, s, stage) ==
  /\ kind \in uses /\ flow[f].stage = "idle" /\ Len(jobSite) < MaxJobs
  /\ flow' = [flow EXCEPT ![f] = [kind |-> kind, site |-> s, stage |-> stage]]
Resume(f) == flow' = [flow EXCEPT ![f] = IdleFlow]

\* a new scan stops the poll in progress and shows the spinner
Scanning(who) == poller' = [poller EXCEPT ![who] = [Stopped(@) EXCEPT !.scanning = TRUE]]

\* the button is disabled while scanning, the Enter key is not
Navigate(f, s) ==
  /\ poller["UrlBar"].mounted
  /\ Suspend(f, "go", s, "starting") /\ Scanning("UrlBar")
  /\ UNCHANGED <<account, uses, consoleData, jobSite, polls>>

\* setWebsites and setActive..., which do nothing once the console is unmounted
Listed(s) ==
  IF poller["Console"].mounted THEN list' = list \cup {s} /\ Select(s)
  ELSE UNCHANGED <<list, active, loads>>

\* handleScanForUrl, up to its first await
ScanNow(f, s) ==
  /\ poller["Console"].mounted
  /\ Scanning("Console") /\ shown' = Nothing
  /\ \/ s \in list /\ Select(s) /\ Suspend(f, "scan", s, "starting")
     \/ s \notin list /\ Suspend(f, "scan", s, "adding") /\ UNCHANGED <<active, loads>>
  /\ UNCHANGED <<account, uses, listRequest, list, jobSite, polls>>

Add(f, s) ==
  /\ poller["Console"].mounted /\ Suspend(f, "add", s, "adding")
  /\ UNCHANGED <<account, uses, consoleData, jobSite, poller, polls>>

\* POST /websites answered: a scan lists and selects the site at once, the
\* dialog only when it closes
SiteAdded(f) ==
  /\ flow[f].stage = "adding"
  /\ flow' = [flow EXCEPT ![f].stage = "starting"]
  /\ IF flow[f].kind = "scan" THEN Listed(flow[f].site) ELSE UNCHANGED <<list, active, loads>>
  /\ UNCHANGED <<account, uses, listRequest, shown, jobSite, poller, polls>>

\* POST /audit answered with a job: the poll starts, mounted or not
JobStarted(f) ==
  LET who == Who(flow[f].kind)  j == Len(jobSite) + 1 IN
  /\ flow[f].stage = "starting" /\ j <= MaxJobs
  /\ jobSite' = Append(jobSite, flow[f].site)
  /\ PollNow(who, Polling(who, j), j)
  /\ IF flow[f].kind = "add" THEN Listed(flow[f].site) ELSE UNCHANGED <<list, active, loads>>
  /\ Resume(f)
  /\ UNCHANGED <<account, uses, listRequest, shown>>

\* a refusal or a lost connection; the dialog closes without a job when only the
\* audit was refused
Refused(f) ==
  /\ flow[f].stage # "idle" /\ Resume(f)
  /\ IF flow[f].kind = "add"
     THEN /\ UNCHANGED poller
          /\ IF flow[f].stage = "starting" THEN Listed(flow[f].site)
             ELSE UNCHANGED <<list, active, loads>>
     ELSE /\ poller' = [poller EXCEPT ![Who(flow[f].kind)].scanning = FALSE]
          /\ UNCHANGED <<list, active, loads>>
  /\ UNCHANGED <<account, uses, listRequest, shown, jobSite, polls>>

----------------------------------------------------------------------------
(* The root component: the session it restores, sign-in, sign-out, views.  *)

consolePage == <<uses, consoleData, flow, jobSite, poller, polls>>

\* auth/me answers: a late answer still signs the page in
Restored ==
  /\ account.asking
  /\ \E found \in BOOLEAN :
        account' = [account EXCEPT !.asking = FALSE, !.user = @ \/ found]
  /\ UNCHANGED consolePage

\* the dialog's answer: signed in, or an error it shows
ConsoleSignIn ==
  /\ account.landing /\ ~account.user
  /\ account' = [account EXCEPT !.user = TRUE]
  /\ UNCHANGED consolePage

Unmounted(p) == [Stopped(p) EXCEPT !.mounted = FALSE]

OpenConsole ==
  /\ account.user /\ account.landing /\ listRequest = "idle"
  /\ account' = [account EXCEPT !.landing = FALSE]
  /\ poller' = [UrlBar |-> Unmounted(poller["UrlBar"]), Console |-> FreshPoller]
  /\ listRequest' = "sent"
  /\ UNCHANGED <<uses, list, active, shown, loads, flow, jobSite, polls>>

\* handleLogout: the page forgets the user whether or not the server answered
LogOut ==
  /\ poller["Console"].mounted
  /\ account' = [account EXCEPT !.user = FALSE, !.landing = TRUE]
  /\ poller' = [poller EXCEPT !["Console"] = Unmounted(@)]
  /\ UNCHANGED <<uses, consoleData, flow, jobSite, polls>>

DashboardNext ==
  \/ \E f \in Flows : SiteAdded(f) \/ JobStarted(f) \/ Refused(f)
  \/ \E f \in Flows, s \in Sites : Navigate(f, s) \/ ScanNow(f, s) \/ Add(f, s)
  \/ \E w \in Pollers, j \in Jobs : PollTick(w, j) \/ PollRunning(w, j) \/ PollEnded(w, j)
  \/ ListAnswered
  \/ \E s \in Sites : DataLoaded(s) \/ SelectWebsite(s) \/ DropWebsite(s)
  \/ Restored \/ ConsoleSignIn \/ OpenConsole \/ LogOut

DashboardSpec == DashboardInit /\ [][DashboardNext]_dashboardVars

----------------------------------------------------------------------------
\* The console never loses an interval: whatever scans, dialogs and answers of
\* older jobs overlap, at most one poll runs and the ref names it
\* (stopAuditPolling at the head of pollAudit, AppConsole.tsx:395).
NoLostTimer == poller["Console"].live \subseteq {poller["Console"].timer}

\* The selected website is one of those listed, while the list's answer, new
\* sites, scans and deletions overlap (AppConsole.tsx:318-338, 566-583).
SelectionListed == active # Nothing => active \in list

\* "Polling is cleaned up on unmount" (App.tsx:645): no interval of the URL bar
\* outlives it.
CleanedUpOnUnmount == ~poller["UrlBar"].mounted => poller["UrlBar"].live = {}

\* The console keeps at most the poll its ref names, and selects a website it lists,
\* however its handlers overlap (AppConsole.tsx).
ConsoleHolds == NoLostTimer /\ SelectionListed
=============================================================================
