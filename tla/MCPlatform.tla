----------------------------- MODULE MCPlatform -----------------------------
(***************************************************************************)
(* The parts of the product around its audits, one instance each for TLC:  *)
(* accounts, integrations and the console; what serves and reports links;  *)
(* fetching, crawling, scoring and reporting; and what starts the batch    *)
(* work.  They meet in documents that none of them shares with another     *)
(* while it works, so a behaviour is one of a single component, chosen at  *)
(* the start.  The others rest: those there are theorems of in one initial *)
(* state, the rest of them, which are instances of their modules, at None. *)
(***************************************************************************)
EXTENDS SmallInputs, Accounts, GoogleIntegration, ApiGate, Dashboard, ConsolePanels, Claims,
        Links, Fleet, TLC

CONSTANTS q1, q2, b1, s1, s2, t1, t2, mail, shop

VARIABLES
  component,
  tableScore, offset, limit, pending, heap, total, first, rows,
  kind, days, periods, dataset, answer, failed, searchReport, searchStep,
  range, pageviews, seen, tally, summary,
  audit, pen, at, printed

rankingVars == <<tableScore, offset, limit, pending, heap, total, first, rows>>
searchVars == <<kind, days, periods, dataset, answer, failed, searchReport, searchStep>>
trafficVars == <<range, pageviews, seen, tally, summary>>
pdfVars == <<audit, pen, at, printed>>

Pair == {q1, q2}
Symmetry == Permutations(Pair) \cup Permutations({t1, t2})

(* The constants of the components that are extended.                      *)
MCEmailOf == [s \in {s1, s2} |-> mail]
MCVisits == {{"go"}, {"scan"}, {"add"}}
MCBuckets == Pair \cup {b1}
MCHostOf == SampleHosts(None)
MCRowsOf == SampleRows(None)
MCSiteOf == SampleSites(None)
MCAuditedSites == [home : ReadinessHomes, robots : ReadinessRobots, files : ReadinessFiles]

Ranking == INSTANCE TopRows WITH
  RangeSize <- 2, Ranges <- 2, MaxScore <- 3, MaxKeep <- 3, score <- tableScore
Search == INSTANCE SearchReports WITH
  Datasets <- Datasets, DaysAsked <- {1, 28}, MaxFailures <- 1,
  Keep <- [ranked |-> 2, found |-> 2, best |-> 1, pages |-> 1],
  data <- dataset, report <- searchReport, step <- searchStep
Traffic == INSTANCE TrafficSummary WITH
  Events <- PageViews, DaysAsked <- {-1, 2, 9}, MaxRange <- 3, TopK <- 2,
  events <- pageviews
Pdf == INSTANCE AuditReport WITH
  Intros <- {1, 2}, Findings <- FindingLists, PageLists <- PrintedPages,
  stage <- printed

ASSUME
  /\ AccountsOK /\ GoogleOK /\ GateOK /\ DashboardOK /\ PanelsOK /\ ScoreOK /\ ReadinessOK
  /\ AdmissionOK /\ LaunchOK /\ BuildOK
  /\ LinksOK /\ Ranking!TopRowsOK
  /\ Search!ReportsOK /\ Traffic!TrafficOK
  /\ Pdf!LayoutOK

Components ==
  {"accounts", "google", "gate", "dashboard", "panels", "ranking", "reads", "reports",
   "sample", "score", "readiness", "search", "traffic",
   "pdf", "permits", "launch", "build"}

Rests(name) == component # name

Init ==
  /\ component \in Components
  /\ Rests("accounts") => users = [u \in UserIds |-> NoUser]
  /\ AccountsInit
  /\ Rests("google") => provider = "search" /\ integ = NoDoc
  /\ GoogleInit
  /\ Rests("gate") => route = PublicRoute /\ provision = TRUE
  /\ GateInit
  /\ Rests("dashboard") => uses = {"go"}
  /\ DashboardInit
  /\ Rests("panels") => panel = "none"
  /\ PanelsInit
  /\ Rests("score") => /\ files = UnreachableFiles /\ source = "live" /\ results = <<GoodPage>>
  /\ ScoreInit
  /\ Rests("readiness") => target = CHOOSE s \in AuditedSites : TRUE
  /\ ReadinessInit
  /\ AdmissionInit
  /\ LaunchInit
  /\ BuildInit
  /\ Rests("reads") => /\ scores = <<>> /\ indexed = FALSE /\ readJson = FALSE
                       /\ reader = [limit |-> 1, page |-> 1, rows |-> <<>>, total |-> 0,
                                    state |-> "asking", rankings |-> {}]
  /\ ReadsInit
  /\ Rests("reports") => /\ linkIndex = (CHOOSE i \in Indexes : ~i.present)
                         /\ linked = FALSE /\ reportJson = FALSE
                         /\ question = [op |-> "gap", page |-> 1, limit |-> 1, status |-> "any"]
                         /\ walk = [table |-> "anchors", limit |-> 2, offset |-> 0, rows |-> <<>>,
                                    state |-> "asking"]
  /\ LinkReportsInit
  /\ Rests("sample") =>
       sampled = [q \in Pair |-> [ask |-> [name |-> "plain", page |-> 1, size |-> 2],
                                  step |-> "asked", report |-> NoSample]]
  /\ SampleInit
  /\ IF component = "ranking" THEN Ranking!TopRowsInit ELSE
     /\ tableScore = None /\ offset = None /\ limit = None /\ pending = None /\ heap = None
     /\ total = None /\ first = None /\ rows = None
  /\ IF component = "search" THEN Search!ReportsInit ELSE
     /\ kind = None /\ days = None /\ periods = None /\ dataset = None /\ answer = None
     /\ failed = None /\ searchReport = None /\ searchStep = None
  /\ IF component = "traffic" THEN Traffic!TrafficInit ELSE
     /\ range = None /\ pageviews = None /\ seen = None /\ tally = None /\ summary = None
  /\ IF component = "pdf" THEN Pdf!LayoutInit ELSE
     /\ audit = None /\ pen = None /\ at = None /\ printed = None

Next ==
  /\ UNCHANGED component
  /\ IF component = "accounts" THEN AccountsNext ELSE UNCHANGED accountVars
  /\ IF component = "google" THEN GoogleNext ELSE UNCHANGED googleVars
  /\ IF component = "gate" THEN GateNext ELSE UNCHANGED gateVars
  /\ IF component = "dashboard" THEN DashboardNext ELSE UNCHANGED dashboardVars
  /\ IF component = "panels" THEN PanelsNext ELSE UNCHANGED panelVars
  /\ IF component = "ranking" THEN Ranking!TopRowsNext ELSE UNCHANGED rankingVars
  /\ IF component = "reads" THEN ReadsNext ELSE UNCHANGED readsVars
  /\ IF component = "reports" THEN LinkReportsNext ELSE UNCHANGED reportVars
  /\ IF component = "sample" THEN SampleNext ELSE UNCHANGED sampleVars
  /\ IF component = "score" THEN ScoreNext ELSE UNCHANGED scoreVars
  /\ IF component = "readiness" THEN ReadinessNext ELSE UNCHANGED readinessVars
  /\ IF component = "search" THEN Search!ReportsNext ELSE UNCHANGED searchVars
  /\ IF component = "traffic" THEN Traffic!TrafficNext ELSE UNCHANGED trafficVars
  /\ IF component = "pdf" THEN Pdf!LayoutNext ELSE UNCHANGED pdfVars
  /\ IF component = "permits" THEN AdmissionNext ELSE UNCHANGED admissionVars
  /\ IF component = "launch" THEN LaunchNext ELSE UNCHANGED launchVars
  /\ IF component = "build" THEN BuildNext ELSE UNCHANGED buildVars

vars == <<component, accountVars, googleVars, gateVars, dashboardVars, panelVars,
          admissionVars, launchVars, buildVars,
          scoreVars, readinessVars, rankingVars, readsVars, reportVars, sampleVars,
          searchVars, trafficVars, pdfVars>>

Spec == Init /\ [][Next]_vars
-----------------------------------------------------------------------------
In(name) == component = name

\* Answers say what their data says: the best rows of a table, search and analytics
\* reports, the traffic summary, and the printed audit, of which no finding that fits a page
\* is divided and no text that does is cut.
ReportsTellTheData ==
  /\ In("ranking") => Ranking!TopRowsExact
  /\ In("search") => Search!ReportsTellTheData
  /\ In("traffic") => Traffic!SummaryAgrees
  /\ In("pdf") => Pdf!LaidOut
=============================================================================
