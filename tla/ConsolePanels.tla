---------------------------- MODULE ConsolePanels ----------------------------
(***************************************************************************)
(* One data panel of the console and the requests it has in flight.  The   *)
(* panels differ in what they do about an answer that arrives after the    *)
(* website, domain or period has changed:                                  *)
(*   "cleanup"   a flag per request, set by the effect's cleanup           *)
(*               (LinkIntelligenceView, SharedAuditView)                   *)
(*   "sequence"  only the answer of the last request counts                *)
(*               (BacklinkAnalyticsView)                                   *)
(*   "abort"     the effect's request is aborted, a refresh by hand is not *)
(*               (AiReadinessView, SearchPerformanceView)                  *)
(*   "none"      nothing is cancelled (AnalyticsView)                      *)
(***************************************************************************)
EXTENDS Naturals

CONSTANTS
  PanelInputs,        \* websites or domains a panel may be asked about
  MaxPanelRequests,   \* bound: requests a panel makes
  NoInput           \* no input, no data

PanelsOK == MaxPanelRequests \in Nat /\ NoInput \notin PanelInputs

Disciplines == {"cleanup", "sequence", "abort", "none"}

VARIABLES
  panel,     \* the discipline of the panel under view
  asked,     \* what the panel is asked about
  enabled,   \* the panel's workspace is the open one
  flights,   \* requests in flight: their number, input, and whether their answer still counts
  last,      \* number of the last request
  data,      \* input of the data shown, or None
  loading,
  error

panelVars == <<panel, asked, enabled, flights, last, data, loading, error>>

PanelsInit ==
  /\ panel \in Disciplines
  /\ asked = NoInput /\ enabled = TRUE /\ flights = {} /\ last = 0
  /\ data = NoInput /\ loading = FALSE /\ error = FALSE

Silenced == {[f EXCEPT !.counts = FALSE] : f \in flights}
NoCleanup == flights
\* The effect's cleanup reaches the requests effects have made; a panel without
\* one, or with request numbers, leaves them alone.
AfterCleanup ==
  CASE panel = "cleanup" -> Silenced
    [] panel = "abort"   -> {IF f.byHand THEN f ELSE [f EXCEPT !.counts = FALSE] : f \in flights}
    [] OTHER             -> flights

\* a request starts: the spinner is shown and the last error forgotten; what the
\* panel showed goes at once or stays until the answer
Ask(s, pending, byHand, quiet, kept) ==
  /\ last < MaxPanelRequests
  /\ last' = last + 1
  /\ flights' = pending \cup {[id |-> last + 1, of |-> s, counts |-> TRUE, byHand |-> byHand]}
  /\ loading' = (loading \/ ~quiet) /\ error' = FALSE
  /\ data' = kept

\* what an effect's request leaves on show
KeptData == IF panel = "abort" THEN NoInput ELSE data

\* the props change: another website, or none
ChangeInput(s) ==
  /\ panel # "sequence" /\ s # asked
  /\ asked' = s
  /\ IF s # NoInput /\ enabled THEN Ask(s, AfterCleanup, FALSE, FALSE, KeptData)
     ELSE /\ flights' = AfterCleanup
          /\ data' = IF panel = "cleanup" THEN data ELSE NoInput
          /\ loading' \in IF panel = "abort" THEN {FALSE, loading} ELSE {loading}
          /\ UNCHANGED <<last, error>>
  /\ UNCHANGED <<panel, enabled>>

\* another workspace of the link panels is opened, or this one again
SwitchWorkspace ==
  /\ panel = "cleanup" /\ enabled' = ~enabled
  /\ IF enabled' /\ asked # NoInput THEN Ask(asked, AfterCleanup, FALSE, FALSE, KeptData)
     ELSE flights' = AfterCleanup /\ UNCHANGED <<last, data, loading, error>>
  /\ UNCHANGED <<panel, asked>>

\* a domain submitted, a page turned (the results stay meanwhile), a retry
Submit(s) ==
  /\ panel = "sequence"
  /\ asked' = s
  /\ \E kept \in IF s = asked THEN {NoInput, data} ELSE {NoInput} : Ask(s, flights, TRUE, FALSE, kept)
  /\ UNCHANGED <<panel, enabled>>

\* a refresh by hand while nothing loads, or the 30 s refresh of the analytics panel
RefreshPanel(quiet) ==
  /\ panel \in {"abort", "none"} /\ asked # NoInput
  /\ IF quiet THEN panel = "none" ELSE ~loading
  /\ Ask(asked, flights, TRUE, quiet, KeptData)
  /\ UNCHANGED <<panel, asked, enabled>>

Counts(f) == IF panel = "sequence" THEN f.id = last ELSE f.counts

Answer(f, ok) ==
  /\ f \in flights /\ flights' = flights \ {f}
  /\ IF ~Counts(f) THEN UNCHANGED <<data, loading, error>>
     ELSE /\ loading' = FALSE /\ error' = ~ok
          /\ data' = IF ok THEN f.of
                     ELSE IF panel \in {"cleanup", "sequence"} THEN data ELSE NoInput
  /\ UNCHANGED <<panel, asked, enabled, last>>

PanelsNext ==
  \/ \E s \in PanelInputs \cup {NoInput} : ChangeInput(s)
  \/ \E s \in PanelInputs : Submit(s)
  \/ SwitchWorkspace
  \/ \E quiet \in BOOLEAN : RefreshPanel(quiet)
  \/ \E f \in flights, ok \in BOOLEAN : Answer(f, ok)

PanelsSpec == PanelsInit /\ [][PanelsNext]_panelVars

----------------------------------------------------------------------------
\* A link or backlink panel that has stopped loading without an error shows the
\* data of the domain it is asked about, however many requests for other domains
\* overlapped (the cancelled flag of useLinkIntelligenceQuery, the request
\* number of BacklinkAnalyticsView).  The other two disciplines do not keep it.
SettledShowsCurrent ==
  panel \in {"cleanup", "sequence"} /\ enabled /\ asked # NoInput /\ ~loading /\ ~error
     => data \in {NoInput, asked}
=============================================================================
