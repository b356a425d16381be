---------------------------- MODULE SearchReports ----------------------------
(***************************************************************************)
(* The reports built from Google's answers: search intelligence            *)
(* (lib/integrations/search-intelligence.ts) and the full Search Console   *)
(* and Analytics reports (lib/integrations/google.ts).  The requests of a  *)
(* report run together and land by position; one that fails ends a search  *)
(* intelligence report, and leaves an empty section in a full one.         *)
(* Positions are integers, a click-through rate is clicks / impressions.   *)
(***************************************************************************)
EXTENDS Integers, Sequences, FiniteSets, TLC, SequencesExt

CONSTANTS
  Datasets,     \* what Google holds: records request -> sequence of rows
  DaysAsked,    \* the days parameters a client may send
  Keep,         \* lengths of the lists: ranked 8, found 5, best 3, pages 5
  MaxFailures   \* bound: requests of a report that fail

ReportsOK == MaxFailures \in Nat /\ \A k \in DOMAIN Keep : Keep[k] \in Nat \ {0}

VARIABLES
  kind,      \* intelligence, console or analytics
  days, periods,
  data,      \* what Google holds
  answer,    \* request -> rows received
  failed,    \* requests that failed
  report, step

reportsVars == <<kind, days, periods, data, answer, failed, report, step>>

ApiRequests ==
  [intelligence |-> {"daily", "previousDaily", "queries", "previousQueries", "pages",
                     "previousPages", "queryPages"},
   console |-> {"daily", "queries", "pages", "countries", "devices", "appearance", "sitemaps"},
   analytics |-> {"kpis", "trend", "sources", "landingPages", "countries", "devices", "browsers",
                  "os", "events", "newVsReturning", "realtime", "realtimePages"}]

ReportsInit ==
  /\ kind \in DOMAIN ApiRequests /\ days \in DaysAsked /\ data \in Datasets
  /\ periods = <<>> /\ answer = <<>> /\ failed = {} /\ report = <<>> /\ step = "asked"

----------------------------------------------------------------------------
(* The periods, in days before today                                       *)

Clamped(n) == IF n < 7 THEN 7 ELSE IF n > 90 THEN 90 ELSE n
\* dateRangeForGsc: the last two days are not final
GscPeriods(n) ==
  [current |-> [from |-> n + 1, to |-> 2], previous |-> [from |-> 2 * n + 1, to |-> n + 2]]
GscPeriod(n) == [current |-> [from |-> n + 1, to |-> 2]]
Ga4Periods(n) ==
  [current |-> [from |-> n, to |-> 0], previous |-> [from |-> 2 * n, to |-> n + 1]]

Ask ==
  /\ step = "asked"
  /\ periods' = CASE kind = "intelligence" -> GscPeriods(Clamped(days))
                  [] kind = "console" -> GscPeriod(days)
                  [] kind = "analytics" -> Ga4Periods(days)
  /\ step' = "fetching"
  /\ UNCHANGED <<kind, days, data, answer, failed, report>>

\* Promise.all: fetchSearchAnalyticsRows throws, the others catch
Fetch ==
  /\ step = "fetching"
  /\ \E lost \in SUBSET ApiRequests[kind] :
       /\ Cardinality(lost) <= MaxFailures
       /\ failed' = lost
       /\ answer' = [r \in ApiRequests[kind] |-> IF r \in lost THEN <<>> ELSE data[r]]
       /\ step' = IF kind = "intelligence" /\ lost # {} THEN "error" ELSE "received"
  /\ UNCHANGED <<kind, days, periods, data, report>>

----------------------------------------------------------------------------
(* Rows, sums and rankings                                                 *)

Total(rows, Measure(_)) == FoldLeft(LAMBDA sum, row : sum + Measure(row), 0, rows)
Clicks(row) == row.clicks
Impressions(row) == row.impressions
Placement(row) == row.position * row.impressions

\* The average position is weighted over impressions
Summary(rows) ==
  LET shown == Total(rows, Impressions) IN
  [clicks |-> Total(rows, Clicks), impressions |-> shown,
   position |-> IF shown > 0 THEN Total(rows, Placement) \div shown ELSE 0]

Some(rows, n) == SubSeq(rows, 1, IF n < Len(rows) THEN n ELSE Len(rows))
\* sort by a measure, the greatest first, then slice
Top(rows, Measure(_), n) == Some(SortSeq(rows, LAMBDA a, b : Measure(a) > Measure(b)), n)

CtrBelow(row, perMille) == row.impressions = 0 \/ 1000 * row.clicks < perMille * row.impressions

----------------------------------------------------------------------------
(* buildSearchIntelligenceReport                                           *)

NoRow == [known |-> FALSE, clicks |-> 0]
\* a bug for the run to find: a key that was not reported had no clicks
PreviousOrZero(row, previous) ==
  LET same == SelectSeq(previous, LAMBDA p : p.key = row.key) IN
  [known |-> TRUE, clicks |-> IF same = <<>> THEN 0 ELSE same[Len(same)].clicks]
\* A row of the key in the previous period; without one there is no change to tell
PreviousOf(row, previous) ==
  LET same == SelectSeq(previous, LAMBDA p : p.key = row.key) IN
  IF same = <<>> THEN NoRow ELSE [known |-> TRUE, clicks |-> same[Len(same)].clicks]

Compared(rows, previous, what) ==
  [i \in DOMAIN rows |->
     LET before == PreviousOf(rows[i], previous) IN
     [key |-> rows[i].key, clicks |-> rows[i].clicks, impressions |-> rows[i].impressions,
      position |-> rows[i].position, what |-> what, known |-> before.known,
      before |-> before.clicks]]
Change(row) == row.clicks - row.before
Loss(row) == row.before - row.clicks

QuickWin(row) == row.impressions >= 50 /\ row.position >= 4 /\ row.position <= 20
CtrOpportunity(row) == row.impressions >= 100 /\ row.position <= 10 /\ CtrBelow(row, 30)
Decayed(row) == row.known /\ row.before >= 5 /\ row.clicks < row.before
Winner(row) == row.known /\ Change(row) > 0
Loser(row) == row.known /\ Change(row) < 0

\* queries for which several pages are shown
Group(query, pairs) ==
  LET pages == SelectSeq(pairs, LAMBDA p : p.key = query) IN
  [key |-> query, pageCount |-> Len(pages), clicks |-> Total(pages, Clicks),
   impressions |-> Total(pages, Impressions), pages |-> Top(pages, Impressions, Keep.pages)]
Groups(pairs) ==
  LET first == SelectSeq([i \in DOMAIN pairs |-> i],
                         LAMBDA i : \A j \in 1..(i - 1) : pairs[j].key # pairs[i].key) IN
  [g \in DOMAIN first |-> Group(pairs[first[g]].key, pairs)]
Cannibalized(group) == group.pageCount >= 2 /\ group.impressions >= 20

Keywords == Compared(answer["queries"], answer["previousQueries"], "query")
Pages == Compared(answer["pages"], answer["previousPages"], "page")

BuildIntelligence ==
  /\ step = "received" /\ kind = "intelligence"
  /\ report' =
       [overview |-> Summary(answer["daily"]), previous |-> Summary(answer["previousDaily"]),
        trend |-> Len(answer["daily"]) > 1,
        keywords |-> Keywords, pages |-> Pages,
        quickWins |-> Top(SelectSeq(Keywords, QuickWin), Impressions, Keep.ranked),
        ctr |-> Top(SelectSeq(Keywords, CtrOpportunity), Impressions, Keep.ranked),
        decay |-> Top(SelectSeq(Pages, Decayed), Loss, Keep.ranked),
        cannibalization |-> Top(SelectSeq(Groups(answer["queryPages"]), Cannibalized),
                                Impressions, Keep.ranked),
        winners |-> Top(SelectSeq(Keywords \o Pages, Winner), Change, Keep.ranked),
        losers |-> Top(SelectSeq(Keywords \o Pages, Loser), Loss, Keep.ranked)]
  /\ step' = "built"
  /\ UNCHANGED <<kind, days, periods, data, answer, failed>>

----------------------------------------------------------------------------
(* fetchSearchConsoleFullReport: the totals are those of the queries, or   *)
(* of the days when the queries have none                                  *)

FirstTotal(field) ==
  LET Measure(row) == row[field]
      queries == Total(answer["queries"], Measure) IN
  IF queries # 0 THEN queries ELSE Total(answer["daily"], Measure)

LowCtr(row) == row.impressions >= 40 /\ CtrBelow(row, 25)
Striking(row) == row.position >= 8 /\ row.position <= 20 /\ row.impressions >= 15
ZeroClicks(row) == row.impressions >= 25 /\ row.clicks = 0
TopPerforming(row) == row.clicks >= 5 /\ ~CtrBelow(row, 50)

Of(test, rows) == [i \in DOMAIN rows |-> [type |-> test, key |-> rows[i].key]]
Opportunities ==
  LET queries == answer["queries"] IN
  Of("low_ctr", Some(SelectSeq(queries, LowCtr), Keep.found))
  \o Of("striking_distance", Some(SelectSeq(queries, Striking), Keep.found))
  \o Of("zero_clicks", Some(SelectSeq(queries, ZeroClicks), Keep.found))
  \o Of("top_performing", Some(SelectSeq(queries, TopPerforming), Keep.best))

\* Every section is the rows of its own request; the latest scan gives the overview
BuildConsole ==
  /\ step = "received" /\ kind = "console"
  /\ report' = [sections |-> answer, clicks |-> FirstTotal("clicks"),
                impressions |-> FirstTotal("impressions"), opportunities |-> Opportunities,
                indexed |-> IF data.scan = <<>> THEN 0
                            ELSE LET left == data.scan[1].pages - data.scan[1].critical IN
                                 IF left > 0 THEN left ELSE 0]
  /\ step' = "built"
  /\ UNCHANGED <<kind, days, periods, data, answer, failed>>

----------------------------------------------------------------------------
(* fetchGa4FullReport: the figures of two periods come as two rows, in any *)
(* order, of which Google leaves out one without data; without a row of    *)
(* its name a period has the row in its place                              *)

KpiRow(period, place) ==
  LET rows == answer["kpis"]
      named == SelectSeq(rows, LAMBDA r : r.key = period) IN
  IF named # <<>> THEN named[1].sessions
  ELSE IF place \in DOMAIN rows THEN rows[place].sessions ELSE 0

PctChange(now, before) ==
  IF before = 0 THEN 0 ELSE (200 * (now - before) + before) \div (2 * before)

Disengaged(row) == row.sessions >= 5 /\ row.engaged < 40
Bouncing(row) == row.sessions >= 5 /\ row.bounced > 60
IsConversion(row) == row.conversion

Insights ==
  Of("poor_engagement", Some(SelectSeq(answer["landingPages"], Disengaged), Keep.best))
  \o Of("high_bounce", Some(SelectSeq(answer["landingPages"], Bouncing), Keep.best))
  \o Of("growing_source", Some(answer["sources"], 1))

BuildAnalytics ==
  LET now == KpiRow("date_range_0", 1)  before == KpiRow("date_range_1", 2) IN
  /\ step = "received" /\ kind = "analytics"
  /\ report' = [sections |-> answer, current |-> now, previous |-> before,
                change |-> PctChange(now, before), insights |-> Insights,
                conversions |-> SelectSeq(answer["events"], IsConversion)]
  /\ step' = "built"
  /\ UNCHANGED <<kind, days, periods, data, answer, failed>>

ReportsNext == Ask \/ Fetch \/ BuildIntelligence \/ BuildConsole \/ BuildAnalytics
ReportsSpec == ReportsInit /\ [][ReportsNext]_reportsVars

----------------------------------------------------------------------------
\* list is the n best of the rows a test keeps, the best first
BestOf(list, rows, Test(_), Measure(_), n) ==
  LET kept == {i \in DOMAIN rows : Test(rows[i])}
      worse(row) == Cardinality({i \in kept : Measure(rows[i]) > Measure(row)}) IN
  /\ Len(list) = IF Cardinality(kept) < n THEN Cardinality(kept) ELSE n
  /\ \A i \in DOMAIN list : Test(list[i]) /\ worse(list[i]) < i
                            /\ \E k \in kept : rows[k] = list[i]

Reported(row, rows) == \E i \in DOMAIN rows : rows[i].key = row.key /\ rows[i].clicks = row.before
Adjacent == periods.previous.to = periods.current.from + 1

\* What a search intelligence report tells of the change of a page or a query is the
\* difference of two rows Google returned, for two periods of the same length, one right
\* after the other; a key that was not reported before has no change at all
\* ("never manufactured", search-intelligence.ts:54), and each list holds the best rows
\* of its kind; a full report never loses a section whose request was answered.  The figures
\* of a period are those of its row, in whatever order the rows came, and a change is only
\* told of two (without the current period's row the previous one's is shown in its place,
\* with no change: google.ts:1407).
ReportsTellTheData ==
  step = "built" =>
    /\ kind = "intelligence" =>
         /\ failed = {} /\ Adjacent
         /\ periods.current.from - periods.current.to = periods.previous.from - periods.previous.to
         /\ \A list \in {report.winners, report.losers, report.decay} : \A i \in DOMAIN list :
              Reported(list[i], IF list[i].what = "query" THEN data.previousQueries
                                ELSE data.previousPages)
         /\ BestOf(report.quickWins, report.keywords, QuickWin, Impressions, Keep.ranked)
         /\ BestOf(report.ctr, report.keywords, CtrOpportunity, Impressions, Keep.ranked)
         /\ BestOf(report.decay, report.pages, Decayed, Loss, Keep.ranked)
         /\ BestOf(report.winners, report.keywords \o report.pages, Winner, Change, Keep.ranked)
         /\ BestOf(report.losers, report.keywords \o report.pages, Loser, Loss, Keep.ranked)
         /\ \A i \in DOMAIN report.cannibalization :
              \E j, k \in DOMAIN data.queryPages :
                j # k /\ data.queryPages[j].key = report.cannibalization[i].key
                      /\ data.queryPages[k].key = report.cannibalization[i].key
    /\ kind # "intelligence" =>
         \A r \in ApiRequests[kind] \ failed : report.sections[r] = data[r]
    /\ kind = "console" /\ report.clicks = 0 =>
         \A r \in {"queries", "daily"} \ failed : Total(data[r], Clicks) = 0
    /\ kind = "analytics" /\ "kpis" \notin failed =>
         LET periodsGiven == {data.kpis[i].key : i \in DOMAIN data.kpis} IN
         /\ \A i \in DOMAIN data.kpis :
              LET row == data.kpis[i] IN
              /\ row.key = "date_range_0" => report.current = row.sessions
              /\ row.key = "date_range_1" => report.previous = row.sessions
         /\ report.change # 0 => {"date_range_0", "date_range_1"} \subseteq periodsGiven
=============================================================================
