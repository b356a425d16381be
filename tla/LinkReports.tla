----------------------------- MODULE LinkReports -----------------------------
(***************************************************************************)
(* Reports on the links of one domain: the product's service               *)
(* (lib/backlinks/link-intelligence.service.ts) puts each together from    *)
(* answers of its serving worker (workers/growthsent-api), asked for at    *)
(* the same time.  An answer comes from the JSON of the domain, which may  *)
(* be published between two of them, or from a Parquet table of the        *)
(* domain's bucket, which may be missing.                                  *)
(*                                                                         *)
(* The other worker (workers/link-intelligence) answers from the tables    *)
(* alone; a client walks a table of it by following the cursors.           *)
(***************************************************************************)
EXTENDS LinkWorker, Lists

CONSTANTS
  Indexes,     \* what the index may say of the domain: present (in domain_summary),
               \* inbound, referring, rows (table -> rows, best first), parts (tables
               \* with an object for the bucket)
  Gaps,        \* how many GAP_OPPORTUNITIES there are
  PageNumbers,
  SummaryTop,  \* rows in a summary
  V1Limits     \* page sizes asked of the other worker

LinkTables == {"referring_domains", "anchors", "top_pages", "broken_backlink_candidates"}
AnchorKinds == {"branded", "topical", "url", "generic", "other"}
LinkRows == [score : Nat, kind : AnchorKinds]
ScoresOf(rows) == [i \in DOMAIN rows |-> rows[i].score]

ReportsOK ==
  /\ WorkerOK /\ SummaryTop \in 1..TopN
  /\ PageNumbers \cup V1Limits \subseteq Nat \ {0}
  /\ Gaps \in Nat
  /\ \A i \in Indexes :
       /\ i.present \in BOOLEAN /\ i.inbound \in Nat /\ i.referring \in Nat
       /\ i.rows \in [LinkTables -> Seq(LinkRows)]
       /\ \A t \in LinkTables : \A a, b \in DOMAIN i.rows[t] :
            a < b => i.rows[t][a].score >= i.rows[t][b].score
       /\ i.present <=> i.inbound > 0
       \* all tables are counts of the same links (common_crawl_link_index_materialize_v1.py)
       /\ ~i.present => i.referring = 0 /\ \A t \in LinkTables : i.rows[t] = <<>>
       /\ Sum(ScoresOf(i.rows["top_pages"])) <= i.inbound

VARIABLES
  linkIndex,
  linked,      \* LINK_INTELLIGENCE_WORKER_URL is set
  reportJson,  \* the domain's JSON is published
  question,    \* the report asked for, its page and filter
  linkAnswers, \* endpoint -> the worker's answer so far
  linkReport,  \* the report, once it is given
  walk         \* the client that follows cursors

reportVars == <<linkIndex, linked, reportJson, question, linkAnswers, linkReport, walk>>

NoLinkAnswer == [outcome |-> "none", inbound |-> 0, referring |-> 0, total |-> 0, rows |-> <<>>]
NoLinkReport == [state |-> "asked", inbound |-> 0, referring |-> 0, rows |-> <<>>, total |-> 0,
             more |-> FALSE, anchors |-> <<>>, share |-> <<>>, kinds |-> [k \in AnchorKinds |-> 0]]
EmptyReport == [NoLinkReport EXCEPT !.state = "given"]

ReportOps == {"summary", "rating", "referring", "pages", "anchors", "broken", "gap"}
Statuses == {"any", "candidate", "verified_broken", "verified_live"}

LinkReportsInit ==
  /\ linkIndex \in Indexes /\ linked \in BOOLEAN /\ reportJson \in {FALSE, linkIndex.present}
  /\ \E op \in ReportOps, page \in PageNumbers, limit \in PageLimits, status \in Statuses :
       /\ op \in {"summary", "rating"} => page = 1 /\ limit = 1
       /\ op # "broken" => status = "any"
       /\ question = [op |-> op, page |-> page, limit |-> limit, status |-> status]
  /\ linkAnswers =
       [e \in {"rating", "summary", "backlinks", "anchors", "pages", "broken"} |-> NoLinkAnswer]
  /\ linkReport = NoLinkReport
  /\ \E table \in LinkTables, limit \in V1Limits :
       walk = [table |-> table, limit |-> limit, offset |-> 0, rows |-> <<>>, state |-> "asking"]

Best(rows, k) == SubSeq(rows, 1, LesserOf(k, Len(rows)))
\* the rows of a table at their places, and the scores of them all
Placed(table, places) == [i \in DOMAIN places |-> linkIndex.rows[table][places[i]]]
TableScores(table) == ScoresOf(linkIndex.rows[table])
----------------------------------------------------------------------------
(* workers/growthsent-api: the handlers.                                   *)

WorkerError == [NoLinkAnswer EXCEPT !.outcome = "error"]
IndexCounts ==
  [NoLinkAnswer EXCEPT !.outcome = "ok", !.inbound = linkIndex.inbound, !.referring = linkIndex.referring]
\* the rows of an answer are places in its table: of the JSON's ranking or of one made now
TableRows(table, k) ==
  {[NoLinkAnswer EXCEPT !.outcome = "ok", !.total = Len(linkIndex.rows[table]), !.rows = r] :
     r \in Rankings(TableScores(table), k)}

\* the counts of a domain that is not found are zero; of a bucket that is not there, an error
FromSummary ==
  IF "domain_summary" \notin linkIndex.parts THEN WorkerError
  ELSE IF linkIndex.present THEN IndexCounts ELSE [NoLinkAnswer EXCEPT !.outcome = "ok"]
TableAnswers(table, limit) ==
  IF reportJson THEN TableRows(table, LesserOf(limit, TopN))
  ELSE IF table \in linkIndex.parts THEN TableRows(table, limit) ELSE {WorkerError}

DomainRating == IF reportJson THEN IndexCounts ELSE FromSummary
SummaryCounts == IF reportJson THEN IndexCounts ELSE FromSummary
BacklinkRows(limit) == TableAnswers("referring_domains", limit)
Anchors(limit) == TableAnswers("anchors", limit)
TopPages(limit) == TableAnswers("top_pages", limit)
Broken(limit) == TableAnswers("broken_backlink_candidates", limit)

\* the batch that builds the domains' files reaches this one
ReportJsonPublished ==
  /\ ~reportJson /\ linkIndex.present /\ reportJson' = TRUE
  /\ UNCHANGED <<linkIndex, linked, question, linkAnswers, linkReport, walk>>
----------------------------------------------------------------------------
(* LinkIntelligenceService.                                                *)

Endpoints ==
  CASE question.op = "summary" -> {"rating", "backlinks", "anchors"}
    [] question.op = "rating" -> {"rating"}
    [] question.op = "referring" -> {"backlinks"}
    [] question.op = "pages" -> {"summary", "pages"}
    [] question.op = "anchors" -> {"anchors"}
    [] question.op = "broken" -> {"broken"}
    [] question.op = "gap" -> {}

Fetched(endpoint) ==
  CASE endpoint = "rating" -> {DomainRating}
    [] endpoint = "summary" -> {SummaryCounts}
    [] endpoint = "backlinks" -> BacklinkRows(IF question.op = "summary" THEN SummaryTop
                                              ELSE WorkerMax)
    [] endpoint = "anchors" -> Anchors(IF question.op = "summary" THEN SummaryTop
                                       ELSE LesserOf(question.limit, WorkerMax))
    [] endpoint = "pages" -> TopPages(WorkerMax)
    [] endpoint = "broken" -> Broken(WorkerMax)

\* workerFetch: an answer, or the worker's error, its resource limit or 30 s are over.
\* The first failure is that of the whole report.
WorkerFetch(endpoint) ==
  /\ linked /\ linkReport.state = "asked"
  /\ endpoint \in Endpoints /\ linkAnswers[endpoint].outcome = "none"
  /\ \E answer \in Fetched(endpoint) \cup {WorkerError} :
       /\ linkAnswers' = [linkAnswers EXCEPT ![endpoint] = answer]
       /\ linkReport' = IF answer.outcome = "error" THEN [linkReport EXCEPT !.state = "failed"]
                        ELSE linkReport
  /\ UNCHANGED <<linkIndex, linked, reportJson, question, walk>>

SliceOf(rows) ==
  SubSeq(rows, (question.page - 1) * question.limit + 1,
         LesserOf(question.page * question.limit, Len(rows)))
More(rows) == LesserOf(question.page * question.limit, Len(rows)) < Len(rows)
\* paginateRemote: the pages of the rows in hand, with the total of the index
Paged(rows, total) ==
  [EmptyReport EXCEPT !.rows = SliceOf(rows), !.total = total, !.more = More(rows)]

GetSummary ==
  LET rating == linkAnswers["rating"] IN
  IF rating.inbound = 0 /\ rating.referring = 0 THEN EmptyReport
  ELSE [EmptyReport EXCEPT !.inbound = rating.inbound, !.referring = rating.referring,
          !.rows = Best(linkAnswers["backlinks"].rows, SummaryTop),
          !.anchors = Best(linkAnswers["anchors"].rows, SummaryTop)]
GetRating == [EmptyReport EXCEPT !.inbound = linkAnswers["rating"].inbound]
GetReferringDomains == Paged(linkAnswers["backlinks"].rows, linkAnswers["backlinks"].total)
\* all of it, twice, in hundredths of a percentage
TwiceAll == 20000
\* toFixed(2) of a percentage, in hundredths: the nearest; of two as near, the one on whose
\* side the floating-point quotient falls
Hundredths(part, whole, up) ==
  (TwiceAll * part + (IF up THEN whole ELSE whole - 1)) \div (2 * whole)
\* each page's part of all the domain's links
GetTopPages(up) ==
  LET paged == Paged(linkAnswers["pages"].rows, linkAnswers["pages"].total)
      pages == Placed("top_pages", paged.rows)
      inbound == linkAnswers["summary"].inbound IN
  [paged EXCEPT !.share = [i \in DOMAIN pages |->
     IF inbound > 0 THEN Hundredths(pages[i].score, inbound, up) ELSE 0]]
GetAnchors ==
  LET terms == Placed("anchors", linkAnswers["anchors"].rows) IN
  [EmptyReport EXCEPT !.rows = linkAnswers["anchors"].rows,
     !.kinds = [k \in AnchorKinds |->
        Sum([i \in DOMAIN terms |-> IF terms[i].kind = k THEN terms[i].score ELSE 0])]]
\* every candidate has the status "candidate"; the total is not filtered
GetBrokenBacklinks ==
  Paged(IF question.status \in {"any", "candidate"} THEN linkAnswers["broken"].rows ELSE <<>>,
        linkAnswers["broken"].total)
\* the same opportunities for every domain and competitor
GetGap ==
  LET gaps == [i \in 1..Gaps |-> i] IN
  [EmptyReport EXCEPT !.rows = SliceOf(gaps), !.total = Gaps, !.more = More(gaps)]

LinkReport(up) ==
  IF question.op = "gap" THEN GetGap
  ELSE IF ~linked THEN EmptyReport
  ELSE CASE question.op = "summary" -> GetSummary
         [] question.op = "rating" -> GetRating
         [] question.op = "referring" -> GetReferringDomains
         [] question.op = "pages" -> GetTopPages(up)
         [] question.op = "anchors" -> GetAnchors
         [] question.op = "broken" -> GetBrokenBacklinks

\* a bug for the run to find: one answer is enough
Arrived == \E e \in Endpoints : linkAnswers[e].outcome = "ok"
Settled == \A e \in Endpoints : linkAnswers[e].outcome = "ok"

Give ==
  /\ linkReport.state = "asked"
  /\ (linked /\ question.op # "gap") => Settled
  /\ \E up \in BOOLEAN : linkReport' = LinkReport(up)
  /\ UNCHANGED <<linkIndex, linked, reportJson, question, linkAnswers, walk>>
----------------------------------------------------------------------------
(* workers/link-intelligence.                                              *)

\* readDomainRows: the best offset + limit rows of the table's part, rows of one score by
\* their text, which their places stand for; among the lowest it keeps those that were read
\* first, whichever they are
V1Rankings(k) ==
  LET of == TableScores(walk.table) IN
  {r \in Rankings(of, k) : \A i, j \in DOMAIN r : i < j /\ of[r[i]] = of[r[j]] => r[i] < r[j]}
V1Pages ==
  {SubSeq(r, walk.offset + 1, Len(r)) : r \in V1Rankings(walk.offset + walk.limit)}

\* without the part, the domain is not found; the next cursor says offset plus rows, and is
\* there unless that is 0: what ends the walk is a page without rows
V1Read ==
  /\ walk.state = "asking"
  /\ IF walk.table \notin linkIndex.parts THEN walk' = [walk EXCEPT !.state = "not_found"]
     ELSE \E page \in V1Pages :
            walk' = [walk EXCEPT !.offset = @ + Len(page), !.rows = @ \o page,
                                 !.state = IF page = <<>> THEN "ended" ELSE "asking"]
  /\ UNCHANGED <<linkIndex, linked, reportJson, question, linkAnswers, linkReport>>

LinkReportsNext ==
  ReportJsonPublished \/ (\E e \in Endpoints : WorkerFetch(e)) \/ Give \/ V1Read

LinkReportsSpec == LinkReportsInit /\ [][LinkReportsNext]_reportVars
----------------------------------------------------------------------------
RowsOfOp == [referring |-> "referring_domains", pages |-> "top_pages",
             broken |-> "broken_backlink_candidates"]

\* rows that are the best so many of a table, or the page asked for of them, and none twice
BestOf(rows, table, k) ==
  /\ Len(rows) = LesserOf(k, Len(linkIndex.rows[table]))
  /\ NoneTwice(rows) /\ InOrder(rows, 0, TableScores(table))
ShownPage(rows, table) ==
  LET given == LesserOf(WorkerMax, Len(linkIndex.rows[table]))
      before == LesserOf((question.page - 1) * question.limit, given) IN
  /\ Len(rows) = LesserOf(question.page * question.limit, given) - before
  /\ NoneTwice(rows) /\ InOrder(rows, before, TableScores(table))

\* Each share is the page's part of the links the summary counts, to half a hundredth; they
\* add up to no more than the whole and what rounding adds.
SharesTell(pages, share) ==
  /\ \A i \in DOMAIN pages :
       2 * linkIndex.inbound * share[i]
         \in (TwiceAll * pages[i].score - linkIndex.inbound) .. (TwiceAll * pages[i].score + linkIndex.inbound)
  /\ 2 * Sum(share) <= TwiceAll + Len(pages)

\* A report that is given says what the index says, whichever source each of its answers
\* came from and in whatever order they came; it is not a report with something missing.
\* Of rows with one score it may have any, but none twice.  The kinds of the anchors add up
\* to the anchors shown.  A walk that ends has had as many rows as the table, row by row
\* with its scores: one that ties with no other it has had once.
ReportsWhole ==
  /\ linkReport.state = "given" /\ linked /\ question.op # "gap" =>
       /\ question.op \in {"summary", "rating"} => linkReport.inbound = linkIndex.inbound
       /\ question.op = "summary" => /\ linkReport.referring = linkIndex.referring
                                     /\ BestOf(linkReport.rows, "referring_domains", SummaryTop)
                                     /\ BestOf(linkReport.anchors, "anchors", SummaryTop)
       /\ question.op \in DOMAIN RowsOfOp /\ question.status \in {"any", "candidate"} =>
            /\ linkReport.total = Len(linkIndex.rows[RowsOfOp[question.op]])
            /\ ShownPage(linkReport.rows, RowsOfOp[question.op])
       /\ question.op = "pages" =>
            SharesTell(Placed("top_pages", linkReport.rows), linkReport.share)
       /\ question.op = "anchors" =>
            LET of == linkReport.kinds IN
            /\ BestOf(linkReport.rows, "anchors", LesserOf(question.limit, WorkerMax))
            /\ Sum(ScoresOf(Placed("anchors", linkReport.rows)))
                 = of["branded"] + of["topical"] + of["url"] + of["generic"] + of["other"]
  /\ walk.state = "ended" =>
       /\ Len(walk.rows) = Len(linkIndex.rows[walk.table])
       /\ InOrder(walk.rows, 0, TableScores(walk.table))
=============================================================================
