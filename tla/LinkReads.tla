------------------------------ MODULE LinkReads ------------------------------
(***************************************************************************)
(* Reading one domain's link index page by page: the product's service     *)
(* (lib/backlinks/link-intelligence.service.ts) over its serving worker    *)
(* (workers/growthsent-api), which answers from its response cache, from   *)
(* the precomputed JSON of the domain, or from the Parquet table.          *)
(*                                                                         *)
(* TopRows says how the best rows of a table are found.  The index and its *)
(* JSON are immutable; the domain's JSON may appear at any time while its  *)
(* batch is built.  Rows of one score have no order of their own: the JSON *)
(* has them in one, and every reading of the table in another.             *)
(***************************************************************************)
EXTENDS LinkWorker

CONSTANTS
  ScoreLists,     \* what the index may hold of the domain: scores, best first
  WorkerDefault   \* the worker's limit when none is asked for

ReadsOK ==
  /\ WorkerOK /\ WorkerDefault \in Nat
  /\ ScoreLists \subseteq Seq(Nat)
  /\ \A s \in ScoreLists : \A i, j \in DOMAIN s : i < j => s[i] >= s[j]

VARIABLES
  scores,    \* rows in the index, best first
  indexed,   \* the worker is configured
  json,      \* the rows in the domain's JSON, and whether it is published
  readJson,
  edge,      \* response cache of the worker: its answer to the service, or EmptyAnswer
  reader     \* a client that walks the pages: what it asks, what it has, how it goes, and
             \* the rankings that its pages came from

readsVars == <<scores, indexed, json, readJson, edge, reader>>

EmptyAnswer == [total |-> 0, rows |-> <<>>, live |-> FALSE]

ReadsInit ==
  /\ scores \in ScoreLists /\ indexed \in BOOLEAN
  /\ json \in Rankings(scores, TopN) /\ readJson \in BOOLEAN
  /\ edge = EmptyAnswer
  /\ \E limit \in PageLimits :
       reader = [limit |-> limit, page |-> 1, rows |-> <<>>, total |-> 0, state |-> "asking",
                 rankings |-> {}]

----------------------------------------------------------------------------
(* workers/growthsent-api: one handler per table, all of this shape.       *)

\* pickLimit; no limit is written 0
PickLimit(asked) == IF asked = 0 THEN WorkerDefault ELSE LesserOf(asked, WorkerMax)

ServedRows(rows) == [total |-> Len(scores), rows |-> rows, live |-> TRUE]
\* from the domain's JSON: of its TopN rows
FromJson(limit) == {ServedRows(SubSeq(json, 1, LesserOf(limit, Len(json))))}
\* from the Parquet table
FromParquet(limit) == {ServedRows(r) : r \in Rankings(scores, limit)}
FreshAnswers(limit) == IF readJson THEN FromJson(limit) ELSE FromParquet(limit)

\* the fetch handler: a cached response of the very request, or a fresh one
WorkerAnswers(asked) == IF edge.live THEN {edge} ELSE FreshAnswers(PickLimit(asked))

EdgeExpires ==
  /\ edge.live /\ edge' = EmptyAnswer
  /\ UNCHANGED <<scores, indexed, json, readJson, reader>>

ReadJsonPublished ==
  /\ ~readJson /\ readJson' = TRUE
  /\ UNCHANGED <<scores, indexed, json, edge, reader>>

----------------------------------------------------------------------------
(* LinkIntelligenceService: every page fetches the rows the worker gives   *)
(* and slices them here.                                                   *)

PageEnd(answer, page, limit) == LesserOf((page - 1) * limit + limit, Len(answer.rows))
Slice(answer, page, limit) ==
  SubSeq(answer.rows, (page - 1) * limit + 1, PageEnd(answer, page, limit))
\* paginateRemote: more pages while rows in hand remain; the total is the remote one
HasMore(answer, page, limit) == PageEnd(answer, page, limit) < Len(answer.rows)

\* no worker configured: the empty answer of the fallback
ServiceAnswers == IF indexed THEN WorkerAnswers(WorkerMax) ELSE {EmptyAnswer}

PageRead ==
  /\ reader.state = "asking"
  /\ \E answer \in ServiceAnswers :
       /\ reader' = [reader EXCEPT
             !.rows = @ \o Slice(answer, reader.page, reader.limit),
             !.total = answer.total,
             !.page = IF HasMore(answer, reader.page, reader.limit) THEN @ + 1 ELSE @,
             !.state = IF HasMore(answer, reader.page, reader.limit) THEN "asking" ELSE "finished",
             !.rankings = @ \cup {answer.rows}]
       /\ edge' = IF indexed THEN answer ELSE edge
  /\ UNCHANGED <<scores, indexed, json, readJson>>

\* the worker is over its resources, or does not answer in 30 s: the page is an
\* error, which the client may ask for again
PageFailed ==
  /\ reader.state = "asking" /\ indexed
  /\ reader' = [reader EXCEPT !.state = "failed"]
  /\ UNCHANGED <<scores, indexed, json, readJson, edge>>
PageRetried ==
  /\ reader.state = "failed"
  /\ reader' = [reader EXCEPT !.state = "asking"]
  /\ UNCHANGED <<scores, indexed, json, readJson, edge>>

ReadsNext == PageRead \/ PageFailed \/ PageRetried \/ EdgeExpires \/ ReadJsonPublished

ReadsSpec == ReadsInit /\ [][ReadsNext]_readsVars

----------------------------------------------------------------------------
\* A client that follows the pages to the end has as many rows as the worker gives out,
\* row by row with the scores of the best, and the real total, although its pages come from
\* the cache, the JSON or the table as those come and go, and are asked for again after an
\* error.  A row that no other ties with is there once; of rows that tie, one may come on
\* two pages and another on none, unless all pages came from one ranking: they are that one
\* (paginateRemote; TOP_N against pickLimit; TopHeap.toSorted).
PagesInOrder ==
  reader.state = "finished" /\ indexed =>
    /\ Len(reader.rows) = LesserOf(WorkerMax, Len(scores)) /\ InOrder(reader.rows, 0, scores)
    /\ reader.total = Len(scores)
    /\ \A r \in reader.rankings : reader.rankings = {r} => reader.rows = r
=============================================================================
