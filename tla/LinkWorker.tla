------------------------------ MODULE LinkWorker ------------------------------
(***************************************************************************)
(* What the reads and the reports of links have in common: the limits of   *)
(* the serving worker (workers/growthsent-api) and of what a client asks.  *)
(***************************************************************************)
EXTENDS Naturals, Sequences

CONSTANTS
  WorkerMax,   \* the worker's clamp, and WORKER_MAX_PAGE_SIZE, what the service asks for
  TopN,        \* rows of each table kept in a domain's JSON
  PageLimits   \* page sizes a client asks for

WorkerOK ==
  /\ {WorkerMax, TopN} \subseteq Nat \ {0} /\ WorkerMax <= TopN
  /\ PageLimits \subseteq Nat \ {0}

LesserOf(a, b) == IF a < b THEN a ELSE b

(* A table of one domain is the list of its rows' scores, best first; a row is the place it *)
(* has there.  Nothing orders rows of one score: a ranking may have any of them, in any      *)
(* order, and the next one of the same table another.                                        *)
NoneTwice(rows) == \A i, j \in DOMAIN rows : rows[i] = rows[j] => i = j
\* Row by row, the scores that follow the first so many of the table.
InOrder(rows, after, scores) ==
  \A i \in DOMAIN rows : rows[i] \in DOMAIN scores /\ scores[rows[i]] = scores[after + i]

\* The best k rows (ORDER BY the score alone; TopHeap, toSorted).
Rankings(scores, k) ==
  {r \in [1..LesserOf(k, Len(scores)) -> DOMAIN scores] : NoneTwice(r) /\ InOrder(r, 0, scores)}
=============================================================================
