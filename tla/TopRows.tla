------------------------------- MODULE TopRows -------------------------------
(***************************************************************************)
(* How the workers read the best rows of one domain from a Parquet table:  *)
(* column chunks arrive in any order, a row range is processed when all    *)
(* its columns are there, and a min-heap of offset + limit rows keeps the  *)
(* highest scores, so that memory stays bounded whatever the table's size  *)
(* (workers/link-intelligence/src/parquet.ts and heap.ts,                  *)
(* workers/growthsent-api/src/index.ts).                                   *)
(***************************************************************************)
EXTENDS Naturals, Sequences, FiniteSets, TLC

CONSTANTS
  RangeSize,   \* rows in one row range
  Ranges,      \* number of row ranges
  MaxScore,    \* bound: scores are 1..MaxScore
  MaxKeep      \* bound: offset + limit

TopRowsOK == {RangeSize, Ranges, MaxScore, MaxKeep} \subseteq Nat \ {0}

Rows == 1..(RangeSize * Ranges)
RowsOf(range) == {r \in Rows : (r - 1) \div RangeSize = range - 1}
Columns == {"target_domain", "score"}

VARIABLES
  score,     \* the table: 0 for a row of another domain
  offset, limit,
  pending,   \* columns received of each row range
  heap,      \* rows kept, the lowest score at the root
  total,     \* rows of the domain counted
  first,     \* readFirstRow: the first row met, or 0
  rows       \* the answer once everything has been read

topRowsVars == <<score, offset, limit, pending, heap, total, first, rows>>

NotYet == <<0>>
Done == \A range \in 1..Ranges : pending[range] = Columns

TopRowsInit ==
  /\ score \in [Rows -> 0..MaxScore]
  /\ offset \in 0..(MaxKeep - 1) /\ limit \in 1..MaxKeep /\ offset + limit <= MaxKeep
  /\ pending = [range \in 1..Ranges |-> {}]
  /\ heap = <<>> /\ total = 0 /\ first = 0 /\ rows = NotYet

----------------------------------------------------------------------------
(* The heap.                                                               *)

Swapped(h, i, j) == [h EXCEPT ![i] = h[j], ![j] = h[i]]
Lower(h, i, j) == score[h[i]] < score[h[j]]

RECURSIVE BubbleUp(_, _), BubbleDown(_, _), PushAll(_, _)

BubbleUp(h, i) ==
  IF i > 1 /\ Lower(h, i, i \div 2) THEN BubbleUp(Swapped(h, i, i \div 2), i \div 2) ELSE h

OnlyLeft(h, i) == 2 * i
\* the child with the lower score, the left one of equals
LowerChild(h, i) ==
  IF 2 * i + 1 <= Len(h) /\ Lower(h, 2 * i + 1, 2 * i) THEN 2 * i + 1 ELSE 2 * i

BubbleDown(h, i) ==
  IF 2 * i <= Len(h) /\ Lower(h, LowerChild(h, i), i)
  THEN BubbleDown(Swapped(h, i, LowerChild(h, i)), LowerChild(h, i)) ELSE h

\* a full heap takes a row only for a strictly higher score
Push(h, row) ==
  IF Len(h) < offset + limit THEN BubbleUp(Append(h, row), Len(h) + 1)
  ELSE IF score[row] > score[h[1]] THEN BubbleDown([h EXCEPT ![1] = row], 1)
  ELSE h

PushAll(h, todo) ==
  IF todo = {} THEN h
  ELSE LET row == CHOOSE r \in todo : \A s \in todo : r <= s
       IN PushAll(IF score[row] = 0 THEN h ELSE Push(h, row), todo \ {row})

\* toSorted: by score, then by the row itself
Sorted(h) == SortSeq(h, LAMBDA a, b : score[a] > score[b] \/ (score[a] = score[b] /\ a < b))
Page(sorted) ==
  SubSeq(sorted, offset + 1, IF offset + limit < Len(sorted) THEN offset + limit ELSE Len(sorted))

----------------------------------------------------------------------------
HalfRead(received) == received # {}
Complete(received) == received = Columns

\* one column chunk arrives; the range is processed once, with its last column
Chunk(range, column) ==
  LET received == pending[range] \cup {column}
      hits == {r \in RowsOf(range) : score[r] > 0} IN
  /\ column \notin pending[range]
  /\ pending' = [pending EXCEPT ![range] = received]
  /\ IF Complete(received)
     THEN /\ total' = total + Cardinality(hits)
          /\ heap' = PushAll(heap, RowsOf(range))
          /\ first' = IF first = 0 /\ hits # {} THEN CHOOSE r \in hits : \A s \in hits : r <= s
                      ELSE first
     ELSE UNCHANGED <<total, heap, first>>
  /\ rows' = IF Done' THEN Page(Sorted(heap')) ELSE rows
  /\ UNCHANGED <<score, offset, limit>>

TopRowsNext == \E range \in 1..Ranges, column \in Columns : Chunk(range, column)

TopRowsSpec == TopRowsInit /\ [][TopRowsNext]_topRowsVars

----------------------------------------------------------------------------
\* Whatever the order in which chunks arrive, the answer's scores are those of
\* ranks offset + 1 to offset + limit of the whole table, no row is answered
\* twice or from another domain, and the total counts every row of the domain
\* (readDomainRows, readTopRows: "keeps only the top (offset + limit) rows").
Hits == {r \in Rows : score[r] > 0}
AtLeast(set, s) == Cardinality({r \in set : score[r] >= s})
Between(low, x, high) == IF x < low THEN 0 ELSE IF x > high THEN high - low ELSE x - low

TopRowsExact ==
  Done => LET answer == {rows[i] : i \in 1..Len(rows)} IN
          /\ total = Cardinality(Hits) /\ answer \subseteq Hits
          /\ Cardinality(answer) = Len(rows)
          /\ \A s \in 1..MaxScore :
               AtLeast(answer, s) = Between(offset, AtLeast(Hits, s), offset + limit)
          /\ first = 0 <=> Hits = {}
=============================================================================
