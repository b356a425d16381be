------------------------------ MODULE LinkProofs ------------------------------
(***************************************************************************)
(* Link data reaches its reader whole: the inductive invariants of the     *)
(* reads, the reports and the sample, and the proofs that every step keeps *)
(* them.                                                                   *)
(***************************************************************************)
EXTENDS Links, ListTheorems

-----------------------------------------------------------------------------
(***************************************************************************)
(* Rankings                                                                *)
(***************************************************************************)
LEMMA Lesser ==
  ASSUME NEW a \in Nat, NEW b \in Nat
  PROVE  LesserOf(a, b) \in Nat /\ LesserOf(a, b) <= a /\ LesserOf(a, b) <= b
  BY DEF LesserOf

\* What a ranking is, and that nothing else is one.
LEMMA RankingList ==
  ASSUME NEW s \in Seq(Nat), NEW k \in Nat, NEW r \in Rankings(s, k)
  PROVE  /\ r \in Seq(Nat) /\ Len(r) = LesserOf(k, Len(s)) /\ Len(r) <= Len(s)
         /\ NoneTwice(r) /\ InOrder(r, 0, s)
<1> DEFINE n == LesserOf(k, Len(s))
<1>1. r \in [1..n -> DOMAIN s] /\ NoneTwice(r) /\ InOrder(r, 0, s)
  BY DEF Rankings
<1>2. n \in Nat /\ n <= Len(s) /\ DOMAIN s \subseteq Nat
  BY DEF LesserOf
<1> HIDE DEF n
<1>3. r \in [1..n -> Nat]
  BY <1>1, <1>2
<1>4. r \in Seq(Nat) /\ Len(r) = n
  BY <1>2, <1>3, ListOf
<1> QED
  BY <1>1, <1>2, <1>4 DEF n

LEMMA IsRanking ==
  ASSUME NEW s \in Seq(Nat), NEW k \in Nat, NEW r \in Seq(Nat), Len(r) = LesserOf(k, Len(s)),
         NoneTwice(r), InOrder(r, 0, s)
  PROVE  r \in Rankings(s, k)
<1>1. r \in [1..Len(r) -> DOMAIN s]
  BY DEF InOrder
<1> QED
  BY <1>1 DEF Rankings

\* A window of a list without its repetitions, in the order of what follows.
LEMMA WindowInOrder ==
  ASSUME NEW s \in Seq(Nat), NEW r \in Seq(Nat), NoneTwice(r), InOrder(r, 0, s),
         NEW a \in Nat, NEW b \in Nat, a <= b, b <= Len(r)
  PROVE  /\ SubSeq(r, a + 1, b) \in Seq(Nat) /\ Len(SubSeq(r, a + 1, b)) = b - a
         /\ NoneTwice(SubSeq(r, a + 1, b)) /\ InOrder(SubSeq(r, a + 1, b), a, s)
<1> DEFINE p == SubSeq(r, a + 1, b)
<1>1. p \in Seq(Nat) /\ Len(p) = b - a /\ \A i \in 1..(b - a) : p[i] = r[a + i]
  OBVIOUS
<1>2. DOMAIN p = 1..(b - a) /\ DOMAIN r = 1..Len(r) /\ Len(r) \in Nat
  BY <1>1
<1> HIDE DEF p
<1>3. \A i \in 1..(b - a) : a + i \in DOMAIN r /\ 0 + (a + i) = a + i
  BY <1>2
<1>4. NoneTwice(p)
  <2>1. ASSUME NEW i \in DOMAIN p, NEW j \in DOMAIN p, p[i] = p[j] PROVE i = j
    <3>1. i \in 1..(b - a) /\ j \in 1..(b - a)
      BY <1>2
    <3>2. r[a + i] = r[a + j] /\ a + i \in DOMAIN r /\ a + j \in DOMAIN r
      BY <1>1, <1>3, <2>1, <3>1, Zenon
    <3>3. a + i = a + j
      BY <3>2 DEF NoneTwice
    <3> QED
      BY <3>1, <3>3
  <2> QED
    BY <2>1 DEF NoneTwice
<1>5. InOrder(p, a, s)
  <2>1. ASSUME NEW i \in DOMAIN p PROVE p[i] \in DOMAIN s /\ s[p[i]] = s[a + i]
    <3>1. p[i] = r[a + i] /\ a + i \in DOMAIN r /\ 0 + (a + i) = a + i
      BY <1>1, <1>2, <1>3
    <3>2. r[a + i] \in DOMAIN s /\ s[r[a + i]] = s[0 + (a + i)]
      BY <3>1 DEF InOrder
    <3> QED
      BY <3>1, <3>2
  <2> QED
    BY <2>1 DEF InOrder
<1> QED
  BY <1>1, <1>4, <1>5 DEF p

LEMMA NumbersJoined ==
  ASSUME NEW q \in Seq(Nat), NEW p \in Seq(Nat)
  PROVE  /\ q \o p \in Seq(Nat) /\ Len(p) \in Nat /\ DOMAIN q = 1..Len(q) /\ DOMAIN p = 1..Len(p)
         /\ Len(q \o p) = Len(q) + Len(p) /\ DOMAIN (q \o p) = 1..(Len(q) + Len(p))
         /\ \A i \in 1..Len(q) : (q \o p)[i] = q[i]
         /\ \A i \in 1..Len(p) : (q \o p)[Len(q) + i] = p[i]
  OBVIOUS

\* Rows in order, and rows in the order of what follows them.
LEMMA OrderJoined ==
  ASSUME NEW s \in Seq(Nat), NEW q \in Seq(Nat), NEW p \in Seq(Nat), NEW a \in Nat, Len(q) = a,
         InOrder(q, 0, s), InOrder(p, a, s)
  PROVE  q \o p \in Seq(Nat) /\ Len(q \o p) = a + Len(p) /\ InOrder(q \o p, 0, s)
<1> DEFINE c == q \o p
<1>1. /\ c \in Seq(Nat) /\ Len(p) \in Nat /\ DOMAIN q = 1..a /\ DOMAIN p = 1..Len(p)
      /\ Len(c) = a + Len(p) /\ DOMAIN c = 1..(a + Len(p))
      /\ \A i \in 1..a : c[i] = q[i]
      /\ \A i \in 1..Len(p) : c[a + i] = p[i]
  BY NumbersJoined
<1> HIDE DEF c
<1>2. ASSUME NEW i \in DOMAIN c PROVE c[i] \in DOMAIN s /\ s[c[i]] = s[0 + i]
  <2>1. CASE i <= a
    BY <1>1, <2>1 DEF InOrder
  <2>2. CASE i > a
    <3> DEFINE j == i - a
    <3>1. j \in 1..Len(p) /\ a + j = i /\ 0 + i = i
      BY <1>1, <2>2
    <3> HIDE DEF j
    <3>2. c[i] = p[j] /\ p[j] \in DOMAIN s /\ s[p[j]] = s[a + j]
      BY <1>1, <3>1 DEF InOrder
    <3> QED
      BY <3>1, <3>2
  <2> QED
    BY <1>1, <2>1, <2>2
<1>3. InOrder(c, 0, s)
  BY <1>2 DEF InOrder
<1> QED
  BY <1>1, <1>3 DEF c

\* Two windows of a list, one after the other.
LEMMA WindowsJoined ==
  ASSUME NEW X, NEW s \in Seq(X), NEW a \in Nat, NEW b \in Nat, a <= b, b <= Len(s)
  PROVE  SubSeq(s, 1, a) \o SubSeq(s, a + 1, b) = SubSeq(s, 1, b)
<1> DEFINE q == SubSeq(s, 1, a)
           p == SubSeq(s, a + 1, b)
           r == SubSeq(s, 1, b)
           c == q \o p
<1>1. /\ q \in Seq(X) /\ Len(q) = a /\ \A i \in 1..a : q[i] = s[i]
      /\ r \in Seq(X) /\ Len(r) = b /\ \A i \in 1..b : r[i] = s[i]
  OBVIOUS
<1>2. p \in Seq(X) /\ Len(p) = b - a /\ \A i \in 1..(b - a) : p[i] = s[a + i]
  OBVIOUS
<1> HIDE DEF p, q, r
<1>3. /\ c \in Seq(X) /\ Len(c) = Len(q) + Len(p)
      /\ \A i \in 1..Len(q) : c[i] = q[i]
      /\ \A i \in 1..Len(p) : c[Len(q) + i] = p[i]
  <2>1. q \in Seq(X) /\ p \in Seq(X)
    BY <1>1, <1>2
  <2> QED
    BY <2>1
<1> HIDE DEF c
<1>4. Len(c) = b
  BY <1>1, <1>2, <1>3
<1>5. \A i \in 1..b : c[i] = r[i]
  <2>1. SUFFICES ASSUME NEW i \in 1..b PROVE c[i] = r[i]
    OBVIOUS
  <2>2. CASE i <= a
    BY <1>1, <1>3, <2>2
  <2>3. CASE i > a
    <3> DEFINE k == i - a
    <3>1. k \in 1..(b - a) /\ a + k = i
      BY <2>3
    <3> HIDE DEF k
    <3>2. c[Len(q) + k] = p[k] /\ p[k] = s[a + k]
      BY <1>2, <1>3, <3>1
    <3>3. Len(q) + k = i /\ r[i] = s[i]
      BY <1>1, <3>1
    <3> QED
      BY <3>1, <3>2, <3>3
  <2> QED
    BY <2>2, <2>3
<1>6. c = r
  BY <1>1, <1>3, <1>4, <1>5
<1> QED
  BY <1>6 DEF c, p, q, r

-----------------------------------------------------------------------------
(***************************************************************************)
(* The reads                                                               *)
(***************************************************************************)
\* as many rows as the worker gives out of the domain
Offered == LesserOf(WorkerMax, Len(scores))
WholeAnswers == {ServedRows(r) : r \in Rankings(scores, WorkerMax)}

Readers == [limit : Nat \ {0}, page : Nat \ {0}, rows : Seq(Nat), total : Nat,
            state : {"asking", "failed", "finished"}, rankings : SUBSET Seq(Nat)]

ReadsTyped == scores \in Seq(Nat) /\ reader \in Readers /\ json \in Rankings(scores, TopN)

\* a cached answer to the service is a whole one, whatever it was made from
EdgeWhole == edge.live => edge \in WholeAnswers

\* The reader has the pages before the one it asks for, or all: rows in order, and those of
\* the one ranking that all its pages came from.
Has(rows, end, rankings) ==
  /\ end <= Offered /\ Len(rows) = end /\ InOrder(rows, 0, scores)
  /\ rankings \subseteq Rankings(scores, WorkerMax) /\ (rankings = {} => end = 0)
  /\ \A r \in rankings : rankings = {r} => rows = SubSeq(r, 1, end)
ReaderHas ==
  indexed =>
    /\ Has(reader.rows,
           IF reader.state = "finished" THEN Offered ELSE (reader.page - 1) * reader.limit,
           reader.rankings)
    /\ reader.state = "finished" => reader.total = Len(scores)

ReadsInv == ReadsTyped /\ EdgeWhole /\ ReaderHas

LEMMA ReadsNumbers ==
  ASSUME ReadsOK, scores \in Seq(Nat)
  PROVE  /\ WorkerMax \in Nat \ {0} /\ TopN \in Nat \ {0} /\ WorkerMax <= TopN /\ Len(scores) \in Nat
         /\ Offered \in Nat /\ Offered <= WorkerMax /\ Offered <= Len(scores)
         /\ PageLimits \subseteq Nat \ {0}
  BY DEF ReadsOK, WorkerOK, Offered, LesserOf

\* A fresh answer to the service is a whole one, from the JSON as from the table.
LEMMA FreshWhole ==
  ASSUME ReadsOK, ReadsTyped
  PROVE  FreshAnswers(PickLimit(WorkerMax)) \subseteq WholeAnswers
<1>1. scores \in Seq(Nat) /\ json \in Rankings(scores, TopN)
  BY DEF ReadsTyped
<1>2. /\ WorkerMax \in Nat \ {0} /\ TopN \in Nat /\ WorkerMax <= TopN /\ Len(scores) \in Nat
      /\ PickLimit(WorkerMax) = WorkerMax
  BY <1>1, ReadsNumbers DEF PickLimit, LesserOf
<1>3. FromParquet(WorkerMax) = WholeAnswers
  BY DEF FromParquet, WholeAnswers
<1>4. FromJson(WorkerMax) \subseteq WholeAnswers
  <2> DEFINE n == LesserOf(WorkerMax, Len(json))
             part == SubSeq(json, 1, n)
  <2>1. /\ json \in Seq(Nat) /\ Len(json) = LesserOf(TopN, Len(scores))
        /\ NoneTwice(json) /\ InOrder(json, 0, scores)
    BY <1>1, <1>2, RankingList
  <2>2. n \in Nat /\ n <= Len(json) /\ n = LesserOf(WorkerMax, Len(scores)) /\ 0 <= n /\ n - 0 = n
    BY <1>2, <2>1 DEF LesserOf
  <2> HIDE DEF n
  <2>3. SubSeq(json, 0 + 1, n) = part
    OBVIOUS
  <2>4. part \in Seq(Nat) /\ Len(part) = n /\ NoneTwice(part) /\ InOrder(part, 0, scores)
    BY <1>1, <2>1, <2>2, <2>3, WindowInOrder
  <2> HIDE DEF part
  <2>5. part \in Rankings(scores, WorkerMax)
    BY <1>1, <1>2, <2>2, <2>4, IsRanking
  <2> QED
    BY <2>5 DEF FromJson, WholeAnswers, part, n
<1> QED
  BY <1>2, <1>3, <1>4 DEF FreshAnswers

LEMMA ServedWhole ==
  ASSUME ReadsOK, ReadsInv, indexed
  PROVE  ServiceAnswers \subseteq WholeAnswers
  BY FreshWhole DEF ReadsInv, EdgeWhole, ServiceAnswers, WorkerAnswers

LEMMA ReadsStart == ASSUME ReadsOK, ReadsInit PROVE ReadsInv
<1>1. scores \in Seq(Nat) /\ json \in Rankings(scores, TopN) /\ edge = EmptyAnswer
  BY DEF ReadsOK, ReadsInit
<1>2. PICK limit \in PageLimits :
        reader = [limit |-> limit, page |-> 1, rows |-> <<>>, total |-> 0, state |-> "asking",
                  rankings |-> {}]
  BY DEF ReadsInit
<1>3. limit \in Nat \ {0} /\ (1 - 1) * limit = 0
  BY <1>1, <1>2, ReadsNumbers
<1>4. ReadsTyped
  BY <1>1, <1>2, <1>3 DEF ReadsTyped, Readers
<1>5. EdgeWhole
  BY <1>1 DEF EdgeWhole, EmptyAnswer
<1>6. Has(<<>>, 0, {})
  BY <1>1, ReadsNumbers DEF Has, InOrder
<1>7. ReaderHas
  BY <1>2, <1>3, <1>6 DEF ReaderHas
<1> QED
  BY <1>4, <1>5, <1>7 DEF ReadsInv

\* A page more, of the same ranking as before or of another.
LEMMA PageMore ==
  ASSUME ReadsOK, scores \in Seq(Nat), NEW rows \in Seq(Nat), NEW done \in Nat, NEW rankings,
         Has(rows, done, rankings), NEW r \in Rankings(scores, WorkerMax),
         NEW end \in Nat, done <= end, end <= Offered
  PROVE  Has(rows \o SubSeq(r, done + 1, end), end, rankings \cup {r})
<1> DEFINE page == SubSeq(r, done + 1, end)
           all == rows \o page
<1>1. r \in Seq(Nat) /\ Len(r) = Offered /\ NoneTwice(r) /\ InOrder(r, 0, scores)
  BY ReadsNumbers, RankingList DEF Offered
<1>2. page \in Seq(Nat) /\ Len(page) = end - done /\ InOrder(page, done, scores)
  BY <1>1, WindowInOrder
<1> HIDE DEF page
<1>3. all \in Seq(Nat) /\ Len(all) = end /\ InOrder(all, 0, scores)
  <2>1. done + (end - done) = end /\ Len(rows) = done /\ InOrder(rows, 0, scores)
    BY DEF Has
  <2> QED
    BY <1>2, <2>1, OrderJoined
<1> HIDE DEF all
<1>4. ASSUME NEW q \in rankings \cup {r}, rankings \cup {r} = {q} PROVE all = SubSeq(q, 1, end)
  <2>1. q = r /\ (rankings = {} \/ rankings = {r})
    BY <1>4
  <2>2. rows = SubSeq(r, 1, done)
    <3>1. CASE rankings = {}
      <4>1. done = 0 /\ Len(rows) = 0
        BY <3>1 DEF Has
      <4>2. SubSeq(r, 1, 0) = <<>> /\ rows = <<>>
        BY <1>1, <4>1
      <4> QED
        BY <4>1, <4>2
    <3>2. CASE rankings = {r}
      BY <3>2 DEF Has
    <3> QED
      BY <2>1, <3>1, <3>2
  <2>3. SubSeq(r, 1, done) \o SubSeq(r, done + 1, end) = SubSeq(r, 1, end)
    BY <1>1, WindowsJoined
  <2> QED
    BY <2>1, <2>2, <2>3 DEF all, page
<1>5. rankings \cup {r} \subseteq Rankings(scores, WorkerMax)
  BY DEF Has
<1>6. Has(all, end, rankings \cup {r})
  BY <1>3, <1>4, <1>5 DEF Has
<1> QED
  BY <1>6 DEF all, page

\* The page that is read goes on where the ones before it ended.
LEMMA PageGoesOn ==
  ASSUME ReadsOK, ReadsInv, PageRead PROVE ReadsInv'
<1>1. /\ scores \in Seq(Nat) /\ reader \in Readers /\ json \in Rankings(scores, TopN)
      /\ reader.state = "asking" /\ UNCHANGED <<scores, indexed, json>>
      /\ reader.limit \in Nat \ {0} /\ reader.page \in Nat \ {0}
      /\ reader.rows \in Seq(Nat) /\ reader.rankings \in SUBSET Seq(Nat)
  BY DEF ReadsInv, ReadsTyped, PageRead, Readers
<1>2. PICK answer \in ServiceAnswers :
        /\ reader' = [reader EXCEPT
             !.rows = @ \o Slice(answer, reader.page, reader.limit),
             !.total = answer.total,
             !.page = IF HasMore(answer, reader.page, reader.limit) THEN @ + 1 ELSE @,
             !.state = IF HasMore(answer, reader.page, reader.limit) THEN "asking" ELSE "finished",
             !.rankings = @ \cup {answer.rows}]
        /\ edge' = IF indexed THEN answer ELSE edge
  BY DEF PageRead
<1> DEFINE done == (reader.page - 1) * reader.limit
           end == PageEnd(answer, reader.page, reader.limit)
           more == HasMore(answer, reader.page, reader.limit)
           rows == reader.rows \o Slice(answer, reader.page, reader.limit)
           page == IF more THEN reader.page + 1 ELSE reader.page
           state == IF more THEN "asking" ELSE "finished"
           rankings == reader.rankings \cup {answer.rows}
<1>3. done \in Nat /\ done + reader.limit = (reader.page + 1 - 1) * reader.limit
  <2>1. \A p, l \in Nat \ {0} : (p - 1) * l \in Nat /\ (p - 1) * l + l = (p + 1 - 1) * l
    OBVIOUS
  <2> QED
    BY <1>1, <2>1
<1> DEFINE r == answer.rows
<1>4. /\ r \in Seq(Nat) /\ answer.total \in Nat
      /\ indexed => r \in Rankings(scores, WorkerMax) /\ answer = ServedRows(r)
                    /\ answer.total = Len(scores)
  <2>1. CASE indexed
    <3>1. PICK q \in Rankings(scores, WorkerMax) : answer = ServedRows(q)
      BY <2>1, ServedWhole DEF WholeAnswers
    <3>2. q \in Seq(Nat) /\ r = q /\ answer.total = Len(scores)
      BY <1>1, <3>1, ReadsNumbers, RankingList DEF ServedRows
    <3> QED
      BY <1>1, <3>1, <3>2, ReadsNumbers
  <2>2. CASE ~indexed
    <3>1. answer.rows = <<>> /\ answer.total = 0
      BY <1>2, <2>2 DEF ServiceAnswers, EmptyAnswer
    <3>2. <<>> \in Seq(Nat) /\ 0 \in Nat
      OBVIOUS
    <3> HIDE DEF r
    <3> QED
      BY <2>2, <3>1, <3>2 DEF r
  <2> QED
    BY <2>1, <2>2
<1>5. /\ end = LesserOf(done + reader.limit, Len(r)) /\ (more <=> end < Len(r))
      /\ Slice(answer, reader.page, reader.limit) = SubSeq(r, done + 1, end)
  BY <1>4 DEF PageEnd, HasMore, Slice
<1>6. reader' = [reader EXCEPT !.rows = rows, !.total = answer.total, !.page = page,
                               !.state = state, !.rankings = rankings]
  BY <1>2
<1>7. rows = reader.rows \o SubSeq(r, done + 1, end) /\ rankings = reader.rankings \cup {r}
  BY <1>4, <1>5
<1>8. page \in Nat \ {0} /\ state \in {"asking", "finished"} /\ rankings \in SUBSET Seq(Nat)
  BY <1>1, <1>4
<1>9. end \in Nat /\ end <= Len(r)
  <2> HIDE DEF done, end
  <2>1. done + reader.limit \in Nat /\ Len(r) \in Nat
    BY <1>1, <1>3
  <2> QED
    BY <1>5, <2>1, Lesser
<1>10. rows \in Seq(Nat)
  <2>1. SubSeq(r, done + 1, end) \in Seq(Nat)
    <3> HIDE DEF r, done, end
    <3> QED
      BY <1>3, <1>4, <1>9
  <2> QED
    BY <1>1, <1>7, <2>1, JoinedList
<1>11. page = (IF more THEN reader.page + 1 ELSE reader.page) /\ state = (IF more THEN "asking" ELSE "finished")
  OBVIOUS
<1> HIDE DEF r, done, end, more, rows, page, state, rankings
<1>12. /\ reader' \in Readers /\ reader'.rows = rows /\ reader'.total = answer.total
       /\ reader'.limit = reader.limit /\ reader'.page = page /\ reader'.state = state
       /\ reader'.rankings = rankings
  BY <1>1, <1>4, <1>6, <1>8, <1>10 DEF Readers
<1>13. ReadsTyped'
  BY <1>1, <1>12 DEF ReadsTyped
<1>14. EdgeWhole'
  <2>1. WholeAnswers' = WholeAnswers
    BY <1>1 DEF WholeAnswers, ServedRows
  <2>2. CASE indexed
    BY <1>2, <2>1, <2>2, ServedWhole DEF EdgeWhole
  <2>3. CASE ~indexed
    BY <1>2, <2>1, <2>3 DEF EdgeWhole, ReadsInv
  <2> QED
    BY <2>2, <2>3
<1>15. ReaderHas'
  <2> SUFFICES ASSUME indexed PROVE ReaderHas'
    BY <1>1 DEF ReaderHas
  <2>1. r \in Rankings(scores, WorkerMax) /\ Len(r) = Offered /\ Offered \in Nat /\ Offered' = Offered
    BY <1>1, <1>4, ReadsNumbers, RankingList DEF Offered
  <2>2. Has(reader.rows, done, reader.rankings)
    BY <1>1 DEF ReadsInv, ReaderHas, done
  <2>3. done <= end
    BY <1>1, <1>3, <1>5, <2>1, <2>2 DEF LesserOf, Has
  <2>4. Has(rows, end, rankings)
    BY <1>1, <1>3, <1>7, <1>9, <2>1, <2>2, <2>3, PageMore
  <2>5. end = IF state = "finished" THEN Offered ELSE (page - 1) * reader.limit
    <3>1. CASE more
      <4>1. end = done + reader.limit
        BY <1>1, <1>3, <1>5, <2>1, <3>1 DEF LesserOf
      <4>2. page = reader.page + 1 /\ state = "asking"
        BY <1>11, <3>1
      <4>3. (page - 1) * reader.limit = done + reader.limit
        BY <1>1, <1>3, <1>8, <4>2
      <4> QED
        BY <4>1, <4>2, <4>3
    <3>2. CASE ~more
      <4>1. end = Offered
        BY <1>5, <1>9, <2>1, <3>2
      <4> QED
        BY <1>11, <3>2, <4>1
    <3> QED
      BY <3>1, <3>2
  <2>6. /\ Has(reader'.rows,
               IF reader'.state = "finished" THEN Offered ELSE (reader'.page - 1) * reader'.limit,
               reader'.rankings)
        /\ reader'.total = Len(scores)
    BY <1>4, <1>12, <2>4, <2>5
  <2> QED
    BY <1>1, <2>1, <2>6 DEF ReaderHas, Has
<1> QED
  BY <1>13, <1>14, <1>15 DEF ReadsInv

LEMMA ReadsStep ==
  ASSUME ReadsOK, ReadsInv, [ReadsNext]_readsVars PROVE ReadsInv'
<1>1. CASE PageRead
  BY <1>1, PageGoesOn
<1>2. ASSUME UNCHANGED <<scores, indexed, json>>, edge' \in {edge, EmptyAnswer},
             \/ reader' = reader
             \/ /\ reader.state # "finished"
                /\ \E state \in {"asking", "failed"} : reader' = [reader EXCEPT !.state = state]
      PROVE  ReadsInv'
  <2>1. /\ reader' \in Readers /\ reader'.rows = reader.rows /\ reader'.page = reader.page
        /\ reader'.limit = reader.limit /\ reader'.rankings = reader.rankings
        /\ reader'.total = reader.total
        /\ (reader'.state = "finished" <=> reader.state = "finished")
    BY <1>2 DEF ReadsInv, ReadsTyped, Readers
  <2>2. WholeAnswers' = WholeAnswers /\ Offered' = Offered /\ ~EmptyAnswer.live
    BY <1>2 DEF WholeAnswers, ServedRows, Offered, EmptyAnswer
  <2>3. ReadsTyped' /\ EdgeWhole'
    BY <1>2, <2>1, <2>2 DEF ReadsInv, ReadsTyped, EdgeWhole
  <2>4. ReaderHas'
    BY <1>2, <2>1, <2>2 DEF ReadsInv, ReaderHas, Has
  <2> QED
    BY <2>3, <2>4 DEF ReadsInv
<1>3. CASE PageFailed \/ PageRetried \/ EdgeExpires \/ ReadJsonPublished
  <2>1. /\ UNCHANGED <<scores, indexed, json>> /\ edge' \in {edge, EmptyAnswer}
        /\ \/ reader' = reader
           \/ /\ reader.state # "finished"
              /\ \E state \in {"asking", "failed"} : reader' = [reader EXCEPT !.state = state]
    BY <1>3 DEF PageFailed, PageRetried, EdgeExpires, ReadJsonPublished
  <2> QED
    BY <1>2, <2>1
<1>4. CASE UNCHANGED readsVars
  <2>1. UNCHANGED <<scores, indexed, json, edge, reader>>
    BY <1>4 DEF readsVars
  <2> QED
    BY <1>2, <2>1
<1> QED
  BY <1>1, <1>3, <1>4 DEF ReadsNext

LEMMA PagesTell == ASSUME ReadsOK, ReadsInv PROVE PagesInOrder
<1> SUFFICES ASSUME reader.state = "finished", indexed
             PROVE  /\ Len(reader.rows) = LesserOf(WorkerMax, Len(scores))
                    /\ InOrder(reader.rows, 0, scores) /\ reader.total = Len(scores)
                    /\ \A r \in reader.rankings : reader.rankings = {r} => reader.rows = r
  BY DEF PagesInOrder
<1>1. scores \in Seq(Nat) /\ Has(reader.rows, Offered, reader.rankings) /\ reader.total = Len(scores)
  BY DEF ReadsInv, ReadsTyped, ReaderHas
<1>2. ASSUME NEW r \in reader.rankings, reader.rankings = {r} PROVE reader.rows = r
  <2>1. r \in Rankings(scores, WorkerMax) /\ reader.rows = SubSeq(r, 1, Offered)
    BY <1>1, <1>2 DEF Has
  <2>2. r \in Seq(Nat) /\ Len(r) = Offered
    BY <1>1, <2>1, ReadsNumbers, RankingList DEF Offered
  <2>3. SubSeq(r, 1, Len(r)) = r
    BY <2>2
  <2> QED
    BY <2>1, <2>2, <2>3
<1> QED
  BY <1>1, <1>2 DEF Has, Offered

-----------------------------------------------------------------------------
(***************************************************************************)
(* The sample                                                              *)
(***************************************************************************)
Questions == [name : DOMAIN HostOf, page : AskedPages, size : AskedSizes]
Queries == [host : DOMAIN ObservationsOf, page : Nat \ {0}, size : Nat \ {0}]
\* what the cache holds under a key is what the query of that key fetches
Entries == {[key |-> q, rows |-> Fetch(q), until |-> t] : q \in Queries, t \in Nat}
KeysDiffer(s) == \A i, j \in DOMAIN s : s[i].key = s[j].key => i = j

CacheKept ==
  /\ sampleTime \in Nat
  /\ sampleCache \in Seq(Entries) /\ Len(sampleCache) <= MaxEntries /\ KeysDiffer(sampleCache)

\* a request on its way has nothing yet; one that is answered has what its query fetches, or
\* nothing and says so
Answered(request) ==
  LET q == SampleQuery(request.ask)
      given == request.report IN
  /\ request.ask \in Questions
  /\ request.step \in {"asked", "refused", "loading"} => given.rows = <<>>
  /\ request.step = "loading" => q \in Queries
  /\ request.step = "given" =>
       IF "backlinks" \in given.unavailable THEN given.rows = <<>>
       ELSE q \in Queries /\ given.rows = Fetch(q)

GivenReports ==
  [rows : {<<>>} \cup {Fetch(q) : q \in Queries},
   unavailable : SUBSET (SummaryParts \cup {"backlinks"})]
Requests == [ask : Questions, step : {"asked", "refused", "loading", "given"},
             report : GivenReports]
SampleInv ==
  /\ CacheKept /\ sampled \in [Samplers -> Requests]
  /\ \A r \in Samplers : Answered(sampled[r])

LEMMA SampleNumbers ==
  ASSUME SampleOK
  PROVE  /\ MaxPage \in Nat \ {0} /\ MaxPageSize \in Nat \ {0} /\ MaxEntries \in Nat \ {0}
         /\ SampleTtl \in Nat /\ AskedPages \subseteq Nat /\ AskedSizes \subseteq Nat
  BY DEF SampleOK

LEMMA QueryIsOne ==
  ASSUME SampleOK, NEW ask \in Questions, SampleQuery(ask).host # NoHost
  PROVE  SampleQuery(ask) \in Queries
<1>1. ask.name \in DOMAIN HostOf /\ ask.page \in Nat /\ ask.size \in Nat
  BY SampleNumbers DEF Questions
<1>2. HostOf[ask.name] \in DOMAIN ObservationsOf
  BY <1>1 DEF SampleOK, SampleQuery
<1>3. \A v \in Nat, max \in Nat \ {0} : Clamped(v, max) \in Nat \ {0}
  BY DEF Clamped
<1>4. Clamped(ask.page, MaxPage) \in Nat \ {0} /\ Clamped(ask.size, MaxPageSize) \in Nat \ {0}
  BY <1>1, <1>3, SampleNumbers
<1> QED
  BY <1>2, <1>4 DEF SampleQuery, Queries

\* The rows of a page are those of the host at the places of the page, the external ones.
LEMMA FetchedRows ==
  ASSUME SampleOK, NEW q \in Queries
  PROVE  \A i \in DOMAIN ObservationsOf[q.host] :
           ObservationsOf[q.host][i] \in Elements(Fetch(q)) <=>
             /\ External(ObservationsOf[q.host][i], q.host)
             /\ (q.page - 1) * q.size < i /\ i <= q.page * q.size
<1> DEFINE rows == ObservationsOf[q.host]
           X == Elements(rows)
           n == Len(rows)
           from == (q.page - 1) * q.size
           last == q.page * q.size
           page == SubSeq(rows, from + 1, IF last < n THEN last ELSE n)
<1>1. q.host \in DOMAIN ObservationsOf /\ q.page \in Nat \ {0} /\ q.size \in Nat \ {0}
  BY DEF Queries
<1>2. rows \in Seq(X) /\ \A i, j \in DOMAIN rows : rows[i] = rows[j] => i = j
  BY <1>1 DEF SampleOK
<1>3. from \in Nat /\ last \in Nat
  <2>1. \A p, z \in Nat \ {0} : (p - 1) * z \in Nat /\ p * z \in Nat
    OBVIOUS
  <2> QED
    BY <1>1, <2>1
<1>4. PageOf(q) = page
  BY DEF PageOf
<1> HIDE DEF rows, X, from, last
<1>5. n \in Nat /\ DOMAIN rows = 1..n
  BY <1>2
<1> DEFINE end == IF last < n THEN last ELSE n
<1>6. /\ page \in Seq(X) /\ DOMAIN page = 1..(IF from + 1 <= end THEN end - from ELSE 0)
      /\ \A j \in DOMAIN page : page[j] = rows[from + j] /\ from + j \in DOMAIN rows
  <2>1. end \in Nat /\ end <= n
    BY <1>3, <1>5
  <2> HIDE DEF end
  <2>2. DOMAIN SubSeq(rows, from + 1, end) = 1..(IF from + 1 <= end THEN end - from ELSE 0)
    BY <1>2, <1>3, <1>5, <2>1
  <2>3. SubSeq(rows, from + 1, end) \in Seq(X)
    BY <1>2, <1>3, <1>5, <2>1
  <2>4. \A j \in DOMAIN SubSeq(rows, from + 1, end) :
          SubSeq(rows, from + 1, end)[j] = rows[from + j] /\ from + j \in DOMAIN rows
    BY <1>2, <1>3, <1>5, <2>1, <2>2
  <2> QED
    BY <2>2, <2>3, <2>4 DEF end
<1> HIDE DEF page
<1>7. \A i \in DOMAIN rows : rows[i] \in Elements(page) <=> from < i /\ i <= last
  <2>1. SUFFICES ASSUME NEW i \in DOMAIN rows
                 PROVE  rows[i] \in Elements(page) <=> from < i /\ i <= last
    OBVIOUS
  <2>2. ASSUME rows[i] \in Elements(page) PROVE from < i /\ i <= last
    <3>1. PICK j \in DOMAIN page : page[j] = rows[i]
      BY <2>2 DEF Elements
    <3>2. from + j = i
      BY <1>2, <1>6, <3>1
    <3> QED
      BY <1>3, <1>5, <1>6, <3>1, <3>2
  <2>3. ASSUME from < i, i <= last PROVE rows[i] \in Elements(page)
    <3>1. i - from \in DOMAIN page /\ from + (i - from) = i
      BY <1>3, <1>5, <1>6, <2>3
    <3>2. page[i - from] = rows[i]
      BY <1>6, <3>1
    <3> QED
      BY <3>1, <3>2 DEF Elements
  <2> QED
    BY <2>2, <2>3
<1>8. Elements(Fetch(q)) = Elements(page) \cap {row \in Elements(page) : External(row, q.host)}
  BY <1>4, <1>6, FilteredList DEF Fetch
<1>9. \A i \in DOMAIN rows :
        rows[i] \in Elements(Fetch(q)) <=> External(rows[i], q.host) /\ from < i /\ i <= last
  BY <1>7, <1>8
<1> QED
  BY <1>9 DEF rows, from, last

\* Whatever a page shows is an observation of its host.
LEMMA FetchedFrom ==
  ASSUME SampleOK, NEW q \in Queries
  PROVE  \A row \in Elements(Fetch(q)) :
           \E i \in DOMAIN ObservationsOf[q.host] : ObservationsOf[q.host][i] = row
<1> DEFINE rows == ObservationsOf[q.host]
           from == (q.page - 1) * q.size
           last == q.page * q.size
           end == IF last < Len(rows) THEN last ELSE Len(rows)
<1>1. rows \in Seq(Elements(rows)) /\ q.page \in Nat \ {0} /\ q.size \in Nat \ {0}
  BY DEF Queries, SampleOK
<1>2. from \in Nat /\ last \in Nat
  <2>1. \A p, z \in Nat \ {0} : (p - 1) * z \in Nat /\ p * z \in Nat
    OBVIOUS
  <2> QED
    BY <1>1, <2>1
<1>3. PageOf(q) = SubSeq(rows, from + 1, end)
  BY DEF PageOf
<1> HIDE DEF rows, from, last
<1>4. end \in Nat /\ end <= Len(rows)
  BY <1>1, <1>2
<1> HIDE DEF end
<1>5. PageOf(q) \in Seq(Elements(rows))
  BY <1>1, <1>2, <1>3, <1>4
<1>6. Elements(Fetch(q)) \subseteq Elements(PageOf(q))
  BY <1>5, FilteredList DEF Fetch
<1>7. Elements(PageOf(q)) \subseteq Elements(rows)
  BY <1>5, ListElement DEF Elements
<1> QED
  BY <1>6, <1>7 DEF Elements, rows

LEMMA PagesApart ==
  ASSUME NEW p \in Nat \ {0}, NEW q \in Nat \ {0}, NEW z \in Nat, p < q
  PROVE  p * z <= (q - 1) * z
<1> DEFINE d == q - 1 - p
<1>1. d \in Nat /\ q - 1 = p + d
  OBVIOUS
<1> HIDE DEF d
<1>2. (p + d) * z = p * z + d * z /\ p * z \in Nat /\ d * z \in Nat
  BY <1>1
<1>3. p * z <= (p + d) * z
  BY <1>2
<1> QED
  BY <1>1, <1>3

LEMMA PagesShareNothing ==
  ASSUME SampleOK, NEW p \in Queries, NEW q \in Queries,
         q.host = p.host, q.size = p.size, q.page # p.page
  PROVE  Elements(Fetch(p)) \cap Elements(Fetch(q)) = {}
<1>1. SUFFICES ASSUME NEW row \in Elements(Fetch(p)), row \in Elements(Fetch(q)) PROVE FALSE
  OBVIOUS
<1>2. PICK i \in DOMAIN ObservationsOf[p.host] : ObservationsOf[p.host][i] = row
  BY FetchedFrom
<1>3. (p.page - 1) * p.size < i /\ i <= p.page * p.size
  BY <1>2, FetchedRows
<1>4. (q.page - 1) * p.size < i /\ i <= q.page * p.size
  BY <1>1, <1>2, FetchedRows
<1>5. p.page \in Nat \ {0} /\ q.page \in Nat \ {0} /\ p.size \in Nat /\ p.host \in DOMAIN ObservationsOf
  BY DEF Queries
<1>6. i \in Nat
  <2>1. ObservationsOf[p.host] \in Seq(Elements(ObservationsOf[p.host]))
    BY <1>5 DEF SampleOK
  <2> QED
    BY <2>1
<1> DEFINE a == (p.page - 1) * p.size  b == p.page * p.size
           c == (q.page - 1) * p.size  d == q.page * p.size
<1>7. a \in Int /\ b \in Int /\ c \in Int /\ d \in Int
  <2>1. \A x, y \in Int : x * y \in Int /\ x - 1 \in Int
    OBVIOUS
  <2> QED
    BY <1>5, <2>1
<1>8. b <= c \/ d <= a
  <2>1. p.page < q.page \/ q.page < p.page
    BY <1>5
  <2> QED
    BY <1>5, <2>1, PagesApart
<1> HIDE DEF a, b, c, d
<1>9. a < i /\ i <= b /\ c < i /\ i <= d
  BY <1>3, <1>4 DEF a, b, c, d
<1> QED
  BY <1>6, <1>7, <1>8, <1>9

\* Taking the entry of a key out leaves the others, which still differ.
LEMMA WithoutKept ==
  ASSUME SampleOK, CacheKept, NEW key
  PROVE  /\ Without(key) \in Seq(Entries) /\ Len(Without(key)) <= MaxEntries
         /\ KeysDiffer(Without(key))
<1> DEFINE T == {e \in Elements(sampleCache) : e.key # key}
           kept == Filtered(sampleCache, T)
           n == Len(sampleCache)
           m == Len(kept)
<1>1. sampleCache \in Seq(Entries) /\ n <= MaxEntries /\ KeysDiffer(sampleCache)
  BY DEF CacheKept
<1>2. kept \in Seq(Entries) /\ m <= n /\ \E at : FilterPlaces(kept, sampleCache, n, at)
  BY <1>1, FilteredList, FilteredPlaces
<1> HIDE DEF T, kept
<1>3. n \in Nat /\ m \in Nat /\ MaxEntries \in Nat /\ DOMAIN kept = 1..m /\ DOMAIN sampleCache = 1..n
  BY <1>1, <1>2, SampleNumbers
<1>4. PICK at : FilterPlaces(kept, sampleCache, n, at)
  BY <1>2
<1> HIDE DEF n, m
<1>5. /\ \A i \in 1..m : at[i] \in 1..n /\ kept[i] = sampleCache[at[i]]
      /\ \A i, j \in 1..m : i < j => at[i] < at[j]
  BY <1>4 DEF FilterPlaces, m
<1>6. ASSUME NEW i \in DOMAIN kept, NEW k \in DOMAIN kept, kept[i].key = kept[k].key PROVE i = k
  <2>1. at[i] \in DOMAIN sampleCache /\ at[k] \in DOMAIN sampleCache
    BY <1>3, <1>5
  <2>2. at[i] = at[k]
    BY <1>1, <1>3, <1>5, <1>6, <2>1 DEF KeysDiffer
  <2>3. ~(at[i] < at[k]) /\ ~(at[k] < at[i])
    BY <1>3, <1>5, <2>1, <2>2
  <2>4. i \in Nat /\ k \in Nat /\ ~(i < k) /\ ~(k < i)
    BY <1>3, <1>5, <2>3
  <2> QED
    BY <2>4
<1>7. KeysDiffer(kept)
  BY <1>6 DEF KeysDiffer
<1>8. m <= MaxEntries
  BY <1>1, <1>2, <1>3
<1> QED
  BY <1>2, <1>7, <1>8 DEF kept, T, m, Without

\* Putting an entry in keeps the bound and no key twice, whether its key is there or not.
LEMMA StoredKept ==
  ASSUME SampleOK, CacheKept, NEW q \in Queries
  PROVE  /\ Stored(q, Fetch(q)) \in Seq(Entries) /\ Len(Stored(q, Fetch(q))) <= MaxEntries
         /\ KeysDiffer(Stored(q, Fetch(q)))
<1> DEFINE s == sampleCache
           new == [key |-> q, rows |-> Fetch(q), until |-> sampleTime + SampleTtl]
           kept == IF Len(s) >= MaxEntries THEN Tail(s) ELSE s
           m == Len(kept)
           put == [i \in DOMAIN kept |-> IF kept[i].key = q THEN new ELSE kept[i]]
<1>1. /\ s \in Seq(Entries) /\ Len(s) <= MaxEntries /\ KeysDiffer(s)
      /\ sampleTime + SampleTtl \in Nat /\ MaxEntries \in Nat \ {0}
  BY SampleNumbers DEF CacheKept
<1>2. new \in Entries /\ new.key = q
  BY <1>1 DEF Entries
<1> HIDE DEF s, new
<1>3. kept \in Seq(Entries) /\ m <= MaxEntries - 1 /\ KeysDiffer(kept)
  <2>1. CASE Len(s) >= MaxEntries
    <3>1. s # <<>> /\ kept = Tail(s) /\ Len(s) \in Nat /\ Len(s) = MaxEntries
      BY <1>1, <2>1
    <3>2. /\ Tail(s) \in Seq(Entries) /\ Len(Tail(s)) = Len(s) - 1
          /\ DOMAIN Tail(s) = 1..(Len(s) - 1) /\ DOMAIN s = 1..Len(s)
          /\ \A i \in 1..(Len(s) - 1) : Tail(s)[i] = s[i + 1]
      BY <1>1, <3>1
    <3>3. ASSUME NEW i \in DOMAIN Tail(s), NEW j \in DOMAIN Tail(s), Tail(s)[i].key = Tail(s)[j].key
          PROVE  i = j
      <4>1. /\ i + 1 \in DOMAIN s /\ j + 1 \in DOMAIN s /\ i \in Nat /\ j \in Nat
            /\ Tail(s)[i] = s[i + 1] /\ Tail(s)[j] = s[j + 1]
        BY <3>1, <3>2
      <4>2. i + 1 = j + 1
        BY <1>1, <3>3, <4>1 DEF KeysDiffer
      <4> QED
        BY <4>1, <4>2
    <3>4. KeysDiffer(Tail(s))
      BY <3>3 DEF KeysDiffer
    <3> QED
      BY <3>1, <3>2, <3>4
  <2>2. CASE ~(Len(s) >= MaxEntries)
    BY <1>1, <2>2
  <2> QED
    BY <2>1, <2>2
<1>4. /\ Stored(q, Fetch(q)) = IF \E i \in DOMAIN kept : kept[i].key = q THEN put ELSE Append(kept, new)
  BY DEF Stored, s, new
<1> HIDE DEF kept
<1>5. m \in Nat /\ DOMAIN kept = 1..m /\ \A i \in 1..m : kept[i] \in Entries
  BY <1>3
<1>6. CASE \E i \in DOMAIN kept : kept[i].key = q
  <2>1. put \in [1..m -> Entries] /\ \A i \in 1..m : put[i].key = kept[i].key
    BY <1>2, <1>5
  <2> HIDE DEF put
  <2>2. put \in Seq(Entries) /\ Len(put) = m
    BY <1>5, <2>1, ListOf
  <2>3. KeysDiffer(put)
    BY <1>3, <1>5, <2>1 DEF KeysDiffer
  <2> QED
    BY <1>1, <1>3, <1>4, <1>6, <2>2, <2>3
<1>7. CASE ~\E i \in DOMAIN kept : kept[i].key = q
  <2>1. /\ Append(kept, new) \in Seq(Entries) /\ Len(Append(kept, new)) = m + 1
        /\ DOMAIN Append(kept, new) = 1..(m + 1) /\ Append(kept, new)[m + 1] = new
        /\ \A i \in 1..m : Append(kept, new)[i] = kept[i]
    BY <1>2, <1>3, <1>5
  <2>2. KeysDiffer(Append(kept, new))
    BY <1>2, <1>3, <1>5, <1>7, <2>1 DEF KeysDiffer
  <2>3. m + 1 <= MaxEntries
    BY <1>1, <1>3, <1>5
  <2> QED
    BY <1>4, <1>7, <2>1, <2>2, <2>3
<1> QED
  BY <1>6, <1>7

LEMMA SampleStart == ASSUME SampleOK, SampleInit PROVE SampleInv
<1>1. PICK ask \in [Samplers -> Questions] :
        sampled = [r \in Samplers |-> [ask |-> ask[r], step |-> "asked", report |-> NoSample]]
  BY DEF SampleInit, Questions
<1>2. sampled \in [Samplers -> Requests] /\ \A r \in Samplers : Answered(sampled[r])
  BY <1>1 DEF Requests, GivenReports, Answered, NoSample
<1>3. CacheKept
  BY SampleNumbers DEF SampleInit, CacheKept, KeysDiffer
<1> QED
  BY <1>2, <1>3 DEF SampleInv

\* What a request is given, the others keep.
LEMMA GivenKeeps ==
  ASSUME SampleInv, NEW r \in Samplers, NEW rows, NEW missing, Given(r, rows, missing),
         missing \in {{}, {"backlinks"}},
         "backlinks" \in missing => rows = <<>>,
         "backlinks" \notin missing =>
           SampleQuery(sampled[r].ask) \in Queries /\ rows = Fetch(SampleQuery(sampled[r].ask))
  PROVE  sampled' \in [Samplers -> Requests] /\ \A s \in Samplers : Answered(sampled'[s])
<1> DEFINE report == [rows |-> rows, unavailable |-> SummaryParts \cup missing]
<1>1. sampled \in [Samplers -> Requests] /\ \A s \in Samplers : Answered(sampled[s])
  BY DEF SampleInv
<1>2. sampled' = [sampled EXCEPT ![r] = [@ EXCEPT !.step = "given", !.report = report]]
  BY <1>1 DEF Given, Requests
<1>3. "backlinks" \notin SummaryParts
  BY DEF SummaryParts
<1>4. /\ report.rows = rows /\ ("backlinks" \in report.unavailable <=> "backlinks" \in missing)
      /\ report \in GivenReports
  <2>1. rows \in {<<>>} \cup {Fetch(q) : q \in Queries}
    OBVIOUS
  <2> QED
    BY <1>3, <2>1 DEF GivenReports
<1> HIDE DEF report
<1>5. sampled' \in [Samplers -> Requests]
  BY <1>1, <1>2, <1>4 DEF Requests
<1>6. /\ sampled'[r].ask = sampled[r].ask /\ sampled'[r].step = "given" /\ sampled'[r].report = report
      /\ \A s \in Samplers \ {r} : sampled'[s] = sampled[s]
  BY <1>1, <1>2 DEF Requests
<1>7. Answered(sampled'[r])
  BY <1>1, <1>4, <1>6 DEF Answered
<1> QED
  BY <1>1, <1>5, <1>6, <1>7

LEMMA SampleStep ==
  ASSUME SampleOK, SampleInv, [SampleNext]_sampleVars PROVE SampleInv'
<1>1. /\ CacheKept /\ sampled \in [Samplers -> Requests] /\ \A r \in Samplers : Answered(sampled[r])
  BY DEF SampleInv
<1>2. ASSUME NEW r \in Samplers, RefuseSample(r) PROVE SampleInv'
  <2>1. /\ sampled' = [sampled EXCEPT ![r].step = "refused"] /\ UNCHANGED <<sampleCache, sampleTime>>
        /\ sampled[r].step = "asked"
    BY <1>2 DEF RefuseSample
  <2>2. sampled' \in [Samplers -> Requests] /\ \A s \in Samplers : Answered(sampled'[s])
    BY <1>1, <2>1 DEF Requests, Answered
  <2> QED
    BY <1>1, <2>1, <2>2 DEF SampleInv, CacheKept
<1>3. ASSUME NEW r \in Samplers, Look(r) PROVE SampleInv'
  <2> DEFINE q == SampleQuery(sampled[r].ask)
  <2>1. sampled[r].step = "asked" /\ q.host # NoHost /\ sampleTime' = sampleTime
    BY <1>3 DEF Look
  <2>2. sampled[r].ask \in Questions
    BY <1>1 DEF Answered
  <2>3. q \in Queries
    BY <2>1, <2>2, QueryIsOne
  <2>4. CASE \E i \in Live(Key(q)) : Given(r, sampleCache[i].rows, {}) /\ UNCHANGED sampleCache
    <3>1. PICK i \in Live(Key(q)) : Given(r, sampleCache[i].rows, {})
      BY <2>4
    <3>2. i \in DOMAIN sampleCache /\ sampleCache[i].key = q
      BY DEF Live, Key
    <3>3. sampleCache[i] \in Entries
      BY <1>1, <3>2 DEF CacheKept
    <3>4. sampleCache[i].rows = Fetch(q)
      BY <3>2, <3>3 DEF Entries
    <3>5. sampled' \in [Samplers -> Requests] /\ \A s \in Samplers : Answered(sampled'[s])
      BY <2>3, <3>1, <3>4, GivenKeeps
    <3> QED
      BY <1>1, <2>1, <2>4, <3>5 DEF SampleInv, CacheKept
  <2>5. CASE sampleCache' = Without(Key(q)) /\ sampled' = [sampled EXCEPT ![r].step = "loading"]
    <3>1. CacheKept'
      BY <1>1, <2>1, <2>5, WithoutKept DEF CacheKept, Key
    <3>2. sampled' \in [Samplers -> Requests] /\ \A s \in Samplers : Answered(sampled'[s])
      BY <1>1, <2>1, <2>3, <2>5 DEF Requests, Answered
    <3> QED
      BY <3>1, <3>2 DEF SampleInv
  <2> QED
    BY <1>3, <2>4, <2>5 DEF Look
<1>4. ASSUME NEW r \in Samplers, Rows(r) PROVE SampleInv'
  <2> DEFINE q == SampleQuery(sampled[r].ask)
  <2>1. /\ sampled[r].step = "loading" /\ Given(r, Fetch(q), {}) /\ sampleTime' = sampleTime
        /\ sampleCache' = Stored(q, Fetch(q))
    BY <1>4 DEF Rows, Key
  <2>2. q \in Queries
    BY <1>1, <2>1 DEF Answered
  <2>3. sampled' \in [Samplers -> Requests] /\ \A s \in Samplers : Answered(sampled'[s])
    BY <2>1, <2>2, GivenKeeps
  <2>4. CacheKept'
    BY <1>1, <2>1, <2>2, StoredKept DEF CacheKept
  <2> QED
    BY <2>3, <2>4 DEF SampleInv
<1>5. ASSUME NEW r \in Samplers, NoRows(r) PROVE SampleInv'
  <2>1. Given(r, <<>>, {"backlinks"}) /\ UNCHANGED <<sampleCache, sampleTime>>
    BY <1>5 DEF NoRows
  <2>2. sampled' \in [Samplers -> Requests] /\ \A s \in Samplers : Answered(sampled'[s])
    BY <2>1, GivenKeeps
  <2> QED
    BY <1>1, <2>1, <2>2 DEF SampleInv, CacheKept
<1>6. CASE Later
  BY <1>1, <1>6 DEF Later, SampleInv, CacheKept
<1>7. CASE UNCHANGED sampleVars
  BY <1>1, <1>7 DEF sampleVars, SampleInv, CacheKept
<1> QED
  BY <1>2, <1>3, <1>4, <1>5, <1>6, <1>7 DEF SampleNext

LEMMA SampleTells == ASSUME SampleOK, SampleInv PROVE SampleHonest
<1>1. CacheKept /\ \A r \in Samplers : Answered(sampled[r])
  BY DEF SampleInv
<1>2. ASSUME NEW r \in Samplers, sampled[r].step = "given"
      PROVE  LET q == SampleQuery(sampled[r].ask)  given == sampled[r].report IN
             IF "backlinks" \in given.unavailable THEN given.rows = <<>>
             ELSE \A i \in DOMAIN ObservationsOf[q.host] :
                    ObservationsOf[q.host][i] \in Elements(given.rows) <=>
                      /\ External(ObservationsOf[q.host][i], q.host)
                      /\ (q.page - 1) * q.size < i /\ i <= q.page * q.size
  <2> DEFINE q == SampleQuery(sampled[r].ask)
  <2>1. IF "backlinks" \in sampled[r].report.unavailable THEN sampled[r].report.rows = <<>>
        ELSE q \in Queries /\ sampled[r].report.rows = Fetch(q)
    BY <1>1, <1>2 DEF Answered
  <2> HIDE DEF q
  <2>2. "backlinks" \notin sampled[r].report.unavailable =>
          \A i \in DOMAIN ObservationsOf[q.host] :
            ObservationsOf[q.host][i] \in Elements(sampled[r].report.rows) <=>
              /\ External(ObservationsOf[q.host][i], q.host)
              /\ (q.page - 1) * q.size < i /\ i <= q.page * q.size
    BY <2>1, FetchedRows
  <2> QED
    BY <2>1, <2>2 DEF q
<1>3. ASSUME NEW r \in Samplers PROVE
        LET q == SampleQuery(sampled[r].ask) IN
        sampled[r].report.rows = <<>> \/ (q \in Queries /\ sampled[r].report.rows = Fetch(q))
  BY <1>1 DEF Answered, SampleInv, Requests, GivenReports
<1>4. ASSUME NEW r \in Samplers, NEW s \in Samplers,
             SampleQuery(sampled[r].ask).host = SampleQuery(sampled[s].ask).host,
             SampleQuery(sampled[r].ask).size = SampleQuery(sampled[s].ask).size,
             SampleQuery(sampled[r].ask).page # SampleQuery(sampled[s].ask).page
      PROVE  Elements(sampled[r].report.rows) \cap Elements(sampled[s].report.rows) = {}
  <2>1. Elements(<<>>) = {}
    BY DEF Elements
  <2> QED
    BY <1>3, <1>4, <2>1, PagesShareNothing
<1> QED
  BY <1>1, <1>2, <1>4 DEF SampleHonest, CacheKept, KeysDiffer

-----------------------------------------------------------------------------
(***************************************************************************)
(* The reports                                                             *)
(***************************************************************************)
EndpointNames == {"rating", "summary", "backlinks", "anchors", "pages", "broken"}
AskedLimit == IF question.op = "summary" THEN SummaryTop ELSE LesserOf(question.limit, WorkerMax)

\* what an endpoint may answer when it answers, from the JSON as from the tables
TrueAnswers(e) ==
  CASE e \in {"rating", "summary"} -> {IndexCounts}
    [] e = "backlinks" -> TableRows("referring_domains",
                                    IF question.op = "summary" THEN SummaryTop ELSE WorkerMax)
    [] e = "anchors" -> TableRows("anchors", AskedLimit)
    [] e = "pages" -> TableRows("top_pages", WorkerMax)
    [] e = "broken" -> TableRows("broken_backlink_candidates", WorkerMax)

ReportTyped ==
  /\ linkIndex \in Indexes
  /\ question.op \in ReportOps /\ question.page \in Nat \ {0} /\ question.limit \in Nat \ {0}
  /\ linkAnswers = [e \in EndpointNames |-> linkAnswers[e]]
  /\ reportJson => linkIndex.present

AnswersTrue ==
  \A e \in Endpoints : linkAnswers[e] \in {NoLinkAnswer, WorkerError} \cup TrueAnswers(e)

\* a report that is given is made of the answers of all its endpoints
ReportComplete ==
  /\ linkReport.state = "asked" => linkReport = NoLinkReport
  /\ linkReport.state = "given" /\ linked /\ question.op # "gap" =>
       Settled /\ \E up \in BOOLEAN : linkReport = LinkReport(up)

Walks == [table : LinkTables, limit : Nat \ {0}, offset : Nat, rows : Seq(Nat),
          state : {"asking", "ended", "not_found"}]
WalkedScores == TableScores(walk.table)
WalkHas ==
  /\ walk \in Walks /\ walk.offset <= Len(WalkedScores)
  /\ Len(walk.rows) = walk.offset /\ InOrder(walk.rows, 0, WalkedScores)
  /\ walk.state = "ended" => walk.offset = Len(WalkedScores)

ReportInv == ReportTyped /\ AnswersTrue /\ ReportComplete /\ WalkHas

LEMMA ReportNumbers ==
  ASSUME ReportsOK
  PROVE  /\ WorkerMax \in Nat \ {0} /\ TopN \in Nat \ {0} /\ WorkerMax <= TopN
         /\ SummaryTop \in Nat \ {0} /\ SummaryTop <= TopN
         /\ PageLimits \subseteq Nat \ {0} /\ PageNumbers \subseteq Nat \ {0}
         /\ V1Limits \subseteq Nat \ {0}
  BY DEF ReportsOK, WorkerOK

LEMMA IndexSays ==
  ASSUME ReportsOK, linkIndex \in Indexes
  PROVE  /\ linkIndex.inbound \in Nat /\ linkIndex.referring \in Nat
         /\ \A t \in LinkTables : linkIndex.rows[t] \in Seq(LinkRows)
         /\ linkIndex.present <=> linkIndex.inbound > 0
         /\ ~linkIndex.present => linkIndex.referring = 0 /\ \A t \in LinkTables : linkIndex.rows[t] = <<>>
         /\ Sum(ScoresOf(linkIndex.rows["top_pages"])) <= linkIndex.inbound
  BY DEF ReportsOK

LEMMA ScoresList ==
  ASSUME NEW s \in Seq(LinkRows)
  PROVE  /\ ScoresOf(s) \in Seq(Nat) /\ Len(ScoresOf(s)) = Len(s) /\ DOMAIN ScoresOf(s) = DOMAIN s
         /\ \A i \in DOMAIN s : ScoresOf(s)[i] = s[i].score /\ s[i].score \in Nat
<1> DEFINE n == Len(s)
           scored == ScoresOf(s)
<1>1. n \in Nat /\ DOMAIN s = 1..n /\ \A i \in 1..n : s[i].score \in Nat
  <2>1. \A i \in DOMAIN s : s[i] \in LinkRows
    BY ListElement
  <2> QED
    BY <2>1 DEF LinkRows
<1>2. scored \in [1..n -> Nat] /\ \A i \in 1..n : scored[i] = s[i].score
  BY <1>1 DEF ScoresOf
<1> HIDE DEF scored
<1>3. scored \in Seq(Nat) /\ Len(scored) = n /\ DOMAIN scored = 1..n
  BY <1>1, <1>2, ListOf
<1> QED
  BY <1>1, <1>2, <1>3 DEF scored

LEMMA TableList ==
  ASSUME ReportsOK, linkIndex \in Indexes, NEW t \in LinkTables
  PROVE  /\ linkIndex.rows[t] \in Seq(LinkRows) /\ TableScores(t) \in Seq(Nat)
         /\ Len(TableScores(t)) = Len(linkIndex.rows[t])
         /\ DOMAIN TableScores(t) = DOMAIN linkIndex.rows[t]
         /\ \A i \in DOMAIN linkIndex.rows[t] : TableScores(t)[i] = linkIndex.rows[t][i].score
  BY IndexSays, ScoresList DEF TableScores

\* Rows in order have the scores of the places they are in order of.
LEMMA PlacedList ==
  ASSUME ReportsOK, linkIndex \in Indexes, NEW t \in LinkTables,
         NEW r \in Seq(Nat), NEW a \in Nat, InOrder(r, a, TableScores(t))
  PROVE  /\ Placed(t, r) \in Seq(LinkRows) /\ Len(Placed(t, r)) = Len(r)
         /\ DOMAIN Placed(t, r) = 1..Len(r)
         /\ \A i \in 1..Len(r) : Placed(t, r)[i].score = TableScores(t)[a + i]
<1> DEFINE n == Len(r)
           rows == linkIndex.rows[t]
           put == Placed(t, r)
<1>1. n \in Nat /\ DOMAIN r = 1..n
  OBVIOUS
<1>2. \A i \in DOMAIN rows : rows[i] \in LinkRows
  BY TableList, ListElement
<1>3. \A i \in 1..n : r[i] \in DOMAIN rows /\ rows[r[i]].score = TableScores(t)[a + i]
  BY <1>1, TableList DEF InOrder
<1>4. put = [i \in 1..n |-> rows[r[i]]]
  BY <1>1 DEF Placed
<1>5. put \in [1..n -> LinkRows]
  BY <1>2, <1>3, <1>4
<1>6. put \in Seq(LinkRows) /\ Len(put) = n
  BY <1>1, <1>5, ListOf
<1>7. \A i \in 1..n : put[i].score = TableScores(t)[a + i]
  BY <1>3, <1>4
<1> QED
  BY <1>5, <1>6, <1>7

\* The best of so many rows are those rows.
LEMMA BestRows ==
  ASSUME ReportsOK, linkIndex \in Indexes, NEW t \in LinkTables, NEW k \in Nat,
         NEW r \in Rankings(TableScores(t), k)
  PROVE  r \in Seq(Nat) /\ Best(r, k) = r /\ BestOf(r, t, k)
<1>1. /\ TableScores(t) \in Seq(Nat) /\ Len(TableScores(t)) = Len(linkIndex.rows[t])
      /\ linkIndex.rows[t] \in Seq(LinkRows)
  BY TableList
<1>2. /\ r \in Seq(Nat) /\ Len(r) = LesserOf(k, Len(linkIndex.rows[t]))
      /\ NoneTwice(r) /\ InOrder(r, 0, TableScores(t))
  BY <1>1, RankingList
<1>3. LesserOf(k, Len(r)) = Len(r)
  BY <1>1, <1>2 DEF LesserOf
<1>4. SubSeq(r, 1, Len(r)) = r
  BY <1>2
<1> QED
  BY <1>2, <1>3, <1>4 DEF Best, BestOf

\* A page of the best rows is the page of the table that was asked for.
LEMMA PageShown ==
  ASSUME ReportsOK, ReportTyped, NEW t \in LinkTables, NEW r \in Rankings(TableScores(t), WorkerMax)
  PROVE  /\ SliceOf(r) \in Seq(Nat) /\ ShownPage(SliceOf(r), t)
         /\ \E before \in Nat : /\ before + Len(SliceOf(r)) <= Len(TableScores(t))
                                /\ InOrder(SliceOf(r), before, TableScores(t))
<1> DEFINE s == TableScores(t)
           given == LesserOf(WorkerMax, Len(linkIndex.rows[t]))
           from == (question.page - 1) * question.limit
           to == question.page * question.limit
           end == LesserOf(to, Len(r))
           before == LesserOf(from, given)
           w == SubSeq(r, from + 1, end)
<1>1. s \in Seq(Nat) /\ Len(s) = Len(linkIndex.rows[t])
  BY TableList DEF ReportTyped
<1>2. r \in Seq(Nat) /\ Len(r) = given /\ NoneTwice(r) /\ InOrder(r, 0, s)
  BY <1>1, ReportNumbers, RankingList
<1>3. from \in Nat /\ to \in Nat /\ from <= to
  <2>1. \A p, z \in Nat \ {0} : (p - 1) * z \in Nat /\ p * z \in Nat /\ p * z = (p - 1) * z + z
    OBVIOUS
  <2>2. question.page \in Nat \ {0} /\ question.limit \in Nat \ {0}
    BY DEF ReportTyped
  <2>3. from \in Nat /\ to \in Nat /\ to = from + question.limit
    BY <2>1, <2>2
  <2> HIDE DEF from, to
  <2> QED
    BY <2>2, <2>3
<1>4. SliceOf(r) = w
  BY DEF SliceOf
<1>5. ShownPage(w, t) <=> Len(w) = LesserOf(to, given) - before /\ NoneTwice(w) /\ InOrder(w, before, s)
  BY DEF ShownPage
<1>6. given \in Nat /\ given <= Len(s)
  BY <1>1, <1>2, ReportNumbers DEF LesserOf
<1> HIDE DEF given, from, to
<1>7. CASE from <= given
  <2>1. before = from /\ end \in Nat /\ from <= end /\ end <= Len(r) /\ end = LesserOf(to, given)
    BY <1>2, <1>3, <1>6, <1>7 DEF LesserOf
  <2> HIDE DEF before, end
  <2>2. w \in Seq(Nat) /\ Len(w) = end - from /\ NoneTwice(w) /\ InOrder(w, from, s)
    BY <1>1, <1>2, <1>3, <2>1, WindowInOrder
  <2>3. from + Len(w) <= Len(s)
    BY <1>1, <1>2, <1>3, <1>6, <2>1, <2>2
  <2> QED
    BY <1>3, <1>4, <1>5, <2>1, <2>2, <2>3
<1>8. CASE ~(from <= given)
  <2>0. end = LesserOf(to, given)
    BY <1>2
  <2>1. before = given /\ end = given /\ given < from
    BY <1>2, <1>3, <1>6, <1>8 DEF LesserOf
  <2> HIDE DEF before, end
  <2>2. w = <<>> /\ w \in Seq(Nat) /\ Len(w) = 0 /\ before \in Nat
    <3>1. from + 1 \in Nat /\ end \in Nat /\ end < from + 1
      BY <1>3, <1>6, <2>1
    <3>2. \A a, b \in Nat : b < a => SubSeq(r, a, b) = <<>>
      BY <1>2
    <3> QED
      BY <1>6, <2>1, <3>1, <3>2
  <2>3. NoneTwice(w) /\ InOrder(w, before, s) /\ given - given = 0
    BY <1>6, <2>2 DEF NoneTwice, InOrder
  <2>4. before + Len(w) <= Len(s)
    BY <1>1, <1>6, <2>1, <2>2
  <2> QED
    BY <1>4, <1>5, <2>0, <2>1, <2>2, <2>3, <2>4
<1> QED
  BY <1>7, <1>8

-----------------------------------------------------------------------------
\* An endpoint answers what is so, or an error, whichever source it reads.
LEMMA FetchedTrue ==
  ASSUME ReportsOK, ReportTyped, NEW e \in Endpoints
  PROVE  Fetched(e) \subseteq {WorkerError} \cup TrueAnswers(e) /\ e \in EndpointNames
<1>1. e \in EndpointNames
  BY DEF ReportTyped, ReportOps, Endpoints, EndpointNames
<1>2. CASE e \in {"rating", "summary"}
  <2>1. /\ ~linkIndex.present => linkIndex.inbound = 0 /\ linkIndex.referring = 0
    BY IndexSays DEF ReportTyped
  <2>2. ~linkIndex.present => [NoLinkAnswer EXCEPT !.outcome = "ok"] = IndexCounts
    <3>1. [NoLinkAnswer EXCEPT !.outcome = "ok"]
            = [outcome |-> "ok", inbound |-> 0, referring |-> 0, total |-> 0, rows |-> <<>>]
      BY DEF NoLinkAnswer
    <3>2. IndexCounts = [outcome |-> "ok", inbound |-> linkIndex.inbound,
                         referring |-> linkIndex.referring, total |-> 0, rows |-> <<>>]
      <4>1. IndexCounts = [[[NoLinkAnswer EXCEPT !.outcome = "ok"]
                              EXCEPT !.inbound = linkIndex.inbound]
                              EXCEPT !.referring = linkIndex.referring]
        BY DEF IndexCounts
      <4>2. [[outcome |-> "ok", inbound |-> 0, referring |-> 0, total |-> 0, rows |-> <<>>]
               EXCEPT !.inbound = linkIndex.inbound]
            = [outcome |-> "ok", inbound |-> linkIndex.inbound, referring |-> 0, total |-> 0, rows |-> <<>>]
        OBVIOUS
      <4>3. [[outcome |-> "ok", inbound |-> linkIndex.inbound, referring |-> 0, total |-> 0, rows |-> <<>>]
               EXCEPT !.referring = linkIndex.referring]
            = [outcome |-> "ok", inbound |-> linkIndex.inbound,
               referring |-> linkIndex.referring, total |-> 0, rows |-> <<>>]
        OBVIOUS
      <4> QED
        BY <3>1, <4>1, <4>2, <4>3
    <3> QED
      BY <2>1, <3>1, <3>2
  <2>3. FromSummary \in {WorkerError, IndexCounts}
    BY <2>2 DEF FromSummary
  <2> QED
    <3>1. DomainRating \in {WorkerError, IndexCounts} /\ SummaryCounts \in {WorkerError, IndexCounts}
      BY <2>3 DEF DomainRating, SummaryCounts
    <3>2. TrueAnswers(e) = {IndexCounts}
      BY <1>2 DEF TrueAnswers
    <3>3. Fetched(e) = {IF e = "rating" THEN DomainRating ELSE SummaryCounts}
      BY <1>2 DEF Fetched
    <3> QED
      BY <1>1, <3>1, <3>2, <3>3
<1>3. \A k \in Nat : k <= TopN => LesserOf(k, TopN) = k
  BY ReportNumbers DEF LesserOf
<1>4. \A table \in LinkTables, k \in Nat : k <= TopN =>
        TableAnswers(table, k) \subseteq {WorkerError} \cup TableRows(table, k)
  BY <1>3 DEF TableAnswers
<1>5. AskedLimit \in Nat /\ AskedLimit <= TopN
  BY ReportNumbers DEF ReportTyped, AskedLimit, LesserOf
<1>6. WorkerMax \in Nat /\ WorkerMax <= TopN /\ SummaryTop \in Nat /\ SummaryTop <= TopN
  BY ReportNumbers
<1>7. CASE e = "backlinks"
  <2> DEFINE k == IF question.op = "summary" THEN SummaryTop ELSE WorkerMax
  <2>1. k \in Nat /\ k <= TopN
    BY <1>6
  <2>2. Fetched(e) = BacklinkRows(k) /\ TrueAnswers(e) = TableRows("referring_domains", k)
    BY <1>7 DEF Fetched, TrueAnswers
  <2> HIDE DEF k
  <2> QED
    BY <1>1, <1>3, <1>4, <2>1, <2>2 DEF BacklinkRows, LinkTables
<1>8. CASE e = "anchors"
  <2>1. Fetched(e) = Anchors(AskedLimit) /\ TrueAnswers(e) = TableRows("anchors", AskedLimit)
    BY <1>8 DEF Fetched, TrueAnswers, AskedLimit
  <2> QED
    BY <1>1, <1>3, <1>4, <1>5, <2>1 DEF Anchors, LinkTables
<1>9. CASE e = "pages"
  <2>1. Fetched(e) = TopPages(WorkerMax) /\ TrueAnswers(e) = TableRows("top_pages", WorkerMax)
    BY <1>9 DEF Fetched, TrueAnswers
  <2> QED
    BY <1>1, <1>3, <1>4, <1>6, <2>1 DEF TopPages, LinkTables
<1>10. CASE e = "broken"
  <2>1. /\ Fetched(e) = Broken(WorkerMax)
        /\ TrueAnswers(e) = TableRows("broken_backlink_candidates", WorkerMax)
    BY <1>10 DEF Fetched, TrueAnswers
  <2> QED
    BY <1>1, <1>3, <1>4, <1>6, <2>1 DEF Broken, LinkTables
<1> QED
  BY <1>1, <1>2, <1>7, <1>8, <1>9, <1>10 DEF EndpointNames

LEMMA OutcomesDiffer ==
  /\ NoLinkAnswer.outcome = "none" /\ WorkerError.outcome = "error"
  /\ \A e \in EndpointNames : \A answer \in TrueAnswers(e) : answer.outcome = "ok"
<1>1. NoLinkAnswer.outcome = "none" /\ WorkerError.outcome = "error" /\ IndexCounts.outcome = "ok"
  BY DEF NoLinkAnswer, WorkerError, IndexCounts
<1>2. \A table, k : \A answer \in TableRows(table, k) : answer.outcome = "ok"
  BY DEF NoLinkAnswer, TableRows
<1>3. ASSUME NEW e \in EndpointNames, NEW answer \in TrueAnswers(e) PROVE answer.outcome = "ok"
  <2>1. CASE e \in {"rating", "summary"}
    BY <1>1, <2>1 DEF TrueAnswers
  <2>2. CASE e = "backlinks"
    BY <1>2, <2>2 DEF TrueAnswers
  <2>3. CASE e = "anchors"
    BY <1>2, <2>3 DEF TrueAnswers
  <2>4. CASE e = "pages"
    BY <1>2, <2>4 DEF TrueAnswers
  <2>5. CASE e = "broken"
    BY <1>2, <2>5 DEF TrueAnswers
  <2> QED
    BY <2>1, <2>2, <2>3, <2>4, <2>5 DEF EndpointNames
<1> QED
  BY <1>1, <1>3

\* Once all have answered, each answer is what is so.
LEMMA SettledTrue ==
  ASSUME ReportsOK, ReportTyped, AnswersTrue, Settled
  PROVE  \A e \in Endpoints : linkAnswers[e] \in TrueAnswers(e)
  BY OutcomesDiffer DEF AnswersTrue, Settled

LEMMA ReportIsGiven ==
  ASSUME question.op \in ReportOps, NEW up \in BOOLEAN PROVE LinkReport(up).state = "given"
<1>1. EmptyReport.state = "given" /\ "rows" \in DOMAIN EmptyReport
  BY DEF EmptyReport, NoLinkReport
<1>2. \A rows, total : Paged(rows, total).state = "given"
  BY DEF Paged, EmptyReport, NoLinkReport
<1>3. /\ GetSummary.state = "given" /\ GetRating.state = "given" /\ GetAnchors.state = "given"
      /\ GetGap.state = "given"
  BY DEF GetSummary, GetRating, GetAnchors, GetGap, EmptyReport, NoLinkReport
<1>4. GetTopPages(up).state = "given"
  BY DEF GetTopPages, Paged, EmptyReport, NoLinkReport
<1>5. GetReferringDomains.state = "given" /\ GetBrokenBacklinks.state = "given"
  BY <1>2 DEF GetReferringDomains, GetBrokenBacklinks
<1> QED
  BY <1>1, <1>3, <1>4, <1>5 DEF LinkReport, ReportOps

LEMMA ReportsStart == ASSUME ReportsOK, LinkReportsInit PROVE ReportInv
<1>1. PICK op \in ReportOps, page \in PageNumbers, limit \in PageLimits, status \in Statuses :
        question = [op |-> op, page |-> page, limit |-> limit, status |-> status]
  BY DEF LinkReportsInit
<1>2. ReportTyped
  BY <1>1, ReportNumbers DEF LinkReportsInit, ReportTyped, EndpointNames
<1>3. AnswersTrue
  <2>1. Endpoints \subseteq EndpointNames
    BY <1>1, <1>2 DEF ReportTyped, ReportOps, Endpoints, EndpointNames
  <2> QED
    BY <2>1 DEF LinkReportsInit, AnswersTrue, EndpointNames
<1>4. ReportComplete
  BY DEF LinkReportsInit, ReportComplete, NoLinkReport
<1>5. WalkHas
  <2>1. PICK table \in LinkTables, size \in V1Limits :
          walk = [table |-> table, limit |-> size, offset |-> 0, rows |-> <<>>, state |-> "asking"]
    BY DEF LinkReportsInit
  <2>2. TableScores(table) \in Seq(Nat)
    BY <1>2, TableList DEF ReportTyped
  <2>3. /\ <<>> \in Seq(Nat) /\ Len(<<>>) = 0 /\ InOrder(<<>>, 0, TableScores(table))
        /\ 0 <= Len(TableScores(table))
    BY <2>2 DEF InOrder
  <2> QED
    BY <2>1, <2>3, ReportNumbers DEF WalkHas, Walks, WalkedScores
<1> QED
  BY <1>2, <1>3, <1>4, <1>5 DEF ReportInv

\* Neither what is so nor what a report is made of changes while the index, the question
\* and the answers do not.
LEMMA SameTruth ==
  ASSUME UNCHANGED <<linkIndex, question>>
  PROVE  Endpoints' = Endpoints /\ \A e : TrueAnswers(e)' = TrueAnswers(e)
<1>1. Endpoints' = Endpoints
  BY DEF Endpoints
<1>2. IndexCounts' = IndexCounts /\ AskedLimit' = AskedLimit
  BY DEF IndexCounts, AskedLimit
<1>3. \A table : TableScores(table)' = TableScores(table)
  BY DEF TableScores
<1>4. \A table, k : TableRows(table, k)' = TableRows(table, k)
  BY <1>3 DEF TableRows
<1>5. ASSUME NEW e PROVE TrueAnswers(e)' = TrueAnswers(e)
  BY <1>2, <1>4 DEF TrueAnswers
<1> QED
  BY <1>1, <1>5

LEMMA SameReport ==
  ASSUME UNCHANGED <<linkIndex, linked, question, linkAnswers>>
  PROVE  (\A up : LinkReport(up)' = LinkReport(up)) /\ Settled' = Settled
<1>1. \A rows : SliceOf(rows)' = SliceOf(rows) /\ More(rows)' = More(rows)
  BY DEF SliceOf, More
<1>2. \A rows, total : Paged(rows, total)' = Paged(rows, total)
  BY <1>1 DEF Paged
<1>3. GetSummary' = GetSummary /\ GetRating' = GetRating
  BY DEF GetSummary, GetRating
<1>4. \A table, places : Placed(table, places)' = Placed(table, places)
  BY DEF Placed
<1>5. GetAnchors' = GetAnchors
  BY <1>4 DEF GetAnchors
<1>6. GetReferringDomains' = GetReferringDomains /\ GetBrokenBacklinks' = GetBrokenBacklinks
  BY <1>2 DEF GetReferringDomains, GetBrokenBacklinks
<1>7. GetGap' = GetGap
  BY <1>1 DEF GetGap
<1>8. \A up : GetTopPages(up)' = GetTopPages(up)
  BY <1>2, <1>4 DEF GetTopPages
<1>9. Settled' = Settled
  BY DEF Settled, Endpoints
<1> QED
  BY <1>3, <1>5, <1>6, <1>7, <1>8, <1>9 DEF LinkReport

LEMMA AnswerKeeps ==
  ASSUME ReportsOK, ReportInv, NEW e \in Endpoints, WorkerFetch(e) PROVE ReportInv'
<1>1. /\ ReportTyped /\ AnswersTrue /\ ReportComplete /\ WalkHas
      /\ linkReport.state = "asked" /\ UNCHANGED <<linkIndex, linked, reportJson, question, walk>>
  BY DEF ReportInv, WorkerFetch
<1>2. PICK answer \in Fetched(e) \cup {WorkerError} :
        /\ linkAnswers' = [linkAnswers EXCEPT ![e] = answer]
        /\ linkReport' = IF answer.outcome = "error" THEN [linkReport EXCEPT !.state = "failed"]
                         ELSE linkReport
  BY DEF WorkerFetch
<1>3. answer \in {WorkerError} \cup TrueAnswers(e) /\ e \in EndpointNames
  BY <1>1, <1>2, FetchedTrue
<1>4. Endpoints' = Endpoints /\ \A f : TrueAnswers(f)' = TrueAnswers(f)
  BY <1>1, SameTruth
<1>5. linkAnswers = [f \in EndpointNames |-> linkAnswers[f]]
  BY <1>1 DEF ReportTyped
<1>6. linkAnswers' = [f \in EndpointNames |-> linkAnswers'[f]]
  BY <1>2, <1>5
<1>7. ReportTyped'
  BY <1>1, <1>6 DEF ReportTyped
<1>8. AnswersTrue'
  <2>1. ASSUME NEW f \in Endpoints PROVE linkAnswers'[f] \in {NoLinkAnswer, WorkerError} \cup TrueAnswers(f)
    <3>1. f \in EndpointNames
      BY <1>1, FetchedTrue
    <3>2. linkAnswers'[f] = IF f = e THEN answer ELSE linkAnswers[f]
      BY <1>2, <1>5, <3>1
    <3> QED
      BY <1>1, <1>3, <3>2 DEF AnswersTrue
  <2>2. NoLinkAnswer' = NoLinkAnswer /\ WorkerError' = WorkerError
    BY DEF NoLinkAnswer, WorkerError
  <2> QED
    BY <1>4, <2>1, <2>2 DEF AnswersTrue
<1>9. ReportComplete'
  <2>1. linkReport = NoLinkReport
    BY <1>1 DEF ReportComplete
  <2>2. [NoLinkReport EXCEPT !.state = "failed"].state = "failed" /\ NoLinkReport.state = "asked"
    BY DEF NoLinkReport
  <2>3. linkReport'.state = "failed" \/ linkReport' = NoLinkReport
    BY <1>2, <2>1, <2>2
  <2>4. NoLinkReport' = NoLinkReport
    BY DEF NoLinkReport
  <2> QED
    BY <2>2, <2>3, <2>4 DEF ReportComplete
<1>10. WalkHas'
  BY <1>1 DEF WalkHas, WalkedScores, TableScores
<1> QED
  BY <1>7, <1>8, <1>9, <1>10 DEF ReportInv

\* A page of the other worker goes on where the walk stands.
LEMMA WalkGoesOn ==
  ASSUME ReportsOK, linkIndex \in Indexes, WalkHas, V1Read PROVE WalkHas'
<1> DEFINE s == WalkedScores
           n == Len(s)
<1>1. /\ walk \in Walks /\ walk.offset <= n /\ Len(walk.rows) = walk.offset
      /\ InOrder(walk.rows, 0, s) /\ UNCHANGED linkIndex
      /\ walk.table \in LinkTables /\ walk.limit \in Nat \ {0} /\ walk.offset \in Nat
      /\ walk.rows \in Seq(Nat)
  BY DEF WalkHas, Walks, V1Read
<1>2. s \in Seq(Nat) /\ n \in Nat
  <2>1. TableScores(walk.table) \in Seq(Nat)
    BY <1>1, TableList
  <2> QED
    BY <2>1 DEF WalkedScores
<1>3. walk'.table = walk.table => WalkedScores' = s
  BY <1>1 DEF WalkedScores, TableScores
<1>4. CASE walk.table \notin linkIndex.parts
  <2>1. walk' = [walk EXCEPT !.state = "not_found"]
    BY <1>4 DEF V1Read
  <2>2. walk' \in Walks /\ walk'.offset = walk.offset /\ walk'.rows = walk.rows /\ walk'.table = walk.table
        /\ walk'.state = "not_found"
    BY <1>1, <2>1 DEF Walks
  <2> QED
    BY <1>1, <1>3, <2>2 DEF WalkHas
<1>5. CASE walk.table \in linkIndex.parts
  <2>1. PICK page \in V1Pages :
          walk' = [walk EXCEPT !.offset = @ + Len(page), !.rows = @ \o page,
                               !.state = IF page = <<>> THEN "ended" ELSE "asking"]
    BY <1>5 DEF V1Read
  <2> DEFINE k == walk.offset + walk.limit
  <2>2. PICK r \in Rankings(s, k) : page = SubSeq(r, walk.offset + 1, Len(r))
    BY <2>1 DEF V1Pages, V1Rankings, WalkedScores
  <2>3. k \in Nat /\ walk.offset < k
    BY <1>1
  <2>4. r \in Seq(Nat) /\ Len(r) = LesserOf(k, n) /\ NoneTwice(r) /\ InOrder(r, 0, s)
    BY <1>2, <2>2, <2>3, RankingList
  <2>5. Len(r) \in Nat /\ walk.offset <= Len(r) /\ Len(r) <= n /\ (Len(r) = walk.offset => n = walk.offset)
    BY <1>1, <1>2, <2>3, <2>4 DEF LesserOf
  <2> HIDE DEF s, k
  <2>6. page \in Seq(Nat) /\ Len(page) = Len(r) - walk.offset /\ InOrder(page, walk.offset, s)
    <3> DEFINE from == walk.offset
               to == Len(r)
    <3>1. /\ from \in Nat /\ to \in Nat /\ from <= to /\ to <= Len(r)
          /\ page = SubSeq(r, from + 1, to)
      BY <1>1, <2>2, <2>5
    <3> HIDE DEF from, to
    <3>2. page \in Seq(Nat) /\ Len(page) = to - from /\ InOrder(page, from, s)
      BY <1>2, <2>4, <3>1, WindowInOrder
    <3> QED
      BY <3>2 DEF from, to
  <2>7. /\ walk.rows \o page \in Seq(Nat) /\ Len(walk.rows \o page) = walk.offset + Len(page)
        /\ InOrder(walk.rows \o page, 0, s)
    BY <1>1, <1>2, <2>6, OrderJoined
  <2>8. walk.offset + Len(page) = Len(r) /\ (page = <<>> => Len(r) = walk.offset)
    BY <1>1, <2>5, <2>6
  <2> DEFINE state == IF page = <<>> THEN "ended" ELSE "asking"
             rows == walk.rows \o page
  <2>9. walk' = [walk EXCEPT !.offset = Len(r), !.rows = rows, !.state = state]
    BY <2>1, <2>8
  <2>10. state \in {"asking", "ended"} /\ (state = "ended" => Len(r) = n)
    BY <2>5, <2>8
  <2>11. rows \in Seq(Nat) /\ Len(rows) = Len(r) /\ InOrder(rows, 0, s)
    BY <2>7, <2>8
  <2> HIDE DEF state, rows
  <2>12. /\ walk' \in Walks /\ walk'.table = walk.table /\ walk'.offset = Len(r)
         /\ walk'.rows = rows /\ walk'.state = state
    BY <1>1, <2>5, <2>9, <2>10, <2>11 DEF Walks
  <2> QED
    BY <1>3, <2>5, <2>10, <2>11, <2>12 DEF WalkHas
<1> QED
  BY <1>4, <1>5

LEMMA ReportsStep ==
  ASSUME ReportsOK, ReportInv, [LinkReportsNext]_reportVars PROVE ReportInv'
<1>1. ReportTyped /\ AnswersTrue /\ ReportComplete /\ WalkHas
  BY DEF ReportInv
<1>2. NoLinkAnswer' = NoLinkAnswer /\ WorkerError' = WorkerError /\ NoLinkReport' = NoLinkReport
  BY DEF NoLinkAnswer, WorkerError, NoLinkReport
<1>3. ASSUME UNCHANGED <<linkIndex, linked, question, linkAnswers, linkReport>>
      PROVE  AnswersTrue' /\ ReportComplete'
  <2>1. Endpoints' = Endpoints /\ \A e : TrueAnswers(e)' = TrueAnswers(e)
    BY <1>3, SameTruth
  <2>2. (\A up : LinkReport(up)' = LinkReport(up)) /\ Settled' = Settled
    BY <1>3, SameReport
  <2> QED
    BY <1>1, <1>2, <1>3, <2>1, <2>2 DEF AnswersTrue, ReportComplete
<1>4. CASE ReportJsonPublished
  <2>1. /\ UNCHANGED <<linkIndex, linked, question, linkAnswers, linkReport, walk>> /\ linkIndex.present
    BY <1>4 DEF ReportJsonPublished
  <2>2. ReportTyped' /\ WalkHas'
    BY <1>1, <2>1 DEF ReportTyped, WalkHas, WalkedScores, TableScores
  <2> QED
    BY <1>3, <2>1, <2>2 DEF ReportInv
<1>5. CASE \E e \in Endpoints : WorkerFetch(e)
  BY <1>5, AnswerKeeps
<1>6. CASE Give
  <2>1. /\ UNCHANGED <<linkIndex, linked, reportJson, question, linkAnswers, walk>>
        /\ (\E up \in BOOLEAN : linkReport' = LinkReport(up)) /\ (linked /\ question.op # "gap" => Settled)
    BY <1>6 DEF Give
  <2>2. Endpoints' = Endpoints /\ \A e : TrueAnswers(e)' = TrueAnswers(e)
    BY <2>1, SameTruth
  <2>3. /\ (\A up : LinkReport(up)' = LinkReport(up)) /\ Settled' = Settled
        /\ \A up \in BOOLEAN : LinkReport(up).state = "given"
    BY <1>1, <2>1, SameReport, ReportIsGiven DEF ReportTyped
  <2>4. AnswersTrue' /\ ReportComplete'
    BY <1>1, <1>2, <2>1, <2>2, <2>3 DEF AnswersTrue, ReportComplete
  <2>5. ReportTyped' /\ WalkHas'
    BY <1>1, <2>1 DEF ReportTyped, WalkHas, WalkedScores, TableScores
  <2> QED
    BY <2>4, <2>5 DEF ReportInv
<1>7. CASE V1Read
  <2>1. UNCHANGED <<linkIndex, linked, reportJson, question, linkAnswers, linkReport>>
    BY <1>7 DEF V1Read
  <2>2. ReportTyped'
    BY <1>1, <2>1 DEF ReportTyped
  <2>3. WalkHas'
    BY <1>1, <1>7, WalkGoesOn DEF ReportTyped
  <2> QED
    BY <1>3, <2>1, <2>2, <2>3 DEF ReportInv
<1>8. CASE UNCHANGED reportVars
  <2>1. UNCHANGED <<linkIndex, linked, reportJson, question, linkAnswers, linkReport, walk>>
    BY <1>8 DEF reportVars
  <2>2. ReportTyped' /\ WalkHas'
    BY <1>1, <2>1 DEF ReportTyped, WalkHas, WalkedScores, TableScores
  <2> QED
    BY <1>3, <2>1, <2>2 DEF ReportInv
<1> QED
  BY <1>4, <1>5, <1>6, <1>7, <1>8 DEF LinkReportsNext

-----------------------------------------------------------------------------
LEMMA Quotient ==
  ASSUME NEW x \in Nat, NEW y \in Nat \ {0}
  PROVE  x \div y \in Nat /\ y * (x \div y) <= x /\ x < y * (x \div y) + y
  OBVIOUS

LEMMA Cancelled ==
  ASSUME NEW x \in Nat, NEW y \in Nat, NEW z \in Nat \ {0}, z * x <= z * y PROVE x <= y
<1>1. SUFFICES ASSUME x > y PROVE FALSE
  OBVIOUS
<1> DEFINE d == x - y - 1
<1>2. d \in Nat /\ x = y + 1 + d
  BY <1>1
<1> HIDE DEF d
<1>3. z * (y + 1 + d) = z * y + z + z * d /\ z * d \in Nat /\ z * y \in Nat
  BY <1>2
<1>4. z * x = z * y + z + z * d
  BY <1>2, <1>3
<1> DEFINE v == z * y  w == z * d
<1>5. v \in Nat /\ w \in Nat /\ v + z + w <= v
  BY <1>3, <1>4
<1> HIDE DEF v, w
<1> QED
  BY <1>5

LEMMA AllOf ==
  /\ TwiceAll \in Nat /\ \A n \in Nat : TwiceAll * n \in Nat
  /\ \A m, n \in Nat : m <= n => TwiceAll * m <= TwiceAll * n
  BY DEF TwiceAll

\* A part is told to half a hundredth of the whole.
LEMMA HundredthsNear ==
  ASSUME NEW part \in Nat, NEW whole \in Nat \ {0}, NEW up \in BOOLEAN
  PROVE  /\ Hundredths(part, whole, up) \in Nat
         /\ 2 * whole * Hundredths(part, whole, up)
              \in (TwiceAll * part - whole) .. (TwiceAll * part + whole)
<1> DEFINE y == 2 * whole
           z == TwiceAll * part
           x == z + (IF up THEN whole ELSE whole - 1)
           n == x \div y
<1>0. z \in Nat
  BY AllOf
<1>1. y \in Nat \ {0} /\ x \in Nat /\ x <= z + whole /\ z + whole <= x + 1
  <2> HIDE DEF z
  <2> QED
    BY <1>0
<1>2. Hundredths(part, whole, up) = n
  BY DEF Hundredths
<1> HIDE DEF x, z
<1>3. n \in Nat /\ y * n <= x /\ x < y * n + y
  <2> HIDE DEF y
  <2> QED
    BY <1>1, Quotient
<1> HIDE DEF n
<1>4. y * n \in Nat
  BY <1>1, <1>3
<1> DEFINE v == y * n
<1>5. v \in Nat /\ v <= x /\ x < v + 2 * whole
  BY <1>3, <1>4
<1> HIDE DEF v
<1>6. v \in (z - whole) .. (z + whole)
  BY <1>0, <1>1, <1>5
<1> QED
  BY <1>2, <1>3, <1>6 DEF v, z

\* The parts of all the links that the pages of a window have: each is told, and together
\* they are no more than all and the rounding.
LEMMA SharesOfWhole ==
  ASSUME ReportsOK, linkIndex \in Indexes, NEW r \in Seq(Nat), NEW before \in Nat,
         InOrder(r, before, TableScores("top_pages")),
         before + Len(r) <= Len(TableScores("top_pages")), NEW up \in BOOLEAN, NEW share,
         share = [i \in DOMAIN Placed("top_pages", r) |->
                    IF linkIndex.inbound > 0
                    THEN Hundredths(Placed("top_pages", r)[i].score, linkIndex.inbound, up) ELSE 0]
  PROVE  SharesTell(Placed("top_pages", r), share)
<1> DEFINE s == TableScores("top_pages")
           pages == Placed("top_pages", r)
           inbound == linkIndex.inbound
           m == Len(r)
<1>1. /\ pages \in Seq(LinkRows) /\ Len(pages) = m /\ DOMAIN pages = 1..m
      /\ \A i \in 1..m : pages[i].score = s[before + i]
  BY PlacedList DEF LinkTables
<1>2. /\ inbound \in Nat /\ s \in Seq(Nat) /\ Sum(s) <= inbound /\ (inbound = 0 => Len(s) = 0)
      /\ m \in Nat /\ before + m <= Len(s)
  <2>1. "top_pages" \in LinkTables
    BY DEF LinkTables
  <2>2. inbound \in Nat /\ Sum(s) <= inbound
    BY IndexSays DEF TableScores
  <2>3. inbound = 0 => linkIndex.rows["top_pages"] = <<>>
    BY <2>1, IndexSays
  <2>4. s \in Seq(Nat) /\ Len(s) = Len(linkIndex.rows["top_pages"])
    BY <2>1, TableList
  <2>5. inbound = 0 => Len(s) = 0
    BY <2>3, <2>4
  <2> HIDE DEF s, inbound
  <2> QED
    BY <2>2, <2>4, <2>5 DEF s
<1>3. share = [i \in 1..m |-> IF inbound > 0 THEN Hundredths(pages[i].score, inbound, up) ELSE 0]
  BY <1>1
<1>4. SharesTell(pages, share) <=>
        /\ \A i \in 1..m : 2 * inbound * share[i]
             \in (TwiceAll * pages[i].score - inbound) .. (TwiceAll * pages[i].score + inbound)
        /\ 2 * Sum(share) <= TwiceAll + m
  <2>1. Len(pages) = m /\ DOMAIN pages = 1..m
    BY <1>1
  <2> HIDE DEF pages, m
  <2> QED
    BY <2>1 DEF SharesTell
<1> HIDE DEF s, pages, inbound, m
<1>5. CASE inbound = 0
  <2>1. m = 0
    BY <1>2, <1>5
  <2>2. share \in [1..0 -> Nat]
    BY <1>3, <2>1
  <2>3. share \in Seq(Nat) /\ Len(share) = 0
    BY <2>2, ListOf
  <2>4. Sum(share) = 0
    BY <2>3, SumOfNumbers DEF Sum
  <2>5. 2 * Sum(share) <= TwiceAll + m /\ 1..m = {}
    BY <2>1, <2>4, AllOf
  <2> QED
    BY <1>4, <2>5 DEF pages
<1>6. CASE inbound # 0
  <2>1. inbound \in Nat \ {0} /\ inbound > 0
    BY <1>2, <1>6
  <2>2. \A i \in 1..m :
          /\ share[i] \in Nat
          /\ 2 * inbound * share[i]
               \in (TwiceAll * pages[i].score - inbound) .. (TwiceAll * pages[i].score + inbound)
          /\ 2 * inbound * share[i] <= TwiceAll * s[before + i] + inbound
    <3> SUFFICES ASSUME NEW i \in 1..m
        PROVE  /\ share[i] \in Nat
               /\ 2 * inbound * share[i]
                    \in (TwiceAll * pages[i].score - inbound) .. (TwiceAll * pages[i].score + inbound)
               /\ 2 * inbound * share[i] <= TwiceAll * s[before + i] + inbound
      OBVIOUS
    <3>1. pages[i].score \in Nat /\ pages[i].score = s[before + i]
      <4>1. before + i \in 1..Len(s)
        BY <1>2
      <4> QED
        BY <1>1, <1>2, <4>1, NumberAt
    <3>2. share[i] = Hundredths(pages[i].score, inbound, up)
      BY <1>3, <2>1
    <3> DEFINE n == pages[i].score  h == share[i]
    <3>3. h \in Nat /\ 2 * inbound * h \in (TwiceAll * n - inbound) .. (TwiceAll * n + inbound)
      <4>1. n \in Nat /\ h = Hundredths(n, inbound, up)
        BY <3>1, <3>2
      <4> HIDE DEF n, h
      <4> QED
        BY <2>1, <4>1, HundredthsNear
    <3>4. n \in Nat /\ n = s[before + i]
      BY <3>1
    <3> HIDE DEF n, h
    <3>5. 2 * inbound * h <= TwiceAll * n + inbound
      <4> DEFINE v == 2 * inbound * h
                 z == TwiceAll * n
      <4>1. v \in (z - inbound) .. (z + inbound) /\ z \in Nat
        BY <3>3, <3>4, AllOf
      <4> HIDE DEF v, z
      <4>2. v <= z + inbound
        BY <4>1, <2>1
      <4> QED
        BY <4>2 DEF v, z
    <3> QED
      BY <3>3, <3>4, <3>5 DEF n, h
  <2>3. share \in Seq(Nat) /\ Len(share) = m
    <3>1. \A i \in 1..m : share[i] \in Nat
      BY <2>2, Zenon
    <3>2. share \in [1..m -> Nat]
      BY <1>3, <3>1
    <3> QED
      BY <1>2, <3>2, ListOf
  <2>4. (2 * inbound) * Sum(share) <= TwiceAll * Sum(s) + inbound * m
    <3>1. \A i \in 1..Len(share) : (2 * inbound) * share[i] <= TwiceAll * s[before + i] + inbound
      BY <2>2, <2>3, Zenon
    <3>2. before + Len(share) <= Len(s) /\ 2 * inbound \in Nat /\ TwiceAll \in Nat
      BY <1>2, <2>3, AllOf
    <3> QED
      <4> DEFINE c == 2 * inbound
      <4>1. c \in Nat /\ \A i \in 1..Len(share) : c * share[i] <= TwiceAll * s[before + i] + inbound
        BY <3>1, <3>2, Zenon
      <4> HIDE DEF c
      <4>2. c * Sum(share) <= TwiceAll * Sum(s) + inbound * Len(share)
        BY <1>2, <2>3, <3>2, <4>1, ScaledSum
      <4> QED
        BY <2>3, <4>2 DEF c
  <2>5. Sum(share) \in Nat /\ Sum(s) \in Nat
    BY <1>2, <2>3, SumOfNumbers
  <2>6. 2 * Sum(share) <= TwiceAll + m
    <3> DEFINE x == Sum(share)  y == Sum(s)
    <3>1. x \in Nat /\ y \in Nat /\ y <= inbound /\ (2 * inbound) * x <= TwiceAll * y + inbound * m
      BY <1>2, <2>4, <2>5
    <3> HIDE DEF x, y
    <3>2. /\ (2 * inbound) * x = inbound * (2 * x) /\ inbound * (2 * x) \in Nat
          /\ inbound * m \in Nat
      BY <1>2, <3>1
    <3>3. inbound * (TwiceAll + m) = TwiceAll * inbound + inbound * m
      BY <1>2, AllOf
    <3> DEFINE v == inbound * (2 * x)  w == inbound * m  z == TwiceAll * y  all == TwiceAll * inbound
    <3>4. v <= all + w
      <4>1. v \in Nat /\ w \in Nat /\ z \in Nat /\ all \in Nat /\ z <= all /\ v <= z + w
        BY <1>2, <3>1, <3>2, AllOf
      <4> HIDE DEF v, w, z, all
      <4> QED
        BY <4>1
    <3>5. inbound * (2 * x) <= inbound * (TwiceAll + m)
      BY <3>3, <3>4
    <3>6. 2 * x <= TwiceAll + m
      <4>1. 2 * x \in Nat /\ TwiceAll + m \in Nat
        BY <1>2, <3>1, AllOf
      <4> QED
        BY <2>1, <3>5, <4>1, Cancelled
    <3> QED
      BY <3>6 DEF x
  <2> QED
    BY <1>4, <2>2, <2>6, Zenon DEF pages
<1> QED
  BY <1>5, <1>6 DEF pages

\* The scores of the kinds are together the scores of the anchors.
LEMMA KindsOfWhole ==
  ASSUME NEW s \in Seq(LinkRows), NEW of,
         of = [k \in AnchorKinds |->
                 Sum([i \in DOMAIN s |-> IF s[i].kind = k THEN s[i].score ELSE 0])]
  PROVE  Sum(ScoresOf(s))
           = of["branded"] + of["topical"] + of["url"] + of["generic"] + of["other"]
<1> DEFINE n == Len(s)
           part(k) == [i \in DOMAIN s |-> IF s[i].kind = k THEN s[i].score ELSE 0]
           scored == ScoresOf(s)
<1>1. /\ n \in Nat /\ DOMAIN s = 1..n
      /\ \A i \in 1..n : s[i].score \in Nat /\ s[i].kind \in AnchorKinds
  <2>1. n \in Nat /\ DOMAIN s = 1..n
    OBVIOUS
  <2>2. \A i \in 1..n : s[i] \in LinkRows
    BY <2>1, ListElement
  <2> QED
    BY <2>1, <2>2 DEF LinkRows
<1>2. ASSUME NEW k
      PROVE  /\ part(k) \in Seq(Nat) /\ Len(part(k)) = n
             /\ \A i \in 1..n : part(k)[i] = IF s[i].kind = k THEN s[i].score ELSE 0
  <2>1. part(k) \in [1..n -> Nat]
    BY <1>1
  <2>2. part(k) \in Seq(Nat) /\ Len(part(k)) = n
    BY <1>1, <2>1, ListOf
  <2>3. \A i \in 1..n : part(k)[i] = IF s[i].kind = k THEN s[i].score ELSE 0
    BY <1>1
  <2> QED
    BY <2>2, <2>3
<1>3. scored \in Seq(Nat) /\ Len(scored) = n /\ \A i \in 1..n : scored[i] = s[i].score
  <2>1. scored \in [1..n -> Nat] /\ \A i \in 1..n : scored[i] = s[i].score
    BY <1>1 DEF ScoresOf
  <2> HIDE DEF scored
  <2> QED
    BY <1>1, <2>1, ListOf
<1>4. \A k \in AnchorKinds : of[k] = Sum(part(k))
  OBVIOUS
<1> DEFINE a == part("branded")  b == part("topical")  c == part("url")
           d == part("generic")  e == part("other")
<1>5. /\ a \in Seq(Nat) /\ b \in Seq(Nat) /\ c \in Seq(Nat) /\ d \in Seq(Nat) /\ e \in Seq(Nat)
      /\ Len(a) = n /\ Len(b) = n /\ Len(c) = n /\ Len(d) = n /\ Len(e) = n
  BY <1>2
<1>6. ASSUME NEW i \in 1..n
      PROVE  /\ a[i] = (IF s[i].kind = "branded" THEN s[i].score ELSE 0)
             /\ b[i] = (IF s[i].kind = "topical" THEN s[i].score ELSE 0)
             /\ c[i] = (IF s[i].kind = "url" THEN s[i].score ELSE 0)
             /\ d[i] = (IF s[i].kind = "generic" THEN s[i].score ELSE 0)
             /\ e[i] = (IF s[i].kind = "other" THEN s[i].score ELSE 0)
  BY <1>2
<1>7. /\ of["branded"] = Sum(a) /\ of["topical"] = Sum(b) /\ of["url"] = Sum(c)
      /\ of["generic"] = Sum(d) /\ of["other"] = Sum(e)
  BY <1>4 DEF AnchorKinds
<1> HIDE DEF a, b, c, d, e, scored, part
<1>8. \A i \in 1..n : scored[i] = a[i] + b[i] + c[i] + d[i] + e[i]
  <2>1. SUFFICES ASSUME NEW i \in 1..n PROVE scored[i] = a[i] + b[i] + c[i] + d[i] + e[i]
    OBVIOUS
  <2>2. s[i].kind \in AnchorKinds /\ s[i].score \in Nat /\ scored[i] = s[i].score
    BY <1>1, <1>3
  <2> QED
    BY <1>6, <2>2 DEF AnchorKinds
<1>9. Sum(scored) = Sum(a) + Sum(b) + Sum(c) + Sum(d) + Sum(e)
  <2>1. \A i \in 1..Len(scored) : scored[i] = a[i] + b[i] + c[i] + d[i] + e[i]
    BY <1>3, <1>8
  <2>2. /\ Len(a) = Len(scored) /\ Len(b) = Len(scored) /\ Len(c) = Len(scored)
        /\ Len(d) = Len(scored) /\ Len(e) = Len(scored)
    BY <1>3, <1>5
  <2> HIDE DEF n
  <2> QED
    <3>1. FiveParts(scored, a, b, c, d, e)
      BY <1>3, <1>5, <2>1, <2>2 DEF FiveParts
    <3> QED
      BY <3>1, SumOfFive
<1> QED
  BY <1>7, <1>9 DEF scored

LEMMA ReportsTell == ASSUME ReportsOK, ReportInv PROVE ReportsWhole
<1>1. ReportTyped /\ AnswersTrue /\ ReportComplete /\ WalkHas /\ linkIndex \in Indexes
  BY DEF ReportInv, ReportTyped
<1> DEFINE index == linkIndex
           table(t) == index.rows[t]
<1>2. /\ index.inbound \in Nat /\ index.referring \in Nat
      /\ ~index.present => index.referring = 0 /\ \A t \in LinkTables : table(t) = <<>>
      /\ index.present <=> index.inbound > 0
  BY <1>1, IndexSays
<1>3. walk.state = "ended" =>
        /\ Len(walk.rows) = Len(table(walk.table)) /\ InOrder(walk.rows, 0, TableScores(walk.table))
  <2>1. walk.table \in LinkTables
    BY <1>1 DEF WalkHas, Walks
  <2>2. Len(TableScores(walk.table)) = Len(table(walk.table))
    BY <1>1, <2>1, TableList
  <2> QED
    BY <1>1, <2>2 DEF WalkHas, WalkedScores
<1>4. SUFFICES ASSUME linkReport.state = "given", linked, question.op # "gap"
      PROVE  /\ question.op \in {"summary", "rating"} => linkReport.inbound = index.inbound
             /\ question.op = "summary" =>
                  /\ linkReport.referring = index.referring
                  /\ BestOf(linkReport.rows, "referring_domains", SummaryTop)
                  /\ BestOf(linkReport.anchors, "anchors", SummaryTop)
             /\ question.op \in DOMAIN RowsOfOp /\ question.status \in {"any", "candidate"} =>
                  /\ linkReport.total = Len(table(RowsOfOp[question.op]))
                  /\ ShownPage(linkReport.rows, RowsOfOp[question.op])
             /\ question.op = "pages" =>
                  SharesTell(Placed("top_pages", linkReport.rows), linkReport.share)
             /\ question.op = "anchors" =>
                  LET of == linkReport.kinds IN
                  /\ BestOf(linkReport.rows, "anchors", LesserOf(question.limit, WorkerMax))
                  /\ Sum(ScoresOf(Placed("anchors", linkReport.rows)))
                       = of["branded"] + of["topical"] + of["url"] + of["generic"] + of["other"]
  BY <1>3, <1>4 DEF ReportsWhole
<1>5. PICK up \in BOOLEAN : linkReport = LinkReport(up)
  BY <1>1, <1>4 DEF ReportComplete
<1>6. \A e \in Endpoints : linkAnswers[e] \in TrueAnswers(e)
  BY <1>1, <1>4, SettledTrue DEF ReportComplete
<1>7. /\ IndexCounts.inbound = index.inbound /\ IndexCounts.referring = index.referring
      /\ \A t, k : \A answer \in TableRows(t, k) :
           answer.total = Len(table(t)) /\ answer.rows \in Rankings(TableScores(t), k)
  <2>1. IndexCounts.inbound = index.inbound /\ IndexCounts.referring = index.referring
    BY DEF IndexCounts, NoLinkAnswer
  <2>2. ASSUME NEW t, NEW k, NEW answer \in TableRows(t, k)
        PROVE  answer.total = Len(table(t)) /\ answer.rows \in Rankings(TableScores(t), k)
    BY DEF TableRows, NoLinkAnswer
  <2> QED
    BY <2>1, <2>2
<1>8. \A rows, total : Paged(rows, total).rows = SliceOf(rows) /\ Paged(rows, total).total = total
  BY DEF Paged, EmptyReport, NoLinkReport
<1>9. /\ RowsOfOp["referring"] = "referring_domains" /\ RowsOfOp["pages"] = "top_pages"
      /\ RowsOfOp["broken"] = "broken_backlink_candidates"
      /\ DOMAIN RowsOfOp = {"referring", "pages", "broken"}
  BY DEF RowsOfOp
<1>10. {"referring_domains", "anchors", "top_pages", "broken_backlink_candidates"} = LinkTables
  BY DEF LinkTables
<1>11. CASE question.op = "summary"
  <2> DEFINE k == SummaryTop
             domains == linkAnswers["backlinks"].rows
             anchors == linkAnswers["anchors"].rows
  <2>1. /\ linkAnswers["rating"] = IndexCounts
        /\ linkAnswers["backlinks"] \in TableRows("referring_domains", k)
        /\ linkAnswers["anchors"] \in TableRows("anchors", k)
    BY <1>6, <1>11 DEF Endpoints, TrueAnswers, AskedLimit
  <2>2. linkReport = GetSummary
    BY <1>4, <1>5, <1>11 DEF LinkReport
  <2>3. /\ domains \in Rankings(TableScores("referring_domains"), k)
        /\ anchors \in Rankings(TableScores("anchors"), k) /\ k \in Nat
    BY <1>7, <2>1, ReportNumbers
  <2> HIDE DEF k, domains, anchors
  <2>4. /\ Best(domains, k) = domains /\ BestOf(domains, "referring_domains", k)
        /\ Best(anchors, k) = anchors /\ BestOf(anchors, "anchors", k)
    BY <1>1, <1>10, <2>3, BestRows
  <2>5. CASE index.inbound = 0 /\ index.referring = 0
    <3>1. linkReport = EmptyReport
      BY <1>7, <2>1, <2>2, <2>5 DEF GetSummary
    <3>2. \A t \in LinkTables : index.rows[t] = <<>>
      BY <1>2, <2>5
    <3>3. \A t \in LinkTables : BestOf(<<>>, t, k)
      <4>1. LesserOf(k, 0) = 0 /\ Len(<<>>) = 0 /\ NoneTwice(<<>>)
        BY <2>3 DEF LesserOf, NoneTwice
      <4>2. \A t : InOrder(<<>>, 0, TableScores(t))
        BY DEF InOrder
      <4> QED
        BY <3>2, <4>1, <4>2 DEF BestOf
    <3>4. /\ EmptyReport.inbound = 0 /\ EmptyReport.referring = 0
          /\ EmptyReport.rows = <<>> /\ EmptyReport.anchors = <<>>
      BY DEF EmptyReport, NoLinkReport
    <3> QED
      BY <1>9, <1>10, <1>11, <2>5, <3>1, <3>3, <3>4 DEF k
  <2>6. CASE ~(index.inbound = 0 /\ index.referring = 0)
    <3>1. linkReport = [EmptyReport EXCEPT !.inbound = index.inbound, !.referring = index.referring,
                          !.rows = domains, !.anchors = anchors]
      <4>1. /\ linkAnswers["rating"].inbound = index.inbound
            /\ linkAnswers["rating"].referring = index.referring
        BY <1>7, <2>1
      <4>2. linkReport = [EmptyReport EXCEPT !.inbound = index.inbound, !.referring = index.referring,
                            !.rows = Best(domains, k), !.anchors = Best(anchors, k)]
        BY <2>2, <2>6, <4>1 DEF GetSummary, k, domains, anchors
      <4> QED
        BY <2>4, <4>2
    <3>2. /\ linkReport.inbound = index.inbound /\ linkReport.referring = index.referring
          /\ linkReport.rows = domains /\ linkReport.anchors = anchors
      BY <3>1 DEF EmptyReport, NoLinkReport
    <3> QED
      BY <1>9, <1>11, <2>4, <3>2 DEF k
  <2> QED
    BY <2>5, <2>6
<1>12. CASE question.op = "rating"
  <2>1. linkAnswers["rating"] = IndexCounts
    BY <1>6, <1>12 DEF Endpoints, TrueAnswers
  <2>2. linkReport = GetRating
    BY <1>4, <1>5, <1>12 DEF LinkReport
  <2>3. linkReport.inbound = index.inbound
    BY <1>7, <2>1, <2>2 DEF GetRating, EmptyReport, NoLinkReport
  <2> QED
    BY <1>9, <1>12, <2>3
<1>13. CASE question.op = "referring"
  <2>1. linkAnswers["backlinks"] \in TableRows("referring_domains", WorkerMax)
    BY <1>6, <1>13 DEF Endpoints, TrueAnswers
  <2>2. linkReport = GetReferringDomains
    BY <1>4, <1>5, <1>13 DEF LinkReport
  <2>3. /\ linkReport.total = Len(table("referring_domains"))
        /\ ShownPage(linkReport.rows, "referring_domains")
    BY <1>1, <1>7, <1>8, <1>10, <2>1, <2>2, PageShown DEF GetReferringDomains
  <2> QED
    BY <1>9, <1>13, <2>3
<1>14. CASE question.op = "broken"
  <2>1. linkAnswers["broken"] \in TableRows("broken_backlink_candidates", WorkerMax)
    BY <1>6, <1>14 DEF Endpoints, TrueAnswers
  <2>2. linkReport = GetBrokenBacklinks
    BY <1>4, <1>5, <1>14 DEF LinkReport
  <2>3. question.status \in {"any", "candidate"} =>
          /\ linkReport.total = Len(table("broken_backlink_candidates"))
          /\ ShownPage(linkReport.rows, "broken_backlink_candidates")
    BY <1>1, <1>7, <1>8, <1>10, <2>1, <2>2, PageShown DEF GetBrokenBacklinks
  <2> QED
    BY <1>9, <1>14, <2>3
<1>15. CASE question.op = "anchors"
  <2> DEFINE rows == linkAnswers["anchors"].rows
             terms == Placed("anchors", rows)
  <2>1. linkAnswers["anchors"] \in TableRows("anchors", AskedLimit)
    BY <1>6, <1>15 DEF Endpoints, TrueAnswers
  <2>2. AskedLimit = LesserOf(question.limit, WorkerMax) /\ AskedLimit \in Nat
    BY <1>1, <1>15, ReportNumbers DEF ReportTyped, AskedLimit, LesserOf
  <2>3. rows \in Rankings(TableScores("anchors"), AskedLimit)
    BY <1>7, <2>1
  <2>4. rows \in Seq(Nat) /\ BestOf(rows, "anchors", AskedLimit)
    BY <1>1, <1>10, <2>2, <2>3, BestRows
  <2>5. terms \in Seq(LinkRows)
    <3>1. InOrder(rows, 0, TableScores("anchors"))
      BY <2>4 DEF BestOf
    <3> HIDE DEF rows
    <3> QED
      BY <1>1, <1>10, <2>4, <3>1, PlacedList
  <2>6. linkReport = GetAnchors
    BY <1>4, <1>5, <1>15 DEF LinkReport
  <2>7. /\ linkReport.rows = rows
        /\ linkReport.kinds = [k \in AnchorKinds |->
             Sum([i \in DOMAIN terms |-> IF terms[i].kind = k THEN terms[i].score ELSE 0])]
    BY <2>6 DEF GetAnchors, EmptyReport, NoLinkReport
  <2>8. terms = Placed("anchors", linkReport.rows)
    BY <2>7
  <2> HIDE DEF terms, rows
  <2>9. Sum(ScoresOf(terms))
          = linkReport.kinds["branded"] + linkReport.kinds["topical"] + linkReport.kinds["url"]
            + linkReport.kinds["generic"] + linkReport.kinds["other"]
    BY <2>5, <2>7, KindsOfWhole
  <2> QED
    BY <1>9, <1>15, <2>2, <2>4, <2>7, <2>8, <2>9
<1>16. CASE question.op = "pages"
  <2> DEFINE r == linkAnswers["pages"].rows
             w == SliceOf(r)
             pages == Placed("top_pages", w)
  <2>1. linkAnswers["pages"] \in TableRows("top_pages", WorkerMax) /\ linkAnswers["summary"] = IndexCounts
    BY <1>6, <1>16 DEF Endpoints, TrueAnswers
  <2>2. linkReport = GetTopPages(up)
    BY <1>4, <1>5, <1>16 DEF LinkReport
  <2>3. /\ linkReport.rows = w /\ linkReport.total = Len(table("top_pages"))
        /\ linkReport.share = [i \in DOMAIN pages |->
             IF index.inbound > 0 THEN Hundredths(pages[i].score, index.inbound, up) ELSE 0]
    <3> DEFINE paged == Paged(linkAnswers["pages"].rows, linkAnswers["pages"].total)
    <3>1. paged.rows = w /\ paged.total = Len(table("top_pages"))
      BY <1>7, <1>8, <2>1
    <3>2. {"rows", "total", "share"} \subseteq DOMAIN paged
      BY DEF Paged, EmptyReport, NoLinkReport
    <3>3. linkReport = [paged EXCEPT !.share = [i \in DOMAIN Placed("top_pages", paged.rows) |->
            IF index.inbound > 0 THEN Hundredths(Placed("top_pages", paged.rows)[i].score, index.inbound, up)
            ELSE 0]]
      BY <1>7, <2>1, <2>2 DEF GetTopPages
    <3> HIDE DEF paged
    <3> QED
      BY <3>1, <3>2, <3>3
  <2>4. r \in Rankings(TableScores("top_pages"), WorkerMax)
    BY <1>7, <2>1
  <2> HIDE DEF r
  <2>5. /\ w \in Seq(Nat) /\ ShownPage(w, "top_pages")
        /\ \E before \in Nat : before + Len(w) <= Len(TableScores("top_pages"))
                               /\ InOrder(w, before, TableScores("top_pages"))
    BY <1>1, <1>10, <2>4, PageShown
  <2> HIDE DEF w
  <2>6. PICK before \in Nat : before + Len(w) <= Len(TableScores("top_pages"))
                              /\ InOrder(w, before, TableScores("top_pages"))
    BY <2>5
  <2>7. SharesTell(pages, linkReport.share)
    BY <1>1, <2>3, <2>5, <2>6, SharesOfWhole
  <2> QED
    BY <1>9, <1>16, <2>3, <2>5, <2>7
<1>17. question.op \in {"summary", "rating", "referring", "broken", "anchors", "pages"}
  BY <1>1, <1>4 DEF ReportTyped, ReportOps
<1> QED
  BY <1>11, <1>12, <1>13, <1>14, <1>15, <1>16, <1>17

-----------------------------------------------------------------------------
\* In every reachable state a client that has walked the pages of link data has what the
\* worker gives out, row by row with the scores of the best, a report that is given says what
\* the index says, and the sample is honest about what it is of: for every index, ties
\* included, every order rows that tie come in, page size and interleaving of the requests.
THEOREM LinksAreServed == ASSUME LinksOK PROVE LinksSpec => []LinksServed
<1>1. ReadsOK /\ ReportsOK /\ SampleOK
  BY DEF LinksOK
<1>2. ReadsInit => ReadsInv
  BY <1>1, ReadsStart
<1>3. ReadsInv /\ [ReadsNext]_readsVars => ReadsInv'
  BY <1>1, ReadsStep
<1>4. LinkReportsInit => ReportInv
  BY <1>1, ReportsStart
<1>5. ReportInv /\ [LinkReportsNext]_reportVars => ReportInv'
  BY <1>1, ReportsStep
<1>6. SampleInit => SampleInv
  BY <1>1, SampleStart
<1>7. SampleInv /\ [SampleNext]_sampleVars => SampleInv'
  BY <1>1, SampleStep
<1>8. ReadsInv /\ ReportInv /\ SampleInv => LinksServed
  BY <1>1, PagesTell, ReportsTell, SampleTells DEF LinksServed
<1> QED
  BY <1>2, <1>3, <1>4, <1>5, <1>6, <1>7, <1>8, PTL DEF LinksSpec, ReadsSpec, LinkReportsSpec, SampleSpec
=============================================================================
