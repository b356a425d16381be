---------------------------- MODULE ContentProofs ----------------------------
(***************************************************************************)
(* Theorems of what reads sites and of what is said of them: the crawl of  *)
(* a site, its score, and the readiness report.                            *)
(***************************************************************************)
EXTENDS SiteCrawl, Claims, ListTheorems, FiniteSetTheorems

-----------------------------------------------------------------------------
(***************************************************************************)
(* What a crawl computes: robots, the queue, the distances                 *)
(***************************************************************************)
Files(lines, maps) ==
  [ours : BOOLEAN, disallow : SUBSET UNION {lines[i].covers : i \in DOMAIN lines},
   allow : SUBSET UNION {lines[i].covers : i \in DOMAIN lines}, sitemaps : Seq(maps)]
NoLines == [ours |-> TRUE, disallow |-> {}, allow |-> {}, sitemaps |-> <<>>]
RobotsAdvance(lines, maps) ==
  [p \in (1..Len(lines)) \X Files(lines, maps) |-> RobotsLine(p[2], lines[p[1]])]

LEMMA ReadingRobotsSolves ==
  ASSUME NEW maps, NEW X, NEW lines \in Seq(X),
         \A i \in DOMAIN lines : lines[i].key \in RobotsKeys
           /\ (lines[i].key = "sitemap" => lines[i].sitemap \in maps)
  PROVE  Solves(ReadingRobots(lines), Len(lines), Files(lines, maps), NoLines, RobotsAdvance(lines, maps))
<1> DEFINE n == Len(lines)
           advance == RobotsAdvance(lines, maps)
           Next(g) == [i \in 0..n |-> IF i = 0 THEN NoLines ELSE RobotsLine(g[i - 1], lines[i])]
           k == ReadingRobots(lines)
<1>1. n \in Nat /\ NoLines \in Files(lines, maps) /\ DOMAIN lines = 1..n
  BY DEF NoLines, Files
<1>2. k = CHOOSE g : g = Next(g)
  BY DEF ReadingRobots, NoLines
<1>3. /\ advance \in Steps(n, Files(lines, maps))
      /\ \A i \in 1..n, l \in Files(lines, maps) : advance[<<i, l>>] = RobotsLine(l, lines[i])
  <2>1. ASSUME NEW i \in 1..n, NEW l \in Files(lines, maps)
        PROVE  RobotsLine(l, lines[i]) \in Files(lines, maps)
    <3>1. lines[i].key \in RobotsKeys /\ (lines[i].key = "sitemap" => lines[i].sitemap \in maps)
      BY <1>1
    <3>2. lines[i].covers \subseteq UNION {lines[j].covers : j \in DOMAIN lines}
      BY <1>1
    <3> DEFINE line == lines[i]
               D == UNION {lines[j].covers : j \in DOMAIN lines}
    <3>3. /\ line.key \in RobotsKeys /\ (line.key = "sitemap" => line.sitemap \in maps)
          /\ line.covers \subseteq D
      BY <3>1, <3>2
    <3>4. Files(lines, maps) =
            [ours : BOOLEAN, disallow : SUBSET D, allow : SUBSET D, sitemaps : Seq(maps)]
      BY DEF Files
    <3> HIDE DEF line, D
    <3>5. CASE line.key = "user-agent"
      <4>1. RobotsLine(l, line) = [l EXCEPT !.ours = line.agent \in {"any", "growthsent"}]
        BY <3>5 DEF RobotsLine
      <4>2. \A b \in BOOLEAN : [l EXCEPT !.ours = b] \in Files(lines, maps)
        BY <3>4
      <4>3. (line.agent \in {"any", "growthsent"}) \in BOOLEAN
        OBVIOUS
      <4> QED
        BY <4>1, <4>2, <4>3, Zenon DEF line
    <3>6. CASE line.key = "sitemap"
      <4>1. RobotsLine(l, line) = [l EXCEPT !.sitemaps = Append(@, line.sitemap)]
        BY <3>6 DEF RobotsLine
      <4>2. Append(l.sitemaps, line.sitemap) \in Seq(maps)
        BY <3>3, <3>4, <3>6
      <4> QED
        BY <3>4, <4>1, <4>2 DEF line
    <3>7. CASE line.key = "disallow" \/ line.key = "allow"
      <4>1. l.ours \in BOOLEAN
        BY <3>4
      <4>2. CASE ~l.ours
        <5>1. RobotsLine(l, line) = l
          BY <3>7, <4>2 DEF RobotsLine
        <5> QED
          BY <5>1 DEF line
      <4>3. CASE l.ours /\ line.key = "disallow"
        <5>1. RobotsLine(l, line) = [l EXCEPT !.disallow = @ \cup line.covers]
          BY <4>3 DEF RobotsLine
        <5> QED
          BY <3>3, <3>4, <5>1 DEF line
      <4>4. CASE l.ours /\ line.key = "allow"
        <5>1. RobotsLine(l, line) = [l EXCEPT !.allow = @ \cup line.covers]
          BY <4>4 DEF RobotsLine
        <5> QED
          BY <3>3, <3>4, <5>1 DEF line
      <4> QED
        BY <3>7, <4>1, <4>2, <4>3, <4>4
    <3> QED
      BY <3>3, <3>5, <3>6, <3>7 DEF RobotsKeys
  <2> QED
    BY <1>1, <2>1 DEF Steps, RobotsAdvance
<1> HIDE DEF n, advance, k
<1>4. PICK f : Solves(f, n, Files(lines, maps), NoLines, advance)
  BY <1>1, <1>3, RecursionSolved
<1>5. f = Next(f)
  <2>1. f \in [0..n -> Files(lines, maps)] /\ f[0] = NoLines /\ \A i \in 1..n : f[i] = advance[<<i, f[i - 1]>>]
    BY <1>4 DEF Solves
  <2>2. ASSUME NEW i \in 0..n PROVE f[i] = Next(f)[i]
    <3>1. CASE i = 0
      BY <2>1, <3>1
    <3>2. CASE i # 0
      <4>1. i \in 1..n /\ f[i - 1] \in Files(lines, maps)
        BY <1>1, <2>1, <3>2
      <4> QED
        BY <1>3, <2>1, <3>2, <4>1
    <3> QED
      BY <3>1, <3>2
  <2> QED
    BY <2>1, <2>2
<1>6. k = Next(k)
  BY <1>2, <1>5, Zenon
<1>7. \A i \in 0..n : k[i] = IF i = 0 THEN NoLines ELSE RobotsLine(k[i - 1], lines[i])
  BY <1>6
<1>8. k = [i \in 0..n |-> k[i]]
  BY <1>6
<1>9. k[0] = NoLines /\ \A i \in 1..n : k[i - 1] \in Files(lines, maps) => k[i] = advance[<<i, k[i - 1]>>]
  <2>1. 0 \in 0..n /\ \A i \in 1..n : i \in 0..n /\ i # 0
    BY <1>1
  <2> QED
    BY <1>3, <1>7, <2>1, Zenon
<1>10. Solves(k, n, Files(lines, maps), NoLines, advance)
  BY <1>1, <1>3, <1>8, <1>9, Unrolled
<1> QED
  BY <1>10 DEF k, n, advance

\* The sitemaps that robots.txt names are sitemaps.
LEMMA RobotsTyped ==
  ASSUME NEW maps, NEW X, NEW lines \in Seq(X),
         \A i \in DOMAIN lines : lines[i].key \in RobotsKeys
           /\ (lines[i].key = "sitemap" => lines[i].sitemap \in maps)
  PROVE  RobotsOf(lines).sitemaps \in Seq(maps)
<1> DEFINE advance == RobotsAdvance(lines, maps)
           k == ReadingRobots(lines)
<1>1. Solves(k, Len(lines), Files(lines, maps), NoLines, advance)
  BY ReadingRobotsSolves
<1> HIDE DEF k, advance
<1>2. k \in [0..Len(lines) -> Files(lines, maps)]
  BY <1>1 DEF Solves
<1>3. Len(lines) \in 0..Len(lines)
  OBVIOUS
<1>4. k[Len(lines)] \in Files(lines, maps)
  BY <1>2, <1>3
<1> QED
  BY <1>4 DEF k, RobotsOf, Files

Urls == DOMAIN input.host
Items == [url : Urls, depth : Nat]
Results == [url : Urls, depth : Nat, kind : {"disallowed", "failed", "html", "other"},
            links : Seq(Urls)]
Crawls == [pages : Seq(Results), queue : Seq(Items), dropped : BOOLEAN]
EnqueueAdvance(links, depth) ==
  [p \in (1..Len(links)) \X Crawls |-> Enqueued(p[2], links[p[1]], depth)]

LEMMA EnqueuingSolves ==
  ASSUME NEW crawl \in Crawls, NEW links \in Seq(Urls), NEW depth \in Nat
  PROVE  Solves(Enqueuing(crawl, links, depth), Len(links), Crawls, crawl, EnqueueAdvance(links, depth))
<1> DEFINE n == Len(links)
           advance == EnqueueAdvance(links, depth)
           Next(g) == [i \in 0..n |-> IF i = 0 THEN crawl ELSE Enqueued(g[i - 1], links[i], depth)]
           k == Enqueuing(crawl, links, depth)
<1>1. n \in Nat /\ \A i \in 1..n : links[i] \in Urls
  OBVIOUS
<1>2. k = CHOOSE g : g = Next(g)
  BY DEF Enqueuing
<1>3. /\ advance \in Steps(n, Crawls)
      /\ \A i \in 1..n, l \in Crawls : advance[<<i, l>>] = Enqueued(l, links[i], depth)
  <2>1. ASSUME NEW i \in 1..n, NEW l \in Crawls PROVE Enqueued(l, links[i], depth) \in Crawls
    <3> DEFINE item == [url |-> links[i], depth |-> depth]
    <3>1. item \in Items
      BY <1>1 DEF Items
    <3> HIDE DEF item
    <3>2. Append(l.queue, item) \in Seq(Items)
      BY <3>1 DEF Crawls
    <3>3. [l EXCEPT !.queue = Append(@, item)] \in Crawls /\ [l EXCEPT !.dropped = TRUE] \in Crawls
      BY <3>2 DEF Crawls
    <3> QED
      BY <3>3 DEF Enqueued, item
  <2> QED
    BY <1>1, <2>1 DEF Steps, EnqueueAdvance
<1> HIDE DEF n, advance, k
<1>4. PICK f : Solves(f, n, Crawls, crawl, advance)
  BY <1>1, <1>3, RecursionSolved
<1>5. f = Next(f)
  <2>1. f \in [0..n -> Crawls] /\ f[0] = crawl /\ \A i \in 1..n : f[i] = advance[<<i, f[i - 1]>>]
    BY <1>4 DEF Solves
  <2>2. ASSUME NEW i \in 0..n PROVE f[i] = Next(f)[i]
    <3>1. CASE i = 0
      BY <2>1, <3>1
    <3>2. CASE i # 0
      <4>1. i \in 1..n /\ f[i - 1] \in Crawls
        BY <1>1, <2>1, <3>2
      <4> QED
        BY <1>3, <2>1, <3>2, <4>1
    <3> QED
      BY <3>1, <3>2
  <2> QED
    BY <2>1, <2>2
<1>6. k = Next(k)
  BY <1>2, <1>5, Zenon
<1>7. \A i \in 0..n : k[i] = IF i = 0 THEN crawl ELSE Enqueued(k[i - 1], links[i], depth)
  BY <1>6
<1>8. k = [i \in 0..n |-> k[i]]
  BY <1>6
<1>9. k[0] = crawl /\ \A i \in 1..n : k[i - 1] \in Crawls => k[i] = advance[<<i, k[i - 1]>>]
  <2>1. 0 \in 0..n /\ \A i \in 1..n : i \in 0..n /\ i # 0
    BY <1>1
  <2> QED
    BY <1>3, <1>7, <2>1, Zenon
<1>10. Solves(k, n, Crawls, crawl, advance)
  BY <1>1, <1>3, <1>8, <1>9, Unrolled
<1> QED
  BY <1>10 DEF k, n, advance

CollectAdvance(batchResults) == [p \in (1..Len(batchResults)) \X Crawls |-> Collected(p[2], batchResults[p[1]])]

\* One result collected leaves a crawl a crawl.
LEMMA CollectedTyped ==
  ASSUME NEW crawl \in Crawls, NEW result \in Results
  PROVE  Collected(crawl, result) \in Crawls
<1> DEFINE kept == [crawl EXCEPT !.pages = Append(@, result)]
           k == Enqueuing(kept, result.links, result.depth + 1)
<1>1. kept \in Crawls /\ result.links \in Seq(Urls) /\ result.depth + 1 \in Nat
  <2>1. /\ crawl.pages \in Seq(Results) /\ result.links \in Seq(Urls) /\ result.depth \in Nat
        /\ crawl \in [pages : Seq(Results), queue : Seq(Items), dropped : BOOLEAN]
    BY DEF Crawls, Results
  <2>2. Append(crawl.pages, result) \in Seq(Results)
    BY <2>1
  <2>3. \A l \in Seq(Results) : [crawl EXCEPT !.pages = l] \in Crawls
    BY <2>1 DEF Crawls
  <2>4. result.depth + 1 \in Nat
    BY <2>1
  <2> QED
    BY <2>1, <2>2, <2>3, <2>4
<1>2. Solves(k, Len(result.links), Crawls, kept, EnqueueAdvance(result.links, result.depth + 1))
  BY <1>1, EnqueuingSolves
<1> HIDE DEF k
<1>3. k \in [0..Len(result.links) -> Crawls] /\ Len(result.links) \in 0..Len(result.links)
  BY <1>1, <1>2 DEF Solves
<1>4. k[Len(result.links)] \in Crawls
  BY <1>3
<1>5. Collected(crawl, result) = IF result.depth + 1 > input.maxDepth THEN kept ELSE k[Len(result.links)]
  BY DEF Collected, k
<1> HIDE DEF kept
<1> QED
  BY <1>1, <1>4, <1>5

LEMMA CollectingSolves ==
  ASSUME NEW crawl \in Crawls, NEW batchResults \in Seq(Results)
  PROVE  Solves(Collecting(crawl, batchResults), Len(batchResults), Crawls, crawl, CollectAdvance(batchResults))
<1> DEFINE n == Len(batchResults)
           advance == CollectAdvance(batchResults)
           Next(g) == [i \in 0..n |-> IF i = 0 THEN crawl ELSE Collected(g[i - 1], batchResults[i])]
           k == Collecting(crawl, batchResults)
<1>1. n \in Nat /\ \A i \in 1..n : batchResults[i] \in Results
  OBVIOUS
<1>2. k = CHOOSE g : g = Next(g)
  BY DEF Collecting
<1>3. /\ advance \in Steps(n, Crawls)
      /\ \A i \in 1..n, l \in Crawls : advance[<<i, l>>] = Collected(l, batchResults[i])
  <2>1. ASSUME NEW i \in 1..n, NEW l \in Crawls PROVE Collected(l, batchResults[i]) \in Crawls
    BY <1>1, CollectedTyped
  <2> QED
    BY <1>1, <2>1 DEF Steps, CollectAdvance
<1> HIDE DEF n, advance, k
<1>4. PICK f : Solves(f, n, Crawls, crawl, advance)
  BY <1>1, <1>3, RecursionSolved
<1>5. f = Next(f)
  <2>1. f \in [0..n -> Crawls] /\ f[0] = crawl /\ \A i \in 1..n : f[i] = advance[<<i, f[i - 1]>>]
    BY <1>4 DEF Solves
  <2>2. ASSUME NEW i \in 0..n PROVE f[i] = Next(f)[i]
    <3>1. CASE i = 0
      BY <2>1, <3>1
    <3>2. CASE i # 0
      <4>1. i \in 1..n /\ f[i - 1] \in Crawls
        BY <1>1, <2>1, <3>2
      <4> QED
        BY <1>3, <2>1, <3>2, <4>1
    <3> QED
      BY <3>1, <3>2
  <2> QED
    BY <2>1, <2>2
<1>6. k = Next(k)
  BY <1>2, <1>5, Zenon
<1>7. \A i \in 0..n : k[i] = IF i = 0 THEN crawl ELSE Collected(k[i - 1], batchResults[i])
  BY <1>6
<1>8. k = [i \in 0..n |-> k[i]]
  BY <1>6
<1>9. k[0] = crawl /\ \A i \in 1..n : k[i - 1] \in Crawls => k[i] = advance[<<i, k[i - 1]>>]
  <2>1. 0 \in 0..n /\ \A i \in 1..n : i \in 0..n /\ i # 0
    BY <1>1
  <2> QED
    BY <1>3, <1>7, <2>1, Zenon
<1>10. Solves(k, n, Crawls, crawl, advance)
  BY <1>1, <1>3, <1>8, <1>9, Unrolled
<1> QED
  BY <1>10 DEF k, n, advance

\* A list grown by elements of T, and what that keeps.
Grown(before, after, T) ==
  /\ Len(before) <= Len(after)
  /\ \A i \in 1..Len(before) : after[i] = before[i]
  /\ \A i \in (Len(before) + 1)..Len(after) : after[i] \in T

LEMMA GrownElements ==
  ASSUME NEW X, NEW s \in Seq(X), NEW t \in Seq(X), NEW T, Grown(s, t, T)
  PROVE  Elements(s) \subseteq Elements(t) /\ Elements(t) \subseteq Elements(s) \cup T
<1>1. /\ DOMAIN s = 1..Len(s) /\ DOMAIN t = 1..Len(t) /\ Len(s) \in Nat /\ Len(t) \in Nat
  OBVIOUS
<1>2. \A i \in DOMAIN s : i \in DOMAIN t /\ t[i] = s[i]
  BY <1>1 DEF Grown
<1>3. \A i \in DOMAIN t : (i \in DOMAIN s /\ t[i] = s[i]) \/ t[i] \in T
  BY <1>1 DEF Grown
<1> QED
  BY <1>2, <1>3 DEF Elements

LEMMA GrownAppend ==
  ASSUME NEW X, NEW s \in Seq(X), NEW t \in Seq(X), NEW T, Grown(s, t, T), NEW x \in T
  PROVE  Grown(s, Append(t, x), T)
<1> DEFINE d == Append(t, x)
<1>1. /\ Len(s) \in Nat /\ Len(t) \in Nat /\ Len(d) = Len(t) + 1 /\ d[Len(t) + 1] = x
      /\ \A i \in 1..Len(t) : d[i] = t[i]
  OBVIOUS
<1> HIDE DEF d
<1>2. Grown(s, d, T)
  BY <1>1 DEF Grown
<1> QED
  BY <1>2 DEF d

\* Every link of a page is visited already, is queued one deeper, or was refused.
Deeper(u, depth) == [url |-> u, depth |-> depth]
FreshLinks(links, depth) == {Deeper(u, depth) : u \in Elements(links) \ visited}
LinksEnqueued(crawl, links, depth, c) ==
  /\ c \in Crawls /\ c.pages = crawl.pages
  /\ Grown(crawl.queue, c.queue, FreshLinks(links, depth))
  /\ c.dropped = FALSE =>
       /\ crawl.dropped = FALSE
       /\ \A u \in Elements(links) : u \in visited \/ Deeper(u, depth) \in Elements(c.queue)
LEMMA AllEnqueued ==
  ASSUME NEW crawl \in Crawls, NEW links \in Seq(Urls), NEW depth \in Nat
  PROVE  LinksEnqueued(crawl, links, depth, Enqueuing(crawl, links, depth)[Len(links)])
<1> DEFINE n == Len(links)
           advance == EnqueueAdvance(links, depth)
           k == Enqueuing(crawl, links, depth)
           F == FreshLinks(links, depth)
           N == {i \in 0..n :
                   /\ k[i].pages = crawl.pages /\ Grown(crawl.queue, k[i].queue, F)
                   /\ k[i].dropped = FALSE =>
                        /\ crawl.dropped = FALSE
                        /\ \A j \in 1..i : \/ links[j] \in visited
                                           \/ Deeper(links[j], depth) \in Elements(k[i].queue)}
<1>1. n \in Nat /\ DOMAIN links = 1..n /\ \A i \in 1..n : links[i] \in Urls
  OBVIOUS
<1>2. \A i \in 1..n, l \in Crawls : advance[<<i, l>>] = Enqueued(l, links[i], depth)
  BY <1>1 DEF EnqueueAdvance
<1>3. Solves(k, n, Crawls, crawl, advance)
  BY EnqueuingSolves
<1>4. \A j \in 1..n : links[j] \in visited \/ Deeper(links[j], depth) \in F
  BY <1>1 DEF FreshLinks, Elements
<1> HIDE DEF n, advance, k, F
<1>5. /\ k \in [0..n -> Crawls] /\ k[0] = crawl
      /\ \A i \in 1..n : k[i - 1] \in Crawls /\ k[i] = Enqueued(k[i - 1], links[i], depth)
  <2>1. k \in [0..n -> Crawls] /\ k[0] = crawl /\ \A i \in 1..n : k[i] = advance[<<i, k[i - 1]>>]
    BY <1>3 DEF Solves
  <2>2. \A i \in 1..n : i - 1 \in 0..n
    BY <1>1
  <2> QED
    BY <1>2, <2>1, <2>2
<1>6. 0 \in N
  <2>1. Grown(crawl.queue, crawl.queue, F)
    BY DEF Grown, Crawls
  <2> QED
    BY <1>1, <1>5, <2>1
<1>7. ASSUME NEW i \in 0..(n - 1), i \in N PROVE i + 1 \in N
  <2>1. i + 1 \in 1..n /\ (i + 1) - 1 = i /\ i + 1 \in 0..n /\ 1..(i + 1) = 1..i \cup {i + 1}
    BY <1>1
  <2> DEFINE b == k[i]
             a == k[i + 1]
             u == links[i + 1]
             item == Deeper(u, depth)
  <2>2. b \in Crawls /\ a \in Crawls /\ a = Enqueued(b, u, depth) /\ u \in Urls
    BY <1>1, <1>5, <2>1
  <2>3. /\ b.pages = crawl.pages /\ Grown(crawl.queue, b.queue, F)
        /\ b.dropped = FALSE =>
             /\ crawl.dropped = FALSE
             /\ \A j \in 1..i : links[j] \in visited \/ Deeper(links[j], depth) \in Elements(b.queue)
    BY <1>7
  <2>4. u \in visited \/ item \in F
    BY <1>4, <2>1
  <2>5. SUFFICES /\ a.pages = crawl.pages /\ Grown(crawl.queue, a.queue, F)
                 /\ a.dropped = FALSE =>
                      /\ crawl.dropped = FALSE
                      /\ \A j \in 1..i : links[j] \in visited \/ Deeper(links[j], depth) \in Elements(a.queue)
                      /\ u \in visited \/ item \in Elements(a.queue)
    BY <2>1
  <2> HIDE DEF N, a, b, u, item
  <2>6. CASE u \in visited
    BY <2>2, <2>3, <2>6 DEF Enqueued
  <2>7. CASE u \notin visited /\ a = [b EXCEPT !.queue = Append(@, item)]
    <3>1. b.queue \in Seq(Items) /\ crawl.queue \in Seq(Items)
      BY <2>2 DEF Crawls
    <3>2. a.queue = Append(b.queue, item) /\ a.pages = b.pages /\ a.dropped = b.dropped
      BY <2>2, <2>7 DEF Crawls
    <3>3. Grown(crawl.queue, a.queue, F)
      BY <2>3, <2>4, <2>7, <3>1, <3>2, GrownAppend
    <3>4. Elements(a.queue) = Elements(b.queue) \cup {item}
      BY <3>1, <3>2, AppendedElements
    <3> QED
      BY <2>3, <3>2, <3>3, <3>4
  <2>8. CASE u \notin visited /\ a = [b EXCEPT !.dropped = TRUE]
    <3>1. a.queue = b.queue /\ a.pages = b.pages /\ a.dropped = TRUE
      BY <2>2, <2>8 DEF Crawls
    <3> QED
      BY <2>3, <3>1
  <2>9. \/ u \in visited
        \/ u \notin visited /\ a = [b EXCEPT !.queue = Append(@, item)]
        \/ u \notin visited /\ a = [b EXCEPT !.dropped = TRUE]
    BY <2>2 DEF Enqueued, item, Deeper
  <2> QED
    BY <2>6, <2>7, <2>8, <2>9
<1>8. n \in N
  <2> HIDE DEF N
  <2> QED
    BY <1>1, <1>6, <1>7, Induction
<1>9. k[n] \in Crawls
  BY <1>1, <1>5
<1>10. \A u \in Elements(links) : \E j \in 1..n : u = links[j]
  BY <1>1 DEF Elements
<1>11. LinksEnqueued(crawl, links, depth, k[n])
  BY <1>8, <1>9, <1>10 DEF F, LinksEnqueued
<1> QED
  BY <1>11 DEF k, n

\* One result: a page more, and its links one deeper unless they are too deep.
Discovered(result) ==
  IF result.depth + 1 > input.maxDepth THEN {} ELSE FreshLinks(result.links, result.depth + 1)
LinksTaken(result, q) ==
  result.depth < input.maxDepth =>
    \A u \in Elements(result.links) : u \in visited \/ Deeper(u, result.depth + 1) \in Elements(q)
LEMMA OneCollected ==
  ASSUME NEW crawl \in Crawls, NEW result \in Results, input.maxDepth \in Nat,
         NEW c, c = Collected(crawl, result)
  PROVE  /\ c \in Crawls /\ c.pages = Append(crawl.pages, result)
         /\ Grown(crawl.queue, c.queue, Discovered(result))
         /\ c.dropped = FALSE => crawl.dropped = FALSE /\ LinksTaken(result, c.queue)
<1> DEFINE kept == [crawl EXCEPT !.pages = Append(@, result)]
           rest == Enqueuing(kept, result.links, result.depth + 1)[Len(result.links)]
<1>1. /\ result.links \in Seq(Urls) /\ result.depth \in Nat /\ result.depth + 1 \in Nat
      /\ crawl.queue \in Seq(Items)
  BY DEF Results, Crawls
<1>2. /\ kept.pages = Append(crawl.pages, result) /\ kept.queue = crawl.queue
      /\ kept.dropped = crawl.dropped
  BY DEF Crawls
<1>3. kept \in Crawls
  <2>1. /\ crawl.pages \in Seq(Results)
        /\ \A l \in Seq(Results) : [crawl EXCEPT !.pages = l] \in Crawls
    BY DEF Crawls
  <2> QED
    BY <2>1, SMTT(30)
<1>4. c \in Crawls
  BY CollectedTyped
<1> HIDE DEF kept
<1>5. CASE result.depth + 1 > input.maxDepth
  <2>1. c = kept /\ Discovered(result) = {} /\ ~(result.depth < input.maxDepth)
    BY <1>1, <1>5 DEF Collected, Discovered, kept
  <2>2. Grown(crawl.queue, kept.queue, {})
    BY <1>1, <1>2 DEF Grown
  <2> QED
    BY <1>2, <1>4, <2>1, <2>2 DEF LinksTaken
<1>6. CASE ~(result.depth + 1 > input.maxDepth)
  <2>1. c = rest /\ Discovered(result) = FreshLinks(result.links, result.depth + 1)
    BY <1>1, <1>6 DEF Collected, Discovered, kept
  <2> HIDE DEF rest
  <2>2. /\ c.pages = kept.pages
        /\ Grown(kept.queue, c.queue, FreshLinks(result.links, result.depth + 1))
        /\ c.dropped = FALSE =>
             /\ kept.dropped = FALSE
             /\ \A u \in Elements(result.links) :
                  u \in visited \/ Deeper(u, result.depth + 1) \in Elements(c.queue)
    <3> DEFINE links == result.links
               depth == result.depth + 1
    <3>1. /\ links \in Seq(Urls) /\ depth \in Nat
          /\ c = Enqueuing(kept, links, depth)[Len(links)]
      BY <1>1, <2>1 DEF rest
    <3> HIDE DEF links, depth
    <3>2. LinksEnqueued(kept, links, depth, c)
      BY <1>3, <3>1, AllEnqueued, Zenon
    <3> QED
      BY <3>2 DEF links, depth, LinksEnqueued
  <2> QED
    BY <1>2, <1>4, <2>1, <2>2 DEF LinksTaken
<1> QED
  BY <1>5, <1>6

InOrder(s) == \A i, j \in DOMAIN s : i < j => s[i].depth <= s[j].depth
LEMMA GrownInOrder ==
  ASSUME NEW s \in Seq(Items), NEW t \in Seq(Items), NEW T, NEW d \in Nat, Grown(s, t, T),
         InOrder(s), \A x \in T : x.depth = d, \A x \in Elements(s) : x.depth <= d
  PROVE  InOrder(t) /\ \A x \in Elements(t) : x.depth <= d
<1>1. /\ DOMAIN s = 1..Len(s) /\ DOMAIN t = 1..Len(t) /\ Len(s) \in Nat /\ Len(t) \in Nat
      /\ \A i \in 1..Len(t) : t[i].depth \in Nat
  <2>1. /\ DOMAIN s = 1..Len(s) /\ DOMAIN t = 1..Len(t) /\ Len(s) \in Nat /\ Len(t) \in Nat
        /\ \A i \in 1..Len(t) : t[i] \in Items
    OBVIOUS
  <2> QED
    BY <2>1 DEF Items
<1>2. \A i \in 1..Len(t) :
        (i \in DOMAIN s /\ t[i] = s[i]) \/ (i \notin DOMAIN s /\ t[i].depth = d)
  <2>1. ASSUME NEW i \in 1..Len(t), i \notin DOMAIN s PROVE t[i] \in T
    <3>1. i \in (Len(s) + 1)..Len(t)
      BY <1>1, <2>1
    <3> QED
      BY <3>1 DEF Grown
  <2>2. ASSUME NEW i \in DOMAIN s PROVE t[i] = s[i]
    BY <1>1 DEF Grown
  <2> QED
    BY <2>1, <2>2
<1>3. \A i \in 1..Len(t) : t[i].depth <= d
  BY <1>1, <1>2, SMTT(30) DEF Elements
<1>4. ASSUME NEW i \in DOMAIN t, NEW j \in DOMAIN t, i < j PROVE t[i].depth <= t[j].depth
  <2>1. CASE j \in DOMAIN s
    <3>1. i \in DOMAIN s
      BY <1>1, <1>4, <2>1
    <3> QED
      BY <1>1, <1>2, <1>4, <2>1, <3>1 DEF InOrder
  <2>2. CASE j \notin DOMAIN s
    BY <1>1, <1>2, <1>3, <2>2
  <2> QED
    BY <2>1, <2>2
<1> QED
  BY <1>1, <1>3, <1>4 DEF InOrder, Elements

LEMMA GrownTwice ==
  ASSUME NEW X, NEW s \in Seq(X), NEW t \in Seq(X), NEW w \in Seq(X), NEW T, NEW U,
         Grown(s, t, T), Grown(t, w, U)
  PROVE  Grown(s, w, T \cup U)
<1>1. Len(s) \in Nat /\ Len(t) \in Nat /\ Len(w) \in Nat
  OBVIOUS
<1>2. Len(s) <= Len(w) /\ \A i \in 1..Len(s) : w[i] = s[i]
  BY <1>1 DEF Grown
<1>3. ASSUME NEW i \in (Len(s) + 1)..Len(w) PROVE w[i] \in T \cup U
  <2>1. CASE i \in 1..Len(t)
    <3>1. i \in (Len(s) + 1)..Len(t) /\ w[i] = t[i]
      BY <1>1, <1>3, <2>1 DEF Grown
    <3> QED
      BY <3>1 DEF Grown
  <2>2. CASE i \notin 1..Len(t)
    <3>1. i \in (Len(t) + 1)..Len(w)
      BY <1>1, <1>3, <2>2
    <3> QED
      BY <3>1 DEF Grown
  <2> QED
    BY <2>1, <2>2
<1> QED
  BY <1>2, <1>3 DEF Grown

\* A batch of results in the order of depth: the queue stays in that order.
ResultsTaken(crawl, batchResults, c) ==
  /\ c \in Crawls /\ Len(c.pages) = Len(crawl.pages) + Len(batchResults)
  /\ \A i \in 1..Len(crawl.pages) : c.pages[i] = crawl.pages[i]
  /\ \A i \in 1..Len(batchResults) : c.pages[Len(crawl.pages) + i] = batchResults[i]
  /\ InOrder(c.queue) /\ Elements(crawl.queue) \subseteq Elements(c.queue)
  /\ Elements(c.queue) \subseteq
       Elements(crawl.queue) \cup UNION {Discovered(r) : r \in Elements(batchResults)}
  /\ c.dropped = FALSE =>
       crawl.dropped = FALSE /\ \A r \in Elements(batchResults) : LinksTaken(r, c.queue)
LEMMA BatchCollected ==
  ASSUME NEW crawl \in Crawls, NEW batchResults \in Seq(Results), input.maxDepth \in Nat,
         InOrder(batchResults), InOrder(crawl.queue),
         \A q \in Elements(crawl.queue), r \in Elements(batchResults) : q.depth <= r.depth + 1,
         NEW c, c = Collecting(crawl, batchResults)[Len(batchResults)]
  PROVE  ResultsTaken(crawl, batchResults, c)
<1> DEFINE n == Len(batchResults)
           m == Len(crawl.pages)
           advance == CollectAdvance(batchResults)
           k == Collecting(crawl, batchResults)
           D(i) == UNION {Discovered(batchResults[j]) : j \in 1..i}
           Paged(i) == /\ Len(k[i].pages) = m + i
                       /\ \A j \in 1..m : k[i].pages[j] = crawl.pages[j]
                       /\ \A j \in 1..i : k[i].pages[m + j] = batchResults[j]
           Queued(i) == /\ Grown(crawl.queue, k[i].queue, D(i)) /\ InOrder(k[i].queue)
                        /\ \A q \in Elements(k[i].queue), j \in 1..n :
                             j >= i => q.depth <= batchResults[j].depth + 1
           Taken(i) == k[i].dropped = FALSE =>
                         crawl.dropped = FALSE /\ \A j \in 1..i : LinksTaken(batchResults[j], k[i].queue)
           N == {i \in 0..n : Paged(i) /\ Queued(i) /\ Taken(i)}
<1>1. /\ n \in Nat /\ m \in Nat /\ DOMAIN batchResults = 1..n /\ \A i \in 1..n : batchResults[i] \in Results
      /\ \A i \in 1..n : batchResults[i].depth \in Nat /\ batchResults[i] \in Elements(batchResults)
      /\ \A r \in Elements(batchResults) : \E i \in 1..n : r = batchResults[i]
  <2>1. crawl.pages \in Seq(Results)
    BY DEF Crawls
  <2>2. /\ n \in Nat /\ m \in Nat /\ DOMAIN batchResults = 1..n
        /\ \A i \in 1..n : batchResults[i] \in Results
    BY <2>1
  <2>3. \A x \in Results : x.depth \in Nat
    BY DEF Results
  <2> QED
    BY <2>2, <2>3 DEF Elements
<1>2. \A i \in 1..n, l \in Crawls : advance[<<i, l>>] = Collected(l, batchResults[i])
  BY <1>1 DEF CollectAdvance
<1>3. Solves(k, n, Crawls, crawl, advance)
  BY CollectingSolves
<1> HIDE DEF n, m, advance, k
<1>4. /\ k \in [0..n -> Crawls] /\ k[0] = crawl
      /\ \A i \in 1..n : k[i - 1] \in Crawls /\ k[i] = Collected(k[i - 1], batchResults[i])
  <2>1. k \in [0..n -> Crawls] /\ k[0] = crawl /\ \A i \in 1..n : k[i] = advance[<<i, k[i - 1]>>]
    BY <1>3 DEF Solves
  <2>2. \A i \in 1..n : i - 1 \in 0..n
    BY <1>1
  <2> QED
    BY <1>2, <2>1, <2>2
<1>5. 0 \in N
  <2>1. Grown(crawl.queue, crawl.queue, D(0))
    BY DEF Grown, Crawls
  <2>2. Paged(0)
    BY <1>1, <1>4 DEF m
  <2>3. Queued(0)
    BY <1>1, <1>4, <2>1
  <2>4. Taken(0)
    BY <1>4
  <2> QED
    BY <1>1, <2>2, <2>3, <2>4
<1>6. ASSUME NEW i \in 0..(n - 1), i \in N PROVE i + 1 \in N
  <2>1. i + 1 \in 1..n /\ (i + 1) - 1 = i /\ i + 1 \in 0..n /\ 1..(i + 1) = 1..i \cup {i + 1}
    BY <1>1
  <2>2. Paged(i) /\ Queued(i) /\ Taken(i)
    BY <1>6
  <2> DEFINE b == k[i]
             a == k[i + 1]
             r == batchResults[i + 1]
  <2>3. /\ b \in Crawls /\ a = Collected(b, r) /\ r \in Results /\ r.depth \in Nat
        /\ r.depth + 1 \in Nat
    <3>1. k[i] \in Crawls
      <4>1. k[(i + 1) - 1] \in Crawls
        BY <1>4, <2>1, Zenon
      <4> QED
        BY <2>1, <4>1
    <3>2. batchResults[i + 1] \in Results /\ batchResults[i + 1].depth \in Nat
      BY <1>1, <2>1, Zenon
    <3>3. k[i + 1] = Collected(k[(i + 1) - 1], batchResults[i + 1])
      BY <1>4, <2>1, Zenon
    <3> QED
      BY <2>1, <3>1, <3>2, <3>3
  <2>4. /\ a \in Crawls /\ a.pages = Append(b.pages, r)
        /\ Grown(b.queue, a.queue, Discovered(r))
        /\ a.dropped = FALSE => b.dropped = FALSE /\ LinksTaken(r, a.queue)
    <3> HIDE DEF a, b, r
    <3> QED
      BY <2>3, OneCollected
  <2>5. b.queue \in Seq(Items) /\ a.queue \in Seq(Items) /\ crawl.queue \in Seq(Items)
        /\ b.pages \in Seq(Results)
    BY <2>3, <2>4 DEF Crawls
  <2>6. Elements(b.queue) \subseteq Elements(a.queue)
    BY <2>4, <2>5, GrownElements
  <2>7. Paged(i + 1)
    <3>1. Len(b.pages) = m + i /\ Len(a.pages) = m + i + 1 /\ a.pages[m + i + 1] = r
          /\ \A j \in 1..(m + i) : a.pages[j] = b.pages[j]
      <4>1. Len(b.pages) = m + i /\ m + i \in Nat
        BY <1>1, <2>2
      <4> HIDE DEF a, b, r
      <4> QED
        BY <2>4, <2>5, <4>1
    <3>2. \A j \in 1..i : m + j \in 1..(m + i)
      BY <1>1
    <3>3. \A j \in 1..m : j \in 1..(m + i)
      BY <1>1
    <3>4. ASSUME NEW j \in 1..(i + 1) PROVE a.pages[m + j] = batchResults[j]
      <4>1. CASE j = i + 1
        <5>1. m + j = m + i + 1
          BY <1>1, <4>1
        <5> QED
          BY <3>1, <4>1, <5>1
      <4>2. CASE j \in 1..i
        BY <2>2, <3>1, <3>2, <4>2
      <4> QED
        BY <2>1, <4>1, <4>2
    <3>5. \A j \in 1..m : a.pages[j] = crawl.pages[j]
      BY <2>2, <3>1, <3>3
    <3>6. Len(a.pages) = m + (i + 1)
      BY <1>1, <3>1
    <3> QED
      BY <3>4, <3>5, <3>6
  <2>8. Queued(i + 1)
    <3>1. D(i + 1) = D(i) \cup Discovered(r)
      BY <2>1
    <3>2. Grown(crawl.queue, a.queue, D(i + 1))
      <4> HIDE DEF a, b, r, D
      <4>1. Grown(crawl.queue, b.queue, D(i))
        BY <2>2 DEF b
      <4> QED
        BY <2>4, <2>5, <3>1, <4>1, GrownTwice
    <3>3. \A x \in Discovered(r) : x.depth = r.depth + 1
      BY DEF Discovered, FreshLinks, Deeper
    <3>4. InOrder(b.queue) /\ \A q \in Elements(b.queue) : q.depth <= r.depth + 1
      BY <2>1, <2>2
    <3>5. InOrder(a.queue) /\ \A q \in Elements(a.queue) : q.depth <= r.depth + 1
      <4> DEFINE d == r.depth + 1
                 T == Discovered(r)
      <4>1. /\ d \in Nat /\ b.queue \in Seq(Items) /\ a.queue \in Seq(Items)
            /\ Grown(b.queue, a.queue, T) /\ InOrder(b.queue)
            /\ (\A x \in T : x.depth = d) /\ \A q \in Elements(b.queue) : q.depth <= d
        BY <2>3, <2>4, <2>5, <3>3, <3>4
      <4> HIDE DEF a, b, d, T
      <4>2. InOrder(a.queue) /\ \A q \in Elements(a.queue) : q.depth <= d
        BY <4>1, GrownInOrder
      <4> QED
        BY <4>2 DEF d
    <3>6. \A j \in 1..n : j >= i + 1 => r.depth <= batchResults[j].depth
      BY <1>1, <2>1, SMTT(30) DEF InOrder
    <3>7. \A q \in Elements(a.queue) : q.depth \in Nat
      <4>1. \A x \in Items : x.depth \in Nat
        BY DEF Items
      <4>2. \A j \in DOMAIN a.queue : a.queue[j] \in Items
        BY <2>5
      <4> QED
        BY <4>1, <4>2 DEF Elements
    <3>8. \A q \in Elements(a.queue), j \in 1..n : j >= i + 1 => q.depth <= batchResults[j].depth + 1
      <4> HIDE DEF a, b, r
      <4> QED
        BY <1>1, <2>3, <3>5, <3>6, <3>7, SMTT(30)
    <3> QED
      BY <3>2, <3>5, <3>8
  <2>9. Taken(i + 1)
    <3>1. \A x : LinksTaken(x, b.queue) => LinksTaken(x, a.queue)
      BY <2>6 DEF LinksTaken
    <3> QED
      BY <2>1, <2>2, <2>4, <3>1
  <2> QED
    BY <2>1, <2>7, <2>8, <2>9
<1>7. n \in N
  <2>1. n \in Nat /\ 0 \in N /\ \A i \in 0..(n - 1) : i \in N => i + 1 \in N
    BY <1>1, <1>5, <1>6
  <2> HIDE DEF N
  <2>2. \A i \in 0..n : i \in N
    BY <2>1, Induction, Zenon
  <2> QED
    BY <2>1, <2>2
<1>8. c = k[n] /\ c \in Crawls
  BY <1>1, <1>4 DEF k, n
<1>9. Paged(n) /\ Queued(n) /\ Taken(n)
  BY <1>7
<1>10. D(n) = UNION {Discovered(r) : r \in Elements(batchResults)}
  BY <1>1
<1>11. /\ Elements(crawl.queue) \subseteq Elements(c.queue)
       /\ Elements(c.queue) \subseteq Elements(crawl.queue) \cup D(n)
  <2>1. crawl.queue \in Seq(Items) /\ c.queue \in Seq(Items)
    BY <1>8 DEF Crawls
  <2>2. Grown(crawl.queue, c.queue, D(n))
    BY <1>8, <1>9
  <2> HIDE DEF D
  <2> QED
    BY <2>1, <2>2, GrownElements
<1> QED
  BY <1>1, <1>8, <1>9, <1>10, <1>11 DEF n, m, ResultsTaken

-----------------------------------------------------------------------------
(***************************************************************************)
(* The crawl                                                               *)
(***************************************************************************)
Waiting == Elements(batch) \cup Elements(queue)

CrawlTyped ==
  /\ input \in Inputs /\ robots.sitemaps \in Seq(DOMAIN input.sitemap) /\ seeds \in Seq(Urls)
  /\ queue \in Seq(Items) /\ batch \in Seq(Items) /\ pages \in Seq(Results)
  /\ visited \subseteq Urls /\ dropped \in BOOLEAN /\ lost \in Nat
  /\ stage \in {"robots", "sitemaps", "taking", "done"}
  /\ stage \in {"robots", "sitemaps"} => queue = <<>> /\ batch = <<>> /\ pages = <<>>
  /\ stage = "done" => batch = <<>> /\ ~BatchOpen /\ root = RootOf(pages)

\* What is visited has a result or is being fetched, and only once.
VisitedOnce ==
  /\ visited = {x.url : x \in Elements(pages) \cup Elements(batch)}
  /\ \A i, j \in DOMAIN pages : pages[i].url = pages[j].url => i = j
  /\ \A i, j \in DOMAIN batch : batch[i].url = batch[j].url => i = j
  /\ \A p \in Elements(pages), b \in Elements(batch) : p.url # b.url
  /\ Len(pages) + Len(batch) <= input.maxPages
  /\ \A x \in Elements(pages) \cup Elements(batch) : x.depth <= input.maxDepth

\* The queue is in the order of depth, behind the batch, and the two span two depths.
Layered ==
  /\ InOrder(batch) /\ InOrder(queue)
  /\ \A p \in Elements(pages), x \in Waiting : p.depth <= x.depth
  /\ \A b \in Elements(batch), q \in Elements(queue) : b.depth <= q.depth
  /\ \A x, y \in Waiting : x.depth <= y.depth + 1

\* Nothing is crawled that is not the start, a seed, or a link of a page one less deep.
Origin(x) ==
  \/ x.depth = 0 /\ x.url = input.start
  \/ x.depth = 1 /\ x.url \in SeedsInScope
  \/ \E p \in Elements(pages) : x.depth = p.depth + 1 /\ x.url \in Elements(p.links)
Rooted == \A x \in Elements(pages) \cup Waiting : Origin(x)

\* What a page above the last depth links to is known, unless something was refused.
Known(url, d) == \E x \in Elements(pages) \cup Waiting : x.url = url /\ x.depth <= d
LinksKnown(p) == \A url \in Elements(p.links) : Known(url, p.depth + 1)
Covered ==
  stage \in {"taking", "done"} =>
    /\ Known(input.start, 0)
    /\ ~dropped => /\ input.maxDepth > 0 => \A url \in SeedsInScope : Known(url, 1)
                   /\ \A p \in Elements(pages) : p.depth < input.maxDepth => LinksKnown(p)

CrawlInv == CrawlTyped /\ VisitedOnce /\ Layered /\ Rooted /\ Covered

CrawlSite(in) ==
  /\ in.maxPages \in Nat \ {0} /\ in.concurrency \in Nat \ {0} /\ in.maxDepth \in Nat
  /\ in.start \in DOMAIN in.host
LEMMA SiteOf == ASSUME CrawlOK, input \in Inputs PROVE CrawlSite(input) /\ SiteOK(input)
  BY DEF CrawlOK, SiteOK, CrawlSite

LEMMA ElementsOf ==
  ASSUME NEW X, NEW s \in Seq(X)
  PROVE  /\ Elements(s) \subseteq X /\ Len(s) \in Nat /\ DOMAIN s = 1..Len(s)
         /\ \A i \in DOMAIN s : s[i] \in Elements(s)
         /\ \A x \in Elements(s) : \E i \in DOMAIN s : x = s[i]
  BY DEF Elements

LEMMA ItemsTyped ==
  ASSUME CrawlTyped
  PROVE  /\ \A x \in Elements(pages) :
              x.depth \in Nat /\ x.url \in Urls /\ x.links \in Seq(Urls)
              /\ x.kind \in {"disallowed", "failed", "html", "other"}
         /\ \A x \in Waiting : x.depth \in Nat /\ x.url \in Urls
         /\ Elements(seeds) \subseteq Urls
<1>1. queue \in Seq(Items) /\ batch \in Seq(Items) /\ pages \in Seq(Results) /\ seeds \in Seq(Urls)
  BY DEF CrawlTyped
<1>2. Elements(pages) \subseteq Results /\ Waiting \subseteq Items /\ Elements(seeds) \subseteq Urls
  BY <1>1, ElementsOf DEF Waiting
<1> QED
  BY <1>2 DEF Results, Items

LEMMA CrawlStarts == ASSUME CrawlOK, CrawlInit PROVE CrawlInv
<1>1. /\ input \in Inputs /\ robots.sitemaps = <<>> /\ seeds = <<>> /\ queue = <<>> /\ visited = {}
      /\ batch = <<>> /\ pages = <<>> /\ dropped = FALSE /\ lost = 0 /\ stage = "robots"
  BY DEF CrawlInit, NoRobots
<1>2. Elements(<<>>) = {}
  BY DEF Elements
<1>3. CrawlTyped
  <2>1. \A X : <<>> \in Seq(X)
    OBVIOUS
  <2>2. stage # "done" /\ dropped \in BOOLEAN /\ lost \in Nat /\ visited \subseteq Urls
    BY <1>1
  <2> QED
    BY <1>1, <2>1, <2>2 DEF CrawlTyped
<1>4. VisitedOnce
  <2>1. input.maxPages \in Nat
    BY <1>1, SiteOf DEF CrawlSite
  <2> QED
    BY <1>1, <1>2, <2>1 DEF VisitedOnce
<1>5. Layered /\ Rooted /\ Covered
  BY <1>1, <1>2 DEF Layered, Rooted, Covered, Waiting, InOrder
<1> QED
  BY <1>3, <1>4, <1>5 DEF CrawlInv

LEMMA RobotsRead == ASSUME CrawlOK, CrawlInv, ReadRobots PROVE CrawlInv'
<1>1. /\ stage = "robots" /\ stage' = "sitemaps" /\ robots'.sitemaps = RobotsOf(input.robots).sitemaps
      /\ UNCHANGED <<input, seeds, queue, visited, batch, pages, dropped, lost, root>>
  BY DEF ReadRobots
<1>2. CrawlTyped /\ input \in Inputs /\ queue = <<>> /\ batch = <<>> /\ pages = <<>>
  BY <1>1 DEF CrawlInv, CrawlTyped
<1>3. RobotsOf(input.robots).sitemaps \in Seq(DOMAIN input.sitemap)
  <2> DEFINE lines == input.robots
             maps == DOMAIN input.sitemap
             X == {lines[i] : i \in DOMAIN lines}
  <2>1. /\ lines \in Seq(X)
        /\ \A i \in DOMAIN lines : lines[i].key \in RobotsKeys
             /\ (lines[i].key = "sitemap" => lines[i].sitemap \in maps)
    BY <1>2, SiteOf DEF SiteOK
  <2> HIDE DEF lines, maps, X
  <2>2. RobotsOf(lines).sitemaps \in Seq(maps)
    BY <2>1, RobotsTyped
  <2> QED
    BY <2>2 DEF lines, maps
<1>4. CrawlTyped'
  BY <1>1, <1>2, <1>3 DEF CrawlTyped, Items, Results, Urls
<1>5. VisitedOnce'
  BY <1>1 DEF CrawlInv, VisitedOnce
<1>6. Elements(<<>>) = {}
  BY DEF Elements
<1>7. (Layered /\ Rooted /\ Covered)'
  BY <1>1, <1>2, <1>6 DEF Layered, Rooted, Covered, Waiting, InOrder
<1> QED
  BY <1>4, <1>5, <1>7 DEF CrawlInv

\* What the queue is filled with: the start, and URLs of the sitemaps in the crawl's scope.
LEMMA SeededQueue ==
  ASSUME NEW urls \in Seq(Urls), CrawlSite(input)
  PROVE  /\ Seeded(urls) \in Seq(Items) /\ InOrder(Seeded(urls))
         /\ Deeper(input.start, 0) \in Elements(Seeded(urls))
         /\ \A x \in Elements(Seeded(urls)) :
              \/ x.depth = 0 /\ x.url = input.start
              \/ x.depth = 1 /\ x.url \in Elements(urls) \cap Scope
<1> DEFINE scoped == Filtered(urls, Scope)
           more == [i \in DOMAIN scoped |-> [url |-> scoped[i], depth |-> 1]]
           one == <<Deeper(input.start, 0)>>
           all == one \o more
           s == FirstOf(all, input.maxPages)
<1>1. scoped \in Seq(Urls) /\ Elements(scoped) = Elements(urls) \cap Scope
  BY FilteredList
<1> HIDE DEF scoped
<1>2. /\ more \in Seq(Items) /\ Len(more) = Len(scoped)
      /\ \A i \in DOMAIN more : more[i].depth = 1 /\ more[i].url \in Elements(urls) \cap Scope
  <2>1. /\ Len(scoped) \in Nat /\ DOMAIN scoped = 1..Len(scoped)
        /\ \A i \in DOMAIN scoped : scoped[i] \in Urls /\ scoped[i] \in Elements(scoped)
    BY <1>1 DEF Elements
  <2>2. DOMAIN more = 1..Len(scoped) /\ \A i \in DOMAIN more : more[i] \in Items
    BY <2>1 DEF Items
  <2>3. more \in [1..Len(scoped) -> Items]
    BY <2>2
  <2>4. more \in Seq(Items)
    BY <2>1, <2>3
  <2>5. \A i \in DOMAIN more : more[i].depth = 1 /\ more[i].url \in Elements(urls) \cap Scope
    BY <1>1, <2>1
  <2> QED
    BY <2>1, <2>2, <2>4, <2>5
<1>3. one \in Seq(Items) /\ Len(one) = 1 /\ one[1] = Deeper(input.start, 0)
  <2>1. Deeper(input.start, 0) \in Items
    BY DEF CrawlSite, Deeper, Items, Urls
  <2> QED
    BY <2>1
<1> HIDE DEF more, one
<1>4. /\ all \in Seq(Items) /\ Len(all) = 1 + Len(more) /\ all[1] = Deeper(input.start, 0)
      /\ \A i \in DOMAIN all : i # 1 => all[i].depth = 1 /\ all[i].url \in Elements(urls) \cap Scope
  <2>1. /\ all \in Seq(Items) /\ Len(all) = 1 + Len(more) /\ all[1] = one[1]
        /\ Len(more) \in Nat /\ DOMAIN all = 1..Len(all) /\ DOMAIN more = 1..Len(more)
        /\ \A i \in DOMAIN more : all[1 + i] = more[i]
    <3>1. /\ all \in Seq(Items) /\ Len(more) \in Nat /\ DOMAIN more = 1..Len(more)
          /\ DOMAIN one = 1..Len(one)
          /\ Len(all) = Len(one) + Len(more) /\ DOMAIN all = 1..(Len(one) + Len(more))
          /\ \A i \in 1..Len(one) : all[i] = one[i]
          /\ \A i \in 1..Len(more) : all[Len(one) + i] = more[i]
      <4>1. one \in Seq(Items) /\ more \in Seq(Items)
        BY <1>2, <1>3
      <4> QED
        BY <4>1
    <3> HIDE DEF all
    <3> QED
      BY <1>3, <3>1
  <2>2. \A i \in DOMAIN all : i # 1 => i - 1 \in DOMAIN more /\ i = 1 + (i - 1)
    BY <2>1
  <2> HIDE DEF all
  <2> QED
    BY <1>2, <1>3, <2>1, <2>2
<1> HIDE DEF all
<1>5. /\ s \in Seq(Items) /\ Len(s) >= 1 /\ Len(s) \in Nat /\ DOMAIN s = 1..Len(s)
      /\ \A i \in DOMAIN s : i \in DOMAIN all /\ s[i] = all[i]
  <2>1. input.maxPages \in Nat /\ input.maxPages >= 1 /\ Len(all) >= 1
    BY <1>2, <1>4 DEF CrawlSite
  <2>2. /\ s \in Seq(Items) /\ Len(s) = IF Len(all) < input.maxPages THEN Len(all) ELSE input.maxPages
        /\ \A i \in DOMAIN s : i \in DOMAIN all /\ s[i] = all[i]
    BY <1>4, <2>1, FirstElements
  <2> HIDE DEF s
  <2> QED
    BY <2>1, <2>2
<1>6. Seeded(urls) = s
  BY DEF Seeded, s, all, one, more, scoped, Deeper
<1> HIDE DEF s
<1>7. \A i \in DOMAIN s : i # 1 => s[i].depth = 1 /\ s[i].url \in Elements(urls) \cap Scope
  BY <1>4, <1>5
<1>8. 1 \in DOMAIN s /\ s[1] = Deeper(input.start, 0) /\ s[1].depth = 0 /\ s[1].url = input.start
  BY <1>4, <1>5 DEF Deeper
<1>9. InOrder(s)
  BY <1>5, <1>7, <1>8 DEF InOrder
<1>10. Deeper(input.start, 0) \in Elements(s)
  BY <1>8 DEF Elements
<1>11. \A x \in Elements(s) : \/ x.depth = 0 /\ x.url = input.start
                              \/ x.depth = 1 /\ x.url \in Elements(urls) \cap Scope
  BY <1>7, <1>8 DEF Elements
<1> QED
  BY <1>5, <1>6, <1>9, <1>10, <1>11

LEMMA SitemapsTyped ==
  ASSUME CrawlOK, CrawlTyped PROVE SitemapUrls \in Seq(Urls)
<1> DEFINE maps == DOMAIN input.sitemap
           listed == UrlsListed
           scoped == UrlsInScope
           children == ChildrenListed
<1>1. /\ {1, 2} \subseteq maps /\ MaxChildren \in Nat
      /\ \A m \in maps : /\ input.sitemap[m].urls \in Seq(Urls)
                         /\ input.sitemap[m].children \in Seq(maps)
  BY SiteOf DEF CrawlTyped, CrawlOK, SiteOK, Urls
<1>2. listed \in [maps -> Seq(Urls)] /\ children \in [maps -> Seq(maps)]
  <2>1. <<>> \in Seq(Urls) /\ <<>> \in Seq(maps)
    OBVIOUS
  <2> HIDE DEF Urls
  <2> QED
    BY <1>1, <2>1 DEF UrlsListed, ChildrenListed
<1>3. scoped \in [maps -> Seq(Urls)]
  <2>1. \A m \in maps : listed[m] \in Seq(Urls)
    BY <1>2
  <2>2. \A m \in maps : Filtered(listed[m], Scope) \in Seq(Urls)
    BY <2>1, FilteredList
  <2> QED
    BY <2>2 DEF UrlsInScope
<1>4. Candidates \in Seq(maps)
  <2>1. robots.sitemaps \in Seq(maps)
    BY DEF CrawlTyped
  <2>2. <<1, 2>> \in Seq(maps)
    <3>1. ASSUME NEW M, 1 \in M, 2 \in M PROVE <<1, 2>> \in Seq(M)
      BY <3>1
    <3>2. 1 \in maps /\ 2 \in maps
      BY <1>1
    <3> HIDE DEF maps
    <3> QED
      BY <3>1, <3>2
  <2>3. Distinct(robots.sitemaps) \in Seq(maps)
    BY <2>1, DistinctList
  <2> QED
    BY <2>2, <2>3 DEF Candidates
<1> HIDE DEF maps, listed, scoped, children
<1>5. Concatenated(Candidates, listed) \in Seq(Urls) /\ Concatenated(Candidates, children) \in Seq(maps)
  BY <1>2, <1>4, ConcatenatedList
<1>6. Followed \in Seq(maps)
  BY <1>1, <1>5, FirstElements DEF Followed, children
<1>7. Concatenated(Followed, scoped) \in Seq(Urls)
  BY <1>3, <1>6, ConcatenatedList
<1>8. Concatenated(Candidates, listed) \o Concatenated(Followed, scoped) \in Seq(Urls)
  BY <1>5, <1>7, JoinedElements
<1>9. Distinct(Concatenated(Candidates, listed) \o Concatenated(Followed, scoped)) \in Seq(Urls)
  BY <1>8, DistinctList
<1> QED
  BY <1>9 DEF SitemapUrls, listed, scoped

LEMMA SitemapsRead == ASSUME CrawlOK, CrawlInv, ReadSitemaps PROVE CrawlInv'
<1>1. /\ stage = "sitemaps" /\ stage' = "taking" /\ seeds' = SitemapUrls /\ queue' = Seeded(seeds')
      /\ dropped' = \E url \in Elements(seeds') \cap Scope :
                       \A i \in DOMAIN queue' : queue'[i].url # url
      /\ UNCHANGED <<input, robots, visited, batch, pages, lost, root>>
  BY DEF ReadSitemaps
<1>2. CrawlTyped /\ VisitedOnce /\ input \in Inputs /\ batch = <<>> /\ pages = <<>>
  BY <1>1 DEF CrawlInv, CrawlTyped
<1>3. CrawlSite(input) /\ seeds' \in Seq(Urls)
  BY <1>1, <1>2, SiteOf, SitemapsTyped
<1>4. /\ queue' \in Seq(Items) /\ InOrder(queue') /\ Deeper(input.start, 0) \in Elements(queue')
      /\ \A x \in Elements(queue') : \/ x.depth = 0 /\ x.url = input.start
                                     \/ x.depth = 1 /\ x.url \in Elements(seeds') \cap Scope
  <2> DEFINE u == seeds'
  <2>1. u \in Seq(Urls) /\ queue' = Seeded(u)
    BY <1>1, <1>3
  <2> HIDE DEF u
  <2>2. /\ queue' \in Seq(Items) /\ InOrder(queue') /\ Deeper(input.start, 0) \in Elements(queue')
        /\ \A x \in Elements(queue') : \/ x.depth = 0 /\ x.url = input.start
                                       \/ x.depth = 1 /\ x.url \in Elements(u) \cap Scope
    BY <1>3, <2>1, SeededQueue
  <2> QED
    BY <2>2 DEF u
<1>5. CrawlTyped'
  <2>1. dropped' \in BOOLEAN
    BY <1>1
  <2>2. /\ input' = input /\ Urls' = Urls /\ Items' = Items /\ Results' = Results
        /\ robots' = robots /\ visited' = visited /\ batch' = batch /\ pages' = pages /\ lost' = lost
    BY <1>1 DEF Urls, Items, Results
  <2> QED
    BY <1>1, <1>2, <1>3, <1>4, <2>1, <2>2 DEF CrawlTyped
<1>6. VisitedOnce'
  BY <1>1, <1>2 DEF VisitedOnce
<1>7. Elements(<<>>) = {} /\ Waiting' = Elements(queue') /\ Elements(pages') = {}
  BY <1>1, <1>2 DEF Elements, Waiting
<1>8. Layered'
  <2>1. \A x, y \in Elements(queue') : x.depth <= y.depth + 1
    BY <1>4
  <2>2. InOrder(batch')
    BY <1>1, <1>2 DEF InOrder
  <2>3. InOrder(queue') /\ Elements(batch') = {}
    BY <1>1, <1>2, <1>4, <1>7
  <2> QED
    BY <1>7, <2>1, <2>2, <2>3 DEF Layered
<1>9. Rooted'
  <2>1. SeedsInScope' = Elements(seeds') \cap Scope
    BY <1>1 DEF SeedsInScope, Scope, InScope
  <2>2. ASSUME NEW x \in Elements(queue') PROVE Origin(x)'
    BY <1>1, <1>4, <2>1 DEF Origin
  <2> QED
    BY <1>7, <2>2 DEF Rooted
<1>10. Covered'
  <2>1. SeedsInScope' = Elements(seeds') \cap Scope
    BY <1>1 DEF SeedsInScope, Scope, InScope
  <2>2. Known(input.start, 0)'
    <3>1. Deeper(input.start, 0).url = input.start /\ Deeper(input.start, 0).depth = 0
      BY DEF Deeper
    <3> QED
      BY <1>1, <1>4, <1>7, <3>1 DEF Known
  <2>3. ASSUME ~dropped', NEW url \in SeedsInScope' PROVE Known(url, 1)'
    <3>1. PICK i \in DOMAIN queue' : queue'[i].url = url
      BY <1>1, <2>1, <2>3
    <3>2. queue'[i] \in Elements(queue')
      BY DEF Elements
    <3>3. queue'[i].depth <= 1
      BY <1>4, <3>2
    <3> QED
      BY <1>7, <3>1, <3>2, <3>3 DEF Known
  <2> QED
    BY <1>7, <2>2, <2>3 DEF Covered
<1> QED
  BY <1>5, <1>6, <1>8, <1>9, <1>10 DEF CrawlInv

\* Who is known stays known when everything known stays, up to the last depth.
LEMMA StaysKnown ==
  ASSUME CrawlTyped, CrawlTyped', CrawlSite(input), NEW url, NEW d \in Nat, d <= input.maxDepth,
         Known(url, d),
         \A x \in Elements(pages) \cup Waiting : x.depth <= input.maxDepth =>
           \E y \in (Elements(pages) \cup Waiting)' : y.url = x.url /\ y.depth <= x.depth
  PROVE  Known(url, d)'
<1>1. PICK x \in Elements(pages) \cup Waiting : x.url = url /\ x.depth <= d
  BY DEF Known
<1>2. x.depth \in Nat /\ input.maxDepth \in Nat
  BY ItemsTyped DEF CrawlSite
<1>3. PICK y \in (Elements(pages) \cup Waiting)' : y.url = x.url /\ y.depth <= x.depth
  BY <1>1, <1>2
<1>4. y.depth \in Nat
  <2>1. queue' \in Seq(Items') /\ batch' \in Seq(Items') /\ pages' \in Seq(Results')
    BY DEF CrawlTyped
  <2>2. Elements(pages') \subseteq Results' /\ Elements(queue') \subseteq Items' /\ Elements(batch') \subseteq Items'
    BY <2>1, ElementsOf
  <2> QED
    BY <1>3, <2>2 DEF Waiting, Items, Results
<1> QED
  BY <1>1, <1>2, <1>3, <1>4 DEF Known

LEMMA ShiftTakes ==
  ASSUME CrawlOK, CrawlInv, Shift
  PROVE  /\ queue \in Seq(Items) /\ queue # <<>> /\ Head(queue) \in Items
         /\ Head(queue) \in Elements(queue) /\ queue' \in Seq(Items)
         /\ Elements(queue) = Elements(queue') \cup {Head(queue)}
         /\ InOrder(queue') /\ \A x \in Elements(queue') : Head(queue).depth <= x.depth
         /\ stage = "taking" /\ BatchOpen
         /\ UNCHANGED <<input, robots, seeds, pages, dropped, lost, root, stage>>
         /\ \/ /\ Head(queue).url \notin visited /\ Head(queue).depth <= input.maxDepth
               /\ visited' = visited \cup {Head(queue).url} /\ batch' = Append(batch, Head(queue))
            \/ /\ Head(queue).url \in visited \/ ~(Head(queue).depth <= input.maxDepth)
               /\ visited' = visited /\ batch' = batch
<1>1. /\ queue \in Seq(Items) /\ InOrder(queue) /\ queue # <<>> /\ queue' = Tail(queue)
  BY DEF CrawlInv, CrawlTyped, Layered, Shift, BatchOpen
<1>2. /\ Len(queue) \in Nat /\ Len(queue) >= 1 /\ DOMAIN queue = 1..Len(queue)
      /\ \A i \in 1..Len(queue) : queue[i] \in Items
      /\ Head(queue) = queue[1] /\ queue' \in Seq(Items) /\ DOMAIN queue' = 1..(Len(queue) - 1)
      /\ \A i \in 1..(Len(queue) - 1) : queue'[i] = queue[i + 1]
  BY <1>1
<1>3. 1 \in DOMAIN queue /\ Head(queue) \in Items /\ Head(queue) \in Elements(queue)
  BY <1>2 DEF Elements
<1>4. \A i \in DOMAIN queue' : i + 1 \in DOMAIN queue /\ 1 < i + 1 /\ queue'[i] = queue[i + 1]
  BY <1>2
<1>5. \A i \in DOMAIN queue : i # 1 => i - 1 \in DOMAIN queue' /\ queue'[i - 1] = queue[i]
  BY <1>2
<1>6. Elements(queue) = Elements(queue') \cup {Head(queue)}
  <2>1. \A x \in Elements(queue') \cup {Head(queue)} : x \in Elements(queue)
    BY <1>2, <1>3, <1>4 DEF Elements
  <2>2. \A x \in Elements(queue) : x \in Elements(queue') \cup {Head(queue)}
    BY <1>2, <1>5 DEF Elements
  <2> QED
    BY <2>1, <2>2
<1>7. \A x \in Elements(queue') : Head(queue).depth <= x.depth
  BY <1>1, <1>2, <1>3, <1>4 DEF Elements, InOrder
<1>8. InOrder(queue')
  <2>1. \A i, j \in DOMAIN queue' : i < j => i + 1 < j + 1
    BY <1>2
  <2> QED
    BY <1>1, <1>4, <2>1 DEF InOrder
<1>9. /\ stage = "taking" /\ BatchOpen
      /\ UNCHANGED <<input, robots, seeds, pages, dropped, lost, root, stage>>
      /\ \/ /\ Head(queue).url \notin visited /\ Head(queue).depth <= input.maxDepth
            /\ visited' = visited \cup {Head(queue).url} /\ batch' = Append(batch, Head(queue))
         \/ /\ Head(queue).url \in visited \/ ~(Head(queue).depth <= input.maxDepth)
            /\ visited' = visited /\ batch' = batch
  BY DEF Shift
<1> QED
  BY <1>1, <1>2, <1>3, <1>6, <1>7, <1>8, <1>9

LEMMA Shifted == ASSUME CrawlOK, CrawlInv, Shift PROVE CrawlInv'
<1> DEFINE head == Head(queue)
<1>1. /\ queue \in Seq(Items) /\ queue # <<>> /\ head \in Items /\ head \in Elements(queue)
      /\ queue' \in Seq(Items) /\ Elements(queue) = Elements(queue') \cup {head}
      /\ InOrder(queue') /\ \A x \in Elements(queue') : head.depth <= x.depth
  BY ShiftTakes
<1>2. /\ stage = "taking" /\ BatchOpen
      /\ UNCHANGED <<input, robots, seeds, pages, dropped, lost, root, stage>>
  BY ShiftTakes
<1>3. \/ /\ head.url \notin visited /\ head.depth <= input.maxDepth
         /\ visited' = visited \cup {head.url} /\ batch' = Append(batch, head)
      \/ /\ head.url \in visited \/ ~(head.depth <= input.maxDepth)
         /\ visited' = visited /\ batch' = batch
  BY ShiftTakes
<1>4. CrawlTyped /\ VisitedOnce /\ Layered /\ Rooted /\ Covered
  BY DEF CrawlInv
<1>5. CrawlSite(input)
  BY <1>4, SiteOf DEF CrawlTyped
<1> HIDE DEF head
<1>6. /\ batch \in Seq(Items) /\ pages \in Seq(Results) /\ head.depth \in Nat /\ head.url \in Urls
      /\ Len(batch) \in Nat /\ Len(pages) \in Nat
  BY <1>1, <1>4 DEF CrawlTyped, Items
<1>7. batch' \in Seq(Items)
  <2>1. Append(batch, head) \in Seq(Items)
    BY <1>1, <1>6
  <2> QED
    BY <1>3, <1>6, <2>1
<1>8. CrawlTyped'
  <2>1. /\ input' = input /\ Urls' = Urls /\ Items' = Items /\ Results' = Results
        /\ robots' = robots /\ dropped' = dropped /\ pages' = pages /\ lost' = lost
        /\ seeds' = seeds /\ stage' = "taking"
    BY <1>2 DEF Urls, Items, Results
  <2>2. visited' \subseteq Urls
    BY <1>3, <1>4, <1>6 DEF CrawlTyped
  <2> QED
    BY <1>1, <1>4, <1>7, <2>1, <2>2 DEF CrawlTyped
<1>9. /\ Elements(batch) \subseteq Elements(batch')
      /\ Elements(batch') \subseteq Elements(batch) \cup {head}
      /\ (head.url \notin visited /\ head.depth <= input.maxDepth) => head \in Elements(batch')
  <2>1. Elements(Append(batch, head)) = Elements(batch) \cup {head}
    BY <1>6, AppendedElements
  <2> QED
    BY <1>3, <2>1
<1>10. /\ \A x \in Elements(pages) : x.depth \in Nat
       /\ \A x \in Waiting : x.depth \in Nat
       /\ Waiting' \subseteq Waiting /\ Waiting = Elements(batch) \cup Elements(queue)
       /\ Waiting' = Elements(batch') \cup Elements(queue')
  BY <1>1, <1>4, <1>9, ItemsTyped DEF Waiting
<1>11. VisitedOnce'
  <2>1. CASE batch' = batch
    BY <1>2, <1>3, <1>4, <2>1 DEF VisitedOnce
  <2>2. CASE /\ head.url \notin visited /\ head.depth <= input.maxDepth
             /\ visited' = visited \cup {head.url} /\ batch' = Append(batch, head)
    <3>1. Elements(batch') = Elements(batch) \cup {head}
      BY <1>6, <2>2, AppendedElements
    <3>2. \A x \in Elements(pages) \cup Elements(batch) : x.url # head.url
      BY <1>4, <2>2 DEF VisitedOnce
    <3>3. /\ DOMAIN batch = 1..Len(batch) /\ DOMAIN batch' = 1..(Len(batch) + 1)
          /\ Len(batch') = Len(batch) + 1
          /\ batch'[Len(batch) + 1] = head /\ \A i \in 1..Len(batch) : batch'[i] = batch[i]
      BY <1>6, <2>2
    <3>4. \A i \in DOMAIN batch : batch[i].url # head.url
      BY <3>2 DEF Elements
    <3>5. \A i, j \in DOMAIN batch' : batch'[i].url = batch'[j].url => i = j
      <4>1. \A i \in DOMAIN batch' : i \in DOMAIN batch \/ i = Len(batch) + 1
        BY <1>6, <3>3
      <4> QED
        BY <1>4, <3>3, <3>4, <4>1 DEF VisitedOnce
    <3>6. Len(pages) + Len(batch') <= input.maxPages
      BY <1>2, <1>5, <1>6, <3>3 DEF BatchOpen, CrawlSite
    <3>7. visited' = {x.url : x \in Elements(pages) \cup Elements(batch')}
      BY <1>4, <2>2, <3>1 DEF VisitedOnce
    <3> QED
      BY <1>2, <1>4, <2>2, <3>1, <3>2, <3>5, <3>6, <3>7 DEF VisitedOnce
  <2> QED
    BY <1>3, <2>1, <2>2
<1>12. Layered'
  <2>1. \A b \in Elements(batch), q \in Elements(queue) : b.depth <= q.depth
    BY <1>4 DEF Layered
  <2>2. InOrder(batch')
    <3>1. CASE batch' = batch
      BY <1>4, <3>1 DEF Layered
    <3>2. CASE batch' = Append(batch, head)
      <4>1. /\ DOMAIN batch = 1..Len(batch) /\ DOMAIN batch' = 1..(Len(batch) + 1)
            /\ batch'[Len(batch) + 1] = head /\ \A i \in 1..Len(batch) : batch'[i] = batch[i]
        BY <1>6, <3>2
      <4>2. \A i \in DOMAIN batch : batch[i].depth <= head.depth
        BY <1>1, <2>1 DEF Elements
      <4>3. \A i, j \in DOMAIN batch' : i < j =>
              i \in DOMAIN batch /\ (j \in DOMAIN batch \/ j = Len(batch) + 1)
        BY <1>6, <4>1
      <4>4. InOrder(batch)
        BY <1>4 DEF Layered
      <4> QED
        BY <4>1, <4>2, <4>3, <4>4 DEF InOrder
    <3> QED
      BY <1>3, <3>1, <3>2
  <2>3. \A b \in Elements(batch'), q \in Elements(queue') : b.depth <= q.depth
    BY <1>1, <1>9, <2>1
  <2> QED
    BY <1>1, <1>2, <1>4, <1>10, <2>2, <2>3 DEF Layered
<1>13. Rooted'
  BY <1>2, <1>4, <1>10 DEF Rooted, Origin, SeedsInScope, Scope, InScope
<1>14. ASSUME NEW x \in Elements(pages) \cup Waiting, x.depth <= input.maxDepth
       PROVE  \E y \in (Elements(pages) \cup Waiting)' : y.url = x.url /\ y.depth <= x.depth
  <2>1. x.depth \in Nat
    BY <1>10
  <2>2. CASE x # head \/ head \in Elements(batch')
    BY <1>1, <1>2, <1>9, <1>10, <2>1, <2>2
  <2>3. CASE x = head /\ head.url \in visited
    <3>1. PICK y \in Elements(pages) \cup Elements(batch) : y.url = head.url
      BY <1>4, <2>3 DEF VisitedOnce
    <3>2. y.depth <= head.depth
      BY <1>1, <1>4, <1>10, <3>1 DEF Layered
    <3> QED
      BY <1>2, <1>9, <1>10, <2>3, <3>1, <3>2
  <2> QED
    BY <1>9, <1>14, <2>2, <2>3
<1>15. Covered'
  <2>1. \A url, d : d \in Nat /\ d <= input.maxDepth /\ Known(url, d) => Known(url, d)'
    BY <1>4, <1>5, <1>8, <1>14, StaysKnown
  <2>2. input.maxDepth \in Nat
    BY <1>5 DEF CrawlSite
  <2>3. Known(input.start, 0)'
    BY <1>2, <1>4, <2>1, <2>2 DEF Covered
  <2>4. ASSUME ~dropped, input.maxDepth > 0, NEW url \in SeedsInScope PROVE Known(url, 1)'
    BY <1>2, <1>4, <2>1, <2>2, <2>4 DEF Covered
  <2>5. ASSUME ~dropped, NEW p \in Elements(pages), p.depth < input.maxDepth,
               NEW url \in Elements(p.links)
        PROVE  Known(url, p.depth + 1)'
    <3>1. p.depth \in Nat
      BY <1>10
    <3>2. Known(url, p.depth + 1)
      BY <1>2, <1>4, <2>5 DEF Covered, LinksKnown
    <3> QED
      BY <2>1, <2>2, <2>5, <3>1, <3>2
  <2> QED
    BY <1>2, <2>3, <2>4, <2>5 DEF Covered, LinksKnown, SeedsInScope, Scope, InScope
<1> QED
  BY <1>8, <1>11, <1>12, <1>13, <1>15 DEF CrawlInv

LEMMA ResultTyped ==
  ASSUME CrawlOK, CrawlTyped, NEW item \in Items, NEW lostUrls
  PROVE  /\ Result(item, lostUrls) \in Results
         /\ Result(item, lostUrls).url = item.url /\ Result(item, lostUrls).depth = item.depth
<1> DEFINE final == input.to[item.url]
           kind == IF Disallowed(item.url) THEN "disallowed"
                   ELSE IF item.url \in lostUrls THEN "failed" ELSE input.page[final]
           links == IF kind = "html" THEN Filtered(InternalLinks(final), Scope) ELSE <<>>
<1>1. /\ input.to \in [Urls -> Urls] /\ input.links \in [Urls -> Seq(Urls)]
      /\ input.page \in [Urls -> {"html", "other"}] /\ MaxLinks \in Nat
  BY SiteOf DEF CrawlTyped, CrawlOK, SiteOK, Urls
<1>2. item.url \in Urls /\ item.depth \in Nat /\ final \in Urls
  BY <1>1 DEF Items
<1>3. kind \in {"disallowed", "failed", "html", "other"}
  BY <1>1, <1>2
<1>4. InternalLinks(final) \in Seq(Urls)
  <2> HIDE DEF final
  <2>1. input.links[final] \in Seq(Urls)
    BY <1>1, <1>2
  <2>2. Filtered(input.links[final], SameHost(final)) \in Seq(Urls)
    BY <2>1, FilteredList
  <2>3. Distinct(Filtered(input.links[final], SameHost(final))) \in Seq(Urls)
    BY <2>2, DistinctList
  <2> QED
    BY <1>1, <2>3, FirstElements DEF InternalLinks
<1>5. links \in Seq(Urls)
  <2>1. Filtered(InternalLinks(final), Scope) \in Seq(Urls)
    BY <1>4, FilteredList
  <2> HIDE DEF kind, final
  <2> QED
    BY <2>1
<1>6. Result(item, lostUrls) = [url |-> item.url, depth |-> item.depth, kind |-> kind, links |-> links]
  BY DEF Result
<1> HIDE DEF kind, links, final
<1> QED
  BY <1>2, <1>3, <1>5, <1>6 DEF Results

\* What the batch's results make of the queue and of the pages.
LEMMA BatchTakes ==
  ASSUME CrawlOK, CrawlInv, BatchFetched
  PROVE  \E batchResults \in Seq(Results) :
           /\ Len(batchResults) = Len(batch)
           /\ \A i \in 1..Len(batch) :
                batchResults[i].url = batch[i].url /\ batchResults[i].depth = batch[i].depth
           /\ pages' \in Seq(Results) /\ queue' \in Seq(Items) /\ dropped' \in BOOLEAN
           /\ lost' \in Nat /\ Len(pages') = Len(pages) + Len(batch)
           /\ \A i \in 1..Len(pages) : pages'[i] = pages[i]
           /\ \A i \in 1..Len(batch) : pages'[Len(pages) + i] = batchResults[i]
           /\ InOrder(queue') /\ Elements(queue) \subseteq Elements(queue')
           /\ Elements(queue') \subseteq
                Elements(queue) \cup UNION {Discovered(r) : r \in Elements(batchResults)}
           /\ dropped' = FALSE =>
                dropped = FALSE /\ \A r \in Elements(batchResults) : LinksTaken(r, queue')
<1>1. PICK lostUrls \in SUBSET {batch[i].url : i \in DOMAIN batch} :
        LET batchResults == [i \in DOMAIN batch |-> Result(batch[i], lostUrls)]
            crawl == Collecting([pages |-> pages, queue |-> queue, dropped |-> dropped],
                                batchResults)[Len(batch)] IN
        /\ lost + Cardinality(lostUrls) <= MaxLost
        /\ lost' = lost + Cardinality(lostUrls)
        /\ pages' = crawl.pages /\ queue' = crawl.queue /\ dropped' = crawl.dropped
  BY DEF BatchFetched
<1> DEFINE batchResults == [i \in DOMAIN batch |-> Result(batch[i], lostUrls)]
           before == [pages |-> pages, queue |-> queue, dropped |-> dropped]
           c == Collecting(before, batchResults)[Len(batch)]
<1>2. /\ CrawlTyped /\ Layered /\ batch \in Seq(Items) /\ queue \in Seq(Items)
      /\ pages \in Seq(Results) /\ dropped \in BOOLEAN /\ lost \in Nat /\ CrawlSite(input)
  BY SiteOf DEF CrawlInv, CrawlTyped
<1>3. Len(batch) \in Nat /\ DOMAIN batch = 1..Len(batch) /\ \A i \in DOMAIN batch : batch[i] \in Items
  BY <1>2
<1>4. \A i \in DOMAIN batch : /\ Result(batch[i], lostUrls) \in Results
                              /\ Result(batch[i], lostUrls).url = batch[i].url
                              /\ Result(batch[i], lostUrls).depth = batch[i].depth
  BY <1>2, <1>3, ResultTyped
<1>5. /\ batchResults \in Seq(Results) /\ Len(batchResults) = Len(batch)
      /\ \A i \in 1..Len(batch) :
           batchResults[i].url = batch[i].url /\ batchResults[i].depth = batch[i].depth
  <2>1. batchResults \in [1..Len(batch) -> Results]
    BY <1>3, <1>4
  <2>2. batchResults \in Seq(Results) /\ Len(batchResults) = Len(batch)
    BY <1>3, <2>1
  <2>3. \A i \in 1..Len(batch) : batchResults[i] = Result(batch[i], lostUrls)
    BY <1>3
  <2> QED
    BY <1>3, <1>4, <2>2, <2>3
<1>6. before \in Crawls /\ before.pages = pages /\ before.queue = queue /\ before.dropped = dropped
  BY <1>2 DEF Crawls
<1>7. lost' \in Nat /\ pages' = c.pages /\ queue' = c.queue /\ dropped' = c.dropped
  <2>1. IsFiniteSet(lostUrls)
    <3>1. IsFiniteSet(DOMAIN batch)
      BY <1>3, FS_Interval
    <3>2. IsFiniteSet({batch[i].url : i \in DOMAIN batch})
      <4> DEFINE urls == {batch[i].url : i \in DOMAIN batch}
                 url == [i \in DOMAIN batch |-> batch[i].url]
      <4>1. url \in Surjection(DOMAIN batch, urls)
        BY DEF Surjection
      <4> HIDE DEF url, urls
      <4>2. IsFiniteSet(urls)
        BY <3>1, <4>1, FS_Surjection
      <4> QED
        BY <4>2 DEF urls
    <3> QED
      BY <3>2, FS_Subset
  <2>2. Cardinality(lostUrls) \in Nat
    BY <2>1, FS_CardinalityType
  <2> QED
    BY <1>1, <1>2, <2>2
<1> HIDE DEF batchResults, before
<1>8. InOrder(batchResults) /\ InOrder(before.queue)
  <2>1. DOMAIN batchResults = 1..Len(batch)
    BY <1>5
  <2>2. InOrder(batch) /\ InOrder(queue)
    BY <1>2 DEF Layered
  <2> QED
    BY <1>3, <1>5, <1>6, <2>1, <2>2 DEF InOrder
<1>9. \A q \in Elements(before.queue), r \in Elements(batchResults) : q.depth <= r.depth + 1
  <2>1. \A x, y \in Waiting : x.depth <= y.depth + 1
    BY <1>2 DEF Layered
  <2>2. \A r \in Elements(batchResults) : \E b \in Elements(batch) : r.depth = b.depth
    <3>1. DOMAIN batchResults = 1..Len(batch)
      BY <1>5
    <3> QED
      BY <1>3, <1>5, <3>1 DEF Elements
  <2> QED
    BY <1>6, <2>1, <2>2 DEF Waiting
<1>10. c = Collecting(before, batchResults)[Len(batchResults)] /\ input.maxDepth \in Nat
  BY <1>2, <1>5 DEF CrawlSite
<1> HIDE DEF c
<1>11. ResultsTaken(before, batchResults, c)
  BY <1>5, <1>6, <1>8, <1>9, <1>10, BatchCollected
<1>12. /\ c \in Crawls /\ Len(c.pages) = Len(before.pages) + Len(batchResults)
       /\ \A i \in 1..Len(before.pages) : c.pages[i] = before.pages[i]
       /\ \A i \in 1..Len(batchResults) : c.pages[Len(before.pages) + i] = batchResults[i]
       /\ InOrder(c.queue) /\ Elements(before.queue) \subseteq Elements(c.queue)
       /\ Elements(c.queue) \subseteq
            Elements(before.queue) \cup UNION {Discovered(r) : r \in Elements(batchResults)}
       /\ c.dropped = FALSE =>
            before.dropped = FALSE /\ \A r \in Elements(batchResults) : LinksTaken(r, c.queue)
  BY <1>11 DEF ResultsTaken
<1>13. c.pages \in Seq(Results) /\ c.queue \in Seq(Items) /\ c.dropped \in BOOLEAN
  BY <1>12 DEF Crawls
<1> QED
  BY <1>5, <1>6, <1>7, <1>13, <1>12

LEMMA BatchDone == ASSUME CrawlOK, CrawlInv, BatchFetched PROVE CrawlInv'
<1>1. PICK batchResults \in Seq(Results) :
           /\ Len(batchResults) = Len(batch)
           /\ \A i \in 1..Len(batch) :
                batchResults[i].url = batch[i].url /\ batchResults[i].depth = batch[i].depth
           /\ pages' \in Seq(Results) /\ queue' \in Seq(Items) /\ dropped' \in BOOLEAN
           /\ lost' \in Nat /\ Len(pages') = Len(pages) + Len(batch)
           /\ \A i \in 1..Len(pages) : pages'[i] = pages[i]
           /\ \A i \in 1..Len(batch) : pages'[Len(pages) + i] = batchResults[i]
           /\ InOrder(queue') /\ Elements(queue) \subseteq Elements(queue')
           /\ Elements(queue') \subseteq
                Elements(queue) \cup UNION {Discovered(r) : r \in Elements(batchResults)}
           /\ dropped' = FALSE =>
                dropped = FALSE /\ \A r \in Elements(batchResults) : LinksTaken(r, queue')
  BY BatchTakes
<1>2. /\ stage = "taking" /\ batch' = <<>>
      /\ UNCHANGED <<input, robots, seeds, visited, root, stage>>
  BY DEF BatchFetched
<1>3. CrawlTyped /\ VisitedOnce /\ Layered /\ Rooted /\ Covered
  BY DEF CrawlInv
<1>4. /\ CrawlSite(input) /\ batch \in Seq(Items) /\ queue \in Seq(Items) /\ pages \in Seq(Results)
      /\ input.maxDepth \in Nat
  BY <1>3, SiteOf DEF CrawlTyped, CrawlSite
<1>5. /\ Len(batch) \in Nat /\ DOMAIN batch = 1..Len(batch)
      /\ Len(pages) \in Nat /\ DOMAIN pages = 1..Len(pages)
      /\ DOMAIN pages' = 1..(Len(pages) + Len(batch)) /\ DOMAIN batchResults = 1..Len(batch)
  BY <1>1, <1>4
<1>6. Elements(<<>>) = {} /\ Elements(batch') = {} /\ Waiting' = Elements(queue')
  BY <1>2 DEF Elements, Waiting
<1>7. Elements(pages') = Elements(pages) \cup Elements(batchResults)
  <2>1. \A i \in DOMAIN pages' :
          \/ i \in DOMAIN pages /\ pages'[i] = pages[i]
          \/ i - Len(pages) \in DOMAIN batchResults /\ pages'[i] = batchResults[i - Len(pages)]
    <3>1. \A i \in DOMAIN pages' :
            \/ i \in 1..Len(pages)
            \/ i - Len(pages) \in 1..Len(batch) /\ i = Len(pages) + (i - Len(pages))
      BY <1>5
    <3> QED
      BY <1>1, <1>5, <3>1
  <2>2. \A i \in DOMAIN pages : i \in DOMAIN pages' /\ pages'[i] = pages[i]
    BY <1>1, <1>5
  <2>3. \A i \in DOMAIN batchResults :
          Len(pages) + i \in DOMAIN pages' /\ pages'[Len(pages) + i] = batchResults[i]
    BY <1>1, <1>5
  <2>4. \A x \in Elements(pages') : x \in Elements(pages) \cup Elements(batchResults)
    BY <2>1 DEF Elements
  <2>5. \A x \in Elements(pages) \cup Elements(batchResults) : x \in Elements(pages')
    BY <2>2, <2>3 DEF Elements
  <2> QED
    BY <2>4, <2>5
<1>8. /\ \A r \in Elements(batchResults) : \E b \in Elements(batch) : r.url = b.url /\ r.depth = b.depth
      /\ \A b \in Elements(batch) : \E r \in Elements(batchResults) : r.url = b.url /\ r.depth = b.depth
  <2>1. /\ DOMAIN batchResults = DOMAIN batch
        /\ \A i \in DOMAIN batch : batchResults[i].url = batch[i].url /\ batchResults[i].depth = batch[i].depth
    BY <1>1, <1>5
  <2>2. ASSUME NEW r \in Elements(batchResults)
        PROVE  \E b \in Elements(batch) : r.url = b.url /\ r.depth = b.depth
    <3>1. PICK i \in DOMAIN batchResults : r = batchResults[i]
      BY DEF Elements
    <3> QED
      BY <2>1, <3>1 DEF Elements
  <2>3. ASSUME NEW b \in Elements(batch)
        PROVE  \E r \in Elements(batchResults) : r.url = b.url /\ r.depth = b.depth
    <3>1. PICK i \in DOMAIN batch : b = batch[i]
      BY DEF Elements
    <3> QED
      BY <2>1, <3>1 DEF Elements
  <2> QED
    BY <2>2, <2>3
<1>9. /\ \A x \in Elements(pages) : x.depth \in Nat /\ x.links \in Seq(Urls)
      /\ \A x \in Waiting : x.depth \in Nat
      /\ Waiting = Elements(batch) \cup Elements(queue)
      /\ \A r \in Elements(batchResults) : r.depth \in Nat /\ r.links \in Seq(Urls)
  <2>1. Elements(batchResults) \subseteq Results
    BY <1>1, ElementsOf
  <2> QED
    BY <1>3, <2>1, ItemsTyped DEF Waiting, Results
<1>10. \A x \in Elements(queue') :
         \/ x \in Elements(queue)
         \/ \E r \in Elements(batchResults) : /\ x.depth = r.depth + 1 /\ x.url \in Elements(r.links)
                                         /\ r.depth < input.maxDepth
  <2>1. ASSUME NEW r \in Elements(batchResults), NEW x \in Discovered(r)
        PROVE  x.depth = r.depth + 1 /\ x.url \in Elements(r.links) /\ r.depth < input.maxDepth
    BY <1>4, <1>9, <2>1 DEF Discovered, FreshLinks, Deeper
  <2> QED
    BY <1>1, <2>1
<1>11. CrawlTyped'
  <2>1. /\ input' = input /\ Urls' = Urls /\ Items' = Items /\ Results' = Results
        /\ robots' = robots /\ visited' = visited /\ seeds' = seeds /\ stage' = "taking"
    BY <1>2 DEF Urls, Items, Results
  <2>2. batch' \in Seq(Items)
    BY <1>2
  <2> QED
    BY <1>1, <1>3, <2>1, <2>2 DEF CrawlTyped
<1>12. VisitedOnce'
  <2>1. \A b \in DOMAIN batch : batch[b] \in Elements(batch) /\ batchResults[b] \in Elements(batchResults)
    BY <1>5 DEF Elements
  <2>2. \A p \in DOMAIN pages : pages[p] \in Elements(pages)
    BY DEF Elements
  <2>3. visited' = {x.url : x \in Elements(pages') \cup Elements(batch')}
    <3>1. {r.url : r \in Elements(batchResults)} = {b.url : b \in Elements(batch)}
      BY <1>8
    <3>2. visited = {x.url : x \in Elements(pages) \cup Elements(batch)}
      BY <1>3 DEF VisitedOnce
    <3> QED
      BY <1>2, <1>6, <1>7, <3>1, <3>2
  <2>4. ASSUME NEW i \in DOMAIN pages', NEW j \in DOMAIN pages', pages'[i].url = pages'[j].url
        PROVE  i = j
    <3>1. \A k \in DOMAIN pages' :
            \/ k \in DOMAIN pages /\ pages'[k] = pages[k]
            \/ /\ k - Len(pages) \in DOMAIN batch
               /\ pages'[k].url = batch[k - Len(pages)].url
      <4>1. \A k \in DOMAIN pages' :
              \/ k \in 1..Len(pages)
              \/ k - Len(pages) \in 1..Len(batch) /\ k = Len(pages) + (k - Len(pages))
        BY <1>5
      <4> QED
        BY <1>1, <1>5, <4>1
    <3>2. /\ \A k, l \in DOMAIN pages : pages[k].url = pages[l].url => k = l
          /\ \A k, l \in DOMAIN batch : batch[k].url = batch[l].url => k = l
          /\ \A k \in DOMAIN pages, l \in DOMAIN batch : pages[k].url # batch[l].url
      BY <1>3, <2>1, <2>2 DEF VisitedOnce
    <3>3. CASE i \in DOMAIN pages /\ pages'[i] = pages[i]
      BY <2>4, <3>1, <3>2, <3>3
    <3>4. CASE i - Len(pages) \in DOMAIN batch /\ pages'[i].url = batch[i - Len(pages)].url
      <4>1. j - Len(pages) \in DOMAIN batch /\ pages'[j].url = batch[j - Len(pages)].url
        BY <2>4, <3>1, <3>2, <3>4
      <4>2. i - Len(pages) = j - Len(pages)
        BY <2>4, <3>2, <3>4, <4>1
      <4> QED
        BY <1>5, <4>2
    <3> QED
      BY <3>1, <3>3, <3>4
  <2>5. Len(pages') + Len(batch') <= input.maxPages
    BY <1>1, <1>2, <1>3, <1>5 DEF VisitedOnce
  <2>6. \A x \in Elements(pages') \cup Elements(batch') : x.depth <= input.maxDepth
    BY <1>3, <1>6, <1>7, <1>8 DEF VisitedOnce
  <2>7. DOMAIN batch' = {}
    BY <1>2
  <2>8. input' = input
    BY <1>2
  <2> QED
    BY <1>6, <2>3, <2>4, <2>5, <2>6, <2>7, <2>8 DEF VisitedOnce
<1>13. Layered'
  <2>1. /\ \A p \in Elements(pages), x \in Waiting : p.depth <= x.depth
        /\ \A b \in Elements(batch), q \in Elements(queue) : b.depth <= q.depth
        /\ \A x, y \in Waiting : x.depth <= y.depth + 1
    BY <1>3 DEF Layered
  <2>2. InOrder(batch') /\ InOrder(queue')
    BY <1>1, <1>2 DEF InOrder
  <2>3. \A x \in Elements(queue') :
          \/ x \in Elements(queue)
          \/ \E b \in Elements(batch) : x.depth = b.depth + 1
    BY <1>8, <1>10
  <2>4. \A b, c \in Elements(batch) : b.depth <= c.depth + 1
    BY <1>9, <2>1
  <2>5. ASSUME NEW p \in Elements(pages'), NEW x \in Elements(queue') PROVE p.depth <= x.depth
    <3>1. CASE p \in Elements(pages)
      BY <1>9, <2>1, <2>3, <3>1
    <3>2. CASE p \in Elements(batchResults)
      BY <1>8, <1>9, <2>1, <2>3, <2>4, <3>2
    <3> QED
      BY <1>7, <3>1, <3>2
  <2>6. ASSUME NEW x \in Elements(queue'), NEW y \in Elements(queue') PROVE x.depth <= y.depth + 1
    <3>1. CASE x \in Elements(queue)
      <4>1. CASE y \in Elements(queue)
        BY <1>9, <2>1, <3>1, <4>1
      <4>2. CASE \E b \in Elements(batch) : y.depth = b.depth + 1
        <5>1. PICK b \in Elements(batch) : y.depth = b.depth + 1
          BY <4>2
        <5>2. x.depth <= b.depth + 1 /\ b.depth \in Nat /\ x.depth \in Nat
          BY <1>9, <2>1, <3>1
        <5> QED
          BY <5>1, <5>2
      <4> QED
        BY <2>3, <4>1, <4>2
    <3>2. CASE \E b \in Elements(batch) : x.depth = b.depth + 1
      <4>1. PICK b \in Elements(batch) : x.depth = b.depth + 1
        BY <3>2
      <4>2. b.depth \in Nat
        BY <1>9
      <4>3. CASE y \in Elements(queue)
        BY <1>9, <2>1, <4>1, <4>2, <4>3
      <4>4. CASE \E a \in Elements(batch) : y.depth = a.depth + 1
        <5>1. PICK a \in Elements(batch) : y.depth = a.depth + 1
          BY <4>4
        <5>2. b.depth <= a.depth + 1 /\ a.depth \in Nat
          BY <1>9, <2>4
        <5> QED
          BY <4>1, <4>2, <5>1, <5>2
      <4> QED
        BY <2>3, <4>3, <4>4
    <3> QED
      BY <2>3, <3>1, <3>2
  <2> QED
    BY <1>6, <2>2, <2>5, <2>6 DEF Layered
<1>14. Rooted'
  <2>1. SeedsInScope' = SeedsInScope /\ input' = input
    BY <1>2 DEF SeedsInScope, Scope, InScope
  <2>2. \A x : Origin(x) => Origin(x)'
    BY <1>7, <2>1 DEF Origin
  <2>3. \A x, y : x.url = y.url /\ x.depth = y.depth /\ Origin(x) => Origin(y)
    BY DEF Origin
  <2>4. \A x \in Elements(pages) \cup Waiting : Origin(x)
    BY <1>3 DEF Rooted
  <2>5. \A r \in Elements(batchResults) : Origin(r)
    BY <1>8, <1>9, <2>3, <2>4
  <2>6. ASSUME NEW x \in Elements(queue') PROVE Origin(x)'
    <3>1. CASE x \in Elements(queue)
      BY <1>9, <2>2, <2>4, <3>1
    <3>2. CASE \E r \in Elements(batchResults) : x.depth = r.depth + 1 /\ x.url \in Elements(r.links)
      BY <1>7, <3>2 DEF Origin
    <3> QED
      BY <1>10, <3>1, <3>2
  <2> QED
    BY <1>6, <1>7, <2>2, <2>4, <2>5, <2>6 DEF Rooted
<1>15. ASSUME NEW x \in Elements(pages) \cup Waiting, x.depth <= input.maxDepth
       PROVE  \E y \in (Elements(pages) \cup Waiting)' : y.url = x.url /\ y.depth <= x.depth
  <2>1. x.depth \in Nat
    BY <1>9
  <2>2. CASE x \in Elements(pages) \/ x \in Elements(queue)
    <3>1. x \in (Elements(pages) \cup Waiting)'
      BY <1>1, <1>6, <1>7, <2>2
    <3> QED
      BY <2>1, <3>1
  <2>3. CASE x \in Elements(batch)
    <3>1. PICK r \in Elements(batchResults) : r.url = x.url /\ r.depth = x.depth
      BY <1>8, <2>3
    <3>2. r \in (Elements(pages) \cup Waiting)'
      BY <1>7, <3>1
    <3> QED
      BY <2>1, <3>1, <3>2
  <2> QED
    BY <1>9, <2>2, <2>3
<1>16. Covered'
  <2>1. \A url, d : d \in Nat /\ d <= input.maxDepth /\ Known(url, d) => Known(url, d)'
    BY <1>3, <1>4, <1>11, <1>15, StaysKnown
  <2>2. /\ input' = input /\ SeedsInScope' = SeedsInScope
        /\ stage \in {"taking", "done"}
    BY <1>2 DEF SeedsInScope, Scope, InScope
  <2>3. Known(input.start, 0)'
    <3>1. Known(input.start, 0)
      BY <1>3, <2>2 DEF Covered
    <3>2. 0 \in Nat /\ 0 <= input.maxDepth
      BY <1>4
    <3>3. \A url : Known(url, 0) => Known(url, 0)'
      BY <2>1, <3>2
    <3> QED
      BY <1>2, <3>1, <3>3 DEF Known
  <2>4. ASSUME ~dropped', input.maxDepth > 0, NEW url \in SeedsInScope PROVE Known(url, 1)'
    <3>1. Known(url, 1)
      BY <1>1, <1>3, <2>2, <2>4 DEF Covered
    <3>2. 1 \in Nat /\ 1 <= input.maxDepth
      BY <1>4, <2>4
    <3> QED
      BY <2>1, <3>1, <3>2
  <2>5. ASSUME ~dropped', NEW p \in Elements(pages), p.depth < input.maxDepth,
               NEW url \in Elements(p.links)
        PROVE  Known(url, p.depth + 1)'
    <3>1. p.depth + 1 \in Nat /\ p.depth + 1 <= input.maxDepth
      BY <1>4, <1>9, <2>5
    <3>2. Known(url, p.depth + 1)
      BY <1>1, <1>3, <2>2, <2>5 DEF Covered, LinksKnown
    <3> QED
      BY <2>1, <3>1, <3>2
  <2>6. ASSUME ~dropped', NEW r \in Elements(batchResults), r.depth < input.maxDepth,
               NEW url \in Elements(r.links)
        PROVE  Known(url, r.depth + 1)'
    <3>1. r.depth \in Nat /\ r.depth + 1 \in Nat /\ r.depth + 1 <= input.maxDepth
      BY <1>4, <1>9, <2>6
    <3>2. PICK b \in Elements(batch) : r.url = b.url /\ r.depth = b.depth
      BY <1>8
    <3>3. url \in visited \/ Deeper(url, r.depth + 1) \in Elements(queue')
      BY <1>1, <2>6 DEF LinksTaken
    <3>4. CASE url \in visited
      <4>1. PICK x \in Elements(pages) \cup Elements(batch) : x.url = url
        BY <1>3, <3>4 DEF VisitedOnce
      <4>2. x.depth <= r.depth + 1
        BY <1>3, <1>9, <3>1, <3>2, <4>1 DEF Layered
      <4>3. Known(url, r.depth + 1)
        BY <1>9, <4>1, <4>2 DEF Known
      <4> QED
        BY <2>1, <3>1, <4>3
    <3>5. CASE Deeper(url, r.depth + 1) \in Elements(queue')
      <4> DEFINE x == Deeper(url, r.depth + 1)
      <4>1. x.url = url /\ x.depth <= r.depth + 1
        BY <3>1 DEF Deeper
      <4>2. x \in (Elements(pages) \cup Waiting)'
        BY <1>6, <3>5
      <4> HIDE DEF x
      <4> QED
        BY <4>1, <4>2 DEF Known
    <3> QED
      BY <3>3, <3>4, <3>5
  <2> QED
    BY <1>7, <2>2, <2>3, <2>4, <2>5, <2>6 DEF Covered, LinksKnown
<1> QED
  BY <1>11, <1>12, <1>13, <1>14, <1>16 DEF CrawlInv

LEMMA CrawlFinished == ASSUME CrawlOK, CrawlInv, FinishCrawl PROVE CrawlInv'
<1>1. /\ stage = "taking" /\ ~BatchOpen /\ batch = <<>> /\ stage' = "done" /\ root' = RootOf(pages)
      /\ UNCHANGED <<input, robots, seeds, queue, visited, batch, pages, dropped, lost>>
  BY DEF FinishCrawl
<1>2. CrawlTyped /\ VisitedOnce /\ Layered /\ Rooted /\ Covered
  BY DEF CrawlInv
<1>3. CrawlTyped'
  <2>1. /\ Urls' = Urls /\ Items' = Items /\ Results' = Results /\ BatchOpen' = BatchOpen
        /\ RootOf(pages)' = RootOf(pages)
    BY <1>1 DEF Urls, Items, Results, BatchOpen, RootOf
  <2> QED
    BY <1>1, <1>2, <2>1 DEF CrawlTyped
<1>4. (VisitedOnce /\ Layered /\ Rooted)'
  BY <1>1, <1>2
     DEF VisitedOnce, Layered, InOrder, Rooted, Origin, Waiting, SeedsInScope, Scope, InScope
<1>5. Covered'
  BY <1>1, <1>2 DEF Covered, Known, LinksKnown, Waiting, SeedsInScope, Scope, InScope
<1> QED
  BY <1>3, <1>4, <1>5 DEF CrawlInv

LEMMA CrawlNextKeeps == ASSUME CrawlOK, CrawlInv, [CrawlNext]_crawlVars PROVE CrawlInv'
<1>1. CASE ReadRobots
  BY <1>1, RobotsRead
<1>2. CASE ReadSitemaps
  BY <1>2, SitemapsRead
<1>3. CASE Shift
  BY <1>3, Shifted
<1>4. CASE BatchFetched
  BY <1>4, BatchDone
<1>5. CASE FinishCrawl
  BY <1>5, CrawlFinished
<1>6. CASE UNCHANGED crawlVars
  BY <1>6 DEF crawlVars, CrawlInv, CrawlTyped, VisitedOnce, Layered, InOrder, Rooted, Origin,
              Covered, Known, LinksKnown, Waiting, SeedsInScope, Scope, InScope, Urls, Items,
              Results, BatchOpen, RootOf
<1> QED
  BY <1>1, <1>2, <1>3, <1>4, <1>5, <1>6 DEF CrawlNext

LEMMA CrawlInvariant == ASSUME CrawlOK PROVE CrawlSpec => []CrawlInv
<1>1. CrawlInit => CrawlInv
  BY CrawlStarts
<1>2. CrawlInv /\ [CrawlNext]_crawlVars => CrawlInv'
  BY CrawlNextKeeps
<1> QED
  BY <1>1, <1>2, PTL DEF CrawlSpec

BallsAdvance(depth) ==
  [p \in (1..depth) \X SUBSET Urls |-> Beyond(p[2])]
LEMMA BeyondElements ==
  ASSUME NEW urls
  PROVE  \A u : u \in Beyond(urls) <=> \/ u \in urls \/ u \in SeedsInScope
                                        \/ \E url \in urls : u \in LinksOf(url)
<1>1. \A u : u \in Linked(urls) <=> \E url \in urls : u \in LinksOf(url)
  BY Zenon DEF Linked
<1> QED
  BY <1>1 DEF Beyond

LEMMA BallsSolve ==
  ASSUME CrawlTyped, CrawlSite(input), NEW depth \in Nat
  PROVE  Solves(Balls(depth), depth, SUBSET Urls, {input.start}, BallsAdvance(depth))
<1> DEFINE n == depth
           advance == BallsAdvance(depth)
           Next(g) == [i \in 0..n |-> IF i = 0 THEN {input.start} ELSE Beyond(g[i - 1])]
           k == Balls(depth)
<1>1. n \in Nat /\ {input.start} \in SUBSET Urls /\ SeedsInScope \subseteq Urls
      /\ \A url : LinksOf(url) \subseteq Urls
  <2>1. \A x \in Elements(pages) : Elements(x.links) \subseteq Urls
    BY ItemsTyped, ElementsOf
  <2>2. SeedsInScope \subseteq Urls
    BY ItemsTyped DEF SeedsInScope
  <2>3. \A url : LinksOf(url) \subseteq Urls
    BY <2>1 DEF LinksOf
  <2>4. input.start \in Urls
    BY DEF CrawlSite, Urls
  <2> QED
    BY <2>2, <2>3, <2>4
<1>2. k = CHOOSE g : g = Next(g)
  BY DEF Balls
<1>3. /\ advance \in Steps(n, SUBSET Urls)
      /\ \A i \in 1..n, l \in SUBSET Urls : advance[<<i, l>>] = Beyond(l)
  <2>1. \A l \in SUBSET Urls : Beyond(l) \in SUBSET Urls
    BY <1>1, BeyondElements
  <2> QED
    BY <2>1 DEF Steps, BallsAdvance
<1> HIDE DEF n, advance, k
<1>4. PICK f : Solves(f, n, SUBSET Urls, {input.start}, advance)
  BY <1>1, <1>3, RecursionSolved
<1>5. f = Next(f)
  <2>1. f \in [0..n -> SUBSET Urls] /\ f[0] = {input.start} /\ \A i \in 1..n : f[i] = advance[<<i, f[i - 1]>>]
    BY <1>4 DEF Solves
  <2>2. ASSUME NEW i \in 0..n PROVE f[i] = Next(f)[i]
    <3>1. CASE i = 0
      BY <2>1, <3>1
    <3>2. CASE i # 0
      <4>1. i \in 1..n /\ f[i - 1] \in SUBSET Urls
        BY <1>1, <2>1, <3>2
      <4> QED
        BY <1>3, <2>1, <3>2, <4>1
    <3> QED
      BY <3>1, <3>2
  <2> QED
    BY <2>1, <2>2
<1>6. k = Next(k)
  BY <1>2, <1>5, Zenon
<1>7. \A i \in 0..n : k[i] = IF i = 0 THEN {input.start} ELSE Beyond(k[i - 1])
  BY <1>6
<1>8. k = [i \in 0..n |-> k[i]]
  BY <1>6
<1>9. k[0] = {input.start} /\ \A i \in 1..n : k[i - 1] \in SUBSET Urls => k[i] = advance[<<i, k[i - 1]>>]
  <2>1. 0 \in 0..n /\ \A i \in 1..n : i \in 0..n /\ i # 0
    BY <1>1
  <2> QED
    BY <1>3, <1>7, <2>1, Zenon
<1>10. Solves(k, n, SUBSET Urls, {input.start}, advance)
  BY <1>1, <1>3, <1>8, <1>9, Unrolled
<1> QED
  BY <1>10 DEF k, n, advance

\* A crawl that ends with room left, and refused nothing, has the whole ball.
PagesTo(d) == {p.url : p \in {x \in Elements(pages) : x.depth <= d}}
LEMMA WholeBall ==
  ASSUME CrawlOK, CrawlInv, stage = "done", ~dropped, queue = <<>>
  PROVE  {pages[i].url : i \in DOMAIN pages} = Within(input.maxDepth)
<1> DEFINE n == input.maxDepth
           k == Balls(n)
           advance == BallsAdvance(n)
           N == {d \in 0..n : k[d] = PagesTo(d)}
<1>1. CrawlTyped /\ VisitedOnce /\ Layered /\ Rooted /\ Covered /\ CrawlSite(input) /\ n \in Nat
  BY SiteOf DEF CrawlInv, CrawlTyped, CrawlSite
<1>2. Waiting = {} /\ batch = <<>>
  BY <1>1 DEF Waiting, Elements, CrawlTyped
<1>3. Solves(k, n, SUBSET Urls, {input.start}, advance)
  BY <1>1, BallsSolve
<1>4. /\ k[0] = {input.start}
      /\ \A i \in 1..n : k[i] = Beyond(k[i - 1])
  <2>1. \A i \in 1..n, l \in SUBSET Urls :
          advance[<<i, l>>] = Beyond(l)
    BY DEF BallsAdvance
  <2> HIDE DEF k, advance, n
  <2>2. k[0] = {input.start} /\ k \in [0..n -> SUBSET Urls] /\ \A i \in 1..n : k[i] = advance[<<i, k[i - 1]>>]
    BY <1>3 DEF Solves
  <2>3. \A i \in 1..n : k[i - 1] \in SUBSET Urls
    BY <1>1, <2>2
  <2> QED
    BY <2>1, <2>2, <2>3
<1> HIDE DEF k, advance
<1>5. /\ \A x \in Elements(pages) : x.depth \in Nat /\ x.depth <= n /\ Origin(x)
      /\ \A x, y \in Elements(pages) : x.url = y.url => x = y
  <2>1. \A x \in Elements(pages) : x.depth \in Nat /\ x.depth <= n /\ Origin(x)
    BY <1>1, ItemsTyped DEF VisitedOnce, Rooted
  <2>2. \A x, y \in Elements(pages) : x.url = y.url => x = y
    BY <1>1 DEF VisitedOnce, Elements
  <2> QED
    BY <2>1, <2>2
<1>6. \A url, d : Known(url, d) => url \in PagesTo(d)
  BY <1>2 DEF Known, PagesTo
<1>7. /\ Known(input.start, 0) /\ (n > 0 => \A url \in SeedsInScope : Known(url, 1))
      /\ \A p \in Elements(pages) : p.depth < n => LinksKnown(p)
  BY <1>1 DEF Covered
<1>8. 0 \in N
  <2>1. input.start \in PagesTo(0)
    BY <1>6, <1>7
  <2>2. \A p \in Elements(pages) : p.depth <= 0 => p.url = input.start
    BY <1>5 DEF Origin
  <2>3. PagesTo(0) = {input.start}
    BY <2>1, <2>2 DEF PagesTo
  <2>4. 0 \in 0..n
    BY <1>1
  <2> HIDE DEF n
  <2> QED
    BY <1>4, <2>3, <2>4
<1>9. ASSUME NEW d \in 0..(n - 1), d \in N PROVE d + 1 \in N
  <2>1. d + 1 \in 1..n /\ (d + 1) - 1 = d /\ d + 1 \in 0..n /\ d < n /\ d \in Nat /\ n > 0
    BY <1>1
  <2>2. k[d] = PagesTo(d) /\
        \A u : u \in k[d + 1] <=> \/ u \in PagesTo(d) \/ u \in SeedsInScope
                                   \/ \E url \in PagesTo(d) : u \in LinksOf(url)
    <3>1. k[d] = PagesTo(d) /\ k[d + 1] = Beyond(PagesTo(d))
      BY <1>4, <1>9, <2>1
    <3> QED
      BY <3>1, BeyondElements
  <2>3. ASSUME NEW u \in k[d + 1] PROVE u \in PagesTo(d + 1)
    <3>1. CASE u \in PagesTo(d)
      BY <1>5, <2>1, <3>1 DEF PagesTo
    <3>2. CASE u \in SeedsInScope
      <4>1. u \in PagesTo(1)
        BY <1>6, <1>7, <2>1, <3>2
      <4> QED
        BY <1>5, <2>1, <4>1 DEF PagesTo
    <3>3. CASE \E url \in PagesTo(d) : u \in LinksOf(url)
      <4>1. PICK p \in Elements(pages), q \in Elements(pages) :
              p.depth <= d /\ q.url = p.url /\ u \in Elements(q.links)
        BY <3>3 DEF PagesTo, LinksOf
      <4>2. p = q /\ p.depth < n /\ p.depth + 1 <= d + 1
        BY <1>1, <1>5, <2>1, <4>1
      <4>3. u \in PagesTo(p.depth + 1)
        BY <1>6, <1>7, <4>1, <4>2 DEF LinksKnown
      <4> QED
        BY <1>5, <2>1, <4>2, <4>3 DEF PagesTo
    <3> QED
      BY <2>2, <3>1, <3>2, <3>3
  <2>4. ASSUME NEW p \in Elements(pages), p.depth <= d + 1 PROVE p.url \in k[d + 1]
    <3>1. p.depth \in Nat /\ Origin(p)
      BY <1>5
    <3>2. CASE p.depth <= d
      BY <2>2, <3>2 DEF PagesTo
    <3>3. CASE p.depth = d + 1
      <4>1. CASE p.url \in SeedsInScope
        BY <2>2, <4>1
      <4>2. CASE \E q \in Elements(pages) : p.depth = q.depth + 1 /\ p.url \in Elements(q.links)
        <5>1. PICK q \in Elements(pages) : p.depth = q.depth + 1 /\ p.url \in Elements(q.links)
          BY <4>2
        <5>2. q.depth <= d
          BY <1>5, <2>1, <3>3, <5>1
        <5>3. q.url \in PagesTo(d) /\ p.url \in LinksOf(q.url)
          BY <5>1, <5>2 DEF PagesTo, LinksOf
        <5> QED
          BY <2>2, <5>3
      <4> QED
        BY <2>1, <3>1, <3>3, <4>1, <4>2 DEF Origin
    <3> QED
      BY <2>1, <2>4, <3>1, <3>2, <3>3
  <2> QED
    BY <2>1, <2>3, <2>4 DEF PagesTo
<1>10. n \in N
  <2>1. n \in Nat /\ 0 \in N /\ \A i \in 0..(n - 1) : i \in N => i + 1 \in N
    BY <1>1, <1>8, <1>9
  <2> HIDE DEF N
  <2>2. \A i \in 0..n : i \in N
    BY <2>1, Induction, Zenon
  <2> QED
    BY <2>1, <2>2
<1>11. {pages[i].url : i \in DOMAIN pages} = PagesTo(n)
  BY <1>5 DEF PagesTo, Elements
<1> QED
  BY <1>10, <1>11 DEF Within, k

\* CrawlReachesAll: what a crawl that ended holds (crawler/crawler.ts, runCrawl).
LEMMA WhatACrawlHolds == ASSUME CrawlOK, CrawlInv PROVE CrawlReachesAll
<1> SUFFICES ASSUME stage = "done"
             PROVE  /\ \A i, j \in DOMAIN pages : pages[i].url = pages[j].url => i = j
                    /\ Len(pages) <= input.maxPages
                    /\ root # "missing"
                    /\ ~dropped /\ Len(pages) < input.maxPages =>
                         {pages[i].url : i \in DOMAIN pages} = Within(input.maxDepth)
  BY DEF CrawlReachesAll
<1>1. /\ CrawlTyped /\ VisitedOnce /\ Layered /\ Rooted /\ Covered /\ CrawlSite(input)
      /\ batch = <<>> /\ ~BatchOpen /\ root = RootOf(pages)
  BY SiteOf DEF CrawlInv, CrawlTyped
<1>2. /\ pages \in Seq(Results) /\ Len(pages) \in Nat /\ DOMAIN pages = 1..Len(pages) /\ Len(batch) = 0
  BY <1>1 DEF CrawlTyped
<1>3. Len(pages) <= input.maxPages
  BY <1>1, <1>2 DEF VisitedOnce, CrawlSite
<1>4. queue = <<>> \/ Len(pages) >= input.maxPages
  BY <1>1, <1>2 DEF BatchOpen, CrawlSite
<1>5. \E i \in DOMAIN pages : pages[i].url = input.start
  <2>1. PICK x \in Elements(pages) \cup Waiting : x.url = input.start /\ x.depth <= 0
    BY <1>1 DEF Covered, Known
  <2>2. CASE x \in Elements(pages)
    BY <2>1, <2>2 DEF Elements
  <2>3. CASE x \in Waiting
    <3>1. queue # <<>> /\ Len(pages) >= 1
      <4>1. queue # <<>>
        BY <1>1, <2>3 DEF Waiting, Elements
      <4> QED
        BY <1>1, <1>2, <1>4, <4>1 DEF CrawlSite
    <3>2. 1 \in DOMAIN pages /\ pages[1] \in Elements(pages)
      BY <1>2, <3>1 DEF Elements
    <3>3. pages[1].depth <= x.depth /\ pages[1].depth \in Nat /\ x.depth \in Nat /\ Origin(pages[1])
      BY <1>1, <2>3, <3>2, ItemsTyped DEF Layered, Rooted
    <3>4. \A p \in Elements(pages) : p.depth \in Nat
      BY <1>1, ItemsTyped
    <3>5. pages[1].url = input.start
      BY <2>1, <3>3, <3>4 DEF Origin
    <3> QED
      BY <3>2, <3>5
  <2> QED
    BY <2>1, <2>2, <2>3
<1>6. root # "missing"
  <2> DEFINE i == CHOOSE i \in DOMAIN pages : pages[i].url = input.start
  <2>1. i \in DOMAIN pages
    BY <1>5
  <2> HIDE DEF i
  <2>2. pages[i].kind \in {"disallowed", "failed", "html", "other"}
    BY <1>1, <2>1, ItemsTyped DEF Elements
  <2>3. root = IF pages[i].kind = "html" THEN "evaluable" ELSE pages[i].kind
    BY <1>1, <1>5 DEF RootOf, i
  <2> QED
    BY <2>2, <2>3
<1>7. ASSUME ~dropped, Len(pages) < input.maxPages
      PROVE  {pages[i].url : i \in DOMAIN pages} = Within(input.maxDepth)
  <2>1. queue = <<>>
    BY <1>1, <1>2, <1>4, <1>7 DEF CrawlSite
  <2> QED
    BY <1>7, <2>1, WholeBall
<1> QED
  BY <1>1, <1>3, <1>6, <1>7 DEF VisitedOnce

\* Whatever a site's links, redirects, robots.txt and sitemaps are, and whichever fetches are
\* lost: a crawl that ends has visited no URL twice and no more than it may, the root among
\* them, and unless its pages or its queue were full it has every URL within its depth.
THEOREM CrawlsReachAll == ASSUME CrawlOK PROVE CrawlSpec => []CrawlReachesAll
<1>1. CrawlInv => CrawlReachesAll
  BY WhatACrawlHolds
<1> QED
  BY <1>1, CrawlInvariant, PTL

-----------------------------------------------------------------------------
(***************************************************************************)
(* The score of a site                                                     *)
(***************************************************************************)
\* The points are few enough for the score s.
Reaches(s, points, n) == 4 * points * points <= (201 - 2 * s) * (201 - 2 * s) * n

LEMMA Products ==
  ASSUME NEW a \in Nat, NEW b \in Nat, a <= b, NEW c \in Nat
  PROVE  a * a \in Nat /\ b * b \in Nat /\ a * a <= b * b /\ a * c \in Nat /\ a * c <= b * c
<1>1. \E d \in Nat : b = a + d
  <2>1. b - a \in Nat /\ b = a + (b - a)
    OBVIOUS
  <2> QED
    BY <2>1
<1>2. PICK d \in Nat : b = a + d
  BY <1>1
<1>3. (a + d) * (a + d) = a * a + 2 * (a * d) + d * d /\ (a + d) * c = a * c + d * c
  OBVIOUS
<1>4. a * d \in Nat /\ d * d \in Nat /\ d * c \in Nat /\ a * a \in Nat /\ a * c \in Nat
  OBVIOUS
<1>5. a * a <= b * b /\ b * b \in Nat
  BY <1>2, <1>3, <1>4
<1>6. a * c <= b * c
  BY <1>2, <1>3, <1>4
<1> QED
  BY <1>4, <1>5, <1>6

LEMMA PointsReach ==
  ASSUME NEW s \in 0..100, NEW p \in Nat, NEW q \in Nat, p <= q, NEW n \in Nat, Reaches(s, q, n)
  PROVE  Reaches(s, p, n)
<1> DEFINE w == (201 - 2 * s) * (201 - 2 * s) * n
<1>1. 201 - 2 * s \in Nat
  OBVIOUS
<1>2. w \in Nat
  BY <1>1
<1>3. p * p \in Nat /\ q * q \in Nat /\ p * p <= q * q
  BY Products
<1>4. 4 * p * p = 4 * (p * p) /\ 4 * q * q = 4 * (q * q)
  OBVIOUS
<1>5. 4 * q * q <= w
  BY DEF Reaches
<1> HIDE DEF w
<1>6. 4 * p * p <= w
  BY <1>2, <1>3, <1>4, <1>5
<1> QED
  BY <1>6 DEF Reaches, w

LEMMA PagesReach ==
  ASSUME NEW s \in 0..100, NEW p \in Nat, NEW n \in Nat, NEW m \in Nat, n <= m, Reaches(s, p, n)
  PROVE  Reaches(s, p, m)
<1> DEFINE w == (201 - 2 * s) * (201 - 2 * s)
<1>1. 201 - 2 * s \in Nat
  OBVIOUS
<1>2. w \in Nat
  BY <1>1, Products
<1>3. 4 * p * p <= w * n /\ 4 * p * p \in Nat
  BY DEF Reaches
<1> HIDE DEF w
<1>4. n * w \in Nat /\ m * w \in Nat /\ n * w <= m * w /\ n * w = w * n /\ m * w = w * m
  BY <1>2, Products
<1>5. 4 * p * p <= w * m
  BY <1>3, <1>4
<1> QED
  BY <1>5 DEF Reaches, w

LEMMA LowerReaches ==
  ASSUME NEW s \in 0..100, NEW r \in 0..100, r <= s, NEW p \in Nat, NEW n \in Nat, Reaches(s, p, n)
  PROVE  Reaches(r, p, n)
<1> DEFINE a == 201 - 2 * s
           b == 201 - 2 * r
<1>1. a \in Nat /\ b \in Nat /\ a <= b
  OBVIOUS
<1>2. 4 * p * p <= a * a * n /\ 4 * p * p \in Nat
  BY DEF Reaches
<1> HIDE DEF a, b
<1>3. a * a \in Nat /\ b * b \in Nat /\ a * a <= b * b
  BY <1>1, Products
<1>4. (a * a) * n <= (b * b) * n
  BY <1>3, Products
<1>5. (a * a) * n \in Nat /\ (b * b) * n \in Nat
  BY <1>3
<1>6. 4 * p * p <= b * b * n
  BY <1>2, <1>4, <1>5
<1> QED
  BY <1>6 DEF Reaches, b

\* The score is the greatest that the points reach, and 0 when they reach none.
LEMMA ScoreIs ==
  ASSUME NEW p \in Nat, NEW n \in Nat
  PROVE  /\ ScoreOf(p, n) \in 0..100
         /\ \A s \in 0..100 : Reaches(s, p, n) => Reaches(ScoreOf(p, n), p, n) /\ s <= ScoreOf(p, n)
         /\ ScoreOf(p, n) # 0 => Reaches(ScoreOf(p, n), p, n)
<1> DEFINE R == {s \in 0..100 : Reaches(s, p, n)}
           best == CHOOSE s \in R : s + 1 \notin R
<1>1. ScoreOf(p, n) = IF R = {} THEN 0 ELSE best
  BY DEF ScoreOf, Reaches
<1>2. CASE R = {}
  <2>1. ScoreOf(p, n) = 0
    BY <1>1, <1>2
  <2> QED
    BY <1>2, <2>1
<1>3. CASE R # {}
  <2> DEFINE T == {100 - s : s \in R}
  <2>1. T \in SUBSET Nat /\ T # {}
    BY <1>3
  <2>2. PICK t \in T : \A u \in T : t <= u
    BY <2>1, LeastNumber
  <2>3. PICK m \in R : t = 100 - m
    BY <2>2
  <2>4. \A s \in R : s <= m
    <3>1. \A s \in R : 100 - m <= 100 - s
      BY <2>2, <2>3
    <3> QED
      BY <3>1
  <2>5. m + 1 \notin R
    BY <2>4
  <2> HIDE DEF T, R
  <2>6. best \in R /\ best + 1 \notin R
    BY <2>3, <2>5
  <2> HIDE DEF best
  <2>7. \A s \in R : s <= best
    <3> SUFFICES ASSUME NEW s \in R, best < s PROVE FALSE
      BY <2>6 DEF R
    <3>1. best + 1 \in 0..100 /\ best + 1 <= s /\ s \in 0..100 /\ Reaches(s, p, n)
      BY <2>6 DEF R
    <3>2. Reaches(best + 1, p, n)
      BY <3>1, LowerReaches
    <3> QED
      BY <2>6, <3>1, <3>2 DEF R
  <2>8. ScoreOf(p, n) = best
    BY <1>1, <1>3
  <2> QED
    BY <2>6, <2>7, <2>8 DEF R
<1> QED
  BY <1>2, <1>3

\* Fewer points, or more pages, are never a lower score.
LEMMA ScoreOrder ==
  ASSUME NEW p \in Nat, NEW q \in Nat, NEW n \in Nat, NEW m \in Nat, p <= q, n <= m
  PROVE  ScoreOf(q, n) <= ScoreOf(p, m)
<1> DEFINE low == ScoreOf(q, n)
<1>1. low \in 0..100 /\ (low # 0 => Reaches(low, q, n))
  BY ScoreIs
<1> HIDE DEF low
<1>2. CASE low = 0
  <2>1. ScoreOf(p, m) \in 0..100
    BY ScoreIs
  <2> QED
    BY <1>2, <2>1 DEF low
<1>3. CASE low # 0
  <2>1. Reaches(low, p, n)
    BY <1>1, <1>3, PointsReach
  <2>2. Reaches(low, p, m)
    BY <1>1, <2>1, PagesReach
  <2>3. low <= ScoreOf(p, m)
    BY <1>1, <2>2, ScoreIs
  <2> QED
    BY <2>3 DEF low
<1> QED
  BY <1>2, <1>3

\* Without points the score is full, with two of them not in fewer than 16 pages.
LEMMA FullScore ==
  ASSUME NEW n \in Nat
  PROVE  /\ ScoreOf(0, n) = 100
         /\ \A p \in Nat : p >= 2 /\ n < 16 => ScoreOf(p, n) # 100
<1>1. Reaches(100, 0, n)
  BY DEF Reaches
<1>2. ScoreOf(0, n) = 100
  <2>1. 100 <= ScoreOf(0, n) /\ ScoreOf(0, n) \in 0..100
    BY <1>1, ScoreIs
  <2> QED
    BY <2>1
<1>3. ASSUME NEW p \in Nat, p >= 2, n < 16, ScoreOf(p, n) = 100 PROVE FALSE
  <2>1. Reaches(100, p, n)
    BY <1>3, ScoreIs
  <2>2. 2 * 2 <= p * p /\ p * p \in Nat
    BY <1>3, Products
  <2>3. 4 * p * p = 4 * (p * p) /\ (201 - 2 * 100) * (201 - 2 * 100) * n = n
    OBVIOUS
  <2> QED
    BY <1>3, <2>1, <2>2, <2>3 DEF Reaches
<1> QED
  BY <1>2, <1>3

-----------------------------------------------------------------------------
(***************************************************************************)
(* The issues of a site                                                    *)
(***************************************************************************)
Rules == Critical \cup High \cup Medium \cup Low

\* What is said with an issue is so.
Justified(x) ==
  /\ x.rule = "robots-txt-missing" => files.robots = "absent"
  /\ x.rule = "sitemap-missing" => files.sitemap1 = "absent" /\ files.sitemap2 = "absent"
  /\ x.rule = "slow-response-time" => source # "archive"
  /\ x.at # 0 /\ x.rule \notin {"broken-internal-link", "slow-response-time"} =>
       results[x.at].reply = "html"
JustIssues == {x \in [rule : Rules, at : 0..Len(results)] : Justified(x)}
OwnIssues == {x \in JustIssues : x.rule # "duplicate-titles"}

LEMMA RuleWeights == \A rule \in Rules : RuleWeight(rule) \in Nat /\ RuleWeight(rule) >= 2
<1> SUFFICES ASSUME NEW rule \in Rules PROVE RuleWeight(rule) \in {15, 10, 5, 2}
  OBVIOUS
<1>1. CASE rule \in Critical
  BY <1>1 DEF RuleWeight, Critical, High, Medium, Low
<1>2. CASE rule \in High
  BY <1>2 DEF RuleWeight, Critical, High, Medium, Low
<1>3. CASE rule \in Medium
  BY <1>3 DEF RuleWeight, Critical, High, Medium, Low
<1>4. CASE rule \in Low
  BY <1>4 DEF RuleWeight, Critical, High, Medium, Low
<1> QED
  BY <1>1, <1>2, <1>3, <1>4 DEF Rules

\* Nothing is deducted of a site without issues, and at least 2 of one that has any.
LEMMA DeductionIs ==
  ASSUME NEW found \in Seq([rule : Rules, at : Nat])
  PROVE  /\ Deduction(found) \in Nat
         /\ found = <<>> => Deduction(found) = 0
         /\ found # <<>> => Deduction(found) >= 2
<1> DEFINE w == [i \in DOMAIN found |-> RuleWeight(found[i].rule)]
<1>1. /\ Len(found) \in Nat /\ DOMAIN found = 1..Len(found) /\ \A i \in DOMAIN found : found[i].rule \in Rules
      /\ (found # <<>> => 1 \in DOMAIN found) /\ (found = <<>> => Len(found) = 0)
  <2>1. Len(found) \in Nat /\ DOMAIN found = 1..Len(found)
    OBVIOUS
  <2>2. \A i \in DOMAIN found : found[i] \in [rule : Rules, at : Nat]
    BY ListElement
  <2>3. found # <<>> => Len(found) # 0
    OBVIOUS
  <2>4. found = <<>> => Len(found) = 0
    OBVIOUS
  <2> QED
    BY <2>1, <2>2, <2>3, <2>4
<1>2. \A i \in DOMAIN found : RuleWeight(found[i].rule) \in Nat /\ RuleWeight(found[i].rule) >= 2
  BY <1>1, RuleWeights
<1>3. w \in [1..Len(found) -> Nat]
  BY <1>1, <1>2
<1>4. w \in Seq(Nat) /\ Len(w) = Len(found)
  BY <1>1, <1>3
<1>5. \A i \in DOMAIN found : w[i] >= 2
  BY <1>2
<1> HIDE DEF w
<1>6. /\ Sum(w) \in Nat /\ Adding(w)[0] = 0 /\ \A i \in 1..Len(w) : w[i] <= Sum(w)
  BY <1>4, SumOfNumbers
<1>7. Deduction(found) = Sum(w)
  BY DEF Deduction, w
<1>8. found = <<>> => Deduction(found) = 0
  BY <1>1, <1>4, <1>6, <1>7 DEF Sum
<1>9. found # <<>> => Deduction(found) >= 2
  <2>1. SUFFICES ASSUME found # <<>> PROVE Sum(w) >= 2
    BY <1>7
  <2>2. 1 \in DOMAIN found /\ w[1] <= Sum(w) /\ w[1] >= 2 /\ w[1] \in Nat
    BY <1>1, <1>3, <1>4, <1>5, <1>6, <2>1 DEF w
  <2> QED
    BY <1>6, <2>2
<1> QED
  BY <1>6, <1>7, <1>8, <1>9

LEMMA OneIssue ==
  ASSUME NEW S, NEW rule, NEW at, NEW holds, holds => [rule |-> rule, at |-> at] \in S
  PROVE  Issue(rule, at, holds) \in Seq(S)
<1>1. CASE holds
  <2>1. Issue(rule, at, holds) = <<[rule |-> rule, at |-> at]>>
    BY <1>1, Zenon DEF Issue
  <2>2. [rule |-> rule, at |-> at] \in S
    BY <1>1, Zenon
  <2> QED
    BY <2>1, <2>2
<1>2. CASE ~holds
  <2>1. Issue(rule, at, holds) = <<>>
    BY <1>2, Zenon DEF Issue
  <2> QED
    BY <2>1
<1> QED
  BY <1>1, <1>2, Zenon

LEMMA JoinedIssues ==
  ASSUME NEW S, NEW s \in Seq(S), NEW t \in Seq(S) PROVE s \o t \in Seq(S)
  OBVIOUS

-----------------------------------------------------------------------------
TitledPages == {p \in 1..checked : Parsed(results[p]) /\ results[p].title # NoTitle}
TitleGroups == [title : {r.title : r \in PageResults}, pages : Seq(1..Len(results))]

ScoreTyped ==
  /\ files \in [robots : FileStates, sitemap1 : FileStates, sitemap2 : FileStates,
                declared : BOOLEAN, error : BOOLEAN]
  /\ source \in {"live", "archive"} /\ results \in Seq(PageResults)
  /\ checked \in 0..Len(results) /\ titles \in Seq(TitleGroups)
  /\ step \in {"site", "pages", "rejected", "scored"}
\* Each title has one group, which names each page of that title once.
TitlesTold ==
  /\ \A g, h \in DOMAIN titles : titles[g].title = titles[h].title => g = h
  /\ \A g \in DOMAIN titles : \A i, j \in DOMAIN titles[g].pages :
       titles[g].pages[i] = titles[g].pages[j] => i = j
  /\ \A g \in DOMAIN titles :
       Elements(titles[g].pages) = {p \in TitledPages : results[p].title = titles[g].title}
  /\ \A p \in TitledPages : \E g \in DOMAIN titles : titles[g].title = results[p].title
Shared == {i \in DOMAIN results : results[i].title # NoTitle
                                  /\ \E j \in DOMAIN results : i # j /\ SameTitle(i, j)}
IssuesTold ==
  /\ step = "site" => issues = <<>> /\ checked = 0 /\ titles = <<>>
  /\ step # "scored" => issues \in Seq(OwnIssues)
  /\ step = "scored" => /\ issues \in Seq(JustIssues) /\ Claims("duplicate-titles") = Shared
                        /\ score = ScoreOf(Deduction(issues), Len(results))
ScoreInv == ScoreTyped /\ TitlesTold /\ IssuesTold

LEMMA ScoreStarts == ASSUME ScoreOK, ScoreInit PROVE ScoreInv
<1>1. PICK k \in 1..MaxResults : results \in [1..k -> PageResults]
  BY DEF ScoreInit
<1>2. k \in Nat
  BY DEF ScoreOK
<1>3. results \in Seq(PageResults)
  BY <1>1, <1>2
<1>4. Len(results) \in Nat
  BY <1>3
<1>5. ScoreTyped
  BY <1>3, <1>4 DEF ScoreInit, ScoreTyped
<1>6. DOMAIN titles = {} /\ TitledPages = {}
  BY DEF ScoreInit, TitledPages
<1>7. TitlesTold
  BY <1>6 DEF TitlesTold
<1>8. IssuesTold
  BY DEF ScoreInit, IssuesTold
<1> QED
  BY <1>5, <1>7, <1>8 DEF ScoreInv

\* A site's issue of a file is about a file that is missing.
LEMMA SiteChecked == ASSUME ScoreOK, ScoreInv, SiteChecks PROVE ScoreInv'
<1> USE DEF ScoreInv
<1>1. /\ files' = files /\ source' = source /\ results' = results /\ titles' = titles
      /\ checked' = checked /\ score' = score /\ step = "site" /\ step' \in {"pages", "rejected"}
  BY DEF SiteChecks
<1>2. ScoreTyped'
  BY <1>1 DEF ScoreTyped, TitleGroups
<1>3. TitlesTold'
  BY <1>1 DEF TitlesTold, TitledPages
<1>4. OwnIssues' = OwnIssues
  BY <1>1 DEF OwnIssues, JustIssues, Justified
<1>5. issues' \in Seq(OwnIssues)
  <2>1. CASE ~RootEvaluable
    BY <1>1, <2>1 DEF SiteChecks, IssuesTold
  <2>2. CASE RootEvaluable
    <3>1. Len(results) \in Nat /\ 0 \in 0..Len(results)
      BY DEF ScoreTyped
    <3>2. RobotsStatus = 404 => files.robots = "absent"
      BY DEF RobotsStatus, Status, ScoreTyped, FileStates
    <3>3. MissingConfirmed => files.sitemap1 = "absent" /\ files.sitemap2 = "absent"
      BY DEF MissingConfirmed, Status, ScoreTyped, FileStates
    <3>4. \A rule \in {"robots-txt-missing", "sitemap-missing", "sitemap-url-error"} :
            /\ [rule |-> rule, at |-> 0] \in [rule : Rules, at : 0..Len(results)]
            /\ [rule |-> rule, at |-> 0].rule = rule /\ [rule |-> rule, at |-> 0].at = 0
      BY <3>1 DEF Rules, Critical, High, Medium, Low
    <3>5. /\ RobotsStatus = 404 => [rule |-> "robots-txt-missing", at |-> 0] \in OwnIssues
          /\ MissingConfirmed => [rule |-> "sitemap-missing", at |-> 0] \in OwnIssues
          /\ [rule |-> "sitemap-url-error", at |-> 0] \in OwnIssues
      BY <3>2, <3>3, <3>4 DEF OwnIssues, JustIssues, Justified
    <3>6. /\ Issue("robots-txt-missing", 0, RobotsStatus = 404) \in Seq(OwnIssues)
          /\ Issue("sitemap-missing", 0, MissingConfirmed) \in Seq(OwnIssues)
          /\ Issue("sitemap-url-error", 0, source = "live" /\ files.error) \in Seq(OwnIssues)
      BY <3>5, OneIssue
    <3>7. issues' = Issue("robots-txt-missing", 0, RobotsStatus = 404)
                    \o Issue("sitemap-missing", 0, MissingConfirmed)
                    \o Issue("sitemap-url-error", 0, source = "live" /\ files.error)
      BY <2>2 DEF SiteChecks
    <3> QED
      BY <3>6, <3>7, JoinedIssues
  <2> QED
    BY <2>1, <2>2
<1>6. IssuesTold'
  BY <1>1, <1>4, <1>5 DEF IssuesTold
<1> QED
  BY <1>2, <1>3, <1>6

LEMMA PageOfCrawl ==
  ASSUME ScoreInv, checked < Len(results)
  PROVE  /\ checked \in Nat /\ Len(results) \in Nat /\ DOMAIN results = 1..Len(results)
         /\ checked + 1 \in 1..Len(results) /\ results[checked + 1] \in PageResults
  BY DEF ScoreInv, ScoreTyped

\* What a page adds to the issues says of this page what it is.
LEMMA PageChecked ==
  ASSUME ScoreInv, checked < Len(results)
  PROVE  LET at == checked + 1  page == results[at] IN
         /\ PageIssues(page, at) \in Seq(OwnIssues)
         /\ Parsed(page) => DataIssues(page, at) \in Seq(OwnIssues)
<1> DEFINE at == checked + 1
           page == results[at]
           Finding(rule) == [rule |-> rule, at |-> at]
<1>1. at \in 1..Len(results) /\ Len(results) \in Nat
  BY PageOfCrawl
<1>2. \A rule : Finding(rule).rule = rule /\ Finding(rule).at = at
  OBVIOUS
<1>3. \A rule \in Rules : Finding(rule) \in [rule : Rules, at : 0..Len(results)]
  BY <1>1
<1>4. Finding("broken-internal-link") \in OwnIssues
  <2>1. Finding("broken-internal-link") \in [rule : Rules, at : 0..Len(results)]
    BY <1>3 DEF Rules, Critical
  <2> QED
    BY <1>2, <2>1 DEF OwnIssues, JustIssues, Justified
<1>5. source # "archive" => Finding("slow-response-time") \in OwnIssues
  <2>1. Finding("slow-response-time") \in [rule : Rules, at : 0..Len(results)]
    BY <1>3 DEF Rules, Medium
  <2> QED
    BY <1>2, <2>1 DEF OwnIssues, JustIssues, Justified
<1> DEFINE markup == {"noindex-detected", "canonical-invalid", "canonical-missing", "canonical-external",
                      "title-missing", "title-too-long", "title-too-short", "meta-desc-missing",
                      "meta-desc-too-long", "h1-missing", "h1-multiple", "jsonld-syntax-error"}
<1>6. ASSUME Parsed(page) PROVE \A rule \in markup : Finding(rule) \in OwnIssues
  <2>1. \A rule \in markup :
          /\ rule \in Rules
          /\ rule \notin {"robots-txt-missing", "sitemap-missing", "slow-response-time", "duplicate-titles"}
    BY DEF Rules, Critical, High, Medium, Low
  <2>2. results[at].reply = "html"
    BY <1>6 DEF Parsed
  <2> HIDE DEF markup
  <2> QED
    BY <1>2, <1>3, <2>1, <2>2 DEF OwnIssues, JustIssues, Justified
<1>7. PageIssues(page, at) \in Seq(OwnIssues)
  <2>1. Issue("broken-internal-link", at, page.reply \in {"not_found", "server_error"}) \in Seq(OwnIssues)
    BY <1>4, OneIssue
  <2>2. source = "live" /\ page.slow => Finding("slow-response-time") \in OwnIssues
    BY <1>5
  <2>3. Issue("slow-response-time", at, source = "live" /\ page.slow) \in Seq(OwnIssues)
    BY <2>2, OneIssue
  <2> HIDE DEF page, at
  <2> QED
    BY <2>1, <2>3, JoinedIssues DEF PageIssues
<1>8. ASSUME Parsed(page) PROVE DataIssues(page, at) \in Seq(OwnIssues)
  <2>1. \A rule \in markup : Finding(rule) \in OwnIssues
    BY <1>6, <1>8
  <2> DEFINE Data(rule, holds) == Issue(rule, at, holds)
  <2> HIDE DEF page, at
  <2>2. /\ Issue("noindex-detected", at, page.noindex) \in Seq(OwnIssues)
        /\ Issue("canonical-invalid", at, page.canonical = "invalid") \in Seq(OwnIssues)
        /\ Issue("canonical-missing", at, page.canonical = "none") \in Seq(OwnIssues)
        /\ Issue("canonical-external", at, page.canonical = "external") \in Seq(OwnIssues)
    BY <2>1, OneIssue, Zenon
  <2>3. /\ Issue("title-missing", at, page.title = NoTitle) \in Seq(OwnIssues)
        /\ Issue("title-too-long", at, page.title # NoTitle /\ page.length > 60) \in Seq(OwnIssues)
        /\ Issue("title-too-short", at, page.title # NoTitle /\ page.length < 10) \in Seq(OwnIssues)
        /\ Issue("meta-desc-missing", at, page.description = 0) \in Seq(OwnIssues)
    BY <2>1, OneIssue, Zenon
  <2>4. /\ Issue("meta-desc-too-long", at, page.description > 160) \in Seq(OwnIssues)
        /\ Issue("h1-missing", at, page.h1 = 0) \in Seq(OwnIssues)
        /\ Issue("h1-multiple", at, page.h1 > 1) \in Seq(OwnIssues)
        /\ Issue("jsonld-syntax-error", at, ~page.jsonLd) \in Seq(OwnIssues)
    BY <2>1, OneIssue, Zenon
  <2> QED
    BY <2>2, <2>3, <2>4, JoinedIssues DEF DataIssues
<1> QED
  BY <1>7, <1>8

\* A page's position is put into the group of its title, which may be a new one.
LEMMA GroupedTitle ==
  ASSUME ScoreInv, checked < Len(results),
         Parsed(results[checked + 1]), results[checked + 1].title # NoTitle,
         titles' = AddedTo(titles, results[checked + 1].title, checked + 1),
         checked' = checked + 1, results' = results
  PROVE  titles' \in Seq(TitleGroups) /\ TitlesTold'
<1> DEFINE at == checked + 1
           title == results[at].title
           n == Len(titles)
<1>1. at \in 1..Len(results) /\ title \in {r.title : r \in PageResults} /\ checked \in Nat
  BY PageOfCrawl
<1>2. /\ titles \in Seq(TitleGroups) /\ n \in Nat /\ DOMAIN titles = 1..n
      /\ \A g \in 1..n : titles[g] \in TitleGroups
  BY DEF ScoreInv, ScoreTyped
<1>3. \A g \in 1..n : /\ titles[g].pages \in Seq(1..Len(results)) /\ Len(titles[g].pages) \in Nat
                      /\ DOMAIN titles[g].pages = 1..Len(titles[g].pages)
                      /\ titles[g].title \in {r.title : r \in PageResults}
                      /\ titles[g] = [title |-> titles[g].title, pages |-> titles[g].pages]
  BY <1>2 DEF TitleGroups
<1>4. TitledPages' = TitledPages \cup {at} /\ at \notin TitledPages
  <2>1. checked' = at /\ 1..at = 1..checked \cup {at} /\ at \notin 1..checked
    BY <1>1
  <2>2. Parsed(results[at]) /\ results[at].title # NoTitle
    OBVIOUS
  <2> HIDE DEF at
  <2> QED
    BY <2>1, <2>2 DEF TitledPages, Parsed
<1>5. TitlesTold
  BY DEF ScoreInv
<1>8. results[at].title = title
  OBVIOUS
<1> HIDE DEF at, n, title
<1>6. CASE \E g \in DOMAIN titles : titles[g].title = title
  <2>1. PICK k \in 1..n : titles[k].title = title
    BY <1>2, <1>6
  <2>2. titles' = [g \in 1..n |-> IF titles[g].title = title
                                  THEN [titles[g] EXCEPT !.pages = Append(@, at)] ELSE titles[g]]
    BY <1>2, <1>6 DEF AddedTo, at, title
  <2>3. \A g \in 1..n : titles[g].title = title => g = k
    BY <1>2, <1>5, <2>1 DEF TitlesTold
  <2>4. /\ DOMAIN titles' = 1..n /\ \A g \in (1..n) \ {k} : titles'[g] = titles[g]
        /\ titles'[k] = [title |-> titles[k].title, pages |-> Append(titles[k].pages, at)]
    BY <1>3, <2>1, <2>2, <2>3
  <2> DEFINE old == titles[k].pages
             new == Append(old, at)
  <2>5. old \in Seq(1..Len(results)) /\ Len(old) \in Nat /\ DOMAIN old = 1..Len(old)
    BY <1>3
  <2>6. Elements(old) = {p \in TitledPages : results[p].title = title}
    BY <1>2, <1>5, <2>1 DEF TitlesTold
  <2> HIDE DEF old
  <2>7. /\ new \in Seq(1..Len(results)) /\ DOMAIN new = 1..(Len(old) + 1) /\ new[Len(old) + 1] = at
        /\ \A i \in 1..Len(old) : new[i] = old[i]
    BY <1>1, <2>5
  <2>8. Elements(new) = Elements(old) \cup {at}
    BY <2>5, AppendedElements
  <2> HIDE DEF new
  <2>9. titles'[k].title = title /\ titles'[k].pages = new /\ titles'[k] \in TitleGroups
    <3>1. titles'[k] = [title |-> title, pages |-> new]
      BY <2>1, <2>4 DEF new, old
    <3>2. titles'[k].title = title /\ titles'[k].pages = new
      BY <3>1
    <3>3. titles'[k] \in TitleGroups
      BY <1>1, <2>7, <3>1 DEF TitleGroups
    <3> QED
      BY <3>2, <3>3
  <2>10. titles' \in Seq(TitleGroups)
    <3>1. \A g \in 1..n : titles'[g] \in TitleGroups
      BY <1>2, <2>4, <2>9
    <3>2. titles' \in [1..n -> TitleGroups]
      BY <2>2, <3>1
    <3> QED
      BY <1>2, <3>2
  <2>11. \A g \in 1..n : titles'[g].title = titles[g].title
    BY <2>1, <2>4, <2>9
  <2>12. \A i, j \in DOMAIN new : new[i] = new[j] => i = j
    <3>1. \A i \in 1..Len(old) : new[i] \in Elements(old) /\ new[i] # at
      BY <1>4, <2>5, <2>6, <2>7 DEF Elements
    <3>2. \A i, j \in 1..Len(old) : new[i] = new[j] => i = j
      <4>1. \A i, j \in DOMAIN titles[k].pages : titles[k].pages[i] = titles[k].pages[j] => i = j
        BY <1>2, <1>5 DEF TitlesTold
      <4>2. \A i, j \in 1..Len(old) : old[i] = old[j] => i = j
        BY <2>5, <4>1 DEF old
      <4> QED
        BY <2>7, <4>2
    <3>3. \A i \in DOMAIN new : i \in 1..Len(old) \/ i = Len(old) + 1
      BY <2>5, <2>7
    <3>4. new[Len(old) + 1] = at
      BY <2>7
    <3> QED
      BY <3>1, <3>2, <3>3, <3>4, Zenon
  <2>13. ASSUME NEW g \in 1..n
         PROVE  /\ \A i, j \in DOMAIN titles'[g].pages : titles'[g].pages[i] = titles'[g].pages[j] => i = j
                /\ Elements(titles'[g].pages) = {p \in TitledPages' : results[p].title = titles'[g].title}
    <3>1. CASE g = k
      BY <1>4, <1>8, <2>6, <2>8, <2>9, <2>12, <3>1
    <3>2. CASE g # k
      <4>1. titles'[g] = titles[g] /\ titles[g].title # title
        BY <2>3, <2>4, <3>2
      <4>2. /\ \A i, j \in DOMAIN titles[g].pages : titles[g].pages[i] = titles[g].pages[j] => i = j
            /\ Elements(titles[g].pages) = {p \in TitledPages : results[p].title = titles[g].title}
        BY <1>2, <1>5 DEF TitlesTold
      <4> QED
        BY <1>4, <1>8, <4>1, <4>2
    <3> QED
      BY <3>1, <3>2
  <2>14. \A p \in TitledPages' : \E g \in 1..n : titles'[g].title = results[p].title
    BY <1>2, <1>4, <1>5, <1>8, <2>9, <2>11 DEF TitlesTold
  <2>15. \A g, h \in 1..n : titles'[g].title = titles'[h].title => g = h
    BY <1>2, <1>5, <2>11 DEF TitlesTold
  <2>16. TitlesTold'
    <3>1. results' = results /\ DOMAIN titles' = 1..n
      BY <2>4
    <3>2. \A g, h \in DOMAIN titles' : titles'[g].title = titles'[h].title => g = h
      BY <2>15, <3>1
    <3>3. \A g \in DOMAIN titles' : \A i, j \in DOMAIN titles'[g].pages :
             titles'[g].pages[i] = titles'[g].pages[j] => i = j
      BY <2>13, <3>1
    <3>4. \A g \in DOMAIN titles' :
            Elements(titles'[g].pages) = {p \in TitledPages' : results'[p].title = titles'[g].title}
      <4>1. ASSUME NEW g \in 1..n
            PROVE  Elements(titles'[g].pages) = {p \in TitledPages' : results[p].title = titles'[g].title}
        BY <2>13
      <4>2. ASSUME NEW g \in 1..n
            PROVE  Elements(titles'[g].pages) = {p \in TitledPages' : results'[p].title = titles'[g].title}
        BY <3>1, <4>1
      <4>3. \A g \in 1..n :
              Elements(titles'[g].pages) = {p \in TitledPages' : results'[p].title = titles'[g].title}
        BY <4>2
      <4> QED
        BY <3>1, <4>3
    <3>5. \A p \in TitledPages' : \E g \in DOMAIN titles' : titles'[g].title = results'[p].title
      BY <2>14, <3>1
    <3> QED
      BY <3>2, <3>3, <3>4, <3>5 DEF TitlesTold, Elements
  <2> QED
    BY <2>10, <2>16
<1>7. CASE \A g \in DOMAIN titles : titles[g].title # title
  <2> DEFINE group == [title |-> title, pages |-> <<at>>]
             new == Append(titles, group)
  <2>1. titles' = new
    BY <1>7 DEF AddedTo, at, title
  <2>2. group \in TitleGroups /\ group.title = title /\ group.pages = <<at>>
    BY <1>1 DEF TitleGroups
  <2>3. DOMAIN <<at>> = {1} /\ <<at>>[1] = at
    OBVIOUS
  <2>4. Elements(<<at>>) = {at}
    BY <2>3 DEF Elements
  <2> HIDE DEF group
  <2>5. /\ new \in Seq(TitleGroups) /\ DOMAIN new = 1..(n + 1) /\ new[n + 1] = group
        /\ \A g \in 1..n : new[g] = titles[g]
    BY <1>2, <2>2 DEF n
  <2> HIDE DEF new
  <2>6. ASSUME NEW p \in TitledPages PROVE results[p].title # title
    BY <1>5, <1>7 DEF TitlesTold
  <2>7. ASSUME NEW g \in 1..(n + 1)
        PROVE  /\ \A i, j \in DOMAIN new[g].pages : new[g].pages[i] = new[g].pages[j] => i = j
               /\ Elements(new[g].pages) = {p \in TitledPages' : results[p].title = new[g].title}
    <3>1. CASE g = n + 1
      BY <1>4, <1>8, <2>2, <2>3, <2>4, <2>5, <2>6, <3>1
    <3>2. CASE g \in 1..n
      <4>1. new[g] = titles[g] /\ titles[g].title # title
        BY <1>2, <1>7, <2>5, <3>2
      <4>2. /\ \A i, j \in DOMAIN titles[g].pages : titles[g].pages[i] = titles[g].pages[j] => i = j
            /\ Elements(titles[g].pages) = {p \in TitledPages : results[p].title = titles[g].title}
        BY <1>2, <1>5, <3>2 DEF TitlesTold
      <4> QED
        BY <1>4, <1>8, <4>1, <4>2
    <3> QED
      BY <1>2, <3>1, <3>2
  <2>8. \A p \in TitledPages' : \E g \in 1..(n + 1) : new[g].title = results[p].title
    <3>1. \A g \in 1..n : g \in 1..(n + 1)
      BY <1>2
    <3>2. n + 1 \in 1..(n + 1) /\ new[n + 1].title = title
      BY <1>2, <2>2, <2>5
    <3> QED
      BY <1>2, <1>4, <1>5, <1>8, <2>5, <3>1, <3>2 DEF TitlesTold
  <2>9. \A g, h \in 1..(n + 1) : new[g].title = new[h].title => g = h
    <3>1. \A g \in 1..(n + 1) : g \in 1..n \/ g = n + 1
      BY <1>2
    <3>2. \A g \in 1..n : new[g].title = titles[g].title /\ titles[g].title # title
      BY <1>2, <1>7, <2>5
    <3>3. \A g, h \in 1..n : titles[g].title = titles[h].title => g = h
      BY <1>2, <1>5 DEF TitlesTold
    <3> QED
      BY <2>2, <2>5, <3>1, <3>2, <3>3
  <2>10. TitlesTold'
    <3>1. results' = results /\ DOMAIN titles' = 1..(n + 1) /\ titles' = new
      BY <2>1, <2>5
    <3>2. \A g, h \in DOMAIN titles' : titles'[g].title = titles'[h].title => g = h
      BY <2>9, <3>1
    <3>3. \A g \in DOMAIN titles' : \A i, j \in DOMAIN titles'[g].pages :
             titles'[g].pages[i] = titles'[g].pages[j] => i = j
      BY <2>7, <3>1, Zenon
    <3>4. \A g \in DOMAIN titles' :
            Elements(titles'[g].pages) = {p \in TitledPages' : results'[p].title = titles'[g].title}
      <4> SUFFICES ASSUME NEW g \in DOMAIN titles'
                   PROVE  Elements(titles'[g].pages) = {p \in TitledPages' : results'[p].title = titles'[g].title}
        OBVIOUS
      <4>1. g \in 1..(n + 1) /\ titles'[g] = new[g]
        BY <3>1
      <4>2. Elements(new[g].pages) = {p \in TitledPages' : results[p].title = new[g].title}
        BY <2>7, <4>1, Zenon
      <4> QED
        BY <3>1, <4>1, <4>2, Zenon
    <3>5. \A p \in TitledPages' : \E g \in DOMAIN titles' : titles'[g].title = results'[p].title
      BY <2>8, <3>1
    <3> QED
      BY <3>2, <3>3, <3>4, <3>5 DEF TitlesTold, Elements
  <2> QED
    BY <2>1, <2>5, <2>10
<1> QED
  BY <1>6, <1>7

LEMMA SameIssues ==
  ASSUME files' = files, source' = source, results' = results
  PROVE  JustIssues' = JustIssues /\ OwnIssues' = OwnIssues
BY DEF OwnIssues, JustIssues, Justified

LEMMA PagesChecked == ASSUME ScoreInv, CheckPage PROVE ScoreInv'
<1> DEFINE at == checked + 1
           page == results[at]
<1>1. /\ step = "pages" /\ step' = "pages" /\ checked < Len(results) /\ checked' = at
      /\ files' = files /\ source' = source /\ results' = results /\ score' = score
      /\ issues' = issues \o PageIssues(page, at) \o (IF Parsed(page) THEN DataIssues(page, at) ELSE <<>>)
      /\ titles' = IF Parsed(page) /\ page.title # NoTitle
                   THEN AddedTo(titles, page.title, at) ELSE titles
  BY DEF CheckPage
<1>2. at \in 1..Len(results) /\ checked \in Nat /\ Len(results) \in Nat
  BY <1>1, PageOfCrawl
<1>3. titles' \in Seq(TitleGroups) /\ TitlesTold'
  <2>1. CASE Parsed(page) /\ page.title # NoTitle
    BY <1>1, <2>1, GroupedTitle
  <2>2. CASE ~(Parsed(page) /\ page.title # NoTitle)
    <3>1. titles' = titles
      BY <1>1, <2>2
    <3>2. TitledPages' = TitledPages
      <4>1. 1..at = 1..checked \cup {at}
        BY <1>2
      <4> HIDE DEF at
      <4> QED
        BY <1>1, <2>2, <4>1 DEF TitledPages, Parsed
    <3>3. TitlesTold' /\ titles \in Seq(TitleGroups)
      BY <1>1, <3>1, <3>2 DEF TitlesTold, ScoreInv, ScoreTyped
    <3> QED
      BY <3>1, <3>3
  <2> QED
    BY <2>1, <2>2
<1>4. ScoreTyped'
  <2>1. TitleGroups' = TitleGroups
    BY <1>1 DEF TitleGroups
  <2> QED
    BY <1>1, <1>2, <1>3, <2>1 DEF ScoreInv, ScoreTyped
<1>5. issues' \in Seq(OwnIssues)
  <2>1. PageIssues(page, at) \in Seq(OwnIssues) /\ (Parsed(page) => DataIssues(page, at) \in Seq(OwnIssues))
    BY <1>1, PageChecked
  <2>2. issues \in Seq(OwnIssues)
    BY <1>1 DEF ScoreInv, IssuesTold
  <2> HIDE DEF at, page
  <2> DEFINE more == IF Parsed(page) THEN DataIssues(page, at) ELSE <<>>
  <2>3. more \in Seq(OwnIssues)
    BY <2>1
  <2>4. issues' = issues \o PageIssues(page, at) \o more
    BY <1>1
  <2> HIDE DEF more
  <2> QED
    BY <2>1, <2>2, <2>3, <2>4, JoinedIssues
<1>6. IssuesTold'
  BY <1>1, <1>5, SameIssues DEF IssuesTold
<1> QED
  BY <1>3, <1>4, <1>6 DEF ScoreInv

\* Pages are said to share a title when a group has more than one of them.
LEMMA SharedTitles ==
  ASSUME ScoreInv, checked = Len(results), NEW p
  PROVE  p \in Shared <=> \E k \in DOMAIN titles : /\ Len(titles[k].pages) > 1
                                                  /\ p \in Elements(titles[k].pages)
<1>1. Len(results) \in Nat /\ DOMAIN results = 1..Len(results) /\ titles \in Seq(TitleGroups)
  BY DEF ScoreInv, ScoreTyped
<1>2. TitledPages = {q \in DOMAIN results : Parsed(results[q]) /\ results[q].title # NoTitle}
  BY <1>1 DEF TitledPages
<1>3. \A k \in DOMAIN titles :
        /\ Len(titles[k].pages) \in Nat /\ DOMAIN titles[k].pages = 1..Len(titles[k].pages)
        /\ \A i, j \in DOMAIN titles[k].pages : titles[k].pages[i] = titles[k].pages[j] => i = j
        /\ Elements(titles[k].pages) = {q \in TitledPages : results[q].title = titles[k].title}
  <2>1. \A k \in DOMAIN titles : titles[k] \in TitleGroups
    BY <1>1, ListElement
  <2>2. \A k \in DOMAIN titles : titles[k].pages \in Seq(1..Len(results))
    BY <2>1 DEF TitleGroups
  <2>3. \A k \in DOMAIN titles :
          Len(titles[k].pages) \in Nat /\ DOMAIN titles[k].pages = 1..Len(titles[k].pages)
    BY <2>2
  <2> QED
    BY <2>3 DEF ScoreInv, TitlesTold
<1>4. ASSUME NEW k \in DOMAIN titles, Len(titles[k].pages) > 1, p \in Elements(titles[k].pages)
      PROVE  p \in Shared
  <2> DEFINE members == titles[k].pages
  <2>1. PICK i \in 1..Len(members) : p = members[i]
    BY <1>3, <1>4 DEF Elements
  <2>2. PICK j \in 1..Len(members) : j # i
    <3>1. 1 \in 1..Len(members) /\ 2 \in 1..Len(members)
      BY <1>3, <1>4
    <3> QED
      BY <3>1
  <2>3. members[j] # p /\ members[j] \in Elements(members)
    BY <1>3, <2>1, <2>2 DEF Elements
  <2>4. /\ p \in TitledPages /\ members[j] \in TitledPages
        /\ results[p].title = results[members[j]].title
    BY <1>3, <1>4, <2>3
  <2> HIDE DEF members
  <2> QED
    BY <1>2, <2>3, <2>4 DEF Shared, SameTitle
<1>5. ASSUME p \in Shared
      PROVE  \E k \in DOMAIN titles : Len(titles[k].pages) > 1 /\ p \in Elements(titles[k].pages)
  <2>1. PICK q \in DOMAIN results : q # p /\ SameTitle(p, q)
    BY <1>5 DEF Shared
  <2>2. p \in TitledPages /\ q \in TitledPages /\ results[p].title = results[q].title
    BY <1>2, <1>5, <2>1 DEF Shared, SameTitle
  <2>3. PICK k \in DOMAIN titles : titles[k].title = results[p].title
    BY <2>2 DEF ScoreInv, TitlesTold
  <2> DEFINE members == titles[k].pages
  <2>4. p \in Elements(members) /\ q \in Elements(members)
    BY <1>3, <2>2, <2>3
  <2>5. Len(members) \in Nat /\ DOMAIN members = 1..Len(members)
    BY <1>3
  <2> HIDE DEF members
  <2>6. PICK i, j \in 1..Len(members) : p = members[i] /\ q = members[j]
    BY <2>4, <2>5 DEF Elements
  <2>7. i # j
    BY <2>1, <2>6
  <2>8. Len(members) > 1
    BY <2>5, <2>6, <2>7
  <2> QED
    BY <2>4, <2>8 DEF members
<1> QED
  BY <1>4, <1>5

LEMMA DuplicatesOf ==
  ASSUME ScoreInv, NEW group \in Elements(titles)
  PROVE  /\ Duplicates(group) \in Seq(JustIssues)
         /\ \A x : x \in Elements(Duplicates(group))
                   <=> /\ Len(group.pages) > 1
                       /\ \E p \in Elements(group.pages) : x = [rule |-> "duplicate-titles", at |-> p]
<1> DEFINE members == group.pages
           list == [i \in DOMAIN members |-> [rule |-> "duplicate-titles", at |-> members[i]]]
<1>1. PICK k \in DOMAIN titles : group = titles[k]
  BY DEF Elements
<1>2. titles \in Seq(TitleGroups) /\ Len(results) \in Nat
  BY DEF ScoreInv, ScoreTyped
<1>3. group \in TitleGroups
  BY <1>1, <1>2, ListElement
<1>4. members \in Seq(1..Len(results))
  BY <1>3 DEF TitleGroups
<1>5. \A p \in Elements(members) : p \in TitledPages
  BY <1>1 DEF ScoreInv, TitlesTold
<1> HIDE DEF members
<1>6. Len(members) \in Nat /\ DOMAIN members = 1..Len(members) /\ \A i \in DOMAIN members : members[i] \in 1..Len(results)
  BY <1>4
<1>7. ASSUME NEW i \in DOMAIN members PROVE [rule |-> "duplicate-titles", at |-> members[i]] \in JustIssues
  <2> DEFINE p == members[i]
             x == [rule |-> "duplicate-titles", at |-> p]
  <2>1. p \in 1..Len(results) /\ p \in TitledPages
    BY <1>5, <1>6 DEF Elements
  <2>2. results[p].reply = "html"
    BY <2>1 DEF TitledPages, Parsed
  <2> HIDE DEF p
  <2>3. x \in [rule : Rules, at : 0..Len(results)] /\ x.rule = "duplicate-titles" /\ x.at = p
    BY <1>2, <2>1 DEF Rules, High
  <2> HIDE DEF x
  <2>4. x \in JustIssues
    BY <2>2, <2>3 DEF JustIssues, Justified
  <2> QED
    BY <2>4 DEF x, p
<1>8. list \in [1..Len(members) -> JustIssues]
  BY <1>6, <1>7
<1>9. list \in Seq(JustIssues)
  BY <1>6, <1>8
<1>10. \A x : x \in Elements(list) <=> \E p \in Elements(members) : x = [rule |-> "duplicate-titles", at |-> p]
  BY DEF Elements
<1>11. Duplicates(group) = IF Len(members) > 1 THEN list ELSE <<>>
  BY DEF Duplicates, members
<1>12. Elements(<<>>) = {} /\ <<>> \in Seq(JustIssues)
  BY DEF Elements
<1> HIDE DEF list
<1>13. Duplicates(group) \in Seq(JustIssues)
  BY <1>9, <1>11, <1>12
<1>14. \A x : x \in Elements(Duplicates(group))
               <=> /\ Len(members) > 1
                   /\ \E p \in Elements(members) : x = [rule |-> "duplicate-titles", at |-> p]
  BY <1>10, <1>11, <1>12
<1> QED
  BY <1>13, <1>14 DEF members

LEMMA ScoreFinished == ASSUME ScoreInv, Finish PROVE ScoreInv'
<1> DEFINE lists == [g \in Elements(titles) |-> Duplicates(g)]
           more == Concatenated(titles, lists)
           Claim(p) == [rule |-> "duplicate-titles", at |-> p]
<1>1. /\ step = "pages" /\ step' = "scored" /\ checked = Len(results)
      /\ files' = files /\ source' = source /\ results' = results /\ titles' = titles /\ checked' = checked
      /\ issues' = issues \o more
      /\ score' = ScoreOf(Deduction(issues'), Len(results))
  BY DEF Finish
<1>2. ScoreTyped' /\ TitlesTold'
  BY <1>1 DEF ScoreInv, ScoreTyped, TitleGroups, TitlesTold, TitledPages
<1>3. titles \in Seq(Elements(titles)) /\ Len(titles) \in Nat /\ DOMAIN titles = 1..Len(titles)
  <2>1. titles \in Seq(TitleGroups)
    BY DEF ScoreInv, ScoreTyped
  <2>2. Len(titles) \in Nat /\ DOMAIN titles = 1..Len(titles)
    BY <2>1
  <2>3. titles \in [1..Len(titles) -> Elements(titles)]
    BY <2>1, <2>2 DEF Elements
  <2> QED
    BY <2>2, <2>3
<1>4. lists \in [Elements(titles) -> Seq(JustIssues)]
  BY DuplicatesOf
<1>5. more \in Seq(JustIssues)
  BY <1>3, <1>4, ConcatenatedList
<1>6. \A x : x \in Elements(more) <=> \E i \in 1..Len(titles) : x \in Elements(lists[titles[i]])
  BY <1>3, <1>4, ConcatenatedElements
<1>7. ASSUME NEW i \in 1..Len(titles), NEW x
      PROVE  x \in Elements(lists[titles[i]]) <=> /\ Len(titles[i].pages) > 1
                                                  /\ \E p \in Elements(titles[i].pages) : x = Claim(p)
  <2>1. titles[i] \in Elements(titles)
    BY <1>3 DEF Elements
  <2>2. lists[titles[i]] = Duplicates(titles[i])
    BY <2>1
  <2> QED
    BY <2>1, <2>2, DuplicatesOf, Zenon
<1> HIDE DEF lists, more
<1>8. issues \in Seq(JustIssues) /\ \A x \in Elements(issues) : x.rule # "duplicate-titles"
  <2>1. issues \in Seq(OwnIssues)
    BY <1>1 DEF ScoreInv, IssuesTold
  <2>2. Len(issues) \in Nat /\ DOMAIN issues = 1..Len(issues) /\ \A i \in DOMAIN issues : issues[i] \in OwnIssues
    BY <2>1, ListElement
  <2>3. \A x \in OwnIssues : x \in JustIssues /\ x.rule # "duplicate-titles"
    BY DEF OwnIssues
  <2>4. issues \in [1..Len(issues) -> JustIssues]
    BY <2>1, <2>2, <2>3
  <2> QED
    BY <2>2, <2>3, <2>4 DEF Elements
<1>9. issues' \in Seq(JustIssues) /\ Elements(issues') = Elements(issues) \cup Elements(more)
  BY <1>1, <1>5, <1>8, JoinedElements
<1>10. \A p : p \in Shared <=> Claim(p) \in Elements(more)
  <2> SUFFICES ASSUME NEW p PROVE p \in Shared <=> Claim(p) \in Elements(more)
    OBVIOUS
  <2>1. p \in Shared <=> \E k \in 1..Len(titles) : Len(titles[k].pages) > 1 /\ p \in Elements(titles[k].pages)
    BY <1>1, <1>3, SharedTitles
  <2>2. \A q : Claim(p) = Claim(q) => p = q
    <3>1. \A q : Claim(q).at = q
      OBVIOUS
    <3> QED
      BY <3>1
  <2> HIDE DEF Claim
  <2>3. Claim(p) \in Elements(more)
          <=> \E k \in 1..Len(titles) : Len(titles[k].pages) > 1 /\ p \in Elements(titles[k].pages)
    <3>1. ASSUME Claim(p) \in Elements(more)
          PROVE  \E k \in 1..Len(titles) : Len(titles[k].pages) > 1 /\ p \in Elements(titles[k].pages)
      <4>1. PICK k \in 1..Len(titles) : Claim(p) \in Elements(lists[titles[k]])
        BY <1>6, <3>1
      <4>2. Len(titles[k].pages) > 1 /\ \E q \in Elements(titles[k].pages) : Claim(p) = Claim(q)
        BY <1>7, <4>1, Zenon
      <4> QED
        BY <2>2, <4>2, Zenon
    <3>2. ASSUME NEW k \in 1..Len(titles), Len(titles[k].pages) > 1, p \in Elements(titles[k].pages)
          PROVE  Claim(p) \in Elements(more)
      <4>1. Claim(p) \in Elements(lists[titles[k]])
        BY <1>7, <3>2, Zenon
      <4> QED
        BY <1>6, <4>1, Zenon
    <3> QED
      BY <3>1, <3>2, Zenon
  <2> QED
    BY <2>1, <2>3
<1>11. \A x \in Elements(more) : x = Claim(x.at)
  <2> SUFFICES ASSUME NEW x \in Elements(more) PROVE x = Claim(x.at)
    OBVIOUS
  <2>1. PICK i \in 1..Len(titles) : x \in Elements(lists[titles[i]])
    BY <1>6
  <2>2. PICK p : x = Claim(p)
    BY <1>7, <2>1
  <2> QED
    BY <2>2
<1>12. Claims("duplicate-titles")' = Shared
  <2>1. Claims("duplicate-titles")' = {x.at : x \in {y \in Elements(issues') : y.rule = "duplicate-titles"}}
    BY DEF Claims, Elements
  <2>2. \A x \in Elements(issues') : x.rule = "duplicate-titles" => x \in Elements(more)
    BY <1>8, <1>9
  <2>3. \A p : Claim(p).rule = "duplicate-titles" /\ Claim(p).at = p
    OBVIOUS
  <2> HIDE DEF Claim
  <2>4. ASSUME NEW p \in Claims("duplicate-titles")' PROVE p \in Shared
    BY <1>10, <1>11, <2>1, <2>2, <2>4
  <2>5. ASSUME NEW p \in Shared PROVE p \in Claims("duplicate-titles")'
    <3>1. Claim(p) \in Elements(issues') /\ Claim(p).rule = "duplicate-titles" /\ Claim(p).at = p
      BY <1>9, <1>10, <2>3
    <3> QED
      BY <2>1, <3>1
  <2> QED
    BY <2>4, <2>5
<1>13. Shared' = Shared
  BY <1>1 DEF Shared, SameTitle, Parsed
<1>14. IssuesTold'
  BY <1>1, <1>9, <1>12, <1>13, SameIssues DEF IssuesTold
<1> QED
  BY <1>2, <1>14 DEF ScoreInv

LEMMA ScoreKept == ASSUME ScoreOK, ScoreInv, [ScoreNext]_scoreVars PROVE ScoreInv'
<1>1. CASE SiteChecks
  BY <1>1, SiteChecked
<1>2. CASE CheckPage
  BY <1>2, PagesChecked
<1>3. CASE Finish
  BY <1>3, ScoreFinished
<1>4. CASE UNCHANGED scoreVars
  <2>1. /\ files' = files /\ source' = source /\ results' = results /\ issues' = issues
        /\ titles' = titles /\ checked' = checked /\ score' = score /\ step' = step
    BY <1>4 DEF scoreVars
  <2>2. ScoreTyped'
    BY <2>1 DEF ScoreInv, ScoreTyped, TitleGroups
  <2>3. TitlesTold'
    BY <2>1 DEF ScoreInv, TitlesTold, TitledPages
  <2>4. Claims("duplicate-titles")' = Claims("duplicate-titles") /\ Shared' = Shared
    BY <2>1 DEF Claims, Shared, SameTitle, Parsed
  <2>5. IssuesTold'
    BY <2>1, <2>4, SameIssues DEF ScoreInv, IssuesTold
  <2> QED
    BY <2>2, <2>3, <2>5 DEF ScoreInv
<1> QED
  BY <1>1, <1>2, <1>3, <1>4 DEF ScoreNext

LEMMA ScoreIsHonest == ASSUME ScoreInv PROVE ScoreHonest
<1> DEFINE n == Len(results)
           d == Deduction(issues)
<1> SUFFICES ASSUME step = "scored" PROVE ScoreHonest
  BY DEF ScoreHonest
<1>1. /\ issues \in Seq(JustIssues) /\ Claims("duplicate-titles") = Shared /\ score = ScoreOf(d, n)
      /\ n \in Nat
  BY DEF ScoreInv, IssuesTold, ScoreTyped
<1>2. \A i \in DOMAIN issues : issues[i] \in JustIssues
  BY <1>1, ListElement
<1>3. \A i \in DOMAIN issues : Justified(issues[i])
  BY <1>2 DEF JustIssues
<1>4. issues \in Seq([rule : Rules, at : Nat])
  <2> DEFINE X == [rule : Rules, at : Nat]
  <2>1. \A i \in DOMAIN issues : issues[i] \in X
    BY <1>1, <1>2 DEF JustIssues
  <2> HIDE DEF X
  <2>2. Len(issues) \in Nat /\ issues \in [1..Len(issues) -> JustIssues]
    BY <1>1
  <2>3. issues \in [1..Len(issues) -> X]
    BY <2>1, <2>2
  <2>4. issues \in Seq(X)
    BY <2>2, <2>3
  <2> QED
    BY <2>4 DEF X
<1>5. d \in Nat /\ (issues = <<>> => d = 0) /\ (issues # <<>> => d >= 2)
  BY <1>4, DeductionIs
<1> HIDE DEF n, d
<1>6. (issues = <<>> => score = 100) /\ (score = 100 /\ n < 16 => issues = <<>>)
  BY <1>1, <1>5, FullScore
<1>7. \A rule \in Critical \cup High : ScoreOf(d + RuleWeight(rule), n) <= score
  <2> SUFFICES ASSUME NEW rule \in Critical \cup High PROVE ScoreOf(d + RuleWeight(rule), n) <= score
    OBVIOUS
  <2>1. RuleWeight(rule) \in Nat
    BY RuleWeights DEF Rules
  <2>2. d + RuleWeight(rule) \in Nat /\ d <= d + RuleWeight(rule) /\ n <= n
    BY <1>1, <1>5, <2>1
  <2> QED
    BY <1>1, <1>5, <2>2, ScoreOrder
<1>8. score <= ScoreOf(d, n + 1)
  <2>1. n + 1 \in Nat /\ n <= n + 1 /\ d <= d
    BY <1>1, <1>5
  <2> QED
    BY <1>1, <1>5, <2>1, ScoreOrder
<1>9. /\ Claims("robots-txt-missing") # {} => files.robots = "absent"
      /\ Claims("sitemap-missing") # {} => files.sitemap1 = "absent" /\ files.sitemap2 = "absent"
      /\ source = "archive" => Claims("slow-response-time") = {}
  BY <1>3 DEF Claims, Justified
<1>10. \A i \in DOMAIN issues :
         issues[i].at # 0 /\ issues[i].rule \notin {"broken-internal-link", "slow-response-time"} =>
           results[issues[i].at].reply = "html"
  BY <1>3 DEF Justified
<1> QED
  BY <1>1, <1>6, <1>7, <1>8, <1>9, <1>10 DEF ScoreHonest, Shared, n, d

-----------------------------------------------------------------------------
(***************************************************************************)
(* The readiness report                                                    *)
(***************************************************************************)
LEMMA Division ==
  ASSUME NEW a \in Nat, NEW b \in Nat \ {0}
  PROVE  /\ a \div b \in Nat /\ b * (a \div b) <= a
         /\ a < b * (a \div b) + b
OBVIOUS

\* A share rounded to percents is 100 only for the whole, when the whole is at most 100.
LEMMA Rounded ==
  ASSUME NEW o \in 1..100, NEW r \in 0..o
  PROVE  /\ (200 * r + o) \div (2 * o) \in Nat
         /\ (200 * r + o) \div (2 * o) = 100 => r = o
<1> DEFINE a == 200 * r + o
           b == 2 * o
           q == a \div b
<1>1. a \in Nat /\ b \in Nat \ {0}
  OBVIOUS
<1> HIDE DEF a, b
<1>2. q \in Nat /\ b * q <= a
  BY <1>1, Division
<1> HIDE DEF q
<1>3. ASSUME q = 100 PROVE r = o
  <2>1. b * 100 <= a
    BY <1>2, <1>3
  <2>2. 2 * o * 100 <= 200 * r + o
    BY <2>1 DEF a, b
  <2> QED
    BY <2>2
<1> QED
  BY <1>2, <1>3 DEF q, a, b

\* What the checks of a set weigh.
Weighs(c, set) == IF c \in set THEN Weights[c] ELSE 0
LEMMA WeightOfChecks ==
  ASSUME NEW set
  PROVE  CheckWeight(set) = Weighs("crawlerPolicy", set) + Weighs("sitemap", set) + Weighs("llms", set)
                            + Weighs("readableContent", set) + Weighs("structuredData", set)
                            + Weighs("apiDescription", set) + Weighs("authDiscovery", set)
                            + Weighs("agentCard", set)
<1> DEFINE w == [i \in DOMAIN CheckOrder |-> IF CheckOrder[i] \in set THEN Weights[CheckOrder[i]] ELSE 0]
           k == Adding(w)
<1>1. DOMAIN CheckOrder = 1..8
  BY DEF CheckOrder
<1>2. /\ CheckOrder[1] = "crawlerPolicy" /\ CheckOrder[2] = "sitemap" /\ CheckOrder[3] = "llms"
      /\ CheckOrder[4] = "readableContent" /\ CheckOrder[5] = "structuredData"
      /\ CheckOrder[6] = "apiDescription" /\ CheckOrder[7] = "authDiscovery"
      /\ CheckOrder[8] = "agentCard"
  BY DEF CheckOrder
<1>3. /\ w[1] = Weighs("crawlerPolicy", set) /\ w[2] = Weighs("sitemap", set) /\ w[3] = Weighs("llms", set)
      /\ w[4] = Weighs("readableContent", set) /\ w[5] = Weighs("structuredData", set)
      /\ w[6] = Weighs("apiDescription", set) /\ w[7] = Weighs("authDiscovery", set)
      /\ w[8] = Weighs("agentCard", set)
  BY <1>1, <1>2 DEF Weighs
<1>4. \A c \in Checks : Weighs(c, set) \in Nat
  BY DEF Weighs, Checks, Weights
<1>5. \A i \in 1..8 : w[i] \in Nat
  <2>1. \A i \in 1..8 : i = 1 \/ i = 2 \/ i = 3 \/ i = 4 \/ i = 5 \/ i = 6 \/ i = 7 \/ i = 8
    OBVIOUS
  <2>2. {"crawlerPolicy", "sitemap", "llms", "readableContent", "structuredData", "apiDescription",
         "authDiscovery", "agentCard"} \subseteq Checks
    BY DEF Checks, Weights
  <2> HIDE DEF w
  <2> QED
    BY <1>3, <1>4, <2>1, <2>2
<1>6. DOMAIN w = 1..8 /\ w = [i \in 1..8 |-> w[i]]
  BY <1>1
<1> HIDE DEF w
<1>7. w \in Seq(Nat) /\ Len(w) = 8
  <2>1. w \in [1..8 -> Nat]
    BY <1>5, <1>6
  <2> QED
    BY <2>1, ListOf
<1>8. k[0] = 0 /\ \A i \in 1..8 : k[i - 1] \in Nat /\ k[i] = k[i - 1] + w[i]
  BY <1>7, SumOfNumbers
<1> HIDE DEF k
<1>9. /\ k[1] = k[0] + w[1] /\ k[2] = k[1] + w[2] /\ k[3] = k[2] + w[3] /\ k[4] = k[3] + w[4]
      /\ k[5] = k[4] + w[5] /\ k[6] = k[5] + w[6] /\ k[7] = k[6] + w[7] /\ k[8] = k[7] + w[8]
  <2>1. /\ 2 - 1 = 1 /\ 3 - 1 = 2 /\ 4 - 1 = 3 /\ 5 - 1 = 4 /\ 6 - 1 = 5 /\ 7 - 1 = 6 /\ 8 - 1 = 7
        /\ 1 - 1 = 0
    OBVIOUS
  <2>2. 1 \in 1..8 /\ 2 \in 1..8 /\ 3 \in 1..8 /\ 4 \in 1..8 /\ 5 \in 1..8 /\ 6 \in 1..8 /\ 7 \in 1..8 /\ 8 \in 1..8
    OBVIOUS
  <2> QED
    BY <1>8, <2>1, <2>2
<1>10. k[8] = w[1] + w[2] + w[3] + w[4] + w[5] + w[6] + w[7] + w[8]
  BY <1>5, <1>8, <1>9
<1>11. CheckWeight(set) = k[8]
  <2>1. CheckWeight(set) = Sum(w)
    BY DEF CheckWeight, w
  <2> QED
    BY <1>7, <2>1 DEF Sum, k
<1> QED
  BY <1>3, <1>10, <1>11

\* The score is none exactly when no check could be made, and full only when each of
\* those is ready.
Outcomes == [Checks -> {"ready", "needs_attention", "unavailable"}]
LEMMA ScoredTruly ==
  ASSUME NEW status \in Outcomes
  PROVE  /\ Scored(status) # <<>> /\ Scored(status).status = status
         /\ Scored(status).score = -1 <=> \A c \in Checks : status[c] = "unavailable"
         /\ Scored(status).score = 100 => \A c \in Checks : status[c] # "needs_attention"
<1> DEFINE seen == {c \in Checks : status[c] # "unavailable"}
           good == {c \in Checks : status[c] = "ready"}
           o == CheckWeight(seen)
           r == CheckWeight(good)
<1>1. Checks = {"crawlerPolicy", "sitemap", "llms", "readableContent", "structuredData",
                "apiDescription", "authDiscovery", "agentCard"}
  BY DEF Checks, Weights
<1>2. /\ Weights["crawlerPolicy"] = 20 /\ Weights["sitemap"] = 15 /\ Weights["llms"] = 10
      /\ Weights["readableContent"] = 15 /\ Weights["structuredData"] = 15
      /\ Weights["apiDescription"] = 10 /\ Weights["authDiscovery"] = 7 /\ Weights["agentCard"] = 8
  BY DEF Weights
<1>3. \A c \in Checks : Weighs(c, seen) = (IF status[c] # "unavailable" THEN Weights[c] ELSE 0)
                        /\ Weighs(c, good) = (IF status[c] = "ready" THEN Weights[c] ELSE 0)
  BY DEF Weighs
<1>4. \A c \in Checks : Weights[c] \in Nat /\ Weights[c] > 0
  BY <1>1, <1>2
<1>5. \A c \in Checks : Weighs(c, good) \in Nat /\ Weighs(c, seen) \in Nat /\ Weighs(c, good) <= Weighs(c, seen)
                        /\ Weighs(c, seen) <= Weights[c]
                        /\ (Weighs(c, seen) = 0 <=> status[c] = "unavailable")
                        /\ (Weighs(c, good) = Weighs(c, seen) <=> status[c] # "needs_attention")
  BY <1>3, <1>4 DEF Outcomes
<1>6. /\ o = Weighs("crawlerPolicy", seen) + Weighs("sitemap", seen) + Weighs("llms", seen)
             + Weighs("readableContent", seen) + Weighs("structuredData", seen)
             + Weighs("apiDescription", seen) + Weighs("authDiscovery", seen) + Weighs("agentCard", seen)
      /\ r = Weighs("crawlerPolicy", good) + Weighs("sitemap", good) + Weighs("llms", good)
             + Weighs("readableContent", good) + Weighs("structuredData", good)
             + Weighs("apiDescription", good) + Weighs("authDiscovery", good) + Weighs("agentCard", good)
  BY WeightOfChecks
<1> HIDE DEF seen, good
<1>7. /\ o \in 0..100 /\ r \in 0..o /\ (o = 0 <=> \A c \in Checks : Weighs(c, seen) = 0)
      /\ (r = o => \A c \in Checks : Weighs(c, good) = Weighs(c, seen))
  <2> DEFINE a1 == Weighs("crawlerPolicy", good)
             b1 == Weighs("crawlerPolicy", seen)
             a2 == Weighs("sitemap", good)
             b2 == Weighs("sitemap", seen)
             a3 == Weighs("llms", good)
             b3 == Weighs("llms", seen)
             a4 == Weighs("readableContent", good)
             b4 == Weighs("readableContent", seen)
             a5 == Weighs("structuredData", good)
             b5 == Weighs("structuredData", seen)
             a6 == Weighs("apiDescription", good)
             b6 == Weighs("apiDescription", seen)
             a7 == Weighs("authDiscovery", good)
             b7 == Weighs("authDiscovery", seen)
             a8 == Weighs("agentCard", good)
             b8 == Weighs("agentCard", seen)
  <2>1. /\ a1 \in Nat /\ b1 \in Nat /\ a1 <= b1 /\ b1 <= 20
        /\ a2 \in Nat /\ b2 \in Nat /\ a2 <= b2 /\ b2 <= 15
        /\ a3 \in Nat /\ b3 \in Nat /\ a3 <= b3 /\ b3 <= 10
        /\ a4 \in Nat /\ b4 \in Nat /\ a4 <= b4 /\ b4 <= 15
        /\ a5 \in Nat /\ b5 \in Nat /\ a5 <= b5 /\ b5 <= 15
        /\ a6 \in Nat /\ b6 \in Nat /\ a6 <= b6 /\ b6 <= 10
        /\ a7 \in Nat /\ b7 \in Nat /\ a7 <= b7 /\ b7 <= 7
        /\ a8 \in Nat /\ b8 \in Nat /\ a8 <= b8 /\ b8 <= 8
    BY <1>1, <1>2, <1>5
  <2>2. /\ o = b1 + b2 + b3 + b4 + b5 + b6 + b7 + b8
        /\ r = a1 + a2 + a3 + a4 + a5 + a6 + a7 + a8
    BY <1>6
  <2> HIDE DEF o, r, a1, b1, a2, b2, a3, b3, a4, b4, a5, b5, a6, b6, a7, b7, a8, b8
  <2>3. /\ o \in 0..100 /\ r \in 0..o
        /\ o = 0 => b1 = 0 /\ b2 = 0 /\ b3 = 0 /\ b4 = 0 /\ b5 = 0 /\ b6 = 0 /\ b7 = 0 /\ b8 = 0
        /\ b1 = 0 /\ b2 = 0 /\ b3 = 0 /\ b4 = 0 /\ b5 = 0 /\ b6 = 0 /\ b7 = 0 /\ b8 = 0 => o = 0
        /\ r = o => a1 = b1 /\ a2 = b2 /\ a3 = b3 /\ a4 = b4 /\ a5 = b5 /\ a6 = b6 /\ a7 = b7 /\ a8 = b8
    BY <2>1, <2>2
  <2>4. (o = 0 <=> \A c \in Checks : Weighs(c, seen) = 0)
    BY <1>1, <2>3 DEF b1, b2, b3, b4, b5, b6, b7, b8
  <2>5. (r = o => \A c \in Checks : Weighs(c, good) = Weighs(c, seen))
    BY <1>1, <2>3 DEF a1, b1, a2, b2, a3, b3, a4, b4, a5, b5, a6, b6, a7, b7, a8, b8
  <2> QED
    BY <2>3, <2>4, <2>5
<1>8. o # 0 => /\ (200 * r + o) \div (2 * o) \in Nat
               /\ (200 * r + o) \div (2 * o) = 100 => r = o
  BY <1>7, Rounded
<1>9. /\ Scored(status).status = status
      /\ Scored(status).score = IF o = 0 THEN -1 ELSE (200 * r + o) \div (2 * o)
      /\ DOMAIN Scored(status) = {"status", "score", "coverage"}
  BY DEF Scored, o, r, seen, good
<1> HIDE DEF o, r
<1>10. Scored(status) # <<>>
  BY <1>9
<1>11. Scored(status).score = -1 <=> o = 0
  BY <1>8, <1>9
<1>12. Scored(status).score = 100 => o # 0 /\ r = o
  BY <1>8, <1>9
<1> QED
  BY <1>5, <1>7, <1>9, <1>10, <1>11, <1>12

-----------------------------------------------------------------------------
\* The lines of a robots file, and what has been read of them.
RobotsLines == Seq([key : STRING, value : STRING])
AgentStates == [group : SUBSET STRING, directive : BOOLEAN, named : SUBSET STRING]
NoAgents == [group |-> {}, directive |-> FALSE, named |-> {}]
AgentAdvance(lines) == [p \in (1..Len(lines)) \X AgentStates |-> RuleLine(p[2], lines[p[1]])]

LEMMA ReadLine ==
  ASSUME NEW state \in AgentStates, NEW line \in [key : STRING, value : STRING]
  PROVE  LET next == RuleLine(state, line) IN
         /\ next \in AgentStates
         /\ line.key = "agent" =>
              /\ next.group = (IF state.directive THEN {} ELSE state.group) \cup {line.value}
              /\ next.directive = FALSE /\ next.named = state.named
         /\ line.key = "rule" =>
              /\ next.group = state.group /\ next.directive = TRUE
              /\ next.named = state.named \cup (state.group \cap KnownAgents)
         /\ line.key \notin {"agent", "rule"} => next = state
<1> DEFINE next == RuleLine(state, line)
<1>1. /\ state.group \in SUBSET STRING /\ state.directive \in BOOLEAN /\ state.named \in SUBSET STRING
      /\ state = [group |-> state.group, directive |-> state.directive, named |-> state.named]
      /\ line.value \in STRING
  BY DEF AgentStates
<1>2. CASE line.key = "agent"
  <2> DEFINE g == (IF state.directive THEN {} ELSE state.group) \cup {line.value}
  <2>1. next = [group |-> g, directive |-> FALSE, named |-> state.named]
    BY <1>1, <1>2 DEF RuleLine
  <2>2. g \in SUBSET STRING
    BY <1>1
  <2> HIDE DEF next, g
  <2>3. next.group = g /\ next.directive = FALSE /\ next.named = state.named /\ next \in AgentStates
    BY <1>1, <2>1, <2>2 DEF AgentStates
  <2> QED
    BY <1>2, <2>3 DEF next, g
<1>3. CASE line.key = "rule"
  <2> DEFINE m == state.named \cup (state.group \cap KnownAgents)
  <2>1. next = [group |-> state.group, directive |-> TRUE, named |-> m]
    BY <1>1, <1>3 DEF RuleLine
  <2>2. m \in SUBSET STRING
    BY <1>1
  <2> HIDE DEF next, m
  <2>3. next.group = state.group /\ next.directive = TRUE /\ next.named = m /\ next \in AgentStates
    BY <1>1, <2>1, <2>2 DEF AgentStates
  <2> QED
    BY <1>3, <2>3 DEF next, m
<1>4. CASE line.key \notin {"agent", "rule"}
  BY <1>4 DEF RuleLine
<1> QED
  BY <1>2, <1>3, <1>4

LEMMA ReadingAgentsSolves ==
  ASSUME NEW lines \in RobotsLines
  PROVE  Solves(ReadingAgents(lines), Len(lines), AgentStates, NoAgents, AgentAdvance(lines))
<1> DEFINE n == Len(lines)
           advance == AgentAdvance(lines)
           Next(f) == [i \in 0..n |-> IF i = 0 THEN NoAgents ELSE RuleLine(f[i - 1], lines[i])]
           k == ReadingAgents(lines)
<1>1. n \in Nat /\ NoAgents \in AgentStates /\ \A i \in 1..n : lines[i] \in [key : STRING, value : STRING]
  <2>1. n \in Nat /\ DOMAIN lines = 1..n
    BY DEF RobotsLines
  <2>2. \A i \in DOMAIN lines : lines[i] \in [key : STRING, value : STRING]
    BY ListElement DEF RobotsLines
  <2> QED
    BY <2>1, <2>2 DEF NoAgents, AgentStates
<1>2. k = CHOOSE f : f = Next(f)
  BY Zenon DEF ReadingAgents, NoAgents
<1>3. /\ advance \in Steps(n, AgentStates)
      /\ \A i \in 1..n, x \in AgentStates : advance[<<i, x>>] = RuleLine(x, lines[i])
  <2>1. advance = [p \in (1..n) \X AgentStates |-> RuleLine(p[2], lines[p[1]])]
    BY DEF AgentAdvance
  <2>2. \A p \in (1..n) \X AgentStates : p[1] \in 1..n /\ p[2] \in AgentStates
    OBVIOUS
  <2>3. \A p \in (1..n) \X AgentStates : RuleLine(p[2], lines[p[1]]) \in AgentStates
    BY <1>1, <2>2, ReadLine, Zenon
  <2> HIDE DEF n, advance
  <2>4. advance \in [(1..n) \X AgentStates -> AgentStates]
    BY <2>1, <2>3, Zenon
  <2>5. ASSUME NEW i \in 1..n, NEW x \in AgentStates PROVE advance[<<i, x>>] = RuleLine(x, lines[i])
    BY <2>1
  <2> QED
    BY <2>4, <2>5 DEF Steps
<1> HIDE DEF n, advance, k
<1>4. PICK f : Solves(f, n, AgentStates, NoAgents, advance)
  BY <1>1, <1>3, RecursionSolved
<1>5. f = Next(f)
  <2>1. f \in [0..n -> AgentStates] /\ f[0] = NoAgents /\ \A i \in 1..n : f[i] = advance[<<i, f[i - 1]>>]
    BY <1>4 DEF Solves
  <2>2. ASSUME NEW i \in 0..n PROVE f[i] = Next(f)[i]
    <3>1. CASE i = 0
      BY <2>1, <3>1
    <3>2. CASE i # 0
      <4>1. i \in 1..n /\ f[i - 1] \in AgentStates
        BY <1>1, <2>1, <3>2
      <4> QED
        BY <1>3, <2>1, <3>2, <4>1
    <3> QED
      BY <3>1, <3>2
  <2> QED
    BY <2>1, <2>2
<1>6. k = Next(k)
  BY <1>2, <1>5, Zenon
<1>7. \A i \in 0..n : k[i] = IF i = 0 THEN NoAgents ELSE RuleLine(k[i - 1], lines[i])
  BY <1>6
<1>8. k = [i \in 0..n |-> k[i]]
  BY <1>6
<1>9. k[0] = NoAgents /\ \A i \in 1..n : k[i - 1] \in AgentStates => k[i] = advance[<<i, k[i - 1]>>]
  <2>1. 0 \in 0..n /\ \A i \in 1..n : i \in 0..n /\ i # 0
    BY <1>1
  <2> QED
    BY <1>3, <1>7, <2>1, Zenon
<1>10. Solves(k, n, AgentStates, NoAgents, advance)
  BY <1>1, <1>3, <1>8, <1>9, Unrolled
<1> QED
  BY <1>10 DEF k, n, advance

\* An agent is in the group from its line on until the first agent's line after a rule,
\* and named from the first rule on.
Told(lines, state, m) ==
  /\ \A a \in state.group : \E i \in 1..m : lines[i].key = "agent" /\ lines[i].value = a
  /\ \A a \in state.named :
       /\ a \in KnownAgents
       /\ \E i, j \in 1..m : i < j /\ lines[i].key = "agent" /\ lines[i].value = a /\ lines[j].key = "rule"
  /\ \A i \in 1..m : lines[i].key = "agent" =>
       \/ /\ \A j \in i..m : lines[j].key # "rule"
          /\ lines[i].value \in state.group /\ state.directive = FALSE
       \/ \E j \in i..m : lines[j].key = "rule"
  /\ \A i \in 1..m : lines[i].key = "agent" /\ lines[i].value \in KnownAgents
                     /\ (\E j \in i..m : lines[j].key = "rule") => lines[i].value \in state.named

LEMMA ToldOn ==
  ASSUME NEW lines \in RobotsLines, NEW m \in 0..(Len(lines) - 1), NEW state \in AgentStates,
         Told(lines, state, m)
  PROVE  Told(lines, RuleLine(state, lines[m + 1]), m + 1)
<1> DEFINE next == RuleLine(state, lines[m + 1])
           Key(i) == lines[i].key
           Value(i) == lines[i].value
<1>1. Len(lines) \in Nat /\ DOMAIN lines = 1..Len(lines)
  BY DEF RobotsLines
<1>2. m \in Nat /\ m + 1 \in 1..Len(lines) /\ 1..(m + 1) = 1..m \cup {m + 1}
  BY <1>1
<1>3. lines[m + 1] \in [key : STRING, value : STRING]
  BY <1>1, <1>2, ListElement DEF RobotsLines
<1>4. \A i \in 1..m : i..(m + 1) = i..m \cup {m + 1}
  BY <1>2
<1>5. (m + 1)..(m + 1) = {m + 1} /\ \A i \in 1..m : i < m + 1 /\ i \in 1..(m + 1)
  BY <1>2
<1>6. /\ Key(m + 1) = "agent" =>
           /\ next.group = (IF state.directive THEN {} ELSE state.group) \cup {Value(m + 1)}
           /\ next.directive = FALSE /\ next.named = state.named
      /\ Key(m + 1) = "rule" =>
           /\ next.group = state.group /\ next.directive = TRUE
           /\ next.named = state.named \cup (state.group \cap KnownAgents)
      /\ Key(m + 1) \notin {"agent", "rule"} => next = state
  BY <1>3, ReadLine
<1>7. /\ \A a \in state.group : \E i \in 1..m : Key(i) = "agent" /\ Value(i) = a
      /\ \A a \in state.named :
           /\ a \in KnownAgents
           /\ \E i, j \in 1..m : i < j /\ Key(i) = "agent" /\ Value(i) = a /\ Key(j) = "rule"
      /\ \A i \in 1..m : Key(i) = "agent" =>
           \/ /\ \A j \in i..m : Key(j) # "rule"
              /\ Value(i) \in state.group /\ state.directive = FALSE
           \/ \E j \in i..m : Key(j) = "rule"
      /\ \A i \in 1..m : Key(i) = "agent" /\ Value(i) \in KnownAgents
                         /\ (\E j \in i..m : Key(j) = "rule") => Value(i) \in state.named
  BY DEF Told
<1> HIDE DEF next, Key, Value
<1>8. \A a \in next.group : \E i \in 1..(m + 1) : Key(i) = "agent" /\ Value(i) = a
  <2> SUFFICES ASSUME NEW a \in next.group
               PROVE  \E i \in 1..(m + 1) : Key(i) = "agent" /\ Value(i) = a
    OBVIOUS
  <2>1. a \in state.group \/ (Key(m + 1) = "agent" /\ a = Value(m + 1))
    BY <1>6
  <2> QED
    BY <1>2, <1>7, <2>1
<1>9. \A a \in next.named :
        /\ a \in KnownAgents
        /\ \E i, j \in 1..(m + 1) : i < j /\ Key(i) = "agent" /\ Value(i) = a /\ Key(j) = "rule"
  <2> SUFFICES ASSUME NEW a \in next.named
               PROVE  /\ a \in KnownAgents
                      /\ \E i, j \in 1..(m + 1) : i < j /\ Key(i) = "agent" /\ Value(i) = a /\ Key(j) = "rule"
    OBVIOUS
  <2>1. CASE a \in state.named
    BY <1>5, <1>7, <2>1
  <2>2. CASE a \notin state.named
    <3>1. Key(m + 1) = "rule" /\ a \in state.group /\ a \in KnownAgents
      BY <1>6, <2>2
    <3>2. PICK i \in 1..m : Key(i) = "agent" /\ Value(i) = a
      BY <1>7, <3>1
    <3> QED
      BY <1>2, <1>5, <3>1, <3>2
  <2> QED
    BY <2>1, <2>2
<1>10. ASSUME NEW i \in 1..(m + 1), Key(i) = "agent"
       PROVE  /\ \/ /\ \A j \in i..(m + 1) : Key(j) # "rule"
                    /\ Value(i) \in next.group /\ next.directive = FALSE
                 \/ \E j \in i..(m + 1) : Key(j) = "rule"
              /\ Value(i) \in KnownAgents /\ (\E j \in i..(m + 1) : Key(j) = "rule") => Value(i) \in next.named
  <2>1. CASE i = m + 1
    <3>1. \A j \in i..(m + 1) : Key(j) = "agent"
      BY <1>5, <1>10, <2>1
    <3>2. Value(i) \in next.group /\ next.directive = FALSE
      BY <1>6, <1>10, <2>1
    <3> QED
      BY <3>1, <3>2
  <2>2. CASE i \in 1..m
    <3>1. i..(m + 1) = i..m \cup {m + 1}
      BY <1>4, <2>2
    <3>2. CASE \E j \in i..m : Key(j) = "rule"
      <4>1. \E j \in i..(m + 1) : Key(j) = "rule"
        BY <3>1, <3>2
      <4>2. Value(i) \in KnownAgents => Value(i) \in state.named
        BY <1>7, <1>10, <2>2, <3>2
      <4>3. state.named \subseteq next.named
        BY <1>6
      <4> QED
        BY <4>1, <4>2, <4>3
    <3>3. CASE \A j \in i..m : Key(j) # "rule"
      <4>1. Value(i) \in state.group /\ state.directive = FALSE
        BY <1>7, <1>10, <2>2, <3>3
      <4>2. CASE Key(m + 1) = "rule"
        <5>1. \E j \in i..(m + 1) : Key(j) = "rule"
          BY <3>1, <4>2
        <5>2. Value(i) \in KnownAgents => Value(i) \in next.named
          BY <1>6, <4>1, <4>2
        <5> QED
          BY <5>1, <5>2
      <4>3. CASE Key(m + 1) # "rule"
        <5>1. \A j \in i..(m + 1) : Key(j) # "rule"
          BY <3>1, <3>3, <4>3
        <5>2. Value(i) \in next.group /\ next.directive = FALSE
          BY <1>6, <4>1, <4>3
        <5> QED
          BY <5>1, <5>2
      <4> QED
        BY <4>2, <4>3
    <3> QED
      BY <3>2, <3>3
  <2> QED
    BY <1>2, <2>1, <2>2
<1>11. Told(lines, next, m + 1)
  BY <1>8, <1>9, <1>10 DEF Told, Key, Value
<1> QED
  BY <1>11 DEF next

\* The agents that a robots file names are those of a group that a rule follows.
LEMMA NamedAgents ==
  ASSUME NEW lines \in RobotsLines
  PROVE  Told(lines, ReadingAgents(lines)[Len(lines)], Len(lines))
<1> DEFINE n == Len(lines)
           k == ReadingAgents(lines)
           advance == AgentAdvance(lines)
           N == {m \in 0..n : Told(lines, k[m], m)}
<1>1. n \in Nat
  BY DEF RobotsLines
<1>2. \A i \in 1..n, x \in AgentStates : advance[<<i, x>>] = RuleLine(x, lines[i])
  BY DEF AgentAdvance
<1>3. Solves(k, n, AgentStates, NoAgents, advance)
  BY ReadingAgentsSolves
<1> HIDE DEF n, k, advance
<1>4. /\ k \in [0..n -> AgentStates] /\ k[0] = NoAgents
      /\ \A i \in 1..n : k[i] = advance[<<i, k[i - 1]>>]
  BY <1>3 DEF Solves
<1>5. \A i \in 0..(n - 1) : i \in 0..n /\ i + 1 \in 1..n /\ i + 1 \in 0..n /\ (i + 1) - 1 = i
  BY <1>1
<1>6. 0 \in N
  <2>1. k[0].group = {} /\ k[0].named = {} /\ 0 \in 0..n /\ 1..0 = {}
    BY <1>1, <1>4 DEF NoAgents
  <2>2. Told(lines, k[0], 0)
    BY <2>1 DEF Told
  <2> QED
    BY <2>1, <2>2
<1>7. \A i \in 0..(n - 1) : i \in N => i + 1 \in N
  <2> SUFFICES ASSUME NEW i \in 0..(n - 1), i \in N PROVE i + 1 \in N
    OBVIOUS
  <2>1. k[i] \in AgentStates /\ k[i + 1] = RuleLine(k[i], lines[i + 1])
    BY <1>2, <1>4, <1>5
  <2>2. Told(lines, k[i], i) /\ i \in 0..(Len(lines) - 1)
    BY DEF n
  <2>3. Told(lines, k[i + 1], i + 1)
    BY <2>1, <2>2, ToldOn
  <2> QED
    BY <1>5, <2>3
<1> HIDE DEF N
<1>8. \A i \in 0..n : i \in N
  BY <1>1, <1>6, <1>7, Induction
<1>9. n \in N
  BY <1>1, <1>8
<1> QED
  BY <1>9 DEF N, n, k

LEMMA AgentsAreNamed ==
  ASSUME ReadinessOK, target \in AuditedSites
  PROVE  ExplicitAgents(target.robots) = {agent \in KnownAgents : NamesAgent(agent)}
<1> DEFINE lines == target.robots
           n == Len(lines)
           state == ReadingAgents(lines)[n]
<1>1. lines \in RobotsLines
  BY DEF ReadinessOK, RobotsLines
<1>2. n \in Nat /\ DOMAIN lines = 1..n
  BY <1>1 DEF RobotsLines
<1>3. \A i \in 1..n : lines[i] \in [key : STRING, value : STRING]
  BY <1>1, <1>2, ListElement DEF RobotsLines
<1>4. Told(lines, state, n)
  BY <1>1, NamedAgents
<1>5. ExplicitAgents(lines) = state.named
  BY DEF ExplicitAgents
<1>6. \A agent : NamesAgent(agent) <=>
        \E i, j \in 1..n :
          /\ i < j /\ lines[i] = [key |-> "agent", value |-> agent] /\ lines[j].key = "rule"
          /\ \A k \in i..j : lines[k].key = "agent" => \A l \in i..k : lines[l].key # "rule"
  BY <1>2 DEF NamesAgent
<1> HIDE DEF lines, n, state
<1>7. ASSUME NEW agent \in state.named PROVE agent \in KnownAgents /\ NamesAgent(agent)
  <2>1. agent \in KnownAgents
    BY <1>4 DEF Told
  <2>2. PICK i, j \in 1..n : i < j /\ lines[i].key = "agent" /\ lines[i].value = agent /\ lines[j].key = "rule"
    BY <1>4 DEF Told
  <2>3. lines[i] = [key |-> "agent", value |-> agent]
    BY <1>3, <2>2
  <2> DEFINE T == {h \in 1..n : i < h /\ lines[h].key = "rule"}
  <2>4. T \in SUBSET Nat /\ T # {}
    BY <2>2
  <2>5. PICK h \in T : \A l \in T : h <= l
    BY <2>4, LeastNumber
  <2>6. ASSUME NEW k \in i..h, lines[k].key = "agent", NEW l \in i..k PROVE lines[l].key # "rule"
    <3> SUFFICES ASSUME lines[l].key = "rule" PROVE FALSE
      OBVIOUS
    <3>1. l # i
      BY <2>2
    <3>2. l \in T
      BY <1>2, <2>5, <3>1
    <3>3. h <= l
      BY <2>5, <3>2
    <3>4. l = h /\ k = h
      BY <1>2, <2>5, <2>6, <3>3
    <3> QED
      BY <2>6, <3>4
  <2>7. NamesAgent(agent)
    BY <1>6, <2>3, <2>5, <2>6
  <2> QED
    BY <2>1, <2>7
<1>8. ASSUME NEW agent \in KnownAgents, NamesAgent(agent) PROVE agent \in state.named
  <2>1. PICK i, j \in 1..n : i < j /\ lines[i] = [key |-> "agent", value |-> agent] /\ lines[j].key = "rule"
    BY <1>6, <1>8
  <2>2. lines[i].key = "agent" /\ lines[i].value = agent /\ j \in i..n
    BY <1>2, <2>1
  <2> QED
    BY <1>4, <2>1, <2>2 DEF Told
<1>9. state.named = {agent \in KnownAgents : NamesAgent(agent)}
  BY <1>7, <1>8
<1> QED
  BY <1>5, <1>9 DEF lines

-----------------------------------------------------------------------------
\* Nothing is fetched of a site whose homepage leaves its scope.
LeftScope == home = "answered" /\ OutOfScope
\* The files asked for so far are those before the cursor, and a worker stops only behind
\* the last one; an answer is the site's own unless a request failed.
FilesAsked ==
  /\ home = "none" => cursor = 1 /\ requested = {} /\ answers = <<>> /\ report = <<>>
  /\ LeftScope => requested = {} /\ answers = <<>>
  /\ home # "none" /\ ~LeftScope =>
       /\ cursor \in 1..(Len(Resources) + 1)
       /\ DOMAIN answers \cup requested = {Resources[i] : i \in 1..(cursor - 1)}
       /\ requested = {} => cursor = Len(Resources) + 1
AnswersOwn ==
  /\ failures \in Nat
  /\ home = NoAnswer => failures > 0
  /\ \A r \in DOMAIN answers : /\ answers[r] \in {Served(r), NoAnswer}
                               /\ answers[r] # Served(r) => failures > 0
Statuses == IF LeftScope THEN [c \in Checks |-> "unavailable"] ELSE Evaluated
ReadinessInv ==
  /\ target \in AuditedSites /\ home \in {"none", "answered", NoAnswer}
  /\ FilesAsked /\ AnswersOwn
  /\ report # <<>> => home # "none" /\ requested = {} /\ report = Scored(Statuses)

LEMMA ReadinessStarts == ASSUME ReadinessInit PROVE ReadinessInv
<1>1. DOMAIN answers = {}
  BY DEF ReadinessInit
<1>2. home = "none" /\ "none" # "answered" /\ "none" # NoAnswer
  BY DEF ReadinessInit, NoAnswer
<1>3. FilesAsked
  BY <1>2 DEF ReadinessInit, FilesAsked, LeftScope
<1>4. AnswersOwn
  BY <1>1, <1>2 DEF ReadinessInit, AnswersOwn
<1> QED
  BY <1>2, <1>3, <1>4 DEF ReadinessInit, ReadinessInv

LEMMA ResourceList == Len(Resources) = 9 /\ DOMAIN Resources = 1..9
BY DEF Resources

LEMMA HomeFetched == ASSUME ReadinessOK, ReadinessInv, FetchHome PROVE ReadinessInv'
<1>1. /\ home = "none" /\ target' = target /\ answers' = answers /\ report' = report
      /\ answers = <<>> /\ report = <<>> /\ cursor = 1
  BY DEF FetchHome, ReadinessInv, FilesAsked
<1>2. home' \in {"answered", NoAnswer} /\ failures' \in Nat /\ (home' = NoAnswer => failures' > 0)
  <2>1. failures \in Nat /\ "answered" # NoAnswer
    BY DEF ReadinessInv, AnswersOwn, NoAnswer
  <2>2. \/ home' = "answered" /\ failures' = failures
        \/ home' = NoAnswer /\ failures' = failures + 1
    BY DEF FetchHome, Fail
  <2> QED
    BY <2>1, <2>2
<1>3. home' # "none" /\ (LeftScope' <=> home' = "answered" /\ OutOfScope)
  BY <1>1, <1>2 DEF LeftScope, OutOfScope, NoAnswer
<1>4. DOMAIN answers' = {}
  BY <1>1
<1>5. Parallel \in 1..9
  BY ResourceList DEF ReadinessOK
<1>6. CASE LeftScope'
  <2>1. requested' = {}
    BY <1>3, <1>6 DEF FetchHome
  <2> QED
    BY <1>1, <1>2, <1>3, <1>4, <1>6, <2>1 DEF ReadinessInv, FilesAsked, AnswersOwn
<1>7. CASE ~LeftScope'
  <2>1. requested' = {Resources[i] : i \in 1..Parallel}
    BY <1>3, <1>7 DEF FetchHome
  <2>2. requested' # {}
    BY <1>5, <2>1
  <2>3. cursor' = Parallel + 1
    BY <2>2 DEF FetchHome
  <2>4. cursor' \in 1..(Len(Resources) + 1) /\ cursor' - 1 = Parallel
    BY <1>5, <2>3, ResourceList
  <2>5. DOMAIN answers' \cup requested' = {Resources[i] : i \in 1..(cursor' - 1)}
    BY <1>4, <2>1, <2>4
  <2>6. FilesAsked'
    BY <1>3, <1>7, <2>2, <2>4, <2>5 DEF FilesAsked, Resources
  <2> QED
    BY <1>1, <1>2, <1>4, <2>6 DEF ReadinessInv, AnswersOwn
<1> QED
  BY <1>6, <1>7

LEMMA FileAsked ==
  ASSUME ReadinessOK, ReadinessInv, NEW r \in requested, FileAnswered(r) PROVE ReadinessInv'
<1>1. /\ target' = target /\ home' = home /\ report' = report /\ report = <<>>
      /\ home # "none" /\ ~LeftScope /\ ~LeftScope'
  BY DEF FileAnswered, ReadinessInv, FilesAsked, LeftScope, OutOfScope
<1>2. PICK got \in {Served(r), NoAnswer} :
        /\ IF got = NoAnswer /\ Served(r) # NoAnswer THEN Fail ELSE UNCHANGED failures
        /\ answers' = [x \in DOMAIN answers \cup {r} |-> IF x = r THEN got ELSE answers[x]]
  BY DEF FileAnswered
<1>3. DOMAIN answers' = DOMAIN answers \cup {r}
  BY <1>2
<1>4. failures \in Nat /\ failures' \in Nat /\ (failures > 0 => failures' > 0)
      /\ (got # Served(r) => failures' > 0)
  BY <1>2 DEF ReadinessInv, AnswersOwn, Fail
<1>5. AnswersOwn'
  <2>1. home' = NoAnswer => failures' > 0
    BY <1>1, <1>4 DEF ReadinessInv, AnswersOwn
  <2>2. ASSUME NEW x \in DOMAIN answers'
        PROVE  answers'[x] \in {Served(x), NoAnswer} /\ (answers'[x] # Served(x) => failures' > 0)
    <3>1. CASE x = r
      BY <1>2, <1>4, <3>1
    <3>2. CASE x # r
      <4>1. x \in DOMAIN answers /\ answers'[x] = answers[x]
        BY <1>2, <1>3, <3>2
      <4> QED
        BY <1>4, <4>1 DEF ReadinessInv, AnswersOwn
    <3> QED
      BY <3>1, <3>2
  <2>3. \A x : Served(x)' = Served(x)
    BY <1>1 DEF Served
  <2> QED
    BY <1>4, <2>1, <2>2, <2>3 DEF AnswersOwn, Served, NoAnswer
<1>6. /\ cursor \in 1..(Len(Resources) + 1)
      /\ DOMAIN answers \cup requested = {Resources[i] : i \in 1..(cursor - 1)}
  BY <1>1 DEF ReadinessInv, FilesAsked
<1>7. /\ cursor' \in 1..(Len(Resources) + 1)
      /\ DOMAIN answers' \cup requested' = {Resources[i] : i \in 1..(cursor' - 1)}
      /\ requested' = {} => cursor' = Len(Resources) + 1
  <2>1. Len(Resources) = 9
    BY ResourceList
  <2>2. CASE cursor > Len(Resources)
    <3>1. requested' = requested \ {r} /\ cursor' = cursor
      BY <2>2 DEF FileAnswered
    <3> QED
      BY <1>3, <1>6, <2>1, <2>2, <3>1
  <2>3. CASE cursor <= Len(Resources)
    <3>1. requested' = (requested \ {r}) \cup {Resources[cursor]} /\ cursor' = cursor + 1
      BY <1>6, <2>1, <2>3 DEF FileAnswered
    <3>2. 1..(cursor' - 1) = 1..(cursor - 1) \cup {cursor} /\ cursor' \in 1..(Len(Resources) + 1)
      BY <1>6, <2>1, <2>3, <3>1
    <3>3. DOMAIN answers' \cup requested' = (DOMAIN answers \cup requested) \cup {Resources[cursor]}
      BY <1>3, <3>1
    <3>4. {Resources[i] : i \in 1..(cursor' - 1)}
             = {Resources[i] : i \in 1..(cursor - 1)} \cup {Resources[cursor]}
      BY <3>2
    <3> QED
      BY <1>6, <3>1, <3>2, <3>3, <3>4
  <2> QED
    BY <1>6, <2>1, <2>2, <2>3
<1>8. FilesAsked'
  BY <1>1, <1>7 DEF FilesAsked, Resources
<1> QED
  BY <1>1, <1>5, <1>8 DEF ReadinessInv

LEMMA SameEvaluation ==
  ASSUME target' = target, home' = home, answers' = answers
  PROVE  Statuses' = Statuses /\ LeftScope' = LeftScope /\ \A r : Served(r)' = Served(r)
<1>1. LeftScope' = LeftScope
  BY DEF LeftScope, OutOfScope
<1>2. Evaluated' = Evaluated
  BY DEF Evaluated, CrawlerPolicy, Sitemap, LlmsGuide, ReadableContent, StructuredData, EitherFile,
         AgentCard, HomeRead, Lines, NotFound, Found, Responded
<1> QED
  BY <1>1, <1>2 DEF Statuses, Served

LEMMA Reported == ASSUME ReadinessInv, Report PROVE ReadinessInv'
<1>1. /\ target' = target /\ home' = home /\ cursor' = cursor /\ requested' = requested
      /\ answers' = answers /\ failures' = failures /\ home # "none" /\ requested = {}
      /\ report' = Scored(Statuses)
  BY DEF Report, Statuses, LeftScope
<1>2. Statuses' = Statuses /\ LeftScope' = LeftScope
  BY <1>1, SameEvaluation
<1>3. FilesAsked'
  BY <1>1, <1>2 DEF ReadinessInv, FilesAsked
<1>4. AnswersOwn'
  BY <1>1 DEF ReadinessInv, AnswersOwn, Served
<1>5. report' = Scored(Statuses')
  BY <1>1, <1>2
<1> QED
  BY <1>1, <1>3, <1>4, <1>5 DEF ReadinessInv, Scored

LEMMA ReadinessKept ==
  ASSUME ReadinessOK, ReadinessInv, [ReadinessNext]_readinessVars PROVE ReadinessInv'
<1>1. CASE FetchHome
  BY <1>1, HomeFetched
<1>2. CASE \E r \in requested : FileAnswered(r)
  BY <1>2, FileAsked
<1>3. CASE Report
  BY <1>3, Reported
<1>4. CASE UNCHANGED readinessVars
  <2>1. /\ target' = target /\ home' = home /\ cursor' = cursor /\ requested' = requested
        /\ answers' = answers /\ failures' = failures /\ report' = report
    BY <1>4 DEF readinessVars
  <2>2. Statuses' = Statuses /\ LeftScope' = LeftScope
    BY <2>1, SameEvaluation
  <2>3. FilesAsked'
    BY <2>1, <2>2 DEF ReadinessInv, FilesAsked
  <2>4. AnswersOwn'
    BY <2>1 DEF ReadinessInv, AnswersOwn, Served
  <2>5. Scored(Statuses)' = Scored(Statuses)
    BY <2>2 DEF Scored
  <2> QED
    BY <2>1, <2>3, <2>4, <2>5 DEF ReadinessInv
<1> QED
  BY <1>1, <1>2, <1>3, <1>4 DEF ReadinessNext

LEMMA EvaluatedOutcomes ==
  /\ Evaluated \in Outcomes /\ [c \in Checks |-> "unavailable"] \in Outcomes
  /\ Statuses \in Outcomes
<1>1. Checks = {"crawlerPolicy", "sitemap", "llms", "readableContent", "structuredData",
                "apiDescription", "authDiscovery", "agentCard"}
  BY DEF Checks, Weights
<1>2. [c \in Checks |-> "unavailable"] \in Outcomes
  BY DEF Outcomes
<1> DEFINE S == {"ready", "needs_attention", "unavailable"}
<1>3. /\ CrawlerPolicy \in S /\ Sitemap \in S /\ LlmsGuide \in S /\ ReadableContent \in S
      /\ StructuredData \in S /\ AgentCard \in S
      /\ EitherFile("openApi", "wellKnownOpenApi") \in S /\ EitherFile("oauth", "openId") \in S
  <2>1. CrawlerPolicy \in S
    BY DEF CrawlerPolicy
  <2>2. Sitemap \in S
    BY DEF Sitemap
  <2>3. LlmsGuide \in S /\ AgentCard \in S
    BY DEF LlmsGuide, AgentCard
  <2>4. ReadableContent \in S /\ StructuredData \in S
    BY DEF ReadableContent, StructuredData
  <2>5. EitherFile("openApi", "wellKnownOpenApi") \in S /\ EitherFile("oauth", "openId") \in S
    BY DEF EitherFile
  <2> QED
    BY <2>1, <2>2, <2>3, <2>4, <2>5
<1> HIDE DEF S
<1>4. Evaluated \in [Checks -> S]
  BY <1>1, <1>3 DEF Evaluated
<1>5. Evaluated \in Outcomes
  BY <1>4 DEF Outcomes, S
<1> QED
  BY <1>2, <1>5 DEF Statuses

Paths == {"robots", "sitemap", "sitemapIndex", "llms", "openApi", "wellKnownOpenApi",
          "oauth", "openId", "agentCard"}

\* When the report is made every file has its answer.
LEMMA AllAnswered ==
  ASSUME ReadinessInv, home # "none", ~LeftScope, requested = {}
  PROVE  /\ DOMAIN answers = Paths
         /\ \A r \in Paths : /\ Found(r) => Served(r) = "found"
                             /\ NotFound(r) => Served(r) = "not_found"
                             /\ failures = 0 => answers[r] = Served(r)
<1>1. DOMAIN answers = {Resources[i] : i \in 1..9}
  <2>1. cursor = Len(Resources) + 1 /\ DOMAIN answers \cup requested = {Resources[i] : i \in 1..(cursor - 1)}
    BY DEF ReadinessInv, FilesAsked
  <2>2. cursor - 1 = 9
    BY <2>1, ResourceList
  <2> QED
    BY <2>1, <2>2
<1>2. /\ Resources[1] = "robots" /\ Resources[2] = "sitemap" /\ Resources[3] = "sitemapIndex"
      /\ Resources[4] = "llms" /\ Resources[5] = "openApi" /\ Resources[6] = "wellKnownOpenApi"
      /\ Resources[7] = "oauth" /\ Resources[8] = "openId" /\ Resources[9] = "agentCard"
  BY DEF Resources
<1>3. \A i \in 1..9 : i = 1 \/ i = 2 \/ i = 3 \/ i = 4 \/ i = 5 \/ i = 6 \/ i = 7 \/ i = 8 \/ i = 9
  OBVIOUS
<1>4. \A r \in DOMAIN answers : r \in Paths
  BY <1>1, <1>2, <1>3 DEF Paths
<1>5. 1 \in 1..9 /\ 2 \in 1..9 /\ 3 \in 1..9 /\ 4 \in 1..9 /\ 5 \in 1..9 /\ 6 \in 1..9 /\ 7 \in 1..9
      /\ 8 \in 1..9 /\ 9 \in 1..9
  OBVIOUS
<1>6. \A r \in Paths : r \in DOMAIN answers
  <2>1. \A i \in 1..9 : Resources[i] \in DOMAIN answers
    BY <1>1
  <2> QED
    BY <1>2, <1>5, <2>1 DEF Paths
<1>7. \A r \in Paths : answers[r] \in {Served(r), NoAnswer} /\ (failures = 0 => answers[r] = Served(r))
  BY <1>6 DEF ReadinessInv, AnswersOwn
<1> QED
  BY <1>4, <1>6, <1>7 DEF Found, NotFound, NoAnswer

LEMMA ReadinessIsTruthful == ASSUME ReadinessOK, ReadinessInv PROVE ReadinessTruthful
<1> DEFINE status == Statuses
<1> SUFFICES ASSUME report # <<>> PROVE ReadinessTruthful
  BY DEF ReadinessTruthful
<1>1. home # "none" /\ requested = {} /\ report = Scored(status) /\ status \in Outcomes
  BY EvaluatedOutcomes DEF ReadinessInv
<1> HIDE DEF status
<1>2. /\ report.status = status
      /\ report.score = -1 <=> \A c \in Checks : status[c] = "unavailable"
      /\ report.score = 100 => \A c \in Checks : status[c] # "needs_attention"
  BY <1>1, ScoredTruly
<1>3. Checks = {"crawlerPolicy", "sitemap", "llms", "readableContent", "structuredData",
                "apiDescription", "authDiscovery", "agentCard"}
  BY DEF Checks, Weights
<1>4. /\ \A c \in Checks : status[c] = "ready" => Has(c)
      /\ \A c \in OneFile : status[c] = "needs_attention" => ~Has(c)
      /\ failures = 0 /\ ~OutOfScope => \A c \in Checks : status[c] = "needs_attention" =>
           c \in {"readableContent", "structuredData"} \/ ~Has(c)
      /\ (\A r \in DOMAIN answers : answers[r] \in {NoAnswer, "refused"}) =>
           \A c \in Checks \ {"readableContent", "structuredData"} : status[c] = "unavailable"
  <2>1. CASE LeftScope
    <3>1. \A c \in Checks : status[c] = "unavailable"
      BY <2>1 DEF status, Statuses
    <3> QED
      BY <1>3, <3>1 DEF OneFile
  <2>2. CASE ~LeftScope
    <3>1. /\ status["crawlerPolicy"] = CrawlerPolicy /\ status["sitemap"] = Sitemap
          /\ status["llms"] = LlmsGuide /\ status["agentCard"] = AgentCard
          /\ status["apiDescription"] = EitherFile("openApi", "wellKnownOpenApi")
          /\ status["authDiscovery"] = EitherFile("oauth", "openId")
      BY <2>2 DEF status, Statuses, Evaluated
    <3>2. /\ DOMAIN answers = Paths
          /\ \A r \in Paths : /\ Found(r) => Served(r) = "found"
                              /\ NotFound(r) => Served(r) = "not_found"
                              /\ failures = 0 => answers[r] = Served(r)
      BY <1>1, <2>2, AllAnswered
    <3>3. /\ \A r \in Paths : failures = 0 /\ Served(r) = "found" => Found(r)
          /\ \A r \in Paths : failures = 0 /\ Served(r) = "not_found" => NotFound(r)
      BY <3>2 DEF Found, NotFound
    <3>4. target \in AuditedSites /\ ExplicitAgents(target.robots) = {agent \in KnownAgents : NamesAgent(agent)}
      BY AgentsAreNamed DEF ReadinessInv
    <3>5. /\ Has("crawlerPolicy") <=> HasRobots /\ \E agent \in KnownAgents : NamesAgent(agent)
          /\ Has("sitemap") <=> \/ HasRobots /\ DeclaresSitemap(target.robots)
                                \/ "found" \in {Served("sitemap"), Served("sitemapIndex")}
          /\ Has("llms") <=> Served("llms") = "found"
          /\ Has("apiDescription") <=> "found" \in {Served("openApi"), Served("wellKnownOpenApi")}
          /\ Has("authDiscovery") <=> "found" \in {Served("oauth"), Served("openId")}
          /\ Has("agentCard") <=> Served("agentCard") = "found"
          /\ Has("readableContent") /\ Has("structuredData")
      BY DEF Has, DeclaresSitemap
    <3>6. /\ Found("robots") => Lines = target.robots
          /\ ~Found("robots") => Lines = <<>>
      BY DEF Lines
    <3>7. ~DeclaresSitemap(<<>>)
      BY DEF DeclaresSitemap
    <3>8. "robots" \in Paths /\ "sitemap" \in Paths /\ "sitemapIndex" \in Paths /\ "llms" \in Paths
          /\ "openApi" \in Paths /\ "wellKnownOpenApi" \in Paths /\ "oauth" \in Paths
          /\ "openId" \in Paths /\ "agentCard" \in Paths
      BY DEF Paths
    <3>9. /\ CrawlerPolicy = "ready" => Has("crawlerPolicy")
          /\ CrawlerPolicy = "needs_attention" => ~Has("crawlerPolicy")
      <4>1. Found("robots") => HasRobots
        BY <3>2, <3>8 DEF HasRobots
      <4>2. NotFound("robots") => ~HasRobots
        BY <3>2, <3>8 DEF HasRobots
      <4>3. ASSUME CrawlerPolicy = "ready" PROVE Has("crawlerPolicy")
        <5>1. Lines # <<>> /\ ExplicitAgents(Lines) # {}
          BY <4>3 DEF CrawlerPolicy
        <5> QED
          BY <3>4, <3>5, <3>6, <4>1, <5>1
      <4>4. ASSUME CrawlerPolicy = "needs_attention" PROVE ~Has("crawlerPolicy")
        <5>1. NotFound("robots") \/ (Lines # <<>> /\ ExplicitAgents(Lines) = {})
          BY <4>4 DEF CrawlerPolicy
        <5> QED
          BY <3>4, <3>5, <3>6, <4>2, <5>1
      <4> QED
        BY <4>3, <4>4
    <3>10. /\ Sitemap = "ready" => Has("sitemap")
           /\ failures = 0 /\ Sitemap = "needs_attention" => ~Has("sitemap")
      <4>1. Sitemap = "ready" <=> DeclaresSitemap(Lines) \/ Found("sitemap") \/ Found("sitemapIndex")
        BY DEF Sitemap
      <4>2. HasRobots <=> Served("robots") = "found"
        BY DEF HasRobots
      <4> QED
        BY <3>2, <3>3, <3>5, <3>6, <3>7, <3>8, <4>1, <4>2
    <3>11. /\ LlmsGuide = "ready" => Has("llms")
           /\ LlmsGuide = "needs_attention" => ~Has("llms")
      BY <3>2, <3>5, <3>8 DEF LlmsGuide
    <3>12. /\ AgentCard = "ready" => Has("agentCard")
           /\ AgentCard = "needs_attention" => ~Has("agentCard")
      <4>1. AgentCard = "ready" => Found("agentCard")
        BY DEF AgentCard
      <4>2. AgentCard = "needs_attention" => ~Found("agentCard") /\ (NotFound("agentCard") \/ Responded("agentCard"))
        BY DEF AgentCard
      <4>3. NotFound("agentCard") \/ Responded("agentCard") => answers["agentCard"] # NoAnswer
        BY DEF NotFound, Responded, NoAnswer
      <4>4. answers["agentCard"] # NoAnswer => answers["agentCard"] = Served("agentCard")
        BY <3>2, <3>8 DEF ReadinessInv, AnswersOwn
      <4> QED
        BY <3>2, <3>5, <3>8, <4>1, <4>2, <4>3, <4>4 DEF Found
    <3>13. ASSUME NEW r1 \in Paths, NEW r2 \in Paths
           PROVE  /\ EitherFile(r1, r2) = "ready" => "found" \in {Served(r1), Served(r2)}
                  /\ failures = 0 /\ EitherFile(r1, r2) = "needs_attention"
                       => "found" \notin {Served(r1), Served(r2)}
      BY <3>2, <3>3 DEF EitherFile
    <3>14. /\ EitherFile("openApi", "wellKnownOpenApi") = "ready" => Has("apiDescription")
           /\ failures = 0 /\ EitherFile("openApi", "wellKnownOpenApi") = "needs_attention"
                => ~Has("apiDescription")
           /\ EitherFile("oauth", "openId") = "ready" => Has("authDiscovery")
           /\ failures = 0 /\ EitherFile("oauth", "openId") = "needs_attention" => ~Has("authDiscovery")
      BY <3>5, <3>8, <3>13
    <3>15. ASSUME \A r \in DOMAIN answers : answers[r] \in {NoAnswer, "refused"}
           PROVE  \A c \in Checks \ {"readableContent", "structuredData"} : status[c] = "unavailable"
      <4>1. \A r \in Paths : ~Found(r) /\ ~NotFound(r) /\ ~Responded(r)
        BY <3>2, <3>15 DEF Found, NotFound, Responded, NoAnswer
      <4>2. CrawlerPolicy = "unavailable"
        BY <3>6, <3>8, <4>1 DEF CrawlerPolicy
      <4>3. Sitemap = "unavailable"
        BY <3>6, <3>7, <3>8, <4>1 DEF Sitemap
      <4>4. LlmsGuide = "unavailable" /\ AgentCard = "unavailable"
        BY <3>8, <4>1 DEF LlmsGuide, AgentCard
      <4>5. /\ EitherFile("openApi", "wellKnownOpenApi") = "unavailable"
            /\ EitherFile("oauth", "openId") = "unavailable"
        BY <3>8, <4>1 DEF EitherFile
      <4> QED
        BY <1>3, <3>1, <4>2, <4>3, <4>4, <4>5
    <3>16. \A c \in Checks : status[c] = "ready" => Has(c)
      BY <1>3, <3>1, <3>5, <3>9, <3>10, <3>11, <3>12, <3>14
    <3>17. \A c \in OneFile : status[c] = "needs_attention" => ~Has(c)
      BY <3>1, <3>9, <3>11, <3>12 DEF OneFile
    <3>18. failures = 0 => \A c \in Checks : status[c] = "needs_attention" =>
             c \in {"readableContent", "structuredData"} \/ ~Has(c)
      BY <1>3, <3>1, <3>9, <3>10, <3>11, <3>12, <3>14
    <3> QED
      BY <3>15, <3>16, <3>17, <3>18
  <2> QED
    BY <2>1, <2>2
<1> QED
  BY <1>2, <1>4 DEF ReadinessTruthful

-----------------------------------------------------------------------------
\* Whatever the order of the answers, and of any number of pages: a score or a readiness
\* report claims nothing of a site that its crawl or its requests have not seen.
THEOREM ClaimsAreHonest == ASSUME ScoreOK, ReadinessOK PROVE ClaimsSpec => []ClaimsHold
<1>1. ClaimsSpec => ScoreSpec /\ ReadinessSpec
  BY DEF ClaimsSpec
<1>2. ScoreSpec => []ScoreInv
  <2>1. ScoreInit => ScoreInv
    BY ScoreStarts
  <2>2. ScoreInv /\ [ScoreNext]_scoreVars => ScoreInv'
    BY ScoreKept
  <2> QED
    BY <2>1, <2>2, PTL DEF ScoreSpec
<1>3. ReadinessSpec => []ReadinessInv
  <2>1. ReadinessInit => ReadinessInv
    BY ReadinessStarts
  <2>2. ReadinessInv /\ [ReadinessNext]_readinessVars => ReadinessInv'
    BY ReadinessKept
  <2> QED
    BY <2>1, <2>2, PTL DEF ReadinessSpec
<1>4. ScoreInv /\ ReadinessInv => ClaimsHold
  BY ScoreIsHonest, ReadinessIsTruthful DEF ClaimsHold
<1> QED
  BY <1>1, <1>2, <1>3, <1>4, PTL
=============================================================================
