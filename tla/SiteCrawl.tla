------------------------------ MODULE SiteCrawl ------------------------------
(***************************************************************************)
(* The live crawl of one site (runCrawl, lib/crawler/crawler.ts): robots,  *)
(* sitemaps, then a queue of URLs fetched in batches, each batch's links   *)
(* queued in the order of the batch.  PageFetch says what a fetch may do;  *)
(* here a fetch ends at some URL with a page, with something else, or not  *)
(* at all.                                                                 *)
(*                                                                         *)
(* An input is a site and the options of the crawl: the hosts of its URLs, *)
(* the URL each redirects to, the pages' links in document order, and what *)
(* robots.txt and the sitemaps say.  A robots rule is the set of the URLs  *)
(* its path is a prefix of.                                                *)
(***************************************************************************)
EXTENDS Naturals, Sequences, FiniteSets, Lists

CONSTANTS
  Inputs,          \* records [start, host, to, page, links, robots, sitemap,
                   \*          maxPages, maxDepth, concurrency]
  MaxLinks,        \* links kept of a page
  MaxChildren,     \* child sitemaps followed
  MaxLost          \* bound: fetches that the network loses

RobotsKeys == {"user-agent", "sitemap", "disallow", "allow"}
SiteOK(in) ==
  LET urls == DOMAIN in.host  sitemaps == DOMAIN in.sitemap IN
  /\ in.maxPages \in Nat \ {0} /\ in.concurrency \in Nat \ {0} /\ in.maxDepth \in Nat
  /\ in.start \in urls /\ in.to \in [urls -> urls] /\ in.links \in [urls -> Seq(urls)]
  /\ in.page \in [urls -> {"html", "other"}]
  /\ {1, 2} \subseteq sitemaps
  /\ in.robots \in Seq({in.robots[i] : i \in DOMAIN in.robots})
  /\ \A i \in DOMAIN in.robots : in.robots[i].key \in RobotsKeys
       /\ (in.robots[i].key = "sitemap" => in.robots[i].sitemap \in sitemaps)
  /\ \A m \in sitemaps :
       in.sitemap[m].urls \in Seq(urls) /\ in.sitemap[m].children \in Seq(sitemaps)

CrawlOK == {MaxLinks, MaxChildren, MaxLost} \subseteq Nat /\ \A in \in Inputs : SiteOK(in)

VARIABLES
  input,
  robots,     \* the rules that apply to the crawler
  seeds,      \* the URLs of the sitemaps
  queue,      \* URLs to crawl, with their depth
  visited,
  batch,      \* URLs being fetched
  pages,      \* results, with the links each page gave
  dropped,    \* a URL was refused because the queue was full
  lost,       \* fetches lost so far
  root,       \* what evaluateRootPage says of the result
  stage       \* robots, sitemaps, taking, done

crawlVars == <<input, robots, seeds, queue, visited, batch, pages, dropped, lost, root, stage>>

NoRobots == [disallow |-> {}, allow |-> {}, sitemaps |-> <<>>]

CrawlInit ==
  /\ input \in Inputs
  /\ robots = NoRobots /\ seeds = <<>> /\ queue = <<>> /\ visited = {} /\ batch = <<>>
  /\ pages = <<>> /\ dropped = FALSE /\ lost = 0 /\ root = "none" /\ stage = "robots"

InScope(url) == input.host[url] \in {"apex", "www"}

----------------------------------------------------------------------------
(* lib/crawler/robots.ts: the lines in order, the last User-agent line     *)
(* deciding whether a rule is for this crawler.                            *)

RobotsLine(file, line) ==
  CASE line.key = "user-agent" -> [file EXCEPT !.ours = line.agent \in {"any", "growthsent"}]
    [] line.key = "sitemap"    -> [file EXCEPT !.sitemaps = Append(@, line.sitemap)]
    [] ~file.ours /\ line.key \in {"disallow", "allow"} -> file
    [] file.ours /\ line.key = "disallow" -> [file EXCEPT !.disallow = @ \cup line.covers]
    [] file.ours /\ line.key = "allow"    -> [file EXCEPT !.allow = @ \cup line.covers]

ReadingRobots(lines) ==
  LET File[i \in 0..Len(lines)] ==
        IF i = 0 THEN [ours |-> TRUE, disallow |-> {}, allow |-> {}, sitemaps |-> <<>>]
        ELSE RobotsLine(File[i - 1], lines[i])
  IN  File
RobotsOf(lines) == ReadingRobots(lines)[Len(lines)]

\* isPathDisallowedByRobots: an allowed prefix wins whatever its length
Disallowed(url) == url \in robots.disallow /\ url \notin robots.allow

\* an empty file stands for one that is not there
ReadRobots ==
  /\ stage = "robots" /\ stage' = "sitemaps"
  /\ LET file == RobotsOf(input.robots) IN
     robots' = [disallow |-> file.disallow, allow |-> file.allow, sitemaps |-> file.sitemaps]
  /\ UNCHANGED <<input, seeds, queue, visited, batch, pages, dropped, lost, root>>

----------------------------------------------------------------------------
(* lib/crawler/sitemap.ts.  A sitemap is [inScope, ok, children, urls]; the *)
(* two default locations are sitemaps 1 and 2.                             *)

Read(id) == input.sitemap[id].inScope /\ input.sitemap[id].ok
Scope == {url \in DOMAIN input.host : InScope(url)}
UrlsListed == [id \in DOMAIN input.sitemap |-> IF Read(id) THEN input.sitemap[id].urls ELSE <<>>]
ChildrenListed ==
  [id \in DOMAIN input.sitemap |-> IF Read(id) THEN input.sitemap[id].children ELSE <<>>]
UrlsInScope == [id \in DOMAIN input.sitemap |-> Filtered(UrlsListed[id], Scope)]

Candidates == IF robots.sitemaps = <<>> THEN <<1, 2>> ELSE Distinct(robots.sitemaps)
Followed == FirstOf(Concatenated(Candidates, ChildrenListed), MaxChildren)
SitemapUrls ==
  Distinct(Concatenated(Candidates, UrlsListed) \o Concatenated(Followed, UrlsInScope))

\* the queue starts with the start URL and takes what it has room for
Seeded(urls) ==
  LET scoped == Filtered(urls, Scope) IN
  FirstOf(<<[url |-> input.start, depth |-> 0]>>
            \o [i \in DOMAIN scoped |-> [url |-> scoped[i], depth |-> 1]], input.maxPages)

ReadSitemaps ==
  /\ stage = "sitemaps" /\ stage' = "taking"
  /\ seeds' = SitemapUrls
  /\ queue' = Seeded(seeds')
  /\ dropped' = \E url \in Elements(seeds') \cap Scope :
                   \A i \in DOMAIN queue' : queue'[i].url # url
  /\ UNCHANGED <<input, robots, visited, batch, pages, lost, root>>

----------------------------------------------------------------------------
(* runCrawl                                                                *)

BatchOpen ==
  /\ queue # <<>> /\ Len(batch) < input.concurrency
  /\ Len(pages) + Len(batch) < input.maxPages

\* queue.pop() instead of queue.shift()
Newest == queue[Len(queue)]
ShiftLast ==
  /\ stage = "taking" /\ BatchOpen
  /\ queue' = SubSeq(queue, 1, Len(queue) - 1)
  /\ IF Newest.url \notin visited /\ Newest.depth <= input.maxDepth
     THEN visited' = visited \cup {Newest.url} /\ batch' = Append(batch, Newest)
     ELSE UNCHANGED <<visited, batch>>
  /\ UNCHANGED <<input, robots, seeds, pages, dropped, lost, root, stage>>

Shift ==
  /\ stage = "taking" /\ BatchOpen
  /\ queue' = Tail(queue)
  /\ IF Head(queue).url \notin visited /\ Head(queue).depth <= input.maxDepth
     THEN visited' = visited \cup {Head(queue).url} /\ batch' = Append(batch, Head(queue))
     ELSE UNCHANGED <<visited, batch>>
  /\ UNCHANGED <<input, robots, seeds, pages, dropped, lost, root, stage>>

\* parsePageHtml: the distinct links to the page's own host, the first MaxLinks
SameHost(url) == {v \in DOMAIN input.host : input.host[v] = input.host[url]}
InternalLinks(final) == FirstOf(Distinct(Filtered(input.links[final], SameHost(final))), MaxLinks)

\* the result of one URL of the batch; lostUrls are those whose fetch failed
Result(item, lostUrls) ==
  LET final == input.to[item.url]
      kind == IF Disallowed(item.url) THEN "disallowed"
              ELSE IF item.url \in lostUrls THEN "failed" ELSE input.page[final] IN
  [url |-> item.url, depth |-> item.depth, kind |-> kind,
   links |-> IF kind = "html" THEN Filtered(InternalLinks(final), Scope) ELSE <<>>]

\* one discovered link: queued unless visited or the queue is full
Enqueued(crawl, link, depth) ==
  IF link \in visited THEN crawl
  ELSE IF Len(crawl.pages) + Len(crawl.queue) < 2 * input.maxPages
       THEN [crawl EXCEPT !.queue = Append(@, [url |-> link, depth |-> depth])]
       ELSE [crawl EXCEPT !.dropped = TRUE]
Enqueuing(crawl, links, depth) ==
  LET Crawl[k \in 0..Len(links)] ==
        IF k = 0 THEN crawl ELSE Enqueued(Crawl[k - 1], links[k], depth)
  IN  Crawl
Collected(crawl, result) ==
  LET kept == [crawl EXCEPT !.pages = Append(@, result)] IN
  IF result.depth + 1 > input.maxDepth THEN kept
  ELSE Enqueuing(kept, result.links, result.depth + 1)[Len(result.links)]
Collecting(crawl, results) ==
  LET Crawl[i \in 0..Len(results)] ==
        IF i = 0 THEN crawl ELSE Collected(Crawl[i - 1], results[i])
  IN  Crawl

BatchFetched ==
  /\ stage = "taking" /\ ~BatchOpen /\ batch # <<>>
  /\ \E lostUrls \in SUBSET {batch[i].url : i \in DOMAIN batch} :
       LET results == [i \in DOMAIN batch |-> Result(batch[i], lostUrls)]
           crawl == Collecting([pages |-> pages, queue |-> queue, dropped |-> dropped],
                               results)[Len(batch)] IN
       /\ lost + Cardinality(lostUrls) <= MaxLost
       /\ lost' = lost + Cardinality(lostUrls)
       /\ pages' = crawl.pages /\ queue' = crawl.queue /\ dropped' = crawl.dropped
  /\ batch' = <<>>
  /\ UNCHANGED <<input, robots, seeds, visited, root, stage>>

\* evaluateRootPage
RootOf(results) ==
  IF \A i \in DOMAIN results : results[i].url # input.start THEN "missing"
  ELSE LET page == results[CHOOSE i \in DOMAIN results : results[i].url = input.start] IN
       IF page.kind = "html" THEN "evaluable" ELSE page.kind

FinishCrawl ==
  /\ stage = "taking" /\ ~BatchOpen /\ batch = <<>>
  /\ stage' = "done" /\ root' = RootOf(pages)
  /\ UNCHANGED <<input, robots, seeds, queue, visited, batch, pages, dropped, lost>>

CrawlNext == ReadRobots \/ ReadSitemaps \/ Shift \/ BatchFetched \/ FinishCrawl
CrawlSpec == CrawlInit /\ [][CrawlNext]_crawlVars

----------------------------------------------------------------------------
\* The URLs within so many links of the start, over the links the results give;
\* the sitemaps' URLs count as linked from the start.
LinksOf(url) == UNION {Elements(page.links) : page \in {p \in Elements(pages) : p.url = url}}
SeedsInScope == Elements(seeds) \cap Scope
Linked(urls) == UNION {LinksOf(url) : url \in urls}
Beyond(urls) == urls \cup Linked(urls) \cup SeedsInScope
Balls(depth) ==
  LET Ball[d \in 0..depth] == IF d = 0 THEN {input.start} ELSE Beyond(Ball[d - 1])
  IN  Ball
Within(depth) == Balls(depth)[depth]

\* A finished crawl has no URL twice and no more than it may, the root among them,
\* and unless it used up its pages or its queue it has every URL within maxDepth
\* links of the start, although batches finish links of several depths at once and
\* the same URL is queued from several pages.
CrawlReachesAll ==
  stage = "done" =>
    /\ \A i, j \in DOMAIN pages : pages[i].url = pages[j].url => i = j
    /\ Len(pages) <= input.maxPages
    /\ root # "missing"
    /\ ~dropped /\ Len(pages) < input.maxPages =>
         {pages[i].url : i \in DOMAIN pages} = Within(input.maxDepth)
=============================================================================
