----------------------------- MODULE SmallInputs -----------------------------
(***************************************************************************)
(* What MCServices and MCPlatform are run on: sites, pages, addresses,     *)
(* datasets and files, few and chosen so that the cases of each component  *)
(* happen.                                                                 *)
(***************************************************************************)
EXTENDS Integers, Sequences, SequencesExt, FiniteSets

(* ApiGate: a burst over two windows on the health route, two requests on  *)
(* the scheduler's, and one each on the administrator's, on ai-readiness,  *)
(* a report of Search Console, a new audit and a scan, which race with the *)
(* provisioning, the connection and the deletion of the account.           *)
PublicRoute == [resource |-> "public", checks |-> <<>>]
Sent(n, resource, checks) ==
  [route |-> [resource |-> resource, checks |-> checks], requests |-> n]
GateWorkloads ==
  {Sent(4, "public", <<>>), Sent(2, "internal", <<"cron">>), Sent(1, "internal", <<"admin">>),
   Sent(1, "site", <<"user", "budget", "site", "target">>),
   Sent(1, "site", <<"user", "input", "keptSearch">>),
   Sent(1, "public", <<"input", "target", "admission">>), Sent(1, "scan", <<"scan">>)}

(* PageFetch: a URL per rule, and addresses on both sides of the limits of *)
(* the reserved ranges.                                                    *)
Https(host) == [scheme |-> "https", port |-> FALSE, credentials |-> FALSE, host |-> host]
FetchUrls ==
  {Https("shop"), Https("other"), Https("literal"), Https("local"),
   [Https("shop") EXCEPT !.scheme = "ftp"], [Https("shop") EXCEPT !.port = TRUE],
   [Https("shop") EXCEPT !.credentials = TRUE]}
LiteralHosts == [h \in {"literal"} |-> <<192, 168, 0, 1>>]
SomeAddresses ==
  {<<8, 8, 8, 8>>, <<10, 0, 0, 1>>, <<100, 63, 1, 1>>, <<100, 64, 1, 1>>, <<100, 128, 0, 1>>,
   <<172, 15, 1, 1>>, <<172, 16, 1, 1>>, <<172, 32, 0, 1>>, <<198, 17, 0, 1>>,
   <<198, 19, 255, 1>>, <<198, 20, 0, 1>>, <<223, 1, 1, 1>>, <<240, 0, 0, 1>>,
   <<0, 0, 0, 0, 0, 65535, 2570, 1>>, <<100, 65435, 0, 0, 0, 0, 32512, 1>>,
   <<9734, 0, 0, 0, 0, 0, 0, 1>>, <<0, 0, 0, 0, 0, 0, 0, 1>>, <<64511, 0, 0, 0, 0, 0, 0, 1>>,
   <<65023, 0, 0, 0, 0, 0, 0, 1>>, <<65215, 0, 0, 0, 0, 0, 0, 1>>, <<65282, 0, 0, 0, 0, 0, 0, 1>>}
SomeAnswers ==
  LET open == <<8, 8, 8, 8>> IN
  {<<>>} \cup {<<a>> : a \in SomeAddresses} \cup {<<a, open>> : a \in SomeAddresses}
    \cup {<<open, a>> : a \in SomeAddresses}

(* SiteCrawl: five pages, one of them on the www alias; every small link   *)
(* graph, and one graph with robots, sitemaps and redirects.               *)
NoSitemap == [inScope |-> TRUE, ok |-> FALSE, children |-> <<>>, urls |-> <<>>]
SiteWith(links, up, robotsLines, sitemaps, parallel, max) ==
  [start |-> 1, host |-> <<"apex", "apex", "apex", "apex", "www">>, to |-> <<1, 2, 3, 4, 5>>,
   page |-> <<"html", "html", "html", "html", "html">>,
   links |-> [u \in 1..5 |-> SelectSeq(IF up THEN <<1, 2, 3, 4, 5>> ELSE <<5, 4, 3, 2, 1>>,
                                       LAMBDA v : v \in links[u])],
   robots |-> robotsLines, sitemap |-> sitemaps,
   maxPages |-> max, maxDepth |-> 2, concurrency |-> parallel]
LinkSets ==
  {<<a, b, c, {3}, {}>> : a \in SUBSET (2..3), b \in SUBSET (3..4), c \in SUBSET {2, 4}}
Star == <<{2, 3}, {4}, {2, 5}, {3}, {4}>>
Agent(a) == [key |-> "user-agent", agent |-> a]
Disallow(s) == [key |-> "disallow", covers |-> s]
RobotsFiles ==
  {<<Agent("any"), Disallow(1..5), [key |-> "allow", covers |-> {1, 2}]>>,
   <<Agent("other"), Disallow(1..5), Agent("any"), Disallow({3})>>,
   <<[key |-> "sitemap", sitemap |-> 3], Disallow({2})>>}
Sitemaps ==
  <<[NoSitemap EXCEPT !.ok = TRUE, !.urls = <<4, 3, 5>>], NoSitemap,
    [NoSitemap EXCEPT !.ok = TRUE, !.children = <<4>>],
    [NoSitemap EXCEPT !.ok = TRUE, !.urls = <<5, 4>>]>>
NoSitemaps == <<NoSitemap, NoSitemap, NoSitemap, NoSitemap>>
CrawlInputs ==
  {SiteWith(l, up, <<>>, NoSitemaps, c, 5) : l \in LinkSets, up \in BOOLEAN, c \in {1, 2}}
  \cup {SiteWith(Star, TRUE, r, Sitemaps, c, m) : r \in RobotsFiles, c \in {1, 2}, m \in {2, 3, 5}}
  \cup {[SiteWith(Star, TRUE, r, Sitemaps, 2, 3) EXCEPT !.to = <<1, 5, 3, 4, 5>>,
           !.page = <<k, "html", "other", "html", "html">>] :
          r \in RobotsFiles \cup {<<>>}, k \in {"html", "other"}}

(* ArchiveRead: listings with a duplicate, another host, an invalid line.  *)
ListedRecord(u, r, n) == [valid |-> TRUE, url |-> u, host |-> "shop", range |-> r, length |-> n]
SomeTargets == {[url |-> "a", host |-> "shop", exact |-> FALSE],
                   [url |-> "b", host |-> "shop", exact |-> TRUE]}
SomeCollections == {<<[id |-> "old", valid |-> TRUE, availableAt |-> 1, week |-> 9],
                  [id |-> "new", valid |-> TRUE, availableAt |-> 2, week |-> 4]>>}
SomeListings ==
  {<<ListedRecord("a", 1, 1), ListedRecord("b", 2, 2), ListedRecord("a", 3, 1)>>,
   <<ListedRecord("a", 1, 1), ListedRecord("b", 1, 1), [ListedRecord("c", 3, 1) EXCEPT !.host = "www"]>>,
   <<[ListedRecord("a", 1, 1) EXCEPT !.valid = FALSE]>>,
   <<ListedRecord("a", 1, 1), ListedRecord("b", 2, 1), ListedRecord("c", 3, 1)>>}

(* SiteScore: a good page, and pages with one or several of the defects.   *)
UnreachableFiles ==
  [robots |-> "unreachable", sitemap1 |-> "unreachable", sitemap2 |-> "unreachable",
   declared |-> FALSE, error |-> FALSE]
GoodPage ==
  [reply |-> "html", slow |-> FALSE, noindex |-> FALSE, canonical |-> "own", title |-> "t1",
   length |-> 30, description |-> 100, h1 |-> 1, jsonLd |-> TRUE]
ScoredPages ==
  {GoodPage, [GoodPage EXCEPT !.title = "t2", !.length = 61],
   [GoodPage EXCEPT !.title = "-", !.h1 = 0, !.noindex = TRUE, !.description = 0],
   [GoodPage EXCEPT !.reply = "not_found"],
   [GoodPage EXCEPT !.length = 9, !.title = "t3", !.canonical = "external",
                    !.jsonLd = FALSE, !.slow = TRUE]}

(* AiReadiness: robots files with groups that end early, and what is found *)
(* of the nine resources.                                                  *)
Line(k, v) == [key |-> k, value |-> v]
ReadinessRobots ==
  {<<Line("agent", "gpt"), Line("agent", "*"), Line("rule", "/")>>,
   <<Line("agent", "gpt"), Line("rule", "/"), Line("agent", "*"), Line("sitemap", "x"),
     Line("rule", "/")>>,
   <<>>}
Home == [scope |-> "inside", reply |-> "html", noindex |-> FALSE, h1 |-> 1, characters |-> 240,
         jsonLd |-> "valid"]
Files(found, refused, rest) ==
  [r \in {"robots", "sitemap", "sitemapIndex", "llms", "openApi", "wellKnownOpenApi", "oauth",
          "openId", "agentCard"} |->
     IF r \in found THEN "found" ELSE IF r \in refused THEN "refused" ELSE rest]
ReadinessFiles ==
  {Files({}, {}, "found"), Files({}, {}, "not_found"),
   Files({"robots", "wellKnownOpenApi", "llms"}, {"openApi", "oauth"}, "not_found"),
   Files({"sitemapIndex", "openId"}, {}, "other")}
ReadinessHomes == {Home, [Home EXCEPT !.scope = "outside"], [Home EXCEPT !.reply = "none"]}

(* SearchReports: rows of two periods whose keys partly agree.             *)
Row(k, c, i, p) == [key |-> k, clicks |-> c, impressions |-> i, position |-> p]
Kpi(k, s) == [key |-> k, sessions |-> s]
Datasets ==
  {[queries |-> q, previousQueries |-> pq, pages |-> p, previousPages |-> pp,
    queryPages |-> <<Row("a", 1, 9, 3), Row("b", 2, 30, 4), Row("a", 1, 12, 5), Row("b", 0, 3, 9),
                     Row("c", 5, 40, 2)>>,
    daily |-> d, previousDaily |-> <<>>, kpis |-> k,
    landingPages |-> <<[key |-> "/", sessions |-> 5, engaged |-> 39, bounced |-> 61],
                       [key |-> "/b", sessions |-> 4, engaged |-> 10, bounced |-> 80]>>,
    sources |-> <<Kpi("organic", 9)>>,
    events |-> <<[key |-> "purchase", conversion |-> TRUE],
                 [key |-> "scroll", conversion |-> FALSE]>>,
    scan |-> <<[pages |-> 3, critical |-> 4]>>, countries |-> <<"in">>, devices |-> <<"mobile">>,
    appearance |-> <<>>, sitemaps |-> <<"s">>, trend |-> <<1>>, browsers |-> <<2>>, os |-> <<3>>,
    newVsReturning |-> <<4>>, realtime |-> <<5>>, realtimePages |-> <<6>>] :
   q  \in {<<Row("a", 6, 60, 9), Row("b", 2, 120, 5), Row("c", 1, 200, 4)>>,
           <<Row("c", 0, 40, 20), Row("a", 1, 90, 12)>>},
   pq \in {<<>>, <<Row("c", 0, 40, 20), Row("a", 1, 90, 12)>>},
   p  \in {<<Row("x", 9, 100, 3), Row("y", 2, 30, 9)>>,
           <<Row("y", 8, 90, 8), Row("x", 9, 90, 3), Row("z", 7, 10, 2)>>},
   pp \in {<<>>, <<Row("x", 9, 100, 3), Row("y", 2, 30, 9)>>},
   d  \in {<<>>, <<Row("d1", 3, 30, 4), Row("d2", 2, 20, 8)>>},
   \* figures of both periods in either order, of the current one, and of the previous one
   k  \in {<<Kpi("date_range_1", 4), Kpi("date_range_0", 6)>>,
           <<Kpi("date_range_0", 6), Kpi("date_range_1", 4)>>,
           <<Kpi("date_range_0", 6)>>, <<Kpi("date_range_1", 3)>>}}

(* LinkReads: tables with rows that tie, within what is given out and at   *)
(* its end.                                                                *)
TiedScores ==
  {<<>>, <<1>>, <<1, 1, 1>>, <<2, 1, 1>>, <<2, 1, 1, 1>>, <<3, 2, 1, 1>>, <<2, 2, 1, 1>>}

(* LinkReports: a domain whose three pages have shares of 66.67, 16.67 and *)
(* 16.67, one with more rows than a report shows, one that is not in the   *)
(* index, and missing objects.                                             *)
Scores(s) ==
  [i \in DOMAIN s |-> [score |-> s[i], kind |-> IF i % 2 = 1 THEN "branded" ELSE "generic"]]
Tables == {"domain_summary", "referring_domains", "anchors", "top_pages",
           "broken_backlink_candidates"}
Links(here, inbound, referring, a, b, c, d) ==
  [present |-> here, inbound |-> inbound, referring |-> referring,
   rows |-> [referring_domains |-> Scores(a), anchors |-> Scores(b), top_pages |-> Scores(c),
             broken_backlink_candidates |-> Scores(d)], parts |-> Tables]
ManyLinks ==
  Links(TRUE, 8, 4, <<4, 2, 1, 1>>, <<3, 3, 1, 1>>, <<3, 3, 1, 1>>, <<3, 2, 1, 1>>)
NoLinks == Links(FALSE, 0, 0, <<>>, <<>>, <<>>, <<>>)
LinkIndexes ==
  {Links(TRUE, 6, 3, <<3, 2, 1>>, <<2, 2, 2>>, <<4, 1, 1>>, <<1>>), ManyLinks,
   [NoLinks EXCEPT !.parts = {}],
   [ManyLinks EXCEPT !.parts = Tables \ {"domain_summary", "anchors"}]}

(* BacklinkSample: two spellings of a host, another host, an internal      *)
(* alias, a row without a source, and a source of no known domain.         *)
SampleHosts(none) == [plain |-> "shop", upper |-> "shop", other |-> "blog", bad |-> none]
Observed(i, f) == [id |-> i, from |-> f]
SampleRows(none) ==
  [shop |-> <<Observed(1, "a"), Observed(2, "wwwshop"), Observed(3, none), Observed(4, "b")>>,
   blog |-> <<Observed(5, "shop")>>]
SampleSites(none) == [shop |-> "shop", blog |-> "blog", wwwshop |-> "shop", a |-> "a", b |-> none]

(* AuditReport: findings that are short, that just fit a page after the    *)
(* cards, and with a text that is itself longer than a page.               *)
FindingLists == SeqOf([title : {1}, url : {1}, text : {1, 33, 60}, fix : {1}], 3)
PrintedPages == SeqOf([url : {1, 40}, status : {1}, title : {1}], 2)

(* TrafficSummary: up to three page views by two visitors.                 *)
View(p, v, d) == [page |-> p, referrer |-> 1 + (p % 2), visitor |-> v,
                  device |-> IF v = 1 THEN "none" ELSE "mobile", session |-> v, day |-> d]
PageViews == SeqOf({View(p, v, d) : p \in 1..3, v \in 1..2, d \in {0, 3}}, 3)
=============================================================================
