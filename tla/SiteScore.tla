------------------------------ MODULE SiteScore ------------------------------
(***************************************************************************)
(* From the result of a crawl to the issues and the score of an audit      *)
(* (lib/seo/engine.ts, rules.ts, scoring.ts).  The result is built from    *)
(* what the site really has, so that a claim can be held against it: a     *)
(* file is present, absent (HTTP 404), refused (another status) or not     *)
(* reachable, and a page is what the crawl saw of it.  The archive sees    *)
(* neither robots.txt nor sitemaps nor response times.                     *)
(***************************************************************************)
EXTENDS Integers, Sequences, Lists

CONSTANTS
  PageResults,   \* what a crawl may have of a page: records
                 \* [reply, slow, noindex, canonical, title, length, description, h1, jsonLd]
  MaxResults,    \* bound: pages of a crawl
  NoTitle

ScoreOK == MaxResults \in Nat \ {0}

VARIABLES
  files,       \* robots, the two default sitemaps, a sitemap robots.txt declares,
              \* a sitemap that leaves the site or a child that is not served
  source,   \* live or archive
  results,    \* the crawl's pages; the first is the root
  issues,     \* sequence of [rule, at]; at is the page's position, 0 the site
  titles,     \* titleToUrls: the pages of each title so far, in the order of its keys
  checked,    \* pages checked so far
  score, step

scoreVars == <<files, source, results, issues, titles, checked, score, step>>

FileStates == {"present", "absent", "refused", "unreachable"}

ScoreInit ==
  /\ files \in [robots : FileStates, sitemap1 : FileStates, sitemap2 : FileStates,
              declared : BOOLEAN, error : BOOLEAN]
  /\ files.declared => files.robots = "present"
  /\ files.error => files.declared \/ "present" \in {files.sitemap1, files.sitemap2}
  /\ source \in {"live", "archive"}
  /\ results \in UNION {[1..k -> PageResults] : k \in 1..MaxResults}
  /\ issues = <<>> /\ titles = <<>> /\ checked = 0 /\ score = 0 /\ step = "site"

----------------------------------------------------------------------------
(* The evidence: fetchAndParseRobotsTxt, fetchAndParseSitemap, parsePageHtml *)

Status(file) == CASE file = "present" -> 200 [] file = "absent" -> 404
                  [] file = "refused" -> 403 [] file = "unreachable" -> 0
RobotsStatus == IF source = "archive" THEN 0 ELSE Status(files.robots)
\* missingConfirmed: no sitemap is declared and both default locations are 404
NoSitemapFound == source = "live" /\ "present" \notin {files.sitemap1, files.sitemap2}
MissingConfirmed ==
  /\ source = "live" /\ ~files.declared
  /\ Status(files.sitemap1) = 404 /\ Status(files.sitemap2) = 404

Parsed(page) == page.reply = "html"
\* evaluateRootPage, before any analysis
RootEvaluable == Parsed(results[1])

----------------------------------------------------------------------------
(* lib/seo/rules.ts and scoring.ts                                         *)

Critical == {"noindex-detected", "title-missing", "broken-internal-link"}
High == {"sitemap-missing", "sitemap-url-error", "canonical-external", "meta-desc-missing",
         "duplicate-titles", "h1-missing", "jsonld-syntax-error"}
Medium == {"robots-txt-missing", "canonical-missing", "canonical-invalid", "h1-multiple",
           "slow-response-time"}
Low == {"title-too-long", "title-too-short", "meta-desc-too-long"}
RuleWeight(rule) == CASE rule \in Critical -> 15 [] rule \in High -> 10
                  [] rule \in Medium -> 5 [] rule \in Low -> 2

Deduction(found) == Sum([i \in DOMAIN found |-> RuleWeight(found[i].rule)])

\* round(100 - points / sqrt(pages)), kept within 0..100
ScoreOf(points, pages) ==
  LET AtLeast(s) == 4 * points * points <= (201 - 2 * s) * (201 - 2 * s) * pages
      reached == {s \in 0..100 : AtLeast(s)} IN
  IF reached = {} THEN 0 ELSE CHOOSE s \in reached : s + 1 \notin reached

----------------------------------------------------------------------------
(* analyzeCrawlResults                                                     *)

Issue(rule, at, holds) == IF holds THEN <<[rule |-> rule, at |-> at]>> ELSE <<>>

SiteChecks ==
  /\ step = "site"
  /\ IF RootEvaluable
     THEN /\ step' = "pages"
          /\ issues' = Issue("robots-txt-missing", 0, RobotsStatus = 404)
                       \o Issue("sitemap-missing", 0, MissingConfirmed)
                       \o Issue("sitemap-url-error", 0, source = "live" /\ files.error)
     ELSE step' = "rejected" /\ UNCHANGED issues
  /\ UNCHANGED <<files, source, results, titles, checked, score>>

PageIssues(page, at) ==
  Issue("broken-internal-link", at, page.reply \in {"not_found", "server_error"})
  \o Issue("slow-response-time", at, source = "live" /\ page.slow)
DataIssues(page, at) ==
  Issue("noindex-detected", at, page.noindex)
  \o Issue("canonical-invalid", at, page.canonical = "invalid")
  \o Issue("canonical-missing", at, page.canonical = "none")
  \o Issue("canonical-external", at, page.canonical = "external")
  \o Issue("title-missing", at, page.title = NoTitle)
  \o Issue("title-too-long", at, page.title # NoTitle /\ page.length > 60)
  \o Issue("title-too-short", at, page.title # NoTitle /\ page.length < 10)
  \o Issue("meta-desc-missing", at, page.description = 0)
  \o Issue("meta-desc-too-long", at, page.description > 160)
  \o Issue("h1-missing", at, page.h1 = 0)
  \o Issue("h1-multiple", at, page.h1 > 1)
  \o Issue("jsonld-syntax-error", at, ~page.jsonLd)

AddedTo(groups, title, at) ==
  IF \E g \in DOMAIN groups : groups[g].title = title
  THEN [g \in DOMAIN groups |-> IF groups[g].title = title
                                THEN [groups[g] EXCEPT !.pages = Append(@, at)] ELSE groups[g]]
  ELSE Append(groups, [title |-> title, pages |-> <<at>>])

CheckPage ==
  LET at == checked + 1  page == results[at] IN
  /\ step = "pages" /\ checked < Len(results)
  /\ issues' = issues \o PageIssues(page, at) \o (IF Parsed(page) THEN DataIssues(page, at) ELSE <<>>)
  /\ titles' = IF Parsed(page) /\ page.title # NoTitle
               THEN AddedTo(titles, page.title, at) ELSE titles
  /\ checked' = at
  /\ UNCHANGED <<files, source, results, score, step>>

Duplicates(group) ==
  IF Len(group.pages) > 1
  THEN [i \in DOMAIN group.pages |-> [rule |-> "duplicate-titles", at |-> group.pages[i]]]
  ELSE <<>>
Finish ==
  /\ step = "pages" /\ checked = Len(results)
  /\ issues' = issues \o Concatenated(titles, [g \in Elements(titles) |-> Duplicates(g)])
  /\ score' = ScoreOf(Deduction(issues'), Len(results))
  /\ step' = "scored"
  /\ UNCHANGED <<files, source, results, titles, checked>>

ScoreNext == SiteChecks \/ CheckPage \/ Finish
ScoreSpec == ScoreInit /\ [][ScoreNext]_scoreVars

----------------------------------------------------------------------------
Claims(rule) == {issues[i].at : i \in {j \in DOMAIN issues : issues[j].rule = rule}}
SameTitle(i, j) == Parsed(results[i]) /\ Parsed(results[j]) /\ results[i].title = results[j].title

\* What an audit claims of a site is so: a file is missing only where the site
\* answers that it is, nothing is said of the markup of a page that was not read,
\* pages share a title exactly when another page has it, and the score of a site is full
\* when there is nothing to deduct, and in a crawl of fewer than 16 pages only then (in
\* more, the least deduction is rounded away), is never more for a further issue and
\* never less for a further clean page (tests/audit-truthfulness.test.ts).
ScoreHonest ==
  step = "scored" =>
    /\ Claims("robots-txt-missing") # {} => files.robots = "absent"
    /\ Claims("sitemap-missing") # {} => files.sitemap1 = "absent" /\ files.sitemap2 = "absent"
    /\ source = "archive" => Claims("slow-response-time") = {}
    /\ \A i \in DOMAIN issues :
         issues[i].at # 0 /\ issues[i].rule \notin {"broken-internal-link", "slow-response-time"} =>
           results[issues[i].at].reply = "html"
    /\ Claims("duplicate-titles") =
         {i \in DOMAIN results : results[i].title # NoTitle
                                 /\ \E j \in DOMAIN results : i # j /\ SameTitle(i, j)}
    /\ issues = <<>> => score = 100
    /\ score = 100 /\ Len(results) < 16 => issues = <<>>
    /\ \A rule \in Critical \cup High :
         ScoreOf(Deduction(issues) + RuleWeight(rule), Len(results)) <= score
    /\ score <= ScoreOf(Deduction(issues), Len(results) + 1)
=============================================================================
