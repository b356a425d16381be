----------------------------- MODULE AiReadiness -----------------------------
(***************************************************************************)
(* The AI readiness report (lib/ai-readiness/service.ts): the homepage is  *)
(* fetched, then nine well-known files of its final origin by three        *)
(* workers that share a cursor, in any order of answers; any request may   *)
(* fail.  Eight checks are evaluated from what was answered, and the score *)
(* counts only the checks that could be made.                              *)
(***************************************************************************)
EXTENDS Integers, Sequences, Lists

CONSTANTS
  AuditedSites,         \* records [home, robots, files]; see the three operators below
  KnownAgents,   \* AI_CRAWLER_AGENTS
  Parallel,      \* MAX_PARALLEL_REQUESTS
  MaxFailures    \* bound: requests that fail without an answer

VARIABLES
  target,     \* the site audited
  home,       \* the homepage's answer
  cursor, requested, answers,   \* fetchMany: next target, requests in flight, results
  failures,
  report      \* check -> status, and the score; <<>> before

readinessVars == <<target, home, cursor, requested, answers, failures, report>>

Resources == <<"robots", "sitemap", "sitemapIndex", "llms", "openApi", "wellKnownOpenApi",
               "oauth", "openId", "agentCard">>
Weights == [crawlerPolicy |-> 20, sitemap |-> 15, llms |-> 10, readableContent |-> 15,
            structuredData |-> 15, apiDescription |-> 10, authDiscovery |-> 7, agentCard |-> 8]
Checks == DOMAIN Weights
CheckOrder == <<"crawlerPolicy", "sitemap", "llms", "readableContent", "structuredData",
             "apiDescription", "authDiscovery", "agentCard">>

ReadinessOK ==
  /\ Parallel \in 1..Len(Resources) /\ MaxFailures \in Nat
  /\ \A s \in AuditedSites :
       /\ s.robots \in Seq([key : STRING, value : STRING])
       /\ s.files \in [Elements(Resources) -> STRING]

NoAnswer == "unreached"      \* emptyFetchResult: status 0
\* what a file of the origin answers: it is there, a reply of another kind with
\* status 200, 404, or another status
Served(r) == target.files[r]

ReadinessInit ==
  /\ target \in AuditedSites
  /\ home = "none" /\ cursor = 1 /\ requested = {} /\ answers = <<>> /\ failures = 0 /\ report = <<>>

----------------------------------------------------------------------------
(* The requests                                                            *)

OutOfScope == target.home.scope = "outside"

Fail == failures < MaxFailures /\ failures' = failures + 1

\* fetch of the origin's root; then every worker takes a first target
FetchHome ==
  /\ home = "none"
  /\ \/ home' = "answered" /\ UNCHANGED failures
     \/ home' = NoAnswer /\ Fail
  /\ requested' = IF home' = "answered" /\ OutOfScope THEN {}
               ELSE {Resources[i] : i \in 1..Parallel}
  /\ cursor' = IF requested' = {} THEN cursor ELSE Parallel + 1
  /\ UNCHANGED <<target, answers, report>>

\* the while loop of a worker: its answer is stored, the next target taken
FileAnswered(r) ==
  /\ r \in requested
  /\ \E got \in {Served(r), NoAnswer} :
       /\ IF got = NoAnswer /\ Served(r) # NoAnswer THEN Fail ELSE UNCHANGED failures
       /\ answers' = [x \in DOMAIN answers \cup {r} |-> IF x = r THEN got ELSE answers[x]]
  /\ IF cursor > Len(Resources)
     THEN requested' = requested \ {r} /\ UNCHANGED cursor
     ELSE requested' = (requested \ {r}) \cup {Resources[cursor]} /\ cursor' = cursor + 1
  /\ UNCHANGED <<target, home, report>>

----------------------------------------------------------------------------
(* The evaluations                                                         *)

NotServed(r) == answers[r] # "found" /\ answers[r] # "other"
NotFound(r) == answers[r] = "not_found"
Responded(r) == answers[r] \in {"found", "other"}
Found(r) == answers[r] = "found"

\* explicitAiCrawlerAgents: a group is the run of user-agent lines before a rule
RuleLine(state, line) ==
  CASE line.key = "agent" -> [state EXCEPT !.group = (IF state.directive THEN {} ELSE @) \cup {line.value},
                                           !.directive = FALSE]
    [] line.key = "rule" -> [state EXCEPT !.directive = TRUE,
                                          !.named = @ \cup (state.group \cap KnownAgents)]
    [] OTHER -> state
ReadingAgents(lines) ==
  LET State[i \in 0..Len(lines)] ==
        IF i = 0 THEN [group |-> {}, directive |-> FALSE, named |-> {}]
        ELSE RuleLine(State[i - 1], lines[i])
  IN  State
ExplicitAgents(lines) == ReadingAgents(lines)[Len(lines)].named
DeclaresSitemap(lines) == \E i \in DOMAIN lines : lines[i].key = "sitemap"

Lines == IF Found("robots") THEN target.robots ELSE <<>>

CrawlerPolicy ==
  IF NotFound("robots") THEN "needs_attention"
  ELSE IF Lines = <<>> THEN "unavailable"
  ELSE IF ExplicitAgents(Lines) # {} THEN "ready" ELSE "needs_attention"

Sitemap ==
  IF DeclaresSitemap(Lines) \/ Found("sitemap") \/ Found("sitemapIndex") THEN "ready"
  ELSE IF (NotFound("sitemap") /\ NotFound("sitemapIndex"))
          \/ Responded("sitemap") \/ Responded("sitemapIndex") THEN "needs_attention"
  ELSE "unavailable"

LlmsGuide ==
  IF NotFound("llms") THEN "needs_attention" ELSE IF Found("llms") THEN "ready" ELSE "unavailable"

HomeRead == home = "answered" /\ target.home.reply # "none"
ReadableContent ==
  IF ~HomeRead THEN "unavailable"
  ELSE IF target.home.reply = "html" /\ ~target.home.noindex /\ target.home.h1 > 0
          /\ target.home.characters >= 240 THEN "ready"
  ELSE "needs_attention"
StructuredData ==
  IF ~HomeRead \/ target.home.reply # "html" THEN "unavailable"
  ELSE IF target.home.jsonLd = "valid" THEN "ready" ELSE "needs_attention"

\* evaluateApiDescription, evaluateAuthDiscovery: two candidates
EitherFile(first, second) ==
  IF Found(first) \/ Found(second) THEN "ready"
  ELSE IF NotFound(first) /\ NotFound(second) THEN "needs_attention"
  ELSE IF Responded(first) \/ Responded(second) THEN "needs_attention"
  ELSE "unavailable"

AgentCard ==
  IF Found("agentCard") THEN "ready"
  ELSE IF NotFound("agentCard") \/ Responded("agentCard") THEN "needs_attention"
  ELSE "unavailable"

\* reportFromChecks; -1 stands for a null score
CheckWeight(set) ==
  Sum([i \in DOMAIN CheckOrder |-> IF CheckOrder[i] \in set THEN Weights[CheckOrder[i]] ELSE 0])
Scored(status) ==
  LET observed == CheckWeight({c \in Checks : status[c] # "unavailable"})
      ready == CheckWeight({c \in Checks : status[c] = "ready"}) IN
  [status |-> status,
   score |-> IF observed = 0 THEN -1 ELSE (200 * ready + observed) \div (2 * observed),
   coverage |-> (200 * observed + CheckWeight(Checks)) \div (2 * CheckWeight(Checks))]

Evaluated ==
  [crawlerPolicy |-> CrawlerPolicy, sitemap |-> Sitemap, llms |-> LlmsGuide,
   readableContent |-> ReadableContent, structuredData |-> StructuredData,
   apiDescription |-> EitherFile("openApi", "wellKnownOpenApi"),
   authDiscovery |-> EitherFile("oauth", "openId"), agentCard |-> AgentCard]

Report ==
  /\ home # "none" /\ requested = {} /\ report = <<>>
  /\ report' = Scored(IF home = "answered" /\ OutOfScope THEN [c \in Checks |-> "unavailable"]
                      ELSE Evaluated)
  /\ UNCHANGED <<target, home, cursor, requested, answers, failures>>

ReadinessNext == FetchHome \/ (\E r \in requested : FileAnswered(r)) \/ Report
ReadinessSpec == ReadinessInit /\ [][ReadinessNext]_readinessVars

----------------------------------------------------------------------------
\* What the site has, without looking at any answer
NamesAgent(agent) ==
  \E i, j \in DOMAIN target.robots :
    /\ i < j /\ target.robots[i] = [key |-> "agent", value |-> agent] /\ target.robots[j].key = "rule"
    /\ \A k \in i..j : target.robots[k].key = "agent" => \A l \in i..k : target.robots[l].key # "rule"
HasRobots == Served("robots") = "found"
Has(check) ==
  CASE check = "crawlerPolicy" -> HasRobots /\ \E agent \in KnownAgents : NamesAgent(agent)
    [] check = "sitemap" -> (HasRobots /\ \E i \in DOMAIN target.robots : target.robots[i].key = "sitemap")
                            \/ "found" \in {Served("sitemap"), Served("sitemapIndex")}
    [] check = "llms" -> Served("llms") = "found"
    [] check = "apiDescription" -> "found" \in {Served("openApi"), Served("wellKnownOpenApi")}
    [] check = "authDiscovery" -> "found" \in {Served("oauth"), Served("openId")}
    [] check = "agentCard" -> Served("agentCard") = "found"
    [] OTHER -> TRUE
OneFile == {"crawlerPolicy", "llms", "agentCard"}

\* The report says what the site has, in whatever order the nine answers came:
\* a check is ready only where the site has what it looks for; one that needs a
\* single file is held against the site only where the site really lacks it; a
\* request that failed or was refused is never held against it when nothing else
\* was answered; and the score is the share of what could be observed, none when
\* nothing could (tests/ai-readiness.test.ts).
ReadinessTruthful ==
  report # <<>> =>
    /\ \A c \in Checks : report.status[c] = "ready" => Has(c)
    /\ \A c \in OneFile : report.status[c] = "needs_attention" => ~Has(c)
    /\ failures = 0 /\ ~OutOfScope => \A c \in Checks : report.status[c] = "needs_attention" =>
         c \in {"readableContent", "structuredData"} \/ ~Has(c)
    /\ (\A r \in DOMAIN answers : answers[r] \in {NoAnswer, "refused"}) =>
         \A c \in Checks \ {"readableContent", "structuredData"} : report.status[c] = "unavailable"
    /\ report.score = -1 <=> \A c \in Checks : report.status[c] = "unavailable"
    /\ report.score = 100 => "needs_attention" \notin {report.status[c] : c \in Checks}
=============================================================================
