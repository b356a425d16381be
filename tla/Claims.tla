------------------------------- MODULE Claims -------------------------------
(***************************************************************************)
(* What the product claims of a site: the issues and the score of an       *)
(* audit, and the report on its readiness for AI crawlers.  The two are    *)
(* independent evaluations of what was fetched.                            *)
(***************************************************************************)
EXTENDS SiteScore, AiReadiness

ClaimsSpec == ScoreSpec /\ ReadinessSpec
-----------------------------------------------------------------------------
\* What a score or a readiness report claims of a site, its crawl has seen (seo/engine.ts,
\* ai-readiness/service.ts).
ClaimsHold == ScoreHonest /\ ReadinessTruthful
=============================================================================
