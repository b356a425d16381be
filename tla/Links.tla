-------------------------------- MODULE Links --------------------------------
(***************************************************************************)
(* How link data is served: page by page, in reports of several answers,   *)
(* and as a sample of observations.  The three share the serving worker's  *)
(* limits and no state.                                                    *)
(***************************************************************************)
EXTENDS LinkReads, LinkReports, BacklinkSample

LinksOK == ReadsOK /\ ReportsOK /\ SampleOK

LinksSpec == ReadsSpec /\ LinkReportsSpec /\ SampleSpec
-----------------------------------------------------------------------------
\* Link data reaches its reader whole: pages in order up to rows that tie, reports of complete
\* answers, and a sample that says what it is of (link-intelligence.service.ts,
\* backlinks/service.ts).
LinksServed == PagesInOrder /\ ReportsWhole /\ SampleHonest
=============================================================================
