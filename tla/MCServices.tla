----------------------------- MODULE MCServices -----------------------------
(***************************************************************************)
(* The services around the audit queue, for TLC: the leases of archive     *)
(* retrievals, the admission transaction, the immediate slots, the shared  *)
(* backlink cache, the legacy scans and the issue history; and what an     *)
(* audit reads with: the crawler, its page fetches and the archive reader. *)
(* They share no documents, so a behaviour is one of a single service,     *)
(* chosen at the start, and the others stay as they began.                 *)
(***************************************************************************)
EXTENDS SmallInputs, CommonCrawlAdmission, CrawlAdmission, ImmediateSlots, SharedBacklinks, Scans,
        IssueLifecycle, PageFetch, ArchiveRead, SiteCrawl, TLC

CONSTANTS p1, p2, p3, ann, guest, shop, i1, i2, w1, w2, None

VARIABLE service

servicesVars == <<service, leasesVars, vars, slotVars, backVars, scanVars, lifeVars, fetchVars,
                  archiveVars, crawlVars>>

Procs == {p1, p2, p3}
Symmetry == Permutations(Procs)

\* Both actors ask for one target.
ServiceAsks == {[actor |-> ann, target |-> shop], [actor |-> guest, target |-> shop]}

ASSUME
  /\ ConstantsOK /\ SlotsOK /\ BacklinksOK /\ ScansOK /\ LifecycleOK
  /\ FetchOK /\ ArchiveOK /\ CrawlOK

Services ==
  {"leases", "admission", "immediate", "backlinks", "scans", "issues", "fetch", "archive",
   "crawl"}
Rests(name) == service # name

ServicesInit ==
  /\ service \in Services
  /\ LeasesInit /\ Init /\ SlotsInit /\ ScansInit /\ LifecycleInit
  /\ Rests("backlinks") => host = [r \in Procs |-> i1]
  /\ BacklinksInit
  /\ Rests("fetch") => url = Https("shop")
  /\ FetchInit
  /\ Rests("archive") => target = (CHOOSE t \in ArchiveTargets : t.exact)
                         /\ listing = (CHOOSE l \in Listings : Len(l) = 1)
  /\ ArchiveInit
  /\ Rests("crawl") => input = CHOOSE i \in Inputs : TRUE
  /\ CrawlInit

ServicesNext ==
  /\ UNCHANGED service
  /\ IF service = "leases" THEN LeasesNext ELSE UNCHANGED leasesVars
  /\ IF service = "admission" THEN Next ELSE UNCHANGED vars
  /\ IF service = "immediate" THEN SlotsNext ELSE UNCHANGED slotVars
  /\ IF service = "backlinks" THEN BacklinksNext ELSE UNCHANGED backVars
  /\ IF service = "scans" THEN ScansNext ELSE UNCHANGED scanVars
  /\ IF service = "issues" THEN LifecycleNext ELSE UNCHANGED lifeVars
  /\ IF service = "fetch" THEN FetchNext ELSE UNCHANGED fetchVars
  /\ IF service = "archive" THEN ArchiveNext ELSE UNCHANGED archiveVars
  /\ IF service = "crawl" THEN CrawlNext ELSE UNCHANGED crawlVars

ServicesSpec == ServicesInit /\ [][ServicesNext]_servicesVars
=============================================================================
