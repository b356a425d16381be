---------------------------- MODULE MCAuditJobs ----------------------------
(***************************************************************************)
(* Instances of AuditJobs for TLC.                                         *)
(***************************************************************************)
EXTENDS AuditJobs, TLC

CONSTANTS w1, w2, w3, alice, guest, shop, blog, site

\* Symmetric: nothing orders invocations.
WorkerSymmetry == Permutations(Workers)

R(a, t, s, x) == [actor |-> a, target |-> t, site |-> s, archive |-> x]

\* Audits of one saved website, all of one claim.
SiteRequests == {R(alice, shop, site, FALSE)}

\* Anonymous audits of two targets, one of them read from the archive.
GuestRequests == {R(guest, shop, NoSite, FALSE), R(guest, blog, NoSite, TRUE)}

\* Anonymous audits of one target, hence of one claim.
ShopRequests == {R(guest, shop, NoSite, FALSE)}
=============================================================================
