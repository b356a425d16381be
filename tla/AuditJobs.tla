----------------------------- MODULE AuditJobs -----------------------------
(***************************************************************************)
(* Durable audit jobs: admission of a crawl job, the leases under which    *)
(* serverless worker invocations process it, publication of its result,    *)
(* retries, and deletion of the website or the account it belongs to       *)
(* (lib/jobs/crawl-admission.ts, lib/services/audit.service.ts,            *)
(* lib/websites/service.ts, lib/auth/user.ts).                             *)
(*                                                                         *)
(* Every action is one operation on MongoDB: one document update, or one   *)
(* multi-document transaction, which MongoDB isolates by aborting and      *)
(* retrying on a write conflict.  A worker's local position between two    *)
(* operations is pc.  Time is abstract: a deadline is a Boolean that an    *)
(* action of its own lets pass at any moment.                              *)
(***************************************************************************)
EXTENDS Naturals, FiniteSets

CONSTANTS
  Jobs,           \* job ids, numbered in the order of createdAt
  Workers,        \* worker invocations; each one stands for its leaseId
  Sites,          \* saved websites
  Actors,         \* admission actors: signed-in users and hashed addresses
  Accounts,       \* the actors that are signed-in users
  Targets,        \* registrable domains
  Requests,       \* the audit requests that may arrive
  Nobody,         \* no lease
  NoJob,          \* no claim, or an idle worker
  NoSite,         \* a request that names no saved website
  MaxAttempts,    \* MAX_ATTEMPTS
  QueueCap,       \* queueCap
  ClaimTtl,       \* is the TTL index of crawlAdmission provisioned?
  MaxFaults       \* bound: crashes and failed operations in a behaviour

Request == [actor: Actors, target: Targets, site: Sites \cup {NoSite},
            archive: BOOLEAN]
NoRequest == [site |-> NoSite, archive |-> FALSE]

ASSUME ConstantsAssumption ==
  /\ Jobs \subseteq Nat /\ IsFiniteSet(Jobs) /\ NoJob \notin Jobs
  /\ IsFiniteSet(Workers) /\ Nobody \notin Workers
  /\ NoSite \notin Sites
  /\ Accounts \subseteq Actors
  /\ Requests \subseteq Request
  /\ \A r \in Requests : r.site # NoSite => r.actor \in Accounts
  /\ MaxAttempts \in Nat \ {0}
  /\ QueueCap \in Nat
  /\ ClaimTtl \in BOOLEAN
  /\ MaxFaults \in Nat

VARIABLES
  \* collection crawlJobs
  req,         \* what the job was created with
  status,      \* "none" before creation, "authorised" while the request runs
  attempts,
  lease,       \* leaseId
  leaseLive,   \* leaseExpiresAt > now
  delayed,     \* nextAttemptAt > now
  \* collection crawlAdmission
  claim,       \* the active claim of an actor and a target
  activeCount, \* the queue document
  \* collections websites, users and scans
  sites, siteLease, siteLive, users,
  published,   \* jobs whose scan, pages and issues are stored as completed
  \* worker invocations
  pc, at,
  \* bookkeeping that no code reads
  crawls,      \* how often the job's target was crawled
  overtaken,   \* invocations whose site got another result since they leased it
  faults

jobVars   == <<req, status, attempts, lease, leaseLive, delayed>>
claimVars == <<claim, activeCount>>
siteVars  == <<sites, siteLease, siteLive, users>>
workVars  == <<pc, at>>
histVars  == <<crawls, overtaken, faults>>
vars == <<jobVars, claimVars, siteVars, published, workVars, histVars>>

Running  == {"crawling", "analysing"}
Active   == {"queued"} \cup Running
Terminal == {"completed", "failed"}
Stored   == Active \cup Terminal
Status   == Stored \cup {"none", "authorised", "deleted"}

\* The operations of an invocation before its crawl, by the name of the next one.
PreCrawl  == {"siteLease", "siteCheck", "siteBusy", "siteGone", "ready", "deferring"}
Failing   == {"failRetry", "failFinal"}
Releasing == {"releaseClaim", "releaseSlot"}
PC == {"idle", "selected", "crawling", "persist", "unwind"}
        \cup PreCrawl \cup Failing \cup Releasing
\* startLeaseHeartbeat runs from the claim to the finally block.
Beating == {"ready", "deferring", "crawling", "persist"} \cup Failing \cup Releasing

OpenJobs     == {j \in Jobs : status[j] \in Active}
ReleasingNow == {w \in Workers : pc[w] \in Releasing}
SiteOf(j)    == req[j].site

JobsTypeOK ==
  /\ req \in [Jobs -> Request \cup {NoRequest}]
  /\ status \in [Jobs -> Status]
  /\ attempts \in [Jobs -> 0..MaxAttempts]
  /\ lease \in [Jobs -> Workers \cup {Nobody}]
  /\ leaseLive \in [Jobs -> BOOLEAN]
  /\ delayed \in [Jobs -> BOOLEAN]
  /\ \A j \in Jobs : status[j] # "none" => req[j] \in Request

AdmissionTypeOK ==
  /\ claim \in [Actors \X Targets -> Jobs \cup {NoJob}]
  /\ activeCount \in Nat

SitesTypeOK ==
  /\ sites \subseteq Sites
  /\ siteLease \in [Sites -> Workers \cup {Nobody}]
  /\ siteLive \in [Sites -> BOOLEAN]
  /\ users \subseteq Accounts
  /\ published \subseteq Jobs

WorkersTypeOK ==
  /\ pc \in [Workers -> PC]
  /\ at \in [Workers -> Jobs \cup {NoJob}]
  /\ \A w \in Workers : pc[w] # "idle" => at[w] \in Jobs

HistoryTypeOK ==
  /\ crawls \in [Jobs -> Nat]
  /\ overtaken \subseteq Workers
  /\ faults \in 0..MaxFaults

TypeOK ==
  JobsTypeOK /\ AdmissionTypeOK /\ SitesTypeOK /\ WorkersTypeOK /\ HistoryTypeOK

Init ==
  /\ req = [j \in Jobs |-> NoRequest]
  /\ status = [j \in Jobs |-> "none"]
  /\ attempts = [j \in Jobs |-> 0]
  /\ lease = [j \in Jobs |-> Nobody]
  /\ leaseLive = [j \in Jobs |-> FALSE]
  /\ delayed = [j \in Jobs |-> FALSE]
  /\ claim = [k \in Actors \X Targets |-> NoJob]
  /\ activeCount = 0
  /\ sites = Sites
  /\ siteLease = [s \in Sites |-> Nobody]
  /\ siteLive = [s \in Sites |-> FALSE]
  /\ users = Accounts
  /\ published = {}
  /\ pc = [w \in Workers |-> "idle"]
  /\ at = [w \in Workers |-> NoJob]
  /\ crawls = [j \in Jobs |-> 0]
  /\ overtaken = {}
  /\ faults = 0

(***************************************************************************)
(* Creating a job.  The session and the ownership of the website are read  *)
(* before the admission transaction, and not again inside it.              *)
(***************************************************************************)
Authorise(j, r) ==
  /\ status[j] = "none"
  /\ r.actor \in Accounts => r.actor \in users
  /\ r.site # NoSite => r.site \in sites
  /\ req' = [req EXCEPT ![j] = r]
  /\ status' = [status EXCEPT ![j] = "authorised"]
  /\ UNCHANGED <<attempts, lease, leaseLive, delayed, claimVars, siteVars,
                 published, workVars, histVars>>

KeyOf(j) == <<req[j].actor, req[j].target>>

\* A new invocation draws a random lease id: no document carries it yet.
Fresh(w) ==
  /\ pc[w] = "idle"
  /\ \A j \in Jobs : lease[j] # w
  /\ \A s \in Sites : siteLease[s] # w

Select(w, j) ==
  /\ pc' = [pc EXCEPT ![w] = "selected"]
  /\ at' = [at EXCEPT ![w] = j]

\* A claim counts only while the job it names is stored and not terminal.
ClaimHeld(k) == claim[k] \in OpenJobs

\* The admission transaction.  The actor's hourly quota and the target's
\* cooldown are left out: they refuse whenever they like.
\* Once the job is stored, an invocation may be started for it by name; there
\* is none when the execution slots are full or the creating instance is gone.
Admit(j) ==
  /\ status[j] = "authorised"
  /\ ~ClaimHeld(KeyOf(j))
  /\ activeCount < QueueCap
  /\ claim' = [claim EXCEPT ![KeyOf(j)] = j]
  /\ activeCount' = activeCount + 1
  /\ status' = [status EXCEPT ![j] = "queued"]
  /\ \/ \E w \in Workers : Fresh(w) /\ Select(w, j)
     \/ UNCHANGED workVars
  /\ UNCHANGED <<req, attempts, lease, leaseLive, delayed, siteVars, published,
                 histVars>>

\* The transaction rolls back; the caller gets an error or the job that holds
\* the claim, and the fresh job id is never stored.
Refuse(j) ==
  /\ status[j] = "authorised"
  /\ status' = [status EXCEPT ![j] = "none"]
  /\ req' = [req EXCEPT ![j] = NoRequest]
  /\ UNCHANGED <<attempts, lease, leaseLive, delayed, claimVars, siteVars,
                 published, workVars, histVars>>

(***************************************************************************)
(* Choosing and claiming a job                                             *)
(***************************************************************************)
\* Mutants: one attempt too many; an expired lease never taken over; a live
\* lease taken over.
ClaimableOnceMore(j) ==
  /\ attempts[j] <= MaxAttempts
  /\ \/ status[j] = "queued" /\ ~delayed[j]
     \/ status[j] \in Running /\ ~leaseLive[j]
ClaimableIfQueued(j) ==
  attempts[j] < MaxAttempts /\ status[j] = "queued" /\ ~delayed[j]
ClaimableWhileLeased(j) ==
  /\ attempts[j] < MaxAttempts
  /\ status[j] \in Running \/ (status[j] = "queued" /\ ~delayed[j])

\* retryableClaimFilter
Claimable(j) ==
  /\ attempts[j] < MaxAttempts
  /\ \/ status[j] = "queued" /\ ~delayed[j]
     \/ status[j] \in Running /\ ~leaseLive[j]

\* The scheduler's pass looks for the oldest due job and claims it afterwards.
FindNext(w) ==
  /\ Fresh(w)
  /\ \E j \in Jobs :
       /\ Claimable(j)
       /\ \A i \in Jobs : Claimable(i) => j <= i
       /\ Select(w, j)
  /\ UNCHANGED <<jobVars, claimVars, siteVars, published, histVars>>

Idle(w) ==
  /\ pc' = [pc EXCEPT ![w] = "idle"]
  /\ at' = [at EXCEPT ![w] = NoJob]
  /\ overtaken' = overtaken \ {w}

Goto(w, label) ==
  /\ pc' = [pc EXCEPT ![w] = label]
  /\ UNCHANGED <<at, overtaken>>

Claim(w) ==
  LET j == at[w] IN
  /\ pc[w] = "selected"
  /\ Claimable(j)
  /\ status' = [status EXCEPT ![j] = "crawling"]
  /\ attempts' = [attempts EXCEPT ![j] = @ + 1]
  /\ lease' = [lease EXCEPT ![j] = w]
  /\ leaseLive' = [leaseLive EXCEPT ![j] = TRUE]
  /\ delayed' = [delayed EXCEPT ![j] = FALSE]
  /\ Goto(w, IF SiteOf(j) = NoSite THEN "ready" ELSE "siteLease")
  /\ UNCHANGED <<req, claimVars, siteVars, published, crawls, faults>>

ClaimMissed(w) ==
  /\ pc[w] = "selected"
  /\ ~Claimable(at[w])
  /\ Idle(w)
  /\ UNCHANGED <<jobVars, claimVars, siteVars, published, crawls, faults>>

(***************************************************************************)
(* The lease of the saved website, which serializes the audits of one site *)
(***************************************************************************)
SiteFree(s, w) == siteLease[s] \in {Nobody, w} \/ ~siteLive[s]

TakeSiteLease(w) ==
  LET s == SiteOf(at[w]) IN
  /\ pc[w] = "siteLease"
  /\ s \in sites /\ SiteFree(s, w)
  /\ siteLease' = [siteLease EXCEPT ![s] = w]
  /\ siteLive' = [siteLive EXCEPT ![s] = TRUE]
  /\ Goto(w, "ready")
  /\ UNCHANGED <<jobVars, claimVars, sites, users, published,
                 crawls, faults>>

MissSiteLease(w) ==
  LET s == SiteOf(at[w]) IN
  /\ pc[w] = "siteLease"
  /\ ~(s \in sites /\ SiteFree(s, w))
  /\ Goto(w, "siteCheck")
  /\ UNCHANGED <<jobVars, claimVars, siteVars, published, crawls, faults>>

\* Is the website leased by another audit, or gone?
CheckSite(w) ==
  /\ pc[w] = "siteCheck"
  /\ Goto(w, IF SiteOf(at[w]) \in sites THEN "siteBusy" ELSE "siteGone")
  /\ UNCHANGED <<jobVars, claimVars, siteVars, published, crawls, faults>>

\* The shape of every write of a worker to its job: fenced by the lease id.
Holds(w, j) == lease[j] = w

DropLease(j) ==
  /\ lease' = [lease EXCEPT ![j] = Nobody]
  /\ leaseLive' = [leaseLive EXCEPT ![j] = FALSE]

\* Mutant: the attempt is not refunded.
RequeueUncredited(w, j) ==
  IF Holds(w, j)
  THEN /\ status' = [status EXCEPT ![j] = "queued"]
       /\ delayed' = [delayed EXCEPT ![j] = TRUE]
       /\ DropLease(j)
       /\ UNCHANGED attempts
  ELSE UNCHANGED <<status, delayed, attempts, lease, leaseLive>>

\* Back to the queue, after a delay and without consuming an attempt.
Requeue(w, j) ==
  IF Holds(w, j)
  THEN /\ status' = [status EXCEPT ![j] = "queued"]
       /\ delayed' = [delayed EXCEPT ![j] = TRUE]
       /\ attempts' = [attempts EXCEPT ![j] = @ - 1]
       /\ DropLease(j)
  ELSE UNCHANGED <<status, delayed, attempts, lease, leaseLive>>

RequeueSiteBusy(w) ==
  /\ pc[w] = "siteBusy"
  /\ Requeue(w, at[w])
  /\ Idle(w)
  /\ UNCHANGED <<req, claimVars, siteVars, published, crawls, faults>>

\* The job fails for good; admission is not released on this path.
FailSiteGone(w) ==
  LET j == at[w] IN
  /\ pc[w] = "siteGone"
  /\ IF Holds(w, j)
     THEN status' = [status EXCEPT ![j] = "failed"] /\ DropLease(j)
     ELSE UNCHANGED <<status, lease, leaseLive>>
  /\ Idle(w)
  /\ UNCHANGED <<req, attempts, delayed, claimVars, siteVars, published,
                 crawls, faults>>

(***************************************************************************)
(* One attempt                                                             *)
(***************************************************************************)
\* The finally block gives the site lease back, when there is one to give.
AfterAttempt(j) == IF SiteOf(j) = NoSite THEN "idle" ELSE "unwind"

Leave(w) == IF SiteOf(at[w]) = NoSite THEN Idle(w) ELSE Goto(w, "unwind")

\* The target is fetched: at once, or after admission to the archive.
BeginCrawl(w) ==
  /\ pc[w] = "ready"
  /\ Goto(w, "crawling")
  /\ crawls' = [crawls EXCEPT ![at[w]] = @ + 1]
  /\ UNCHANGED <<jobVars, claimVars, siteVars, published, faults>>

\* Mutant: also an attempt that has already crawled is refunded.
ArchiveBusyAfterCrawl(w) ==
  /\ pc[w] \in {"ready", "crawling"}
  /\ req[at[w]].archive
  /\ Goto(w, "deferring")
  /\ UNCHANGED <<jobVars, claimVars, siteVars, published, crawls, faults>>

\* Both archive slots, or the requester's own lease, are taken.
ArchiveBusy(w) ==
  /\ pc[w] = "ready"
  /\ req[at[w]].archive
  /\ Goto(w, "deferring")
  /\ UNCHANGED <<jobVars, claimVars, siteVars, published, crawls, faults>>

Defer(w) ==
  /\ pc[w] = "deferring"
  /\ Requeue(w, at[w])
  /\ Leave(w)
  /\ UNCHANGED <<req, claimVars, siteVars, published, crawls, faults>>

\* An operation of the attempt throws.  Only a crawl, or the admission to the
\* archive, throws an error that must not be retried.
Throw(w, label) ==
  /\ \/ pc[w] \in {"ready", "crawling", "persist"} /\ label = "failRetry"
     \/ pc[w] = "crawling" /\ label = "failFinal"
     \/ pc[w] = "ready" /\ req[at[w]].archive /\ label = "failFinal"
  /\ Goto(w, label)
  /\ UNCHANGED <<jobVars, claimVars, siteVars, published, crawls, faults>>

LeaseHeld(w, j) == Holds(w, j) /\ leaseLive[j]

MarkAnalysing(w) ==
  LET j == at[w] IN
  /\ pc[w] = "crawling"
  /\ LeaseHeld(w, j)
  /\ status' = [status EXCEPT ![j] = "analysing"]
  /\ Goto(w, "persist")
  /\ UNCHANGED <<req, attempts, lease, leaseLive, delayed, claimVars,
                 siteVars, published, crawls, faults>>

\* Mutant: the website's lease is not checked again.
MayPublishUnderJobLease(w, j) == LeaseHeld(w, j)

\* ensureLease, and the conditions of the writes that end the transaction
MayPublish(w, j) ==
  /\ LeaseHeld(w, j)
  /\ SiteOf(j) # NoSite =>
       /\ SiteOf(j) \in sites
       /\ siteLease[SiteOf(j)] = w
       /\ siteLive[SiteOf(j)]

\* A lost lease ends the attempt and marks nothing.
LeaseLost(w) ==
  LET j == at[w] IN
  /\ \/ pc[w] = "crawling" /\ ~LeaseHeld(w, j)
     \/ pc[w] = "persist" /\ ~MayPublish(w, j)
  /\ Leave(w)
  /\ UNCHANGED <<jobVars, claimVars, siteVars, published, crawls, faults>>

\* Mutant: whichever claim is there is released.
ReleaseAnyClaimOf(j) == claim' = [claim EXCEPT ![KeyOf(j)] = NoJob]

ReleaseClaimOf(j) ==
  claim' = IF claim[KeyOf(j)] = j THEN [claim EXCEPT ![KeyOf(j)] = NoJob]
                                  ELSE claim

ReleaseSlotOf(j) ==
  activeCount' = IF activeCount > 0 THEN activeCount - 1 ELSE activeCount

\* Invocations past their site lease, on the site of job j, other than w.
Rivals(w, j) ==
  {v \in Workers \ {w} :
     /\ pc[v] \in Beating \cup {"unwind"}
     /\ SiteOf(j) # NoSite
     /\ SiteOf(at[v]) = SiteOf(j)}

\* persistResults: one transaction.  With the acknowledgement lost, the worker
\* goes on as after any other error, although the result is stored.
Publish(w) ==
  LET j == at[w] IN
  /\ pc[w] = "persist"
  /\ MayPublish(w, j)
  /\ status' = [status EXCEPT ![j] = "completed"]
  /\ DropLease(j)
  /\ delayed' = [delayed EXCEPT ![j] = FALSE]
  /\ published' = published \cup {j}
  /\ ReleaseClaimOf(j)
  /\ ReleaseSlotOf(j)
  /\ \/ /\ at' = IF SiteOf(j) = NoSite THEN [at EXCEPT ![w] = NoJob] ELSE at
        /\ pc' = [pc EXCEPT ![w] = AfterAttempt(j)]
        /\ faults' = faults
     \/ /\ faults < MaxFaults
        /\ pc' = [pc EXCEPT ![w] = "failRetry"]
        /\ faults' = faults + 1
        /\ UNCHANGED at
  /\ overtaken' = (overtaken \cup Rivals(w, j)) \ (IF pc'[w] = "idle" THEN {w} ELSE {})
  /\ UNCHANGED <<req, attempts, siteVars, crawls>>

(***************************************************************************)
(* markAttemptFailed: one fenced update; after a terminal one, the release *)
(* of the claim and of the queue slot, in two further operations.          *)
(***************************************************************************)
Retryable(w, j) == pc[w] = "failRetry" /\ attempts[j] < MaxAttempts

\* Mutant: the requeue is not fenced by the lease.
MarkRetryUnfenced(w) ==
  LET j == at[w] IN
  /\ pc[w] \in Failing /\ Retryable(w, j) /\ status[j] \in Stored
  /\ status' = [status EXCEPT ![j] = "queued"]
  /\ delayed' = [delayed EXCEPT ![j] = TRUE]
  /\ DropLease(j)
  /\ Leave(w)
  /\ UNCHANGED <<req, attempts, claimVars, siteVars, published, crawls, faults>>

MarkRetry(w) ==
  LET j == at[w] IN
  /\ pc[w] \in Failing /\ Retryable(w, j) /\ Holds(w, j)
  /\ status' = [status EXCEPT ![j] = "queued"]
  /\ delayed' = [delayed EXCEPT ![j] = TRUE]
  /\ DropLease(j)
  /\ Leave(w)
  /\ UNCHANGED <<req, attempts, claimVars, siteVars, published,
                 crawls, faults>>

\* Mutants: the failure is not fenced by the lease; nothing is released after it.
MarkFailedUnfenced(w) ==
  LET j == at[w] IN
  /\ pc[w] \in Failing /\ ~Retryable(w, j) /\ status[j] \in Stored
  /\ status' = [status EXCEPT ![j] = "failed"]
  /\ DropLease(j)
  /\ Goto(w, "releaseClaim")
  /\ UNCHANGED <<req, attempts, delayed, claimVars, siteVars, published,
                 crawls, faults>>
MarkFailedUnreleased(w) ==
  LET j == at[w] IN
  /\ pc[w] \in Failing /\ ~Retryable(w, j) /\ Holds(w, j)
  /\ status' = [status EXCEPT ![j] = "failed"]
  /\ DropLease(j)
  /\ Leave(w)
  /\ UNCHANGED <<req, attempts, delayed, claimVars, siteVars, published,
                 crawls, faults>>

MarkFailed(w) ==
  LET j == at[w] IN
  /\ pc[w] \in Failing /\ ~Retryable(w, j) /\ Holds(w, j)
  /\ status' = [status EXCEPT ![j] = "failed"]
  /\ DropLease(j)
  /\ Goto(w, "releaseClaim")
  /\ UNCHANGED <<req, attempts, delayed, claimVars, siteVars, published,
                 crawls, faults>>

MarkNothing(w) ==
  /\ pc[w] \in Failing /\ ~Holds(w, at[w])
  /\ Leave(w)
  /\ UNCHANGED <<jobVars, claimVars, siteVars, published, crawls, faults>>

ReleaseClaim(w) ==
  /\ pc[w] = "releaseClaim"
  /\ ReleaseClaimOf(at[w])
  /\ Goto(w, "releaseSlot")
  /\ UNCHANGED <<jobVars, activeCount, siteVars, published, crawls, faults>>

ReleaseSlot(w) ==
  /\ pc[w] = "releaseSlot"
  /\ ReleaseSlotOf(at[w])
  /\ Leave(w)
  /\ UNCHANGED <<jobVars, claim, siteVars, published, crawls, faults>>

ReleaseSite(w) ==
  LET s == SiteOf(at[w]) IN
  /\ pc[w] = "unwind"
  /\ IF siteLease[s] = w
     THEN /\ siteLease' = [siteLease EXCEPT ![s] = Nobody]
          /\ siteLive' = [siteLive EXCEPT ![s] = FALSE]
     ELSE UNCHANGED <<siteLease, siteLive>>
  /\ Idle(w)
  /\ UNCHANGED <<jobVars, claimVars, sites, users, published,
                 crawls, faults>>

(***************************************************************************)
(* Leases, delays and windows                                              *)
(***************************************************************************)
\* One beat renews the job's lease and then the site's; the second operation
\* may fail on its own.  Neither looks at whether the lease has expired.
Heartbeat(w) ==
  LET j == at[w]
      s == SiteOf(j)
      renewsJob  == Holds(w, j) /\ status[j] \in Running
      renewsSite == s # NoSite /\ s \in sites /\ siteLease[s] = w
  IN
  /\ pc[w] \in Beating
  /\ leaseLive' = IF renewsJob THEN [leaseLive EXCEPT ![j] = TRUE] ELSE leaseLive
  /\ \/ siteLive' = siteLive
     \/ renewsSite /\ siteLive' = [siteLive EXCEPT ![s] = TRUE]
  /\ UNCHANGED <<req, status, attempts, lease, delayed, claimVars, sites,
                 siteLease, users, published, workVars, histVars>>

LeaseExpires(j) ==
  /\ leaseLive[j]
  /\ leaseLive' = [leaseLive EXCEPT ![j] = FALSE]
  /\ UNCHANGED <<req, status, attempts, lease, delayed, claimVars, siteVars,
                 published, workVars, histVars>>

SiteLeaseExpires(s) ==
  /\ siteLive[s]
  /\ siteLive' = [siteLive EXCEPT ![s] = FALSE]
  /\ UNCHANGED <<jobVars, claimVars, sites, siteLease, users, published,
                 workVars, histVars>>

DelayElapses(j) ==
  /\ delayed[j]
  /\ delayed' = [delayed EXCEPT ![j] = FALSE]
  /\ UNCHANGED <<req, status, attempts, lease, leaseLive, claimVars,
                 siteVars, published, workVars, histVars>>

\* The TTL monitor removes a claim an hour after it was taken.
ClaimExpires(k) ==
  /\ ClaimTtl
  /\ claim[k] # NoJob
  /\ claim' = [claim EXCEPT ![k] = NoJob]
  /\ UNCHANGED <<jobVars, activeCount, siteVars, published,
                 workVars, histVars>>

(***************************************************************************)
(* Failures of an invocation                                               *)
(***************************************************************************)
\* The platform stops the invocation, or an operation outside the attempt's
\* try block throws: nothing more is written.
Crash(w) ==
  /\ pc[w] # "idle"
  /\ faults < MaxFaults
  /\ faults' = faults + 1
  /\ Idle(w)
  /\ UNCHANGED <<jobVars, claimVars, siteVars, published, crawls>>

\* An operation of the catch block throws: only the finally block still runs.
CatchFails(w) ==
  /\ pc[w] \in Failing \cup Releasing \cup {"deferring"}
  /\ faults < MaxFaults
  /\ faults' = faults + 1
  /\ Leave(w)
  /\ UNCHANGED <<jobVars, claimVars, siteVars, published, crawls>>

(***************************************************************************)
(* Deletion: one transaction each.  Jobs go with their site or their user; *)
(* the admission documents stay as they are.                               *)
(***************************************************************************)
\* Mutant: stored results outlive the jobs.
DeleteJobsOnly(gone) ==
  /\ status' = [j \in Jobs |-> IF j \in gone THEN "deleted" ELSE status[j]]
  /\ lease' = [j \in Jobs |-> IF j \in gone THEN Nobody ELSE lease[j]]
  /\ leaseLive' = [j \in Jobs |-> j \notin gone /\ leaseLive[j]]
  /\ delayed' = [j \in Jobs |-> j \notin gone /\ delayed[j]]
  /\ UNCHANGED <<req, attempts, published, claimVars, workVars, histVars>>

DeleteJobs(gone) ==
  /\ status' = [j \in Jobs |-> IF j \in gone THEN "deleted" ELSE status[j]]
  /\ lease' = [j \in Jobs |-> IF j \in gone THEN Nobody ELSE lease[j]]
  /\ leaseLive' = [j \in Jobs |-> j \notin gone /\ leaseLive[j]]
  /\ delayed' = [j \in Jobs |-> j \notin gone /\ delayed[j]]
  /\ published' = published \ gone
  /\ UNCHANGED <<req, attempts, claimVars, workVars, histVars>>

DeleteSites(gone) ==
  /\ sites' = sites \ gone
  /\ siteLease' = [s \in Sites |-> IF s \in gone THEN Nobody ELSE siteLease[s]]
  /\ siteLive' = [s \in Sites |-> s \notin gone /\ siteLive[s]]

DeleteWebsite(s) ==
  /\ s \in sites
  /\ DeleteSites({s})
  /\ DeleteJobs({j \in Jobs : status[j] \in Stored /\ SiteOf(j) = s})
  /\ UNCHANGED users

\* A site belongs to the account whose requests name it.
OwnedBy(u) == {r.site : r \in {q \in Requests : q.actor = u}} \ {NoSite}

DeleteUserAccount(u) ==
  /\ u \in users
  /\ users' = users \ {u}
  /\ DeleteSites(OwnedBy(u))
  /\ DeleteJobs({j \in Jobs : /\ status[j] \in Stored
                              /\ req[j].actor = u \/ SiteOf(j) \in OwnedBy(u)})

(***************************************************************************)
(* The specification                                                       *)
(***************************************************************************)
Attempt(w) ==
  \/ TakeSiteLease(w) \/ MissSiteLease(w) \/ CheckSite(w)
  \/ RequeueSiteBusy(w) \/ FailSiteGone(w)
  \/ BeginCrawl(w) \/ ArchiveBusy(w) \/ Defer(w)
  \/ \E label \in Failing : Throw(w, label)
  \/ MarkAnalysing(w) \/ LeaseLost(w) \/ Publish(w)
  \/ MarkRetry(w) \/ MarkFailed(w) \/ MarkNothing(w)
  \/ ReleaseClaim(w) \/ ReleaseSlot(w) \/ ReleaseSite(w)

Worker(w) ==
  \/ FindNext(w)
  \/ Claim(w) \/ ClaimMissed(w)
  \/ Attempt(w)
  \/ Heartbeat(w)
  \/ Crash(w) \/ CatchFails(w)

Requesting(j) == (\E r \in Requests : Authorise(j, r)) \/ Admit(j) \/ Refuse(j)

Time ==
  \/ \E j \in Jobs : LeaseExpires(j) \/ DelayElapses(j)
  \/ \E s \in Sites : SiteLeaseExpires(s)
  \/ \E k \in Actors \X Targets : ClaimExpires(k)

Deletion ==
  \/ \E s \in Sites : DeleteWebsite(s)
  \/ \E u \in Accounts : DeleteUserAccount(u)

Next ==
  \/ \E w \in Workers : Worker(w)
  \/ \E j \in Jobs : Requesting(j)
  \/ Time
  \/ Deletion

Spec == Init /\ [][Next]_vars

(***************************************************************************)
(* Fairness: the scheduler calls the worker every minute, an invocation    *)
(* that has not crashed goes on, deadlines pass, and a lease that no       *)
(* invocation renews runs out.  Requests, dispatches, lost heartbeats,     *)
(* crashes and deletions may or may not happen.                            *)
(***************************************************************************)
Abandoned(j) == \A w \in Workers : lease[j] = w => pc[w] \notin Beating \/ at[w] # j

SiteAbandoned(s) == \A w \in Workers : siteLease[s] = w => pc[w] \notin Beating

Fairness ==
  /\ WF_vars(\E w \in Workers : FindNext(w))
  /\ \A w \in Workers : WF_vars(Claim(w) \/ ClaimMissed(w) \/ Attempt(w))
  /\ \A j \in Jobs : WF_vars(DelayElapses(j))
  /\ \A j \in Jobs : WF_vars(Abandoned(j) /\ LeaseExpires(j))
  /\ \A s \in Sites : WF_vars(SiteAbandoned(s) /\ SiteLeaseExpires(s))

FairSpec == Spec /\ Fairness

-----------------------------------------------------------------------------
(***************************************************************************)
(* Safety                                                                  *)
(***************************************************************************)
\* Every job that is queued or running, and every invocation that has failed
\* its job but not yet given its slot back, is paid for in the queue document.
\* So releaseCrawlAdmission never frees capacity that is still in use, whatever
\* the order of late workers, retries, deletions and crashes.
CapacityCovered ==
  Cardinality(OpenJobs) + Cardinality(ReleasingNow) <= activeCount

\* "The active claim is the atomic actor+target dedupe boundary": no actor has
\* two open audits of a target, although a claim is released in an operation
\* of its own, after its job has failed and another may have taken the claim.
OneOpenPerClaim ==
  \A i, j \in OpenJobs : KeyOf(i) = KeyOf(j) => i = j

\* Invocations that hold an attempt of j and have not begun its crawl.
Starting(j) == {w \in Workers : at[w] = j /\ pc[w] \in PreCrawl}

\* A target is crawled at most MAX_ATTEMPTS times for one job, by whichever
\* invocations, stale ones included: an attempt is refunded at most once, and
\* only when it has not crawled.
CrawlsWithinAttempts ==
  \A j \in Jobs : /\ crawls[j] + Cardinality(Starting(j)) <= attempts[j]
                  /\ attempts[j] <= MaxAttempts

\* The invocation whose id is on a website's lease has seen every result that
\* was published for the site since it took the lease, so the issue history is
\* never rewritten from a crawl that is older than the last published one.
HolderNotOvertaken ==
  \A s \in Sites : siteLease[s] \notin overtaken

\* Nothing stays readable of a deleted website, although a worker may still be
\* crawling it and a request for it may be past its ownership check.
NoOrphanResult ==
  \A j \in published : SiteOf(j) # NoSite => SiteOf(j) \in sites

\* A stored result belongs to a completed job, and a completed job has one: an
\* unacknowledged commit is never followed by a retry that hides the result.
PublishedWhenCompleted ==
  \A j \in Jobs : j \in published <=> status[j] = "completed"

\* Once completed or failed, a job stays so until it is deleted: no stale
\* invocation requeues it, and no claim reopens it.
TerminalIsFinal ==
  [][\A j \in Jobs : status[j] \in Terminal => status'[j] \in {status[j], "deleted"}]_vars

\* The running invocation is only replaced once its lease has run out: "the
\* durable lease prevents the same job from being claimed twice".
NoLiveTakeover ==
  [][\A j \in Jobs : leaseLive[j] /\ lease'[j] # lease[j] => lease'[j] = Nobody]_vars

-----------------------------------------------------------------------------
(***************************************************************************)
(* What makes the properties above inductive                               *)
(***************************************************************************)
\* A lease is recorded exactly while an attempt runs, and was counted.
LeasedRuns ==
  \A j \in Jobs : lease[j] # Nobody => status[j] \in Running /\ attempts[j] > 0

\* An invocation works on a job that was admitted, and releases one that failed.
WorkersPlaced ==
  \A w \in Workers :
    /\ pc[w] # "idle" => status[at[w]] \notin {"none", "authorised"}
    /\ pc[w] \in Releasing => status[at[w]] \in {"failed", "deleted"}

LeaseInv == TypeOK /\ LeasedRuns /\ WorkersPlaced

\* A lease that has not run out is somebody's.
LiveIsLeased == \A j \in Jobs : leaseLive[j] => lease[j] # Nobody

\* While no TTL removes it, the claim of an open job's key is its own.
ClaimsOwned == ~ClaimTtl => \A j \in OpenJobs : claim[KeyOf(j)] = j

\* An invocation leases the site of its own job only, and is overtaken only
\* after it has passed that lease.
SiteLeasesPlaced ==
  /\ \A s \in Sites, w \in Workers :
       siteLease[s] = w /\ pc[w] # "idle" => SiteOf(at[w]) = s
  /\ \A w \in overtaken : pc[w] \in Beating \cup {"unwind"}

-----------------------------------------------------------------------------
(***************************************************************************)
(* Refinement: leases, retries, releases and crashes are steps of their    *)
(* own here and stutter in AuditQueue.                                     *)
(***************************************************************************)
PhaseOf(j) ==
  CASE status[j] \in Active                   -> "open"
    [] status[j] \in {"none", "authorised"}   -> "none"
    [] OTHER                                  -> status[j]

Queue == INSTANCE AuditQueue WITH
  Keys  <- Actors \X Targets,
  NoKey <- NoJob,
  Cap   <- QueueCap,
  phase <- [j \in Jobs |-> PhaseOf(j)],
  key   <- [j \in Jobs |-> IF PhaseOf(j) = "none" THEN NoJob ELSE KeyOf(j)]

\* The durable queue implements the promise of AuditQueue.
ImplementsQueue == Queue!Spec
-----------------------------------------------------------------------------
(***************************************************************************)
(* Progress, under Fairness                                                *)
(***************************************************************************)
Settled(j) == status[j] \in Terminal \cup {"deleted"}

\* A job whose last attempt ended without a mark: retryableClaimFilter asks for
\* attempts < MAX_ATTEMPTS also when the lease has run out.
Stranded(j) == status[j] \in Running /\ attempts[j] = MaxAttempts

\* Every job that is admitted ends, or loses its lease on its last attempt; it
\* is never passed over, requeued or taken over for ever.
SettledOrStranded ==
  \A j \in Jobs : \/ <>[](status[j] \in {"none", "authorised"} \/ Settled(j))
                  \/ <>[]Stranded(j)

\* "... and finally a terminal result."
EveryJobSettles == \A j \in Jobs : status[j] = "queued" ~> Settled(j)

\* "The audit queue is temporarily full": when the open jobs are gone for good,
\* so are the slots they were admitted with.
SlotsDrain == <>[](OpenJobs = {}) => <>[](activeCount = 0)
=============================================================================
