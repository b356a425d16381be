-------------------------------- MODULE Scans --------------------------------
(***************************************************************************)
(* Legacy scans (lib/scans/service.ts): a queue in the collection scans    *)
(* whose workers hold a lease of fifteen minutes, renew it, give an        *)
(* attempt back when the archive is busy, retry what failed, and publish   *)
(* pages, issues and the completed state in one transaction behind the     *)
(* lease.  The protocol is that of AuditJobs without admission and website *)
(* lease, and implements the same abstract queue, with no limit and every  *)
(* scan its own key.  A deadline is a Boolean that may pass at any moment. *)
(***************************************************************************)
EXTENDS Naturals, FiniteSets

CONSTANTS
  ScanIds,        \* scans, numbered in the order of createdAt
  ScanWorkers,    \* invocations; each one stands for its leaseId
  ArchiveScans,   \* the scans whose provider is the archive
  MaxScanAttempts,
  MaxScanFaults,  \* bound: crashes and lost acknowledgements
  NoWorker, NoScan

ScansOK ==
  /\ ScanIds \subseteq Nat \ {0} /\ IsFiniteSet(ScanIds) /\ NoScan \notin ScanIds
  /\ IsFiniteSet(ScanWorkers) /\ NoWorker \notin ScanWorkers
  /\ ArchiveScans \subseteq ScanIds
  /\ MaxScanAttempts \in Nat \ {0} /\ MaxScanFaults \in Nat

VARIABLES
  scan,       \* the documents: status, attempts, leaseId, and whether deadlines run
  children,   \* per scan: the attempts whose pages and issues are stored
  workPc, workAt, workTry,  \* an invocation: position, scan, attempts when it claimed
  crawlCount, scanFaults

scanVars == <<scan, children, workPc, workAt, workTry, crawlCount, scanFaults>>

ScanRunning == {"crawling", "analysing"}
NewScan == [status |-> "none", attempts |-> 0, lease |-> NoWorker, live |-> FALSE, delayed |-> FALSE]
Created == [NewScan EXCEPT !.status = "queued"]

ScansTypeOK ==
  /\ scan \in [ScanIds -> [status: {"none", "queued", "completed", "failed"} \cup ScanRunning,
                           attempts: 0..MaxScanAttempts, lease: ScanWorkers \cup {NoWorker},
                           live: BOOLEAN, delayed: BOOLEAN]]
  /\ children \in [ScanIds -> SUBSET (1..MaxScanAttempts)]
  /\ workPc \in [ScanWorkers -> {"idle", "chosen", "claimed", "crawled", "persist", "failing", "deferring"}]
  /\ workAt \in [ScanWorkers -> ScanIds \cup {NoScan}]
  /\ workTry \in [ScanWorkers -> 0..MaxScanAttempts]

ScansInit ==
  /\ scan = [s \in ScanIds |-> NewScan]
  /\ children = [s \in ScanIds |-> {}]
  /\ workPc = [w \in ScanWorkers |-> "idle"]
  /\ workAt = [w \in ScanWorkers |-> NoScan]
  /\ workTry = [w \in ScanWorkers |-> 0]
  /\ crawlCount = [s \in ScanIds |-> 0]
  /\ scanFaults = 0

\* createScan stores the document; requests are validated before and get "none" else.
CreateScan(s) ==
  /\ scan[s] = NewScan
  /\ \A t \in ScanIds : t < s => scan[t].status # "none"
  /\ scan' = [scan EXCEPT ![s] = Created]
  /\ UNCHANGED <<children, workPc, workAt, workTry, crawlCount, scanFaults>>

\* retryableClaimFilter.
ScanClaimable(s) ==
  /\ scan[s].attempts < MaxScanAttempts
  /\ \/ scan[s].status = "queued" /\ ~scan[s].delayed
     \/ scan[s].status \in ScanRunning /\ ~scan[s].live

\* runScanJob by id, or the oldest candidate of processNextQueuedScan.
Choose(w, s) ==
  /\ workPc[w] = "idle" /\ \A t \in ScanIds : scan[t].lease # w
  /\ scan[s].status # "none"
  /\ workPc' = [workPc EXCEPT ![w] = "chosen"]
  /\ workAt' = [workAt EXCEPT ![w] = s]
  /\ UNCHANGED <<scan, children, workTry, crawlCount, scanFaults>>

Quit(w) ==
  /\ workPc' = [workPc EXCEPT ![w] = "idle"]
  /\ workAt' = [workAt EXCEPT ![w] = NoScan]
  /\ workTry' = [workTry EXCEPT ![w] = 0]

\* claimScan, one findOneAndUpdate.
ClaimScan(w) ==
  LET s == workAt[w] IN
  /\ workPc[w] = "chosen"
  /\ \/ /\ ScanClaimable(s)
        /\ scan' = [scan EXCEPT ![s] = [status |-> "crawling", attempts |-> @.attempts + 1,
                                        lease |-> w, live |-> TRUE, delayed |-> FALSE]]
        /\ workPc' = [workPc EXCEPT ![w] = "claimed"]
        /\ workTry' = [workTry EXCEPT ![w] = scan[s].attempts + 1]
        /\ UNCHANGED workAt
     \/ ~ScanClaimable(s) /\ Quit(w) /\ UNCHANGED scan
  /\ UNCHANGED <<children, crawlCount, scanFaults>>

GoTo(w, pc) == workPc' = [workPc EXCEPT ![w] = pc] /\ UNCHANGED <<workAt, workTry>>

\* The target is validated, admitted to the archive if it is read from there, and
\* crawled.  Any of these may throw.
Crawl(w) ==
  LET s == workAt[w] IN
  /\ workPc[w] = "claimed"
  /\ \/ GoTo(w, "crawled") /\ crawlCount' = [crawlCount EXCEPT ![s] = @ + 1]
     \/ GoTo(w, "failing") /\ crawlCount' = [crawlCount EXCEPT ![s] = @ + 1]
     \/ s \in ArchiveScans /\ GoTo(w, "deferring") /\ UNCHANGED crawlCount
  /\ UNCHANGED <<scan, children, scanFaults>>

LeaseRuns(w) == scan[workAt[w]].lease = w /\ scan[workAt[w]].live

MarkScanAnalysing(w) ==
  /\ workPc[w] = "crawled"
  /\ \/ /\ LeaseRuns(w)
        /\ scan' = [scan EXCEPT ![workAt[w]].status = "analysing"]
        /\ GoTo(w, "persist")
     \/ ~LeaseRuns(w) /\ Quit(w) /\ UNCHANGED scan
     \/ GoTo(w, "failing") /\ UNCHANGED scan
  /\ UNCHANGED <<children, crawlCount, scanFaults>>

\* Bugs for the run to find: the fence asks for the state only, or an update for the id.
FencedByStatus(w) == scan[workAt[w]].status \in ScanRunning
Fenced(w) == LeaseRuns(w)

\* persistCompletedScan: the lease is checked, the children of earlier attempts are
\* replaced, and the scan completes, all in one transaction.  The commit may be
\* reported as an error after it took effect.
PersistScan(w) ==
  LET s == workAt[w] IN
  /\ workPc[w] = "persist" /\ Fenced(w)
  /\ children' = [children EXCEPT ![s] = {workTry[w]}]
  /\ scan' = [scan EXCEPT ![s].status = "completed", ![s].lease = NoWorker,
                          ![s].live = FALSE, ![s].delayed = FALSE]
  /\ \/ Quit(w) /\ UNCHANGED scanFaults
     \/ /\ scanFaults < MaxScanFaults /\ scanFaults' = scanFaults + 1
        /\ GoTo(w, "failing")
  /\ UNCHANGED crawlCount

\* The lease is lost (the attempt is left to its successor), or the transaction fails.
PersistFails(w) ==
  /\ workPc[w] = "persist"
  /\ \/ ~Fenced(w) /\ Quit(w)
     \/ GoTo(w, "failing")
  /\ UNCHANGED <<scan, children, crawlCount, scanFaults>>

OwnScanById(w) == scan[workAt[w]].status # "none"
\* Both updates ask for the leaseId.
OwnScan(w) == scan[workAt[w]].lease = w

\* markScanAttemptFailed; a deterministic fault is not retried.
MarkScanFailed(w) ==
  LET s == workAt[w] IN
  /\ workPc[w] = "failing"
  /\ \/ /\ OwnScan(w)
        /\ \E retry \in {workTry[w] < MaxScanAttempts, FALSE} :
             scan' = [scan EXCEPT ![s].status = IF retry THEN "queued" ELSE "failed",
                                  ![s].lease = NoWorker, ![s].live = FALSE,
                                  ![s].delayed = retry]
     \/ ~OwnScan(w) /\ UNCHANGED scan
  /\ Quit(w)
  /\ UNCHANGED <<children, crawlCount, scanFaults>>

\* deferScanForCommonCrawlAdmission gives the attempt back.
DeferScan(w) ==
  LET s == workAt[w] IN
  /\ workPc[w] = "deferring"
  /\ \/ /\ OwnScan(w)
        /\ scan' = [scan EXCEPT ![s].status = "queued", ![s].attempts = @ - 1,
                                ![s].lease = NoWorker, ![s].live = FALSE, ![s].delayed = TRUE]
     \/ ~OwnScan(w) /\ UNCHANGED scan
  /\ Quit(w)
  /\ UNCHANGED <<children, crawlCount, scanFaults>>

\* startScanLeaseHeartbeat asks for the leaseId, not for a lease that still runs.
RenewScan(w) ==
  /\ workPc[w] \in {"claimed", "crawled", "persist", "failing", "deferring"}
  /\ OwnScan(w) /\ scan[workAt[w]].status \in ScanRunning
  /\ ~scan[workAt[w]].live
  /\ scan' = [scan EXCEPT ![workAt[w]].live = TRUE]
  /\ UNCHANGED <<children, workPc, workAt, workTry, crawlCount, scanFaults>>

ScanDeadline(s) ==
  /\ \/ scan[s].live /\ scan' = [scan EXCEPT ![s].live = FALSE]
     \/ scan[s].delayed /\ scan' = [scan EXCEPT ![s].delayed = FALSE]
  /\ UNCHANGED <<children, workPc, workAt, workTry, crawlCount, scanFaults>>

ScanWorkerDies(w) ==
  /\ workPc[w] # "idle" /\ scanFaults < MaxScanFaults
  /\ scanFaults' = scanFaults + 1
  /\ Quit(w)
  /\ UNCHANGED <<scan, children, crawlCount>>

ScansNext ==
  \/ \E s \in ScanIds : CreateScan(s) \/ ScanDeadline(s)
  \/ \E w \in ScanWorkers :
       \/ \E s \in ScanIds : Choose(w, s)
       \/ ClaimScan(w) \/ Crawl(w) \/ MarkScanAnalysing(w)
       \/ PersistScan(w) \/ PersistFails(w) \/ MarkScanFailed(w) \/ DeferScan(w)
       \/ RenewScan(w) \/ ScanWorkerDies(w)

ScansSpec == ScansInit /\ [][ScansNext]_scanVars

-----------------------------------------------------------------------------
\* A stored result is complete and of one attempt: the children in the database are
\* those of the attempt that completed the scan, however many workers crawled it
\* (persistCompletedScan: "a partial previous attempt cannot become a completed
\* result").
ResultOfOneAttempt ==
  \A s \in ScanIds :
    children[s] = IF scan[s].status = "completed" THEN {scan[s].attempts} ELSE {}

\* A refunded attempt is one that did not crawl: no target is crawled for one scan more
\* often than MAX_ATTEMPTS.
ScanCrawlsBounded == \A s \in ScanIds : crawlCount[s] <= MaxScanAttempts

\* The scans are an audit queue without a limit: each enters once and ends once.
ScanQueue == INSTANCE AuditQueue WITH
  Jobs <- ScanIds, Keys <- ScanIds, NoKey <- NoScan, Cap <- Cardinality(ScanIds),
  phase <- [s \in ScanIds |-> IF scan[s].status \in {"queued"} \cup ScanRunning THEN "open"
                              ELSE scan[s].status],
  key <- [s \in ScanIds |-> IF scan[s].status = "none" THEN NoScan ELSE s]
ScansImplementQueue == ScanQueue!Spec
=============================================================================
