--------------------------- MODULE ServicesProofs ---------------------------
(***************************************************************************)
(* Proofs about the services around the audit queue, each for any sets of  *)
(* workers, readers, requests or issues, and any limits: the legacy scans, *)
(* the shared protection of backlink reads, the slots of immediate audits, *)
(* the issue history, the admission transaction, and the leases of archive *)
(* retrievals.                                                             *)
(***************************************************************************)
EXTENDS Scans, SharedBacklinks, ImmediateSlots, IssueLifecycle, CrawlAdmission,
        CommonCrawlAdmission, TLAPS, FunctionTheorems, FiniteSetTheorems


-----------------------------------------------------------------------------
(***************************************************************************)
(* Legacy scans: leases                                                    *)
(***************************************************************************)
\* A scan is leased while it runs.
ScanLeases ==
  \A s \in ScanIds :
    /\ scan[s].lease # NoWorker <=> scan[s].status \in ScanRunning
    /\ scan[s].status \in ScanRunning => scan[s].attempts > 0

\* What an invocation knows of its scan; one that still owns it is in the scan's last
\* attempt.
ScanHolders ==
  \A w \in ScanWorkers :
    /\ workPc[w] # "idle" => workAt[w] \in ScanIds /\ scan[workAt[w]].status # "none"
    /\ \A s \in ScanIds : scan[s].lease = w /\ workPc[w] # "idle" =>
         workPc[w] # "chosen" /\ workAt[w] = s /\ workTry[w] = scan[s].attempts

ScanInv == ScansTypeOK /\ ScanLeases /\ ScanHolders /\ ResultOfOneAttempt

ScanStatuses == {"none", "queued", "completed", "failed"} \cup ScanRunning
ScanRecords == [status: ScanStatuses, attempts: 0..MaxScanAttempts,
                lease: ScanWorkers \cup {NoWorker}, live: BOOLEAN, delayed: BOOLEAN]

LEMMA ScanIsTyped ==
  ASSUME ScansTypeOK, NEW s \in ScanIds
  PROVE  /\ scan \in [ScanIds -> ScanRecords] /\ scan[s] \in ScanRecords
         /\ scan[s].status \in ScanStatuses /\ scan[s].attempts \in 0..MaxScanAttempts
         /\ scan[s].lease \in ScanWorkers \cup {NoWorker}
         /\ scan[s].live \in BOOLEAN /\ scan[s].delayed \in BOOLEAN
BY DEF ScansTypeOK, ScanRecords, ScanStatuses

LEMMA ScansStart ==
  ASSUME ScansOK, ScansInit PROVE ScanInv
<1>1. NewScan \in ScanRecords
  BY DEF ScansOK, NewScan, ScanRecords, ScanStatuses
<1>2. ScansTypeOK
  BY <1>1 DEF ScansOK, ScansInit, ScansTypeOK, ScanRecords, ScanStatuses
<1>3. ScanLeases /\ ScanHolders /\ ResultOfOneAttempt
  BY DEF ScansOK, ScansInit, NewScan, ScanLeases, ScanHolders, ResultOfOneAttempt, ScanRunning
<1> QED
  BY <1>2, <1>3 DEF ScanInv

\* A scan is written.
LEMMA ScanIsWritten ==
  ASSUME ScansTypeOK, NEW s \in ScanIds, NEW d \in ScanRecords, scan' = [scan EXCEPT ![s] = d]
  PROVE  /\ scan' \in [ScanIds -> ScanRecords] /\ scan'[s] = d
         /\ \A t \in ScanIds : t # s => scan'[t] = scan[t]
BY ScanIsTyped

\* An invocation gives up, or goes on.
LEMMA WorkerQuits ==
  ASSUME ScansTypeOK, ScansOK, NEW w \in ScanWorkers, Quit(w)
  PROVE  /\ workPc' \in [ScanWorkers -> {"idle", "chosen", "claimed", "crawled", "persist", "failing", "deferring"}]
         /\ workAt' \in [ScanWorkers -> ScanIds \cup {NoScan}]
         /\ workTry' \in [ScanWorkers -> 0..MaxScanAttempts]
         /\ workPc'[w] = "idle"
         /\ \A v \in ScanWorkers : v # w =>
              workPc'[v] = workPc[v] /\ workAt'[v] = workAt[v] /\ workTry'[v] = workTry[v]
BY DEF ScansTypeOK, ScansOK, Quit

LEMMA WorkerGoes ==
  ASSUME ScansTypeOK, NEW w \in ScanWorkers,
         NEW p \in {"idle", "chosen", "claimed", "crawled", "persist", "failing", "deferring"}, GoTo(w, p)
  PROVE  /\ workPc' \in [ScanWorkers -> {"idle", "chosen", "claimed", "crawled", "persist", "failing", "deferring"}]
         /\ workPc'[w] = p /\ \A v \in ScanWorkers : v # w => workPc'[v] = workPc[v]
         /\ UNCHANGED <<workAt, workTry>>
BY DEF ScansTypeOK, GoTo

\* No scan is written, and one invocation goes on from where it was, or ends.
LEMMA WorkerMoves ==
  ASSUME ScansOK, ScanInv, UNCHANGED <<scan, children>>, NEW w \in ScanWorkers,
         \/ Quit(w)
         \/ workPc[w] \notin {"idle", "chosen"} /\ \E p \in {"crawled", "persist", "failing", "deferring"} : GoTo(w, p)
  PROVE  ScanInv'
<1>1. ScanLeases' /\ ResultOfOneAttempt'
  BY DEF ScanInv, ScanLeases, ResultOfOneAttempt
<1>2. CASE Quit(w)
  BY <1>1, <1>2, WorkerQuits DEF ScanInv, ScansTypeOK, ScanHolders
<1>3. CASE workPc[w] \notin {"idle", "chosen"} /\ \E p \in {"crawled", "persist", "failing", "deferring"} : GoTo(w, p)
  BY <1>1, <1>3, WorkerGoes DEF ScanInv, ScansTypeOK, ScanHolders
<1> QED
  BY <1>2, <1>3

LEMMA CreateScanKeeps ==
  ASSUME ScansOK, ScanInv, NEW s \in ScanIds, CreateScan(s) PROVE ScanInv'
<1>1. Created \in ScanRecords /\ Created.status = "queued" /\ Created.lease = NoWorker
  <2>1. NewScan \in ScanRecords /\ NewScan.lease = NoWorker
    BY DEF ScansOK, NewScan, ScanRecords, ScanStatuses
  <2> QED
    BY <2>1 DEF Created, ScanRecords, ScanStatuses
<1>2. scan[s].status = "none" /\ scan[s].lease = NoWorker
  BY DEF CreateScan, NewScan
<1>3. /\ scan' \in [ScanIds -> ScanRecords] /\ scan'[s] = Created
      /\ \A t \in ScanIds : t # s => scan'[t] = scan[t]
  BY <1>1, ScanIsWritten DEF CreateScan, ScanInv
<1>4. ScansTypeOK'
  BY <1>3 DEF CreateScan, ScanInv, ScansTypeOK, ScanRecords, ScanStatuses
<1>5. ScanLeases' /\ ResultOfOneAttempt'
  BY <1>1, <1>2, <1>3 DEF CreateScan, ScanInv, ScanLeases, ResultOfOneAttempt, ScanRunning
<1>6. ScanHolders'
  BY <1>1, <1>2, <1>3 DEF ScansOK, CreateScan, ScanInv, ScanHolders
<1> QED
  BY <1>4, <1>5, <1>6 DEF ScanInv

LEMMA ChooseKeeps ==
  ASSUME ScansOK, ScanInv, NEW w \in ScanWorkers, NEW s \in ScanIds, Choose(w, s) PROVE ScanInv'
<1>1. /\ workPc'[w] = "chosen" /\ workAt'[w] = s
      /\ \A v \in ScanWorkers : v # w => workPc'[v] = workPc[v] /\ workAt'[v] = workAt[v]
  BY DEF Choose, ScanInv, ScansTypeOK
<1>2. ScansTypeOK'
  BY DEF Choose, ScanInv, ScansTypeOK
<1>3. ScanLeases' /\ ResultOfOneAttempt'
  BY DEF Choose, ScanInv, ScanLeases, ResultOfOneAttempt
<1>4. ScanHolders'
  BY <1>1 DEF Choose, ScanInv, ScanHolders
<1> QED
  BY <1>2, <1>3, <1>4 DEF ScanInv

LEMMA ClaimScanKeeps ==
  ASSUME ScansOK, ScanInv, NEW w \in ScanWorkers, ClaimScan(w) PROVE ScanInv'
<1> DEFINE s == workAt[w]
           d == [status |-> "crawling", attempts |-> scan[s].attempts + 1, lease |-> w,
                 live |-> TRUE, delayed |-> FALSE]
<1>1. CASE Quit(w) /\ UNCHANGED scan
  BY <1>1, WorkerMoves DEF ClaimScan
<1>2. CASE /\ ScanClaimable(s) /\ scan' = [scan EXCEPT ![s] = d]
           /\ workPc' = [workPc EXCEPT ![w] = "claimed"]
           /\ workTry' = [workTry EXCEPT ![w] = scan[s].attempts + 1] /\ UNCHANGED workAt
  <2>1. s \in ScanIds
    BY DEF ClaimScan, ScanInv, ScanHolders
  <2>2. scan[s].attempts + 1 \in 1..MaxScanAttempts /\ scan[s].status \in {"queued"} \cup ScanRunning
    <3>1. MaxScanAttempts \in Nat /\ scan[s].attempts \in 0..MaxScanAttempts
      BY <2>1, ScanIsTyped DEF ScanInv, ScansOK
    <3> QED
      BY <1>2, <3>1 DEF ScanClaimable
  <2>3. d \in ScanRecords /\ d.status = "crawling" /\ d.lease = w /\ d.attempts = scan[s].attempts + 1
    BY <2>2 DEF ScanRecords, ScanStatuses, ScanRunning
  <2> HIDE DEF d
  <2>4. scan' \in [ScanIds -> ScanRecords] /\ scan'[s] = d /\ \A t \in ScanIds : t # s => scan'[t] = scan[t]
    BY <1>2, <2>1, <2>3, ScanIsWritten DEF ScanInv
  <2>5. /\ workPc'[w] = "claimed" /\ workAt' = workAt /\ workTry'[w] = scan[s].attempts + 1
        /\ \A v \in ScanWorkers : v # w => workPc'[v] = workPc[v] /\ workTry'[v] = workTry[v]
    BY <1>2 DEF ScanInv, ScansTypeOK
  <2>6. ScansTypeOK'
    BY <1>2, <2>2, <2>4 DEF ClaimScan, ScanInv, ScansTypeOK, ScanRecords, ScanStatuses
  <2>7. ScanLeases'
    BY <2>2, <2>3, <2>4 DEF ScansOK, ScanInv, ScanLeases, ScanRunning
  <2>8. workPc[w] = "chosen" /\ \A t \in ScanIds : scan[t].lease # w
    BY DEF ClaimScan, ScanInv, ScanHolders
  <2>9. ScanHolders'
    BY <2>1, <2>2, <2>3, <2>4, <2>5, <2>8 DEF ScanInv, ScanHolders
  <2>10. ResultOfOneAttempt'
    BY <2>2, <2>3, <2>4 DEF ClaimScan, ScanInv, ResultOfOneAttempt, ScanRunning
  <2> QED
    BY <2>6, <2>7, <2>9, <2>10 DEF ScanInv
<1> QED
  BY <1>1, <1>2 DEF ClaimScan

LEMMA CrawlKeeps ==
  ASSUME ScansOK, ScanInv, NEW w \in ScanWorkers, Crawl(w) PROVE ScanInv'
BY WorkerMoves DEF Crawl

\* A scan that is owned, and the invocation that owns it.
LEMMA OwnedScan ==
  ASSUME ScansOK, ScanInv, NEW w \in ScanWorkers, workPc[w] # "idle", OwnScan(w)
  PROVE  /\ workAt[w] \in ScanIds /\ scan[workAt[w]] \in ScanRecords
         /\ scan[workAt[w]].status \in ScanRunning
         /\ workTry[w] = scan[workAt[w]].attempts /\ scan[workAt[w]].attempts \in 1..MaxScanAttempts
         /\ children[workAt[w]] = {}
<1>1. workAt[w] \in ScanIds /\ scan[workAt[w]].lease = w /\ workTry[w] = scan[workAt[w]].attempts
  BY DEF ScanInv, ScanHolders, OwnScan
<1>2. /\ scan[workAt[w]] \in ScanRecords /\ scan[workAt[w]].attempts \in 0..MaxScanAttempts
      /\ MaxScanAttempts \in Nat
  BY <1>1, ScanIsTyped DEF ScanInv, ScansOK
<1>3. scan[workAt[w]].status \in ScanRunning /\ scan[workAt[w]].attempts > 0
  BY <1>1 DEF ScanInv, ScanLeases, ScansOK
<1>4. children[workAt[w]] = {}
  BY <1>1, <1>3 DEF ScanInv, ResultOfOneAttempt, ScanRunning
<1> QED
  BY <1>1, <1>2, <1>3, <1>4

\* A scan whose status changes while it runs, or whose deadline passes or is renewed.
LEMMA LeaseGoesOn ==
  ASSUME ScansOK, ScanInv, NEW s \in ScanIds, NEW d \in ScanRecords, scan' = [scan EXCEPT ![s] = d],
         UNCHANGED children,
         d.lease = scan[s].lease, d.attempts = scan[s].attempts,
         d.status = scan[s].status \/ (scan[s].status \in ScanRunning /\ d.status \in ScanRunning),
         \/ UNCHANGED <<workPc, workAt, workTry>>
         \/ \E w \in ScanWorkers : workPc[w] \notin {"idle", "chosen"} /\ GoTo(w, "persist")
  PROVE  ScanInv'
<1>1. scan' \in [ScanIds -> ScanRecords] /\ scan'[s] = d /\ \A t \in ScanIds : t # s => scan'[t] = scan[t]
  BY ScanIsWritten DEF ScanInv
<1>2. ScanLeases' /\ ResultOfOneAttempt'
  BY <1>1 DEF ScanInv, ScanLeases, ResultOfOneAttempt, ScanRunning
<1>3. CASE UNCHANGED <<workPc, workAt, workTry>>
  <2>1. ScansTypeOK'
    BY <1>1, <1>3 DEF ScanInv, ScansTypeOK, ScanRecords, ScanStatuses
  <2>2. ScanHolders'
    BY <1>1, <1>3 DEF ScanInv, ScanHolders, ScanRunning
  <2> QED
    BY <1>2, <2>1, <2>2 DEF ScanInv
<1>4. ASSUME NEW w \in ScanWorkers, workPc[w] \notin {"idle", "chosen"}, GoTo(w, "persist")
      PROVE  ScanInv'
  <2>1. /\ workPc'[w] = "persist" /\ (\A v \in ScanWorkers : v # w => workPc'[v] = workPc[v])
        /\ UNCHANGED <<workAt, workTry>>
    BY <1>4 DEF GoTo, ScanInv, ScansTypeOK
  <2>2. ScansTypeOK'
    BY <1>1, <1>4 DEF GoTo, ScanInv, ScansTypeOK, ScanRecords, ScanStatuses
  <2>3. ScanHolders'
    BY <1>1, <1>4, <2>1 DEF ScanInv, ScanHolders, ScanRunning
  <2> QED
    BY <1>2, <2>2, <2>3 DEF ScanInv
<1> QED
  BY <1>3, <1>4

\* A scan that loses its lease because its attempt ends.
LEMMA LeaseEnds ==
  ASSUME ScansOK, ScanInv, NEW w \in ScanWorkers, workPc[w] # "idle", OwnScan(w),
         NEW d \in ScanRecords, scan' = [scan EXCEPT ![workAt[w]] = d],
         d.lease = NoWorker,
         \/ d.status \in {"queued", "failed"} /\ UNCHANGED children
         \/ /\ d.status = "completed" /\ d.attempts = scan[workAt[w]].attempts
            /\ children' = [children EXCEPT ![workAt[w]] = {workTry[w]}],
         \/ Quit(w)
         \/ workPc[w] \notin {"idle", "chosen"} /\ GoTo(w, "failing")
  PROVE  ScanInv'
<1> DEFINE s == workAt[w]
<1>1. /\ s \in ScanIds /\ workTry[w] = scan[s].attempts /\ scan[s].attempts \in 1..MaxScanAttempts
      /\ children[s] = {} /\ NoWorker \notin ScanWorkers
  BY OwnedScan DEF ScansOK
<1> HIDE DEF s
<1>2. scan' \in [ScanIds -> ScanRecords] /\ scan'[s] = d /\ \A t \in ScanIds : t # s => scan'[t] = scan[t]
  BY <1>1, ScanIsWritten DEF ScanInv, s
<1>3. ScanLeases'
  BY <1>1, <1>2 DEF ScanInv, ScanLeases, ScanRunning
<1>4. /\ children' \in [ScanIds -> SUBSET (1..MaxScanAttempts)]
      /\ children'[s] = (IF d.status = "completed" THEN {d.attempts} ELSE {})
      /\ \A t \in ScanIds : t # s => children'[t] = children[t]
  <2>1. children \in [ScanIds -> SUBSET (1..MaxScanAttempts)]
    BY DEF ScanInv, ScansTypeOK
  <2>2. CASE d.status \in {"queued", "failed"} /\ UNCHANGED children
    BY <1>1, <2>1, <2>2
  <2>3. CASE /\ d.status = "completed" /\ d.attempts = scan[workAt[w]].attempts
             /\ children' = [children EXCEPT ![workAt[w]] = {workTry[w]}]
    BY <1>1, <2>1, <2>3 DEF s
  <2> QED
    BY <2>2, <2>3
<1>5. ResultOfOneAttempt'
  <2>1. ASSUME NEW t \in ScanIds
        PROVE  children'[t] = IF scan'[t].status = "completed" THEN {scan'[t].attempts} ELSE {}
    <3>1. CASE t = s
      BY <1>2, <1>4, <3>1
    <3>2. CASE t # s
      BY <1>2, <1>4, <3>2 DEF ScanInv, ResultOfOneAttempt
    <3> QED
      BY <3>1, <3>2
  <2> QED
    BY <2>1 DEF ResultOfOneAttempt
<1>6. scan \in [ScanIds -> ScanRecords] /\ scan[s].status # "none" /\ d.status # "none"
  BY <1>1, ScanIsTyped DEF ScanInv, ScanHolders, s
<1>7. CASE Quit(w)
  <2>1. ScansTypeOK'
    BY <1>2, <1>4, <1>7, WorkerQuits DEF ScanInv, ScansTypeOK, ScanRecords, ScanStatuses
  <2>2. ScanHolders'
    BY <1>1, <1>2, <1>6, <1>7, WorkerQuits DEF ScanInv, ScanHolders
  <2> QED
    BY <1>3, <1>5, <2>1, <2>2 DEF ScanInv
<1>8. CASE GoTo(w, "failing") /\ workPc[w] \notin {"idle", "chosen"}
  <2>0. /\ workPc' \in [ScanWorkers -> {"idle", "chosen", "claimed", "crawled", "persist", "failing", "deferring"}]
        /\ workPc'[w] = "failing" /\ (\A v \in ScanWorkers : v # w => workPc'[v] = workPc[v])
        /\ UNCHANGED <<workAt, workTry>>
    BY <1>8, WorkerGoes DEF ScanInv
  <2>1. ScansTypeOK'
    BY <1>2, <1>4, <2>0 DEF ScanInv, ScansTypeOK, ScanRecords, ScanStatuses
  <2>2. ScanHolders'
    BY <1>1, <1>2, <1>6, <1>8, <2>0 DEF ScanInv, ScanHolders
  <2> QED
    BY <1>3, <1>5, <2>1, <2>2 DEF ScanInv
<1> QED
  BY <1>7, <1>8

LEMMA MarkScanAnalysingKeeps ==
  ASSUME ScansOK, ScanInv, NEW w \in ScanWorkers, MarkScanAnalysing(w) PROVE ScanInv'
<1>1. CASE UNCHANGED scan
  BY <1>1, WorkerMoves DEF MarkScanAnalysing
<1>2. CASE LeaseRuns(w) /\ scan' = [scan EXCEPT ![workAt[w]].status = "analysing"] /\ GoTo(w, "persist")
  <2> DEFINE s == workAt[w]
             d == [scan[s] EXCEPT !.status = "analysing"]
  <2>1. s \in ScanIds /\ scan[s] \in ScanRecords /\ scan[s].status \in ScanRunning
    BY <1>2, OwnedScan DEF MarkScanAnalysing, LeaseRuns, OwnScan
  <2>2. /\ d \in ScanRecords /\ d.lease = scan[s].lease /\ d.attempts = scan[s].attempts
        /\ d.status \in ScanRunning
    BY <2>1 DEF ScanRecords, ScanStatuses, ScanRunning
  <2>3. scan' = [scan EXCEPT ![s] = d]
    BY <1>2, <2>1
  <2> HIDE DEF s, d
  <2> QED
    BY <1>2, <2>1, <2>2, <2>3, LeaseGoesOn DEF MarkScanAnalysing
<1> QED
  BY <1>1, <1>2 DEF MarkScanAnalysing

LEMMA PersistScanKeeps ==
  ASSUME ScansOK, ScanInv, NEW w \in ScanWorkers, PersistScan(w) PROVE ScanInv'
<1> DEFINE s == workAt[w]
           d == [scan[s] EXCEPT !.status = "completed", !.lease = NoWorker, !.live = FALSE, !.delayed = FALSE]
<1>1. OwnScan(w) /\ workPc[w] \notin {"idle", "chosen"}
  BY DEF PersistScan, Fenced, LeaseRuns, OwnScan
<1>2. s \in ScanIds /\ scan[s] \in ScanRecords /\ workTry[w] = scan[s].attempts
  BY <1>1, OwnedScan
<1>3. /\ d \in ScanRecords /\ d.lease = NoWorker /\ d.attempts = scan[s].attempts
      /\ d.status = "completed"
  BY <1>2 DEF ScanRecords, ScanStatuses
<1>4. scan' = [scan EXCEPT ![s] = d]
  BY <1>2, ScanIsTyped DEF PersistScan, ScanInv
<1> HIDE DEF d
<1>5. children' = [children EXCEPT ![s] = {workTry[w]}] /\ (Quit(w) \/ GoTo(w, "failing"))
  BY DEF PersistScan
<1> QED
  BY <1>1, <1>3, <1>4, <1>5, LeaseEnds

LEMMA PersistFailsKeeps ==
  ASSUME ScansOK, ScanInv, NEW w \in ScanWorkers, PersistFails(w) PROVE ScanInv'
BY WorkerMoves DEF PersistFails

LEMMA MarkScanFailedKeeps ==
  ASSUME ScansOK, ScanInv, NEW w \in ScanWorkers, MarkScanFailed(w) PROVE ScanInv'
<1>1. CASE UNCHANGED scan
  BY <1>1, WorkerMoves DEF MarkScanFailed
<1>2. ASSUME OwnScan(w), NEW retry \in BOOLEAN,
             scan' = [scan EXCEPT ![workAt[w]].status = IF retry THEN "queued" ELSE "failed",
                                  ![workAt[w]].lease = NoWorker, ![workAt[w]].live = FALSE,
                                  ![workAt[w]].delayed = retry]
      PROVE  ScanInv'
  <2> DEFINE s == workAt[w]
             status == IF retry THEN "queued" ELSE "failed"
             d == [scan[s] EXCEPT !.status = status, !.lease = NoWorker, !.live = FALSE, !.delayed = retry]
  <2>1. s \in ScanIds /\ scan[s] \in ScanRecords
    BY <1>2, OwnedScan DEF MarkScanFailed
  <2>2. d \in ScanRecords /\ d.lease = NoWorker /\ d.status \in {"queued", "failed"}
    BY <2>1 DEF ScanRecords, ScanStatuses
  <2>3. scan' = [scan EXCEPT ![s] = d]
    BY <1>2, <2>1, ScanIsTyped DEF ScanInv
  <2> HIDE DEF d
  <2> QED
    BY <1>2, <2>2, <2>3, LeaseEnds DEF MarkScanFailed
<1>3. (workTry[w] < MaxScanAttempts) \in BOOLEAN /\ FALSE \in BOOLEAN
  OBVIOUS
<1>4. CASE OwnScan(w) /\ ~UNCHANGED scan
  <2>1. PICK retry \in {workTry[w] < MaxScanAttempts, FALSE} :
             scan' = [scan EXCEPT ![workAt[w]].status = IF retry THEN "queued" ELSE "failed",
                                  ![workAt[w]].lease = NoWorker, ![workAt[w]].live = FALSE,
                                  ![workAt[w]].delayed = retry]
    BY <1>4 DEF MarkScanFailed
  <2>2. retry \in BOOLEAN
    BY <1>3, <2>1
  <2> QED
    BY <1>2, <1>4, <2>1, <2>2
<1> QED
  BY <1>1, <1>4 DEF MarkScanFailed

LEMMA DeferScanKeeps ==
  ASSUME ScansOK, ScanInv, NEW w \in ScanWorkers, DeferScan(w) PROVE ScanInv'
<1>1. CASE UNCHANGED scan
  BY <1>1, WorkerMoves DEF DeferScan
<1>2. CASE /\ OwnScan(w)
           /\ scan' = [scan EXCEPT ![workAt[w]].status = "queued", ![workAt[w]].attempts = @ - 1,
                                   ![workAt[w]].lease = NoWorker, ![workAt[w]].live = FALSE,
                                   ![workAt[w]].delayed = TRUE]
  <2> DEFINE s == workAt[w]
             fewer == scan[s].attempts - 1
             d == [scan[s] EXCEPT !.status = "queued", !.attempts = fewer,
                                  !.lease = NoWorker, !.live = FALSE, !.delayed = TRUE]
  <2>1. s \in ScanIds /\ scan[s] \in ScanRecords /\ scan[s].attempts \in 1..MaxScanAttempts
    BY <1>2, OwnedScan DEF DeferScan
  <2>2. fewer \in 0..MaxScanAttempts
    BY <2>1 DEF ScansOK
  <2>3. scan' = [scan EXCEPT ![s] = d]
    BY <1>2, <2>1, ScanIsTyped DEF ScanInv
  <2> HIDE DEF fewer
  <2>4. d \in ScanRecords /\ d.lease = NoWorker /\ d.status = "queued"
    BY <2>1, <2>2 DEF ScanRecords, ScanStatuses, ScansOK
  <2> HIDE DEF d
  <2> QED
    BY <1>2, <2>3, <2>4, LeaseEnds DEF DeferScan
<1> QED
  BY <1>1, <1>2 DEF DeferScan

LEMMA RenewScanKeeps ==
  ASSUME ScansOK, ScanInv, NEW w \in ScanWorkers, RenewScan(w) PROVE ScanInv'
<1> DEFINE s == workAt[w]
           d == [scan[s] EXCEPT !.live = TRUE]
<1>1. s \in ScanIds /\ scan[s] \in ScanRecords
  BY OwnedScan DEF RenewScan
<1>2. d \in ScanRecords /\ d.lease = scan[s].lease /\ d.attempts = scan[s].attempts /\ d.status = scan[s].status
  BY <1>1 DEF ScanRecords
<1>3. scan' = [scan EXCEPT ![s] = d]
  BY <1>1 DEF RenewScan
<1> HIDE DEF d, s
<1> QED
  BY <1>1, <1>2, <1>3, LeaseGoesOn DEF RenewScan

LEMMA ScanDeadlineKeeps ==
  ASSUME ScansOK, ScanInv, NEW s \in ScanIds, ScanDeadline(s) PROVE ScanInv'
<1>1. scan[s] \in ScanRecords
  BY ScanIsTyped DEF ScanInv
<1>2. PICK d \in {[scan[s] EXCEPT !.live = FALSE], [scan[s] EXCEPT !.delayed = FALSE]} :
        scan' = [scan EXCEPT ![s] = d]
  BY <1>1 DEF ScanDeadline
<1>3. d \in ScanRecords /\ d.lease = scan[s].lease /\ d.attempts = scan[s].attempts /\ d.status = scan[s].status
  BY <1>1, <1>2 DEF ScanRecords
<1> QED
  BY <1>2, <1>3, LeaseGoesOn DEF ScanDeadline

LEMMA ScansStep ==
  ASSUME ScansOK, ScanInv, [ScansNext]_scanVars PROVE ScanInv'
<1>1. CASE UNCHANGED scanVars
  BY <1>1 DEF scanVars, ScanInv, ScansTypeOK, ScanLeases, ScanHolders, ResultOfOneAttempt
<1>2. ASSUME NEW w \in ScanWorkers, ScanWorkerDies(w) PROVE ScanInv'
  BY <1>2, WorkerMoves DEF ScanWorkerDies
<1> QED
  BY <1>1, <1>2, CreateScanKeeps, ScanDeadlineKeeps, ChooseKeeps, ClaimScanKeeps, CrawlKeeps,
     MarkScanAnalysingKeeps, PersistScanKeeps, PersistFailsKeeps, MarkScanFailedKeeps, DeferScanKeeps,
     RenewScanKeeps DEF ScansNext

LEMMA ScansAlways ==
  ASSUME ScansOK PROVE ScansSpec => []ScanInv
BY ScansStart, ScansStep, PTL DEF ScansSpec

\* A stored result is of the attempt that completed its scan, however many invocations
\* crawled it, and whichever of them lost their leases.
THEOREM ResultsAreOfOneAttempt ==
  ASSUME ScansOK PROVE ScansSpec => []ResultOfOneAttempt
<1>1. ScanInv => ResultOfOneAttempt
  BY DEF ScanInv
<1> QED
  BY <1>1, ScansAlways, PTL

-----------------------------------------------------------------------------
(***************************************************************************)
(* Legacy scans: how often a target is crawled                             *)
(***************************************************************************)
\* Claimed, and neither crawled nor given back.
Uncrawled(s) == {w \in ScanWorkers : workAt[w] = s /\ workPc[w] \in {"claimed", "deferring"}}
CrawlsCounted ==
  /\ crawlCount \in [ScanIds -> Nat]
  /\ \A s \in ScanIds : crawlCount[s] + Cardinality(Uncrawled(s)) <= scan[s].attempts

LEMMA UncrawledFinite ==
  ASSUME ScansOK, NEW s
  PROVE  /\ IsFiniteSet(Uncrawled(s)) /\ Cardinality(Uncrawled(s)) \in Nat
         /\ IsFiniteSet(Uncrawled(s))' /\ Cardinality(Uncrawled(s))' \in Nat
<1>1. Uncrawled(s) \subseteq ScanWorkers /\ Uncrawled(s)' \subseteq ScanWorkers
  BY DEF Uncrawled
<1> QED
  BY <1>1, FS_Subset, FS_CardinalityType DEF ScansOK

\* Nobody joins them unless it claims.
LEMMA NobodyNewUncrawled ==
  ASSUME ScansOK, NEW s, Uncrawled(s)' \subseteq Uncrawled(s)
  PROVE  Cardinality(Uncrawled(s))' <= Cardinality(Uncrawled(s))
BY UncrawledFinite, FS_Subset

LEMMA OneFewerUncrawled ==
  ASSUME ScansOK, NEW s, NEW w \in Uncrawled(s), Uncrawled(s)' = Uncrawled(s) \ {w}
  PROVE  Cardinality(Uncrawled(s))' = Cardinality(Uncrawled(s)) - 1
BY UncrawledFinite, FS_RemoveElement

LEMMA OneMoreUncrawled ==
  ASSUME ScansOK, NEW s, NEW w, w \notin Uncrawled(s), Uncrawled(s)' = Uncrawled(s) \cup {w}
  PROVE  Cardinality(Uncrawled(s))' = Cardinality(Uncrawled(s)) + 1
BY UncrawledFinite, FS_AddElement

\* A step in which no scan's attempts decrease, and nobody claims.
LEMMA CrawlsStayCounted ==
  ASSUME ScansOK, ScanInv, ScanInv', CrawlsCounted, UNCHANGED crawlCount,
         \A s \in ScanIds : scan'[s].attempts >= scan[s].attempts /\ Uncrawled(s)' \subseteq Uncrawled(s)
  PROVE  CrawlsCounted'
<1> SUFFICES ASSUME NEW s \in ScanIds PROVE crawlCount[s] + Cardinality(Uncrawled(s))' <= scan'[s].attempts
  BY DEF CrawlsCounted
<1>1. Cardinality(Uncrawled(s))' <= Cardinality(Uncrawled(s))
  BY NobodyNewUncrawled
<1>2. scan[s].attempts \in Nat /\ scan'[s].attempts \in Nat /\ crawlCount[s] \in Nat
  BY DEF ScanInv, ScansTypeOK, CrawlsCounted
<1> QED
  BY <1>1, <1>2, UncrawledFinite DEF CrawlsCounted

LEMMA CrawlCounts ==
  ASSUME ScansOK, ScanInv, ScanInv', CrawlsCounted, NEW w \in ScanWorkers, Crawl(w)
  PROVE  CrawlsCounted'
<1>0. PICK a \in ScanIds : a = workAt[w]
  BY DEF Crawl, ScanInv, ScanHolders
<1>1. /\ workPc[w] = "claimed" /\ UNCHANGED <<scan, workAt>>
      /\ \A v \in ScanWorkers : v # w => workPc'[v] = workPc[v]
  BY DEF Crawl, GoTo, ScanInv, ScansTypeOK
<1>2. CASE workPc'[w] = "deferring" /\ UNCHANGED crawlCount
  <2>1. \A s \in ScanIds : Uncrawled(s)' \subseteq Uncrawled(s)
    BY <1>1, <1>2 DEF Uncrawled
  <2>2. \A s \in ScanIds : scan'[s].attempts >= scan[s].attempts
    BY <1>1, ScanIsTyped DEF ScanInv
  <2> QED
    BY <1>2, <2>1, <2>2, CrawlsStayCounted
<1>3. CASE workPc'[w] \in {"crawled", "failing"} /\ crawlCount' = [crawlCount EXCEPT ![a] = @ + 1]
  <2>1. w \in Uncrawled(a) /\ Uncrawled(a)' = Uncrawled(a) \ {w}
    BY <1>0, <1>1, <1>3 DEF Uncrawled
  <2>2. Cardinality(Uncrawled(a))' = Cardinality(Uncrawled(a)) - 1
    BY <2>1, OneFewerUncrawled
  <2>3. \A s \in ScanIds : s # a => Uncrawled(s)' = Uncrawled(s)
    BY <1>0, <1>1, <1>3 DEF Uncrawled
  <2>4. /\ crawlCount' \in [ScanIds -> Nat] /\ crawlCount'[a] = crawlCount[a] + 1
        /\ \A s \in ScanIds : s # a => crawlCount'[s] = crawlCount[s]
    BY <1>0, <1>1, <1>3 DEF CrawlsCounted
  <2> SUFFICES ASSUME NEW s \in ScanIds PROVE crawlCount'[s] + Cardinality(Uncrawled(s))' <= scan'[s].attempts
    BY <2>4 DEF CrawlsCounted
  <2>5. CASE s # a
    BY <1>1, <2>3, <2>4, <2>5 DEF CrawlsCounted
  <2>6. CASE s = a
    <3>1. crawlCount[s] \in Nat /\ scan[s].attempts \in Nat /\ Cardinality(Uncrawled(s)) \in Nat
      BY UncrawledFinite DEF ScanInv, ScansTypeOK, CrawlsCounted
    <3>2. crawlCount[s] + Cardinality(Uncrawled(s)) <= scan[s].attempts
      BY DEF CrawlsCounted
    <3>3. crawlCount'[s] = crawlCount[s] + 1 /\ Cardinality(Uncrawled(s))' = Cardinality(Uncrawled(s)) - 1
      BY <2>2, <2>4, <2>6
    <3> QED
      BY <1>1, <3>1, <3>2, <3>3
  <2> QED
    BY <2>5, <2>6
<1> QED
  BY <1>0, <1>2, <1>3 DEF Crawl, GoTo, ScanInv, ScansTypeOK

LEMMA ClaimCounts ==
  ASSUME ScansOK, ScanInv, ScanInv', CrawlsCounted, NEW w \in ScanWorkers, ClaimScan(w)
  PROVE  CrawlsCounted'
<1>0. PICK a \in ScanIds : a = workAt[w]
  BY DEF ClaimScan, ScanInv, ScanHolders
<1>1. /\ workPc[w] = "chosen" /\ UNCHANGED crawlCount
      /\ crawlCount \in [ScanIds -> Nat]
  BY DEF ClaimScan, ScanInv, ScanHolders, CrawlsCounted
<1>2. CASE Quit(w) /\ UNCHANGED scan
  <2>1. \A s \in ScanIds : Uncrawled(s)' \subseteq Uncrawled(s)
    BY <1>1, <1>2 DEF Uncrawled, Quit, ScanInv, ScansTypeOK
  <2>2. \A s \in ScanIds : scan'[s].attempts >= scan[s].attempts
    BY <1>2, ScanIsTyped DEF ScanInv
  <2> QED
    BY <1>1, <2>1, <2>2, CrawlsStayCounted
<1>3. CASE /\ scan' = [scan EXCEPT ![a] = [status |-> "crawling", attempts |-> @.attempts + 1,
                                           lease |-> w, live |-> TRUE, delayed |-> FALSE]]
           /\ workPc' = [workPc EXCEPT ![w] = "claimed"] /\ UNCHANGED workAt
  <2>1. w \notin Uncrawled(a) /\ Uncrawled(a)' = Uncrawled(a) \cup {w}
    BY <1>0, <1>1, <1>3 DEF Uncrawled, ScanInv, ScansTypeOK
  <2>2. Cardinality(Uncrawled(a))' = Cardinality(Uncrawled(a)) + 1
    BY <2>1, OneMoreUncrawled
  <2>3. \A s \in ScanIds : s # a => Uncrawled(s)' = Uncrawled(s)
    BY <1>0, <1>1, <1>3 DEF Uncrawled, ScanInv, ScansTypeOK
  <2>4. scan'[a].attempts = scan[a].attempts + 1 /\ \A s \in ScanIds : s # a => scan'[s] = scan[s]
    BY <1>1, <1>3 DEF ScanInv, ScansTypeOK
  <2> SUFFICES ASSUME NEW s \in ScanIds PROVE crawlCount[s] + Cardinality(Uncrawled(s))' <= scan'[s].attempts
    BY <1>1 DEF CrawlsCounted
  <2>5. CASE s # a
    BY <2>3, <2>4, <2>5 DEF CrawlsCounted
  <2>6. CASE s = a
    <3>1. crawlCount[s] \in Nat /\ scan[s].attempts \in Nat /\ Cardinality(Uncrawled(s)) \in Nat
      BY UncrawledFinite DEF ScanInv, ScansTypeOK, CrawlsCounted
    <3>2. crawlCount[s] + Cardinality(Uncrawled(s)) <= scan[s].attempts
      BY DEF CrawlsCounted
    <3> QED
      BY <2>2, <2>4, <2>6, <3>1, <3>2
  <2> QED
    BY <2>5, <2>6
<1> QED
  BY <1>0, <1>2, <1>3 DEF ClaimScan

LEMMA DeferCounts ==
  ASSUME ScansOK, ScanInv, ScanInv', CrawlsCounted, NEW w \in ScanWorkers, DeferScan(w)
  PROVE  CrawlsCounted'
<1>0. PICK a \in ScanIds : a = workAt[w]
  BY DEF DeferScan, ScanInv, ScanHolders
<1>1. /\ workPc[w] = "deferring" /\ UNCHANGED crawlCount
      /\ crawlCount \in [ScanIds -> Nat] /\ workPc'[w] = "idle"
      /\ \A v \in ScanWorkers : v # w => workPc'[v] = workPc[v] /\ workAt'[v] = workAt[v]
  BY WorkerQuits DEF DeferScan, ScanInv, ScanHolders, CrawlsCounted
<1>2. w \in Uncrawled(a) /\ Uncrawled(a)' = Uncrawled(a) \ {w}
  BY <1>0, <1>1 DEF Uncrawled
<1>3. Cardinality(Uncrawled(a))' = Cardinality(Uncrawled(a)) - 1
  BY <1>2, OneFewerUncrawled
<1>4. \A s \in ScanIds : s # a => Uncrawled(s)' = Uncrawled(s)
  BY <1>0, <1>1 DEF Uncrawled
<1>5. scan'[a].attempts >= scan[a].attempts - 1 /\ \A s \in ScanIds : s # a => scan'[s] = scan[s]
  BY <1>0, <1>1, ScanIsTyped DEF DeferScan, ScanInv, ScanRecords
<1> SUFFICES ASSUME NEW s \in ScanIds PROVE crawlCount[s] + Cardinality(Uncrawled(s))' <= scan'[s].attempts
  BY <1>1 DEF CrawlsCounted
<1>6. CASE s # a
  BY <1>4, <1>5, <1>6 DEF CrawlsCounted
<1>7. CASE s = a
  <2>1. /\ crawlCount[s] \in Nat /\ scan[s].attempts \in Nat /\ scan'[s].attempts \in Nat
        /\ Cardinality(Uncrawled(s)) \in Nat
    BY UncrawledFinite DEF ScanInv, ScansTypeOK, CrawlsCounted
  <2>2. crawlCount[s] + Cardinality(Uncrawled(s)) <= scan[s].attempts
    BY DEF CrawlsCounted
  <2> QED
    BY <1>3, <1>5, <1>7, <2>1, <2>2
<1> QED
  BY <1>6, <1>7

LEMMA OthersCount ==
  ASSUME ScansOK, ScanInv, ScanInv', CrawlsCounted,
         \/ \E s \in ScanIds : CreateScan(s) \/ ScanDeadline(s)
         \/ \E w \in ScanWorkers :
              \/ \E s \in ScanIds : Choose(w, s)
              \/ MarkScanAnalysing(w) \/ PersistScan(w) \/ PersistFails(w) \/ MarkScanFailed(w)
              \/ RenewScan(w) \/ ScanWorkerDies(w)
  PROVE  CrawlsCounted'
<1>1. UNCHANGED crawlCount
  BY DEF CreateScan, ScanDeadline, Choose, MarkScanAnalysing, PersistScan, PersistFails, MarkScanFailed,
     RenewScan, ScanWorkerDies
<1>2. \A s \in ScanIds : Uncrawled(s)' \subseteq Uncrawled(s)
  <2>1. \A w \in ScanWorkers :
          \/ workPc'[w] = workPc[w] /\ workAt'[w] = workAt[w]
          \/ workPc'[w] \notin {"claimed", "deferring"}
    <3>0. /\ workPc \in [ScanWorkers -> {"idle", "chosen", "claimed", "crawled", "persist", "failing", "deferring"}]
          /\ DOMAIN workAt = ScanWorkers
      BY DEF ScanInv, ScansTypeOK
    <3>1. ASSUME NEW v \in ScanWorkers,
                 MarkScanAnalysing(v) \/ PersistScan(v) \/ PersistFails(v) \/ MarkScanFailed(v) \/ ScanWorkerDies(v)
          PROVE  /\ \A w \in ScanWorkers \ {v} : workPc'[w] = workPc[w] /\ workAt'[w] = workAt[w]
                 /\ workPc'[v] \in {"persist", "failing", "idle"}
      <4> DEFINE OnlyItsOwn == /\ \A w \in ScanWorkers \ {v} : workPc'[w] = workPc[w] /\ workAt'[w] = workAt[w]
                               /\ workPc'[v] \in {"persist", "failing", "idle"}
      <4>1. \/ Quit(v)
            \/ GoTo(v, "persist")
            \/ GoTo(v, "failing")
        BY <3>1 DEF MarkScanAnalysing, PersistScan, PersistFails, MarkScanFailed, ScanWorkerDies
      <4>2. ASSUME Quit(v) PROVE OnlyItsOwn
        BY <3>0, <4>2 DEF Quit
      <4>3. ASSUME NEW stage \in {"persist", "failing"}, GoTo(v, stage) PROVE OnlyItsOwn
        BY <3>0, <4>3 DEF GoTo
      <4> QED
        BY <4>1, <4>2, <4>3
    <3>2. ASSUME NEW v \in ScanWorkers, NEW s \in ScanIds, Choose(v, s)
          PROVE  /\ \A w \in ScanWorkers \ {v} : workPc'[w] = workPc[w] /\ workAt'[w] = workAt[w]
                 /\ workPc'[v] = "chosen"
      BY <3>0, <3>2 DEF Choose
    <3>3. ASSUME \/ \E s \in ScanIds : CreateScan(s) \/ ScanDeadline(s)
                 \/ \E v \in ScanWorkers : RenewScan(v)
          PROVE  UNCHANGED <<workPc, workAt>>
      BY <3>3 DEF CreateScan, ScanDeadline, RenewScan
    <3> QED
      BY <3>1, <3>2, <3>3
  <2> QED
    BY <2>1 DEF Uncrawled
<1>3. \A s \in ScanIds : scan'[s].attempts >= scan[s].attempts
  <2>0. \A s \in ScanIds : scan[s] \in ScanRecords /\ scan[s].attempts \in Nat
    BY ScanIsTyped DEF ScanInv
  <2>1. ASSUME NEW s \in ScanIds, CreateScan(s) PROVE \A t \in ScanIds : scan'[t].attempts = scan[t].attempts
    BY <2>0, <2>1, ScanIsTyped DEF ScanInv, CreateScan, Created, NewScan, ScanRecords
  <2>2. ASSUME NEW s \in ScanIds, ScanDeadline(s) PROVE \A t \in ScanIds : scan'[t].attempts = scan[t].attempts
    BY <2>0, <2>2, ScanIsTyped DEF ScanInv, ScanDeadline, ScanRecords
  <2>3. ASSUME NEW w \in ScanWorkers, (\E s \in ScanIds : Choose(w, s)) \/ PersistFails(w) \/ ScanWorkerDies(w)
        PROVE \A t \in ScanIds : scan'[t].attempts = scan[t].attempts
    BY <2>3 DEF Choose, PersistFails, ScanWorkerDies
  <2>4. ASSUME NEW w \in ScanWorkers, MarkScanAnalysing(w) \/ PersistScan(w) \/ MarkScanFailed(w) \/ RenewScan(w)
        PROVE \A t \in ScanIds : scan'[t].attempts = scan[t].attempts
    <3>1. workAt[w] \in ScanIds
      BY <2>4 DEF ScanInv, ScanHolders, MarkScanAnalysing, PersistScan, MarkScanFailed, RenewScan
    <3>2. /\ scan[workAt[w]] \in ScanRecords /\ scan \in [ScanIds -> ScanRecords]
          /\ UNCHANGED scan => \A t \in ScanIds : scan'[t].attempts = scan[t].attempts
      BY <3>1, ScanIsTyped DEF ScanInv
    <3>3. CASE scan' = [scan EXCEPT ![workAt[w]].status = "analysing"]
      BY <3>1, <3>2, <3>3 DEF ScanRecords
    <3>4. CASE scan' = [scan EXCEPT ![workAt[w]].status = "completed", ![workAt[w]].lease = NoWorker,
                                    ![workAt[w]].live = FALSE, ![workAt[w]].delayed = FALSE]
      BY <3>1, <3>2, <3>4 DEF ScanRecords
    <3>5. ASSUME NEW retry, scan' = [scan EXCEPT ![workAt[w]].status = IF retry THEN "queued" ELSE "failed",
                                    ![workAt[w]].lease = NoWorker, ![workAt[w]].live = FALSE,
                                    ![workAt[w]].delayed = retry]
          PROVE  \A t \in ScanIds : scan'[t].attempts = scan[t].attempts
      BY <3>1, <3>2, <3>5 DEF ScanRecords
    <3>6. CASE scan' = [scan EXCEPT ![workAt[w]].live = TRUE]
      BY <3>1, <3>2, <3>6 DEF ScanRecords
    <3> QED
      BY <2>4, <3>2, <3>3, <3>4, <3>5, <3>6 DEF MarkScanAnalysing, PersistScan, RenewScan, MarkScanFailed
  <2>5. \A t \in ScanIds : scan'[t].attempts = scan[t].attempts
    BY <2>1, <2>2, <2>3, <2>4
  <2> QED
    BY <2>0, <2>5
<1> QED
  BY <1>1, <1>2, <1>3, CrawlsStayCounted

LEMMA CrawlsStep ==
  ASSUME ScansOK, ScanInv, CrawlsCounted, [ScansNext]_scanVars PROVE CrawlsCounted'
<1>1. ScanInv'
  BY ScansStep
<1>2. CASE UNCHANGED scanVars
  BY <1>2 DEF scanVars, CrawlsCounted, Uncrawled
<1>3. CASE ScansNext
  BY <1>1, <1>3, ClaimCounts, CrawlCounts, DeferCounts, OthersCount DEF ScansNext
<1> QED
  BY <1>2, <1>3

\* No target is crawled more often than a scan has attempts: an attempt that is given back
\* did not crawl, even if its invocation dies, or has lost its lease, before it gives back.
THEOREM CrawlsAreBounded ==
  ASSUME ScansOK PROVE ScansSpec => []ScanCrawlsBounded
<1>1. ScansInit => CrawlsCounted
  <2> SUFFICES ASSUME ScansInit PROVE CrawlsCounted
    OBVIOUS
  <2>1. \A s \in ScanIds : Uncrawled(s) = {}
    BY DEF ScansInit, Uncrawled
  <2> QED
    <3>1. \A s \in ScanIds : crawlCount[s] = 0 /\ Cardinality(Uncrawled(s)) = 0 /\ scan[s].attempts = 0
      BY <2>1, FS_EmptySet DEF ScansInit, NewScan
    <3>2. crawlCount \in [ScanIds -> Nat]
      BY DEF ScansInit
    <3> QED
      BY <3>1, <3>2 DEF CrawlsCounted
<1>2. ScanInv /\ CrawlsCounted => ScanCrawlsBounded
  <2> SUFFICES ASSUME ScanInv, CrawlsCounted, NEW s \in ScanIds PROVE crawlCount[s] <= MaxScanAttempts
    BY DEF ScanCrawlsBounded
  <2>1. /\ Cardinality(Uncrawled(s)) \in Nat /\ crawlCount[s] \in Nat
        /\ scan[s].attempts \in 0..MaxScanAttempts /\ MaxScanAttempts \in Nat
    BY UncrawledFinite, ScanIsTyped DEF ScanInv, CrawlsCounted, ScansOK
  <2> QED
    BY <2>1 DEF CrawlsCounted
<1> QED
  BY <1>1, <1>2, ScansStart, ScansStep, CrawlsStep, PTL DEF ScansSpec

-----------------------------------------------------------------------------
(***************************************************************************)
(* Legacy scans: refinement of the abstract queue                          *)
(***************************************************************************)
ScanPhase(s) == IF scan[s].status \in {"queued"} \cup ScanRunning THEN "open" ELSE scan[s].status
ScanKey(s) == IF scan[s].status = "none" THEN NoScan ELSE s
scanPhaseBar == [s \in ScanIds |-> ScanPhase(s)]
scanKeyBar == [s \in ScanIds |-> ScanKey(s)]
ScanMapped == ScanQueue!Next \/ UNCHANGED <<scanPhaseBar, scanKeyBar>>

\* A step that leaves the caller's view of every scan alone.
LEMMA ScanQueueStutters ==
  ASSUME \A s \in ScanIds : ScanPhase(s)' = ScanPhase(s) /\ ScanKey(s)' = ScanKey(s)
  PROVE  ScanMapped
BY DEF ScanMapped, scanPhaseBar, scanKeyBar

\* A scan changes its status from one that is open to another.
LEMMA ScanStaysOpen ==
  ASSUME ScanInv, ScanInv', NEW s \in ScanIds,
         scan[s].status \in {"queued"} \cup ScanRunning, scan'[s].status \in {"queued"} \cup ScanRunning,
         \A t \in ScanIds : t # s => scan'[t] = scan[t]
  PROVE  ScanMapped
<1>1. \A t \in ScanIds : ScanPhase(t)' = ScanPhase(t) /\ ScanKey(t)' = ScanKey(t)
  BY DEF ScanPhase, ScanKey, ScanRunning
<1> QED
  BY <1>1, ScanQueueStutters

LEMMA ScanEnds ==
  ASSUME ScanInv, ScanInv', NEW s \in ScanIds, NEW outcome \in {"completed", "failed"},
         scan[s].status \in ScanRunning, scan'[s].status = outcome,
         \A t \in ScanIds : t # s => scan'[t] = scan[t]
  PROVE  ScanMapped
<1>1. /\ ScanPhase(s) = "open" /\ ScanPhase(s)' = outcome /\ ScanKey(s)' = ScanKey(s)
      /\ \A t \in ScanIds : t # s => ScanPhase(t)' = ScanPhase(t) /\ ScanKey(t)' = ScanKey(t)
  BY DEF ScanPhase, ScanKey, ScanRunning
<1>2. scanPhaseBar' = [scanPhaseBar EXCEPT ![s] = outcome] /\ scanKeyBar' = scanKeyBar
  BY <1>1 DEF scanPhaseBar, scanKeyBar
<1>3. scanPhaseBar[s] = "open"
  BY <1>1 DEF scanPhaseBar
<1>4. ScanQueue!End(s, outcome)
  BY <1>2, <1>3 DEF ScanQueue!End, scanPhaseBar, scanKeyBar, ScanPhase, ScanKey
<1> QED
  BY <1>4 DEF ScanMapped, ScanQueue!Next

LEMMA ScanEnters ==
  ASSUME ScansOK, ScanInv, ScanInv', NEW s \in ScanIds, CreateScan(s)
  PROVE  ScanMapped
<1>1. /\ scan[s].status = "none" /\ scan'[s].status = "queued"
      /\ \A t \in ScanIds : t # s => scan'[t] = scan[t]
  BY DEF CreateScan, NewScan, Created, ScanInv, ScansTypeOK
<1>2. /\ ScanPhase(s) = "none" /\ ScanPhase(s)' = "open" /\ ScanKey(s)' = s
      /\ \A t \in ScanIds : t # s => ScanPhase(t)' = ScanPhase(t) /\ ScanKey(t)' = ScanKey(t)
  BY <1>1 DEF ScanPhase, ScanKey, ScanRunning
<1>3. /\ scanPhaseBar' = [scanPhaseBar EXCEPT ![s] = "open"] /\ scanKeyBar' = [scanKeyBar EXCEPT ![s] = s]
      /\ scanPhaseBar[s] = "none"
  BY <1>2 DEF scanPhaseBar, scanKeyBar
<1>4. ScanQueue!Open = {t \in ScanIds : scanPhaseBar[t] = "open"}
  BY DEF ScanQueue!Open, scanPhaseBar, ScanPhase
<1>5. Cardinality(ScanQueue!Open) < Cardinality(ScanIds)
  <2>1. ScanQueue!Open \subseteq ScanIds \ {s}
    BY <1>3, <1>4
  <2>2. IsFiniteSet(ScanIds) /\ IsFiniteSet(ScanIds \ {s}) /\ Cardinality(ScanIds \ {s}) = Cardinality(ScanIds) - 1
    BY FS_RemoveElement DEF ScansOK
  <2>3. Cardinality(ScanQueue!Open) <= Cardinality(ScanIds \ {s})
    BY <2>1, <2>2, FS_Subset
  <2> QED
    BY <2>1, <2>2, <2>3, FS_Subset, FS_CardinalityType
<1>6. ScanQueue!Cardinality(ScanQueue!Open) = Cardinality(ScanQueue!Open)
  BY DEF ScanQueue!Cardinality, Cardinality
<1>7. \A t \in ScanQueue!Open : scanKeyBar[t] # s
  BY <1>1, <1>3, <1>4 DEF scanKeyBar, scanPhaseBar, ScanKey, ScanPhase, ScansOK, ScanRunning
<1>8. ScanQueue!Enter(s, s) <=>
        /\ scanPhaseBar[s] = "none"
        /\ ScanQueue!Cardinality(ScanQueue!Open) < Cardinality(ScanIds)
        /\ \A t \in ScanQueue!Open : scanKeyBar[t] # s
        /\ scanPhaseBar' = [scanPhaseBar EXCEPT ![s] = "open"]
        /\ scanKeyBar' = [scanKeyBar EXCEPT ![s] = s]
  BY Zenon DEF ScanQueue!Enter, scanPhaseBar, scanKeyBar, ScanPhase, ScanKey
<1>9. ScanQueue!Enter(s, s)
  BY <1>3, <1>5, <1>6, <1>7, <1>8
<1> QED
  BY <1>9 DEF ScanMapped, ScanQueue!Next

\* An update of the scan an invocation owns.
LEMMA OwnedScanMapped ==
  ASSUME ScansOK, ScanInv, ScanInv', NEW w \in ScanWorkers, workPc[w] # "idle", OwnScan(w),
         \A t \in ScanIds : t # workAt[w] => scan'[t] = scan[t],
         scan'[workAt[w]].status \in {"queued", "completed", "failed"} \cup ScanRunning
  PROVE  ScanMapped
<1>1. workAt[w] \in ScanIds /\ scan[workAt[w]].status \in ScanRunning
  BY OwnedScan
<1>2. PICK s \in ScanIds : s = workAt[w]
  BY <1>1
<1>3. CASE scan'[s].status \in {"queued"} \cup ScanRunning
  BY <1>1, <1>2, <1>3, ScanStaysOpen
<1>4. CASE scan'[s].status \in {"completed", "failed"}
  BY <1>1, <1>2, <1>4, ScanEnds
<1> QED
  BY <1>2, <1>3, <1>4

LEMMA ScanUnchangedMapped ==
  ASSUME UNCHANGED scan PROVE ScanMapped
BY ScanQueueStutters DEF ScanPhase, ScanKey

LEMMA ScanMappedStep ==
  ASSUME ScansOK, ScanInv, [ScansNext]_scanVars PROVE ScanMapped
<1>0. ScanInv' /\ scan \in [ScanIds -> ScanRecords] /\ \A s \in ScanIds : scan[s] \in ScanRecords
  BY ScansStep, ScanIsTyped DEF ScanInv, ScansTypeOK, ScanRecords, ScanStatuses
<1>1. CASE UNCHANGED scan
  BY <1>1, ScanUnchangedMapped
<1>2. ASSUME NEW s \in ScanIds, ScanDeadline(s) PROVE ScanMapped
  <2>1. \A t \in ScanIds : scan'[t].status = scan[t].status
    BY <1>0, <1>2 DEF ScanDeadline, ScanRecords
  <2> QED
    BY <2>1, ScanQueueStutters DEF ScanPhase, ScanKey
<1>3. ASSUME NEW w \in ScanWorkers, ClaimScan(w) PROVE ScanMapped
  <2>1. PICK s \in ScanIds : s = workAt[w]
    BY <1>3 DEF ClaimScan, ScanInv, ScanHolders
  <2>2. CASE ScanClaimable(s) /\ scan' = [scan EXCEPT ![s] = [status |-> "crawling", attempts |-> @.attempts + 1,
                                             lease |-> w, live |-> TRUE, delayed |-> FALSE]]
    <3>1. scan'[s].status = "crawling" /\ \A t \in ScanIds : t # s => scan'[t] = scan[t]
      BY <1>0, <2>2
    <3> QED
      BY <1>0, <2>2, <3>1, ScanStaysOpen DEF ScanClaimable, ScanRunning
  <2> QED
    BY <1>1, <1>3, <2>1, <2>2 DEF ClaimScan
<1>4. ASSUME NEW w \in ScanWorkers,
             MarkScanAnalysing(w) \/ PersistScan(w) \/ MarkScanFailed(w) \/ DeferScan(w) \/ RenewScan(w),
             ~UNCHANGED scan
      PROVE  ScanMapped
  <2>1. workPc[w] # "idle" /\ OwnScan(w)
    BY <1>4 DEF MarkScanAnalysing, PersistScan, Fenced, LeaseRuns, MarkScanFailed, DeferScan, RenewScan, OwnScan
  <2>2. workAt[w] \in ScanIds /\ scan[workAt[w]] \in ScanRecords /\ scan[workAt[w]].status \in ScanRunning
    BY <2>1, OwnedScan
  <2>3. \A t \in ScanIds : t # workAt[w] => scan'[t] = scan[t]
    BY <1>0, <1>4 DEF MarkScanAnalysing, PersistScan, MarkScanFailed, DeferScan, RenewScan
  <2>4. scan'[workAt[w]].status \in {"queued", "completed", "failed"} \cup ScanRunning
    <3>1. CASE MarkScanAnalysing(w)
      BY <1>0, <1>4, <2>2, <3>1 DEF MarkScanAnalysing, ScanRecords, ScanRunning
    <3>2. CASE PersistScan(w)
      BY <1>0, <2>2, <3>2 DEF PersistScan, ScanRecords
    <3>3. CASE MarkScanFailed(w)
      BY <1>0, <1>4, <2>2, <3>3 DEF MarkScanFailed, ScanRecords
    <3>4. CASE DeferScan(w)
      BY <1>0, <1>4, <2>2, <3>4 DEF DeferScan, ScanRecords
    <3>5. CASE RenewScan(w)
      BY <1>0, <2>2, <3>5 DEF RenewScan, ScanRecords
    <3> QED
      BY <1>4, <3>1, <3>2, <3>3, <3>4, <3>5
  <2> QED
    BY <1>0, <2>1, <2>3, <2>4, OwnedScanMapped
<1>5. ASSUME NEW w \in ScanWorkers,
             (\E s \in ScanIds : Choose(w, s)) \/ Crawl(w) \/ PersistFails(w) \/ ScanWorkerDies(w)
      PROVE  ScanMapped
  BY <1>1, <1>5 DEF Choose, Crawl, PersistFails, ScanWorkerDies
<1> QED
  BY <1>0, <1>1, <1>2, <1>3, <1>4, <1>5, ScanEnters DEF ScansNext, scanVars

\* To its callers the collection of scans is the abstract queue, without a limit: a scan
\* enters once and ends once, and attempts, leases and retries in between are not seen.
THEOREM ScansAreAQueue ==
  ASSUME ScansOK PROVE ScansSpec => ScansImplementQueue
<1>1. ScansInit => ScanQueue!Init
  <2> SUFFICES ASSUME ScansInit PROVE ScanQueue!Init
    OBVIOUS
  <2>1. \A s \in ScanIds : scan[s].status = "none"
    BY DEF ScansInit, NewScan
  <2> QED
    BY <2>1 DEF ScanQueue!Init, ScanRunning
<1>2. ScanInv /\ [ScansNext]_scanVars => [ScanQueue!Next]_<<scanPhaseBar, scanKeyBar>>
  BY ScanMappedStep DEF ScanMapped
<1> QED
  BY <1>1, <1>2, ScansAlways, PTL
  DEF ScansSpec, ScansImplementQueue, ScanQueue!Spec, scanPhaseBar, scanKeyBar, ScanPhase, ScanKey

-----------------------------------------------------------------------------
(***************************************************************************)
(* Immediate slots                                                         *)
(***************************************************************************)
\* A slot's lease outlives the invocation that runs under it, by the time for which the
\* invocation has run less than its lease; so no two invocations run under one slot.
HeldSlots ==
  /\ \A d \in Dispatches : Busy(d) => /\ index[d] \in Slots
                                      /\ left[index[d]] + age[d] >= SlotLease
  /\ \A d \in Dispatches : ~Busy(d) => age[d] = 0
  /\ \A d, e \in Dispatches : Busy(d) /\ Busy(e) /\ d # e => index[d] # index[e]

SlotsInv == SlotsTypeOK /\ HeldSlots

LEMMA SlotsStart ==
  ASSUME SlotsOK, SlotsInit PROVE SlotsInv
BY DEF SlotsOK, SlotsInit, SlotsInv, SlotsTypeOK, HeldSlots, Busy, Slots

LEMMA SlotNumbers ==
  ASSUME SlotsOK
  PROVE  /\ SlotCount \in Nat /\ SlotLease \in Nat /\ Duration \in Nat
         /\ SlotCount > 0 /\ Duration > 0 /\ Duration < SlotLease
BY DEF SlotsOK

\* An invocation that ends leaves its slot to the lease, or frees it: no other runs there.
LEMMA DispatchGone ==
  ASSUME SlotsOK, SlotsInv, NEW d \in Dispatches, Gone(d),
         \/ UNCHANGED <<slotJob, left>>
         \/ /\ Busy(d) /\ slotJob' = [slotJob EXCEPT ![index[d]] = NoDispatch]
            /\ left' = [left EXCEPT ![index[d]] = 0]
  PROVE  SlotsInv'
<1>1. SlotsTypeOK'
  BY SlotNumbers DEF SlotsInv, SlotsTypeOK, Gone, HeldSlots
<1>2. /\ dispPc'[d] = "idle" /\ age'[d] = 0
      /\ \A e \in Dispatches : e # d => dispPc'[e] = dispPc[e] /\ index'[e] = index[e] /\ age'[e] = age[e]
  BY DEF SlotsInv, SlotsTypeOK, Gone
<1>3. \A e \in Dispatches : e # d /\ Busy(e) => left'[index[e]] = left[index[e]]
  BY DEF SlotsInv, SlotsTypeOK, HeldSlots
<1> QED
  BY <1>1, <1>2, <1>3 DEF SlotsInv, HeldSlots, Busy

LEMMA SlotIsTaken ==
  ASSUME SlotsOK, SlotsInv, NEW d \in Dispatches, TakeSlot(d) PROVE SlotsInv'
<1>1. SlotsTypeOK'
  BY SlotNumbers DEF SlotsInv, SlotsTypeOK, TakeSlot
<1>2. /\ dispPc[d] = "asking" /\ index[d] \in Slots /\ left[index[d]] = 0 /\ age[d] = 0
      /\ dispPc'[d] = "running" /\ left'[index[d]] = SlotLease /\ UNCHANGED <<index, age>>
      /\ \A e \in Dispatches : e # d => dispPc'[e] = dispPc[e]
      /\ \A s \in Slots : s # index[d] => left'[s] = left[s]
  BY DEF SlotsInv, SlotsTypeOK, TakeSlot, HeldSlots, Busy, SlotFree
<1>3. \A e \in Dispatches : Busy(e) => index[e] # index[d]
  BY <1>2, SlotNumbers DEF SlotsInv, SlotsTypeOK, HeldSlots
<1> QED
  BY <1>1, <1>2, <1>3, SlotNumbers DEF SlotsInv, HeldSlots, Busy

LEMMA SlotsTickKeeps ==
  ASSUME SlotsOK, SlotsInv, SlotTick PROVE SlotsInv'
<1>0. /\ \A s \in Slots : left[s] \in 0..SlotLease /\ left'[s] = IF left[s] = 0 THEN 0 ELSE left[s] - 1
      /\ \A d \in Dispatches : age[d] \in 0..Duration /\ age'[d] = IF Busy(d) THEN age[d] + 1 ELSE 0
      /\ \A d \in Dispatches : Busy(d) => age[d] < Duration
      /\ \A d \in Dispatches : Busy(d)' <=> Busy(d)
  BY DEF SlotsInv, SlotsTypeOK, SlotTick, Busy
<1>1. SlotsTypeOK'
  <2>1. \A s \in Slots : left'[s] \in 0..SlotLease
    BY <1>0, SlotNumbers
  <2>2. \A d \in Dispatches : age'[d] \in 0..Duration
    BY <1>0, SlotNumbers
  <2> QED
    BY <2>1, <2>2 DEF SlotsInv, SlotsTypeOK, SlotTick
<1>2. \A d \in Dispatches : Busy(d) => index[d] \in Slots /\ left'[index[d]] + age'[d] >= SlotLease
  BY <1>0, SlotNumbers DEF SlotsInv, HeldSlots
<1> QED
  BY <1>0, <1>1, <1>2 DEF SlotsInv, HeldSlots, SlotTick, Busy

LEMMA SlotsStep ==
  ASSUME SlotsOK, SlotsInv, [SlotsNext]_slotVars PROVE SlotsInv'
<1>1. CASE UNCHANGED slotVars
  BY <1>1 DEF slotVars, SlotsInv, SlotsTypeOK, HeldSlots, Busy
<1>2. ASSUME NEW d \in Dispatches, NEW j \in SlotJobs, Dispatch(d, j) PROVE SlotsInv'
  BY <1>2, SlotNumbers DEF Dispatch, SlotsInv, SlotsTypeOK, HeldSlots, Busy
<1>3. ASSUME NEW d \in Dispatches, SlotTaken(d) PROVE SlotsInv'
  BY <1>3, SlotNumbers, SMTT(30) DEF SlotTaken, SlotsInv, SlotsTypeOK, HeldSlots, Busy, Slots
<1>4. ASSUME NEW d \in Dispatches, CapacityFull(d) \/ Dies(d) \/ Release(d) PROVE SlotsInv'
  BY <1>4, DispatchGone DEF CapacityFull, Dies, Release, Busy
<1>5. ASSUME NEW d \in Dispatches, AuditEnds(d) PROVE SlotsInv'
  BY <1>5 DEF AuditEnds, SlotsInv, SlotsTypeOK, HeldSlots, Busy
<1> QED
  BY <1>1, <1>2, <1>3, <1>4, <1>5, SlotIsTaken, SlotsTickKeeps DEF SlotsNext

\* Distinct slots for all that run: there are no more of them than slots.
LEMMA RunningFitSlots ==
  ASSUME SlotsOK, SlotsInv PROVE SlotLimit
<1> DEFINE R == {d \in Dispatches : dispPc[d] = "running"}
           f == [d \in R |-> index[d]]
<1>1. \A d \in R : index[d] \in 1..SlotCount
  BY DEF SlotsInv, HeldSlots, Busy, Slots
<1>2. \A d, e \in R : index[d] = index[e] => d = e
  BY DEF SlotsInv, HeldSlots, Busy
<1>3. f \in [R -> 1..SlotCount] /\ \A d, e \in R : f[d] = f[e] => d = e
  BY <1>1, <1>2
<1> HIDE DEF f, R
<1>4. f \in Injection(R, 1..SlotCount)
  BY <1>3 DEF Injection, IsInjective
<1>5. IsFiniteSet(1..SlotCount) /\ Cardinality(1..SlotCount) = SlotCount
  BY FS_Interval, SlotNumbers
<1>6. Cardinality(R) <= SlotCount
  BY <1>4, <1>5, FS_Injection
<1> QED
  BY <1>6 DEF SlotLimit, R

\* No more immediate audits run at a time than there are slots, for any number of
\* invocations and slots, because a lease lasts longer than the platform lets an
\* invocation run.
THEOREM SlotsLimitAudits ==
  ASSUME SlotsOK PROVE SlotsSpec => []SlotLimit
BY SlotsStart, SlotsStep, RunningFitSlots, PTL DEF SlotsSpec

-----------------------------------------------------------------------------
(***************************************************************************)
(* The history of issues                                                   *)
(***************************************************************************)
\* While an audit publishes, the active records are those of its snapshot but for the ones
\* that users have resolved since.
SnapshotHolds ==
  auditPc = "publishing" =>
    /\ Active \subseteq activeSeen /\ activeSeen \ touched \subseteq Active
    /\ Active \cap touched = {}

RecordsTyped ==
  /\ history \in [IssueKeys -> [status: {"none", "active", "resolved"},
                                events: Seq({"detected", "reoccurred", "resolved"})]]
  /\ audit \in [found: SUBSET IssueKeys, complete: BOOLEAN]
  /\ auditPc \in {"idle", "observed", "publishing"}
  /\ activeSeen \subseteq IssueKeys /\ touched \subseteq IssueKeys
  /\ \A k \in activeSeen : history[k].status # "none"

\* The status is that of the last event; a reoccurrence follows a resolution.
TrueRecord(h) ==
  h.status # "none" =>
    /\ Len(h.events) > 0
    /\ h.status = "resolved" <=> h.events[Len(h.events)] = "resolved"
    /\ \A i \in 2..Len(h.events) : h.events[i] = "reoccurred" => h.events[i - 1] = "resolved"

IssuesInv ==
  /\ RecordsTyped /\ SnapshotHolds /\ ActiveAsReported
  /\ \A k \in IssueKeys : TrueRecord(history[k])

Kinds == {"detected", "reoccurred", "resolved"}

\* What $slice keeps: the new event last, after events that were adjacent before.
LEMMA LogKeepsTheLatest ==
  ASSUME LifecycleOK, NEW events \in Seq(Kinds), NEW e \in Kinds
  PROVE  /\ Log(events, e) \in Seq(Kinds) /\ Len(Log(events, e)) > 0
         /\ Log(events, e)[Len(Log(events, e))] = e
         /\ \A i \in 2..Len(Log(events, e)) :
              \/ i = Len(Log(events, e)) /\ Len(events) > 0 /\ Log(events, e)[i - 1] = events[Len(events)]
              \/ \E j \in 2..Len(events) : /\ Log(events, e)[i] = events[j]
                                           /\ Log(events, e)[i - 1] = events[j - 1]
<1> DEFINE all == Append(events, e)
           from == IF Len(all) > EventLimit THEN Len(all) - EventLimit + 1 ELSE 1
           kept == SubSeq(all, from, Len(all))
<1>1. EventLimit \in Nat /\ EventLimit > 0
  BY DEF LifecycleOK
<1>2. /\ all \in Seq(Kinds) /\ Len(all) = Len(events) + 1 /\ Len(events) \in Nat
      /\ all[Len(all)] = e /\ \A i \in 1..Len(events) : all[i] = events[i]
  OBVIOUS
<1>3. from \in 1..Len(all)
  BY <1>1, <1>2
<1> HIDE DEF all, from
<1>4. /\ kept \in Seq(Kinds) /\ Len(kept) = Len(all) - from + 1
      /\ \A i \in 1..Len(kept) : kept[i] = all[from + i - 1]
  BY <1>2, <1>3
<1> HIDE DEF kept
<1>5. Len(kept) > 0 /\ kept[Len(kept)] = e
  BY <1>2, <1>3, <1>4
<1>6. ASSUME NEW i \in 2..Len(kept)
      PROVE  \/ i = Len(kept) /\ Len(events) > 0 /\ kept[i - 1] = events[Len(events)]
             \/ \E j \in 2..Len(events) : kept[i] = events[j] /\ kept[i - 1] = events[j - 1]
  <2>0. from \in Nat /\ from > 0 /\ i \in Nat /\ i > 1 /\ Len(events) \in Nat
    BY <1>2, <1>3
  <2>9. Len(kept) \in Nat /\ Len(kept) = Len(all) - from + 1 /\ Len(all) = Len(events) + 1 /\ i <= Len(kept)
    BY <1>2, <1>4
  <2>1. /\ i \in 1..Len(kept) /\ i - 1 \in 1..Len(kept) /\ from + i - 1 \in 2..Len(all)
        /\ from + i - 2 \in 1..Len(events)
    BY <2>0, <2>9
  <2>2. kept[i] = all[from + i - 1] /\ kept[i - 1] = all[from + i - 2]
    <3>1. kept[i] = all[from + i - 1] /\ kept[i - 1] = all[from + (i - 1) - 1]
      BY <1>4, <2>1
    <3>2. from + (i - 1) - 1 = from + i - 2
      BY <2>0
    <3> QED
      BY <3>1, <3>2
  <2>3. all[from + i - 2] = events[from + i - 2]
    BY <1>2, <2>1
  <2>4. CASE i = Len(kept)
    BY <1>2, <1>3, <1>4, <2>1, <2>2, <2>3, <2>4
  <2>5. CASE i # Len(kept)
    <3>1. from + i - 1 \in 2..Len(events) /\ (from + i - 1) - 1 = from + i - 2
      <4>1. (from + i - 1) - 1 = from + i - 2
        BY <2>0
      <4>2. i < Len(kept) /\ Len(kept) = Len(all) - from + 1 /\ Len(all) = Len(events) + 1
        BY <1>2, <1>4, <2>1, <2>5
      <4>3. from + i - 1 <= Len(events) /\ from + i - 1 \in Int /\ from + i - 1 >= 2
        BY <1>2, <2>0, <2>1, <4>2
      <4> QED
        BY <4>1, <4>3
    <3>2. all[from + i - 1] = events[from + i - 1]
      BY <1>2, <3>1
    <3> QED
      BY <2>2, <2>3, <3>1, <3>2
  <2> QED
    BY <2>4, <2>5
<1>7. Log(events, e) = kept
  BY DEF Log, kept, all, from
<1> QED
  BY <1>4, <1>5, <1>6, <1>7

HistoryRecords == [status: {"none", "active", "resolved"}, events: Seq(Kinds)]

LEMMA RecordIsTyped ==
  ASSUME RecordsTyped, NEW k \in IssueKeys
  PROVE  /\ history[k] \in HistoryRecords /\ history[k].status \in {"none", "active", "resolved"}
         /\ history[k].events \in Seq(Kinds)
BY DEF RecordsTyped, HistoryRecords, Kinds

\* A reoccurrence is logged after a resolution, a resolution after anything.
LEMMA LoggedIsTrue ==
  ASSUME LifecycleOK, NEW h \in HistoryRecords, TrueRecord(h), h.status # "none",
         NEW n \in HistoryRecords,
         \/ n = [status |-> "active", events |-> Log(h.events, "reoccurred")] /\ h.status = "resolved"
         \/ n = [status |-> "resolved", events |-> Log(h.events, "resolved")]
  PROVE  TrueRecord(n)
<1>1. h.events \in Seq(Kinds) /\ Len(h.events) > 0
  BY DEF HistoryRecords, TrueRecord
<1>2. PICK e \in {"reoccurred", "resolved"} :
        /\ n.events = Log(h.events, e) /\ n.status = (IF e = "resolved" THEN "resolved" ELSE "active")
        /\ e = "reoccurred" => h.events[Len(h.events)] = "resolved"
  BY DEF TrueRecord
<1>3. /\ n.events \in Seq(Kinds) /\ Len(n.events) > 0 /\ n.events[Len(n.events)] = e
      /\ \A i \in 2..Len(n.events) :
           \/ i = Len(n.events) /\ Len(h.events) > 0 /\ n.events[i - 1] = h.events[Len(h.events)]
           \/ \E j \in 2..Len(h.events) : /\ n.events[i] = h.events[j]
                                          /\ n.events[i - 1] = h.events[j - 1]
  <2>1. e \in Kinds
    BY DEF Kinds
  <2>2. /\ Log(h.events, e) \in Seq(Kinds) /\ Len(Log(h.events, e)) > 0
        /\ Log(h.events, e)[Len(Log(h.events, e))] = e
        /\ \A i \in 2..Len(Log(h.events, e)) :
             \/ /\ i = Len(Log(h.events, e)) /\ Len(h.events) > 0
                /\ Log(h.events, e)[i - 1] = h.events[Len(h.events)]
             \/ \E j \in 2..Len(h.events) : /\ Log(h.events, e)[i] = h.events[j]
                                            /\ Log(h.events, e)[i - 1] = h.events[j - 1]
    BY <1>1, <2>1, LogKeepsTheLatest
  <2> QED
    BY <1>2, <2>2
<1>4. ASSUME NEW i \in 2..Len(n.events), n.events[i] = "reoccurred" PROVE n.events[i - 1] = "resolved"
  BY <1>2, <1>3, <1>4 DEF TrueRecord
<1> QED
  BY <1>2, <1>3, <1>4 DEF TrueRecord

\* What a publication makes of a record.
LEMMA SyncedRecord ==
  ASSUME LifecycleOK, IssuesInv, NEW k \in IssueKeys
  PROVE  /\ Synced(k) \in HistoryRecords /\ TrueRecord(Synced(k))
         /\ k \in audit.found /\ k \in activeSeen => Synced(k) = history[k]
         /\ k \in audit.found /\ k \notin activeSeen /\ history[k].status # "active" => Synced(k).status = "active"
         /\ k \notin audit.found /\ Missing(k) => Synced(k).status = "resolved"
         /\ k \notin audit.found /\ ~Missing(k) => Synced(k) = history[k]
<1> DEFINE old == history[k]
<1>1. /\ old \in HistoryRecords /\ old.status \in {"none", "active", "resolved"} /\ old.events \in Seq(Kinds)
      /\ TrueRecord(old)
  BY RecordIsTyped DEF IssuesInv
<1>2. CASE k \in audit.found /\ k \in activeSeen
  <2>1. Synced(k) = old
    BY <1>2 DEF Synced, Missing
  <2> QED
    BY <1>1, <1>2, <2>1
<1>3. CASE k \in audit.found /\ k \notin activeSeen /\ old.status = "resolved"
  <2>1. Synced(k) = [status |-> "active", events |-> Log(old.events, "reoccurred")]
    BY <1>3 DEF Synced, Missing
  <2>2. Synced(k) \in HistoryRecords
    BY <1>1, <2>1, LogKeepsTheLatest DEF HistoryRecords, Kinds
  <2> QED
    BY <1>1, <1>3, <2>1, <2>2, LoggedIsTrue
<1>4. CASE k \in audit.found /\ k \notin activeSeen /\ old.status = "none"
  <2>1. Synced(k) = [status |-> "active", events |-> <<"detected">>]
    BY <1>4 DEF Synced, Missing
  <2>2. Synced(k) \in HistoryRecords /\ TrueRecord(Synced(k))
    BY <2>1 DEF HistoryRecords, TrueRecord, Kinds
  <2> QED
    BY <1>4, <2>1, <2>2
<1>5. CASE k \in audit.found /\ k \notin activeSeen /\ old.status = "active"
  <2>1. Synced(k) = old
    BY <1>5 DEF Synced, Missing
  <2> QED
    BY <1>1, <1>5, <2>1
<1>6. CASE k \notin audit.found /\ Missing(k)
  <2>1. Synced(k) = [status |-> "resolved", events |-> Log(old.events, "resolved")]
    BY <1>6 DEF Synced
  <2>2. old.status # "none"
    BY <1>6 DEF Missing, IssuesInv, RecordsTyped
  <2>3. Synced(k) \in HistoryRecords
    BY <1>1, <2>1, LogKeepsTheLatest DEF HistoryRecords, Kinds
  <2> QED
    BY <1>1, <1>6, <2>1, <2>2, <2>3, LoggedIsTrue
<1>7. CASE k \notin audit.found /\ ~Missing(k)
  <2>1. Synced(k) = old
    BY <1>7 DEF Synced
  <2> QED
    BY <1>1, <1>7, <2>1
<1> QED
  BY <1>1, <1>2, <1>3, <1>4, <1>5, <1>6, <1>7

LEMMA IssuesStart ==
  ASSUME LifecycleInit PROVE IssuesInv
BY DEF LifecycleInit, NoRecord, IssuesInv, RecordsTyped, SnapshotHolds, ActiveAsReported, Active, TrueRecord

LEMMA SyncKeeps ==
  ASSUME LifecycleOK, IssuesInv, SyncIssues PROVE IssuesInv'
<1>1. /\ history' = [k \in IssueKeys |-> Synced(k)] /\ \A k \in IssueKeys : history'[k] = Synced(k)
      /\ auditPc' = "idle" /\ activeSeen' = {} /\ touched' = {}
      /\ audit' = [found |-> {}, complete |-> FALSE]
  BY DEF SyncIssues
<1>2. RecordsTyped' /\ \A k \in IssueKeys : TrueRecord(history'[k])
  BY <1>1, SyncedRecord DEF RecordsTyped, HistoryRecords, Kinds
<1>3. \A k \in IssueKeys : history'[k].status = "active" <=> k \in reported'
  <2> SUFFICES ASSUME NEW k \in IssueKeys PROVE Synced(k).status = "active" <=> k \in reported'
    BY <1>1
  <2>1. reported' = audit.found \cup (IF audit.complete THEN {} ELSE reported)
    BY DEF SyncIssues
  <2>2. /\ k \in reported <=> history[k].status = "active"
        /\ k \in activeSeen => k \in touched \/ history[k].status = "active"
        /\ history[k].status = "active" => k \in activeSeen
        /\ k \in touched => k \notin audit.found /\ (audit.complete => k \notin activeSeen)
    BY DEF IssuesInv, ActiveAsReported, Active, SnapshotHolds, SyncIssues, ToWrite
  <2>3. CASE k \in audit.found
    BY <2>1, <2>2, <2>3, SyncedRecord
  <2>4. CASE k \notin audit.found
    BY <2>1, <2>2, <2>4, SyncedRecord DEF Missing
  <2> QED
    BY <2>3, <2>4
<1>4. reported' \subseteq IssueKeys
  BY DEF SyncIssues, IssuesInv, RecordsTyped, ActiveAsReported, Active
<1>5. ActiveAsReported'
  BY <1>3, <1>4 DEF ActiveAsReported, Active
<1> QED
  BY <1>1, <1>2, <1>5 DEF IssuesInv, SnapshotHolds

LEMMA ResolveKeeps ==
  ASSUME LifecycleOK, IssuesInv, NEW k \in IssueKeys, ResolveIssue(k) PROVE IssuesInv'
<1> DEFINE old == history[k]
           new == [status |-> "resolved", events |-> Append(old.events, "resolved")]
<1>1. old \in HistoryRecords /\ old.events \in Seq(Kinds) /\ TrueRecord(old) /\ old.status # "none"
  BY RecordIsTyped DEF IssuesInv, ResolveIssue
<1>2. new \in HistoryRecords /\ new.status = "resolved"
  BY <1>1 DEF HistoryRecords, Kinds
<1>3. TrueRecord(new)
  <2>1. /\ Len(new.events) = Len(old.events) + 1 /\ Len(old.events) \in Nat
        /\ new.events[Len(new.events)] = "resolved"
        /\ \A i \in 1..Len(old.events) : new.events[i] = old.events[i]
    BY <1>1
  <2>2. ASSUME NEW i \in 2..Len(new.events), new.events[i] = "reoccurred"
        PROVE  new.events[i - 1] = "resolved"
    <3>1. i \in 2..Len(old.events) /\ i - 1 \in 1..Len(old.events) /\ i \in 1..Len(old.events)
      BY <2>1, <2>2
    <3> QED
      BY <1>1, <2>1, <2>2, <3>1 DEF TrueRecord
  <2> QED
    BY <1>2, <2>1, <2>2 DEF TrueRecord
<1>4. history' = [history EXCEPT ![k] = new]
  BY DEF ResolveIssue, IssuesInv, RecordsTyped
<1> HIDE DEF new
<1>5. history'[k] = new /\ \A j \in IssueKeys : j # k => history'[j] = history[j]
  BY <1>4 DEF IssuesInv, RecordsTyped
<1>6. RecordsTyped'
  BY <1>2, <1>4, <1>5 DEF ResolveIssue, IssuesInv, RecordsTyped, HistoryRecords, Kinds
<1>7. \A j \in IssueKeys : TrueRecord(history'[j])
  BY <1>3, <1>5 DEF IssuesInv
<1>8. Active' = Active \ {k}
  BY <1>2, <1>5 DEF Active
<1>9. ActiveAsReported'
  BY <1>8 DEF ResolveIssue, IssuesInv, ActiveAsReported
<1>10. SnapshotHolds'
  BY <1>8 DEF ResolveIssue, IssuesInv, SnapshotHolds
<1> QED
  BY <1>6, <1>7, <1>9, <1>10 DEF IssuesInv

LEMMA IssuesStep ==
  ASSUME LifecycleOK, IssuesInv, [LifecycleNext]_lifeVars PROVE IssuesInv'
<1>1. CASE UNCHANGED lifeVars
  BY <1>1 DEF lifeVars, IssuesInv, RecordsTyped, SnapshotHolds, ActiveAsReported, Active
<1>2. ASSUME NEW found \in SUBSET IssueKeys, NEW complete \in BOOLEAN, Observe(found, complete) PROVE IssuesInv'
  BY <1>2 DEF Observe, IssuesInv, RecordsTyped, SnapshotHolds, ActiveAsReported, Active
<1>3. CASE ReadActive
  BY <1>3 DEF ReadActive, IssuesInv, RecordsTyped, SnapshotHolds, ActiveAsReported, Active
<1>4. CASE Abort
  BY <1>4 DEF Abort, IssuesInv, RecordsTyped, SnapshotHolds, ActiveAsReported, Active
<1> QED
  BY <1>1, <1>2, <1>3, <1>4, SyncKeeps, ResolveKeeps DEF LifecycleNext

\* The records listed as open are those that publications and users have left open, and each
\* says how it became what it is, whatever users resolve while an audit publishes, and
\* whichever events the limit of a history has dropped.
THEOREM HistoriesAreTrue ==
  ASSUME LifecycleOK PROVE LifecycleSpec => []HistoryIsTrue
<1>1. IssuesInv => HistoryIsTrue
  BY DEF IssuesInv, TrueRecord, HistoryIsTrue, StatusMatchesEvents, Last
<1> QED
  BY <1>1, IssuesStart, IssuesStep, PTL DEF LifecycleSpec

-----------------------------------------------------------------------------
(***************************************************************************)
(* Shared backlink reads                                                   *)
(***************************************************************************)
ReadPcs == {"new", "local", "askAgain", "insert", "denied", "done", "shared", "claim", "load", "wait",
            "publish", "release"}

BacklinksTyped ==
  /\ minute \in Windows /\ window \in [Readers -> Windows]
  /\ quota \in [Windows -> 0..QuotaLimit]
  /\ entry \in [state: {"none", "pending", "ready"}, lease: Readers \cup {NoReader}, rows: Nat]
  /\ entryLeft \in Nat
  /\ readPc \in [Readers -> ReadPcs]
  /\ host \in [Readers -> Instances]
  /\ local \in [Instances -> Nat] /\ localLeft \in [Instances -> Nat]
  /\ waited \in [Readers -> Nat]
  /\ loads \in Nat /\ published \in 0..loads
  /\ got \in [Readers -> Nat]

\* The count of a minute is the number of its reads that have passed.
QuotaCounts ==
  \A m \in Windows :
    /\ IsFiniteSet(Served(m)) /\ quota[m] = Cardinality(Served(m))
    /\ \A r \in Readers : readPc[r] = "denied" /\ window[r] = m => quota[m] = QuotaLimit

\* The entry is leased to the reader that loads last; while it loads, its lease has not run
\* out: less than the set-up and the load so far is gone.
LoaderLeased ==
  /\ \A r \in Readers : entry.lease = r => readPc[r] \in {"load", "publish", "release"} /\ got[r] = loads
  /\ \A r \in Readers : readPc[r] = "load" =>
       /\ entry.state = "pending" /\ entry.lease = r
       /\ waited[r] <= LoadTime /\ entryLeft + Setup + waited[r] >= LeaseTtl
  /\ \A r \in Readers : readPc[r] \in {"shared", "claim"} => waited[r] <= Setup
  /\ \A r \in Readers : ~Timed(r) => waited[r] = 0

BacklinksInv == BacklinksTyped /\ QuotaCounts /\ LoaderLeased

LEMMA BacklinkNumbers ==
  ASSUME BacklinksOK
  PROVE  /\ QuotaLimit \in Nat /\ LeaseTtl \in Nat /\ SharedTtl \in Nat /\ LocalTtl \in Nat
         /\ QuotaLimit > 0 /\ LoadTime \in Nat /\ Setup \in Nat /\ Minutes \in Nat
         /\ Setup + LoadTime < LeaseTtl /\ NoReader \notin Readers
BY DEF BacklinksOK

LEMMA BacklinksStart ==
  ASSUME BacklinksOK, BacklinksInit PROVE BacklinksInv
<1>1. BacklinksTyped
  BY BacklinkNumbers DEF BacklinksInit, BacklinksTyped, Windows, NoEntry, ReadPcs
<1>2. \A m \in Windows : Served(m) = {}
  BY DEF BacklinksInit, Served
<1>3. QuotaCounts
  BY <1>2, FS_EmptySet DEF BacklinksInit, QuotaCounts
<1>4. LoaderLeased
  BY BacklinkNumbers DEF BacklinksInit, LoaderLeased, NoEntry, Timed
<1> QED
  BY <1>1, <1>3, <1>4 DEF BacklinksInv

\* A step of a reader that was counted and stays so, or of none.
LEMMA QuotaUntouched ==
  ASSUME BacklinksInv, UNCHANGED <<quota, window>>,
         \A r \in Readers :
           \/ readPc'[r] = readPc[r]
           \/ readPc[r] \notin {"new", "insert", "askAgain", "denied"}
              /\ readPc'[r] \notin {"new", "insert", "askAgain", "denied"}
           \/ readPc[r] \in {"new", "insert", "askAgain"} /\ readPc'[r] \in {"insert", "askAgain"}
  PROVE  QuotaCounts'
<1>1. \A m \in Windows : Served(m)' = Served(m)
  BY DEF Served
<1> QED
  BY <1>1 DEF BacklinksInv, QuotaCounts, Windows

\* A request is counted.
LEMMA QuotaGrants ==
  ASSUME BacklinksOK, BacklinksInv, NEW r \in Readers, NEW m \in Windows,
         readPc[r] \in {"new", "insert", "askAgain"}, Move(r, "local"),
         window' = [window EXCEPT ![r] = m],
         quota[m] < QuotaLimit, quota' = [quota EXCEPT ![m] = quota[m] + 1]
  PROVE  QuotaCounts' /\ quota' \in [Windows -> 0..QuotaLimit]
<1>0. /\ readPc'[r] = "local" /\ window'[r] = m
      /\ \A q \in Readers : q # r => readPc'[q] = readPc[q] /\ window'[q] = window[q]
      /\ quota'[m] = quota[m] + 1 /\ \A n \in Windows : n # m => quota'[n] = quota[n]
  BY DEF BacklinksInv, BacklinksTyped, Move
<1>1. quota' \in [Windows -> 0..QuotaLimit]
  BY BacklinkNumbers DEF BacklinksInv, BacklinksTyped
<1>2. r \notin Served(m) /\ Served(m)' = Served(m) \cup {r}
  BY <1>0 DEF Served
<1>3. \A n \in Windows : n # m => Served(n)' = Served(n)
  BY <1>0 DEF Served
<1>4. IsFiniteSet(Served(m))' /\ Cardinality(Served(m))' = Cardinality(Served(m)) + 1
  BY <1>2, FS_AddElement DEF BacklinksInv, QuotaCounts
<1>5. ASSUME NEW n \in Windows
      PROVE /\ IsFiniteSet(Served(n))' /\ quota'[n] = Cardinality(Served(n))'
            /\ \A q \in Readers : readPc'[q] = "denied" /\ window'[q] = n => quota'[n] = QuotaLimit
  <2>1. CASE n = m
    <3>1. \A q \in Readers : ~(readPc'[q] = "denied" /\ window'[q] = n)
      BY <1>0, <2>1, BacklinkNumbers DEF BacklinksInv, QuotaCounts, BacklinksTyped
    <3> QED
      BY <1>0, <1>4, <2>1, <3>1 DEF BacklinksInv, QuotaCounts
  <2>2. CASE n # m
    BY <1>0, <1>3, <2>2 DEF BacklinksInv, QuotaCounts
  <2> QED
    BY <2>1, <2>2
<1> QED
  BY <1>1, <1>5 DEF QuotaCounts, Windows

\* What a reader knows of itself before it moves.
LEMMA ReaderMoves ==
  ASSUME BacklinksInv, NEW r \in Readers, NEW p \in ReadPcs, Move(r, p)
  PROVE  /\ readPc' \in [Readers -> ReadPcs] /\ readPc'[r] = p
         /\ \A q \in Readers : q # r => readPc'[q] = readPc[q]
BY DEF BacklinksInv, BacklinksTyped, Move

\* A reader that neither loads nor holds the entry goes on to a state in which it does not
\* either.
LEMMA LoaderUntouched ==
  ASSUME BacklinksOK, BacklinksInv, NEW r \in Readers, NEW p \in ReadPcs, Move(r, p),
         UNCHANGED <<entry, entryLeft, loads>>,
         readPc[r] \notin {"load", "publish", "release"}, p # "load",
         \/ UNCHANGED <<waited, got>> /\ (p \in {"shared", "claim"} \/ ~Timed(r))
         \/ /\ p = "done" /\ waited' = [waited EXCEPT ![r] = 0]
            /\ \E n : got' = [got EXCEPT ![r] = n]
  PROVE  LoaderLeased'
<1>1. /\ readPc'[r] = p /\ \A q \in Readers : q # r => readPc'[q] = readPc[q]
      /\ entry.lease # r
  BY ReaderMoves DEF BacklinksInv, LoaderLeased
<1>2. \A q \in Readers : q # r => waited'[q] = waited[q] /\ got'[q] = got[q]
  BY DEF BacklinksInv, BacklinksTyped
<1>3. p \in {"shared", "claim"} => waited'[r] <= Setup
  BY BacklinkNumbers DEF BacklinksInv, LoaderLeased, Timed
<1>4. p \notin {"shared", "claim"} => waited'[r] = 0
  BY DEF BacklinksInv, BacklinksTyped, LoaderLeased, Timed
<1> QED
  BY <1>1, <1>2, <1>3, <1>4 DEF BacklinksInv, LoaderLeased, Timed

LEMMA QuotaReadsKeep ==
  ASSUME BacklinksOK, BacklinksInv, NEW r \in Readers, AskQuota(r) \/ InsertQuota(r) \/ AskQuotaAgain(r)
  PROVE  BacklinksInv'
<1>0. /\ window[r] \in Windows /\ minute \in Windows /\ \A m \in Windows : quota[m] \in 0..QuotaLimit
      /\ window \in [Readers -> Windows] /\ quota \in [Windows -> 0..QuotaLimit]
      /\ readPc[r] \in {"new", "insert", "askAgain"}
  BY DEF BacklinksInv, BacklinksTyped, AskQuota, InsertQuota, AskQuotaAgain
<1>1. PICK p \in {"local", "askAgain", "insert", "denied"} : Move(r, p)
  BY DEF AskQuota, InsertQuota, AskQuotaAgain
<1>2. p \in ReadPcs /\ p \notin {"shared", "claim", "load", "done"}
  BY DEF ReadPcs
<1>3. LoaderLeased'
  BY <1>0, <1>1, <1>2, LoaderUntouched DEF AskQuota, InsertQuota, AskQuotaAgain, cacheVars, Timed
<1>4. window' \in [Readers -> Windows] /\ window'[r] \in Windows
      /\ \A q \in Readers : q # r => window'[q] = window[q]
  BY <1>0 DEF AskQuota, InsertQuota, AskQuotaAgain
<1>5. QuotaCounts' /\ quota' \in [Windows -> 0..QuotaLimit]
  <2>1. CASE p = "local"
    <3>1. PICK m \in Windows : /\ window' = [window EXCEPT ![r] = m] /\ quota[m] < QuotaLimit
                               /\ quota' = [quota EXCEPT ![m] = quota[m] + 1]
      <4>1. CASE AskQuota(r)
        <5>1. quota[minute] < QuotaLimit
          BY <1>0, <1>1, <2>1, <4>1, ReaderMoves, BacklinkNumbers DEF AskQuota, ReadPcs
        <5> QED
          BY <1>0, <1>1, <2>1, <4>1, <5>1, ReaderMoves DEF AskQuota, ReadPcs
      <4>2. CASE InsertQuota(r)
        <5>1. window' = [window EXCEPT ![r] = window[r]]
          BY <1>0, <4>2 DEF InsertQuota
        <5>2. quota[window[r]] = 0 /\ quota' = [quota EXCEPT ![window[r]] = quota[window[r]] + 1]
          BY <1>0, <1>1, <2>1, <4>2, ReaderMoves DEF InsertQuota, ReadPcs
        <5> QED
          BY <1>0, <5>1, <5>2, BacklinkNumbers
      <4>3. CASE AskQuotaAgain(r)
        <5>1. window' = [window EXCEPT ![r] = window[r]]
          BY <1>0, <4>3 DEF AskQuotaAgain
        <5> QED
          BY <1>0, <1>1, <2>1, <4>3, <5>1, ReaderMoves DEF AskQuotaAgain, ReadPcs
      <4> QED
        BY <4>1, <4>2, <4>3
    <3> QED
      BY <1>0, <1>1, <2>1, <3>1, QuotaGrants
  <2>2. CASE p \in {"askAgain", "insert", "denied"}
    <3>1. UNCHANGED quota
      BY <1>1, <1>2, <2>2, ReaderMoves DEF AskQuota, InsertQuota, AskQuotaAgain, ReadPcs
    <3>2. p = "denied" => quota[window'[r]] = QuotaLimit
      BY <1>0, <1>1, <1>2, ReaderMoves, BacklinkNumbers DEF AskQuota, InsertQuota, AskQuotaAgain, ReadPcs
    <3>3. readPc'[r] = p /\ \A q \in Readers : q # r => readPc'[q] = readPc[q]
      BY <1>1, <1>2, ReaderMoves
    <3>4. \A m \in Windows : Served(m)' = Served(m)
      BY <1>0, <1>4, <2>2, <3>3 DEF Served
    <3> QED
      BY <1>0, <1>4, <2>2, <3>1, <3>2, <3>3, <3>4 DEF BacklinksInv, QuotaCounts, Windows
  <2> QED
    BY <2>1, <2>2
<1>6. BacklinksTyped'
  BY <1>1, <1>2, <1>4, <1>5, ReaderMoves
  DEF AskQuota, InsertQuota, AskQuotaAgain, BacklinksInv, BacklinksTyped, cacheVars, Windows
<1> QED
  BY <1>3, <1>5, <1>6 DEF BacklinksInv

\* A reader that has passed the quota and stays so.
LEMMA QuotaServed ==
  ASSUME BacklinksInv, NEW r \in Readers, NEW p \in {"local", "done", "shared", "claim", "load", "wait", "publish", "release"},
         readPc[r] \in {"local", "done", "shared", "claim", "load", "wait", "publish", "release"},
         Move(r, p), UNCHANGED <<quota, window>>
  PROVE  QuotaCounts'
<1>1. p \in ReadPcs
  BY DEF ReadPcs
<1>2. readPc'[r] = p /\ \A q \in Readers : q # r => readPc'[q] = readPc[q]
  BY <1>1, ReaderMoves
<1> QED
  BY <1>2, QuotaUntouched

LEMMA KeepIsTyped ==
  ASSUME BacklinksOK, BacklinksTyped, NEW r \in Readers, NEW rows \in Nat, Keep(r, rows)
  PROVE  local' \in [Instances -> Nat] /\ localLeft' \in [Instances -> Nat]
BY BacklinkNumbers DEF BacklinksTyped, Keep

LEMMA ReturnIsTyped ==
  ASSUME BacklinksTyped, NEW r \in Readers, NEW rows \in Nat, Return(r, rows)
  PROVE  /\ got' \in [Readers -> Nat] /\ waited' \in [Readers -> Nat]
         /\ readPc' \in [Readers -> ReadPcs]
         /\ readPc'[r] = "done" /\ got'[r] = rows /\ waited'[r] = 0
         /\ \A q \in Readers : q # r => readPc'[q] = readPc[q] /\ got'[q] = got[q] /\ waited'[q] = waited[q]
BY DEF BacklinksTyped, Return, Move, ReadPcs

LEMMA ReadLocalKeeps ==
  ASSUME BacklinksOK, BacklinksInv, NEW r \in Readers, ReadLocal(r) PROVE BacklinksInv'
<1>1. CASE Move(r, "shared") /\ UNCHANGED <<got, waited>>
  <2>1. LoaderLeased'
    BY <1>1, LoaderUntouched DEF ReadLocal, cacheVars, ReadPcs
  <2>2. QuotaCounts'
    BY <1>1, QuotaServed DEF ReadLocal, quotaVars
  <2>3. BacklinksTyped'
    BY <1>1, ReaderMoves DEF ReadLocal, quotaVars, cacheVars, BacklinksInv, BacklinksTyped, ReadPcs, Windows
  <2> QED
    BY <2>1, <2>2, <2>3 DEF BacklinksInv
<1>2. ASSUME NEW rows \in Nat, Return(r, rows) PROVE BacklinksInv'
  <2>1. LoaderLeased'
    BY <1>2, LoaderUntouched DEF ReadLocal, cacheVars, ReadPcs, Return
  <2>2. QuotaCounts'
    BY <1>2, QuotaServed DEF ReadLocal, quotaVars, Return
  <2>3. BacklinksTyped'
    BY <1>2, ReturnIsTyped DEF ReadLocal, quotaVars, cacheVars, BacklinksInv, BacklinksTyped, Windows
  <2> QED
    BY <2>1, <2>2, <2>3 DEF BacklinksInv
<1>3. 0 \in Nat /\ local[host[r]] \in Nat
  BY DEF BacklinksInv, BacklinksTyped
<1> QED
  BY <1>1, <1>2, <1>3 DEF ReadLocal

LEMMA ReadSharedKeeps ==
  ASSUME BacklinksOK, BacklinksInv, NEW r \in Readers, ReadShared(r) \/ ReadAgain(r) PROVE BacklinksInv'
<1>1. CASE Move(r, "claim") /\ UNCHANGED <<got, waited, local, localLeft>> /\ readPc[r] = "shared"
  <2>1. LoaderLeased'
    BY <1>1, LoaderUntouched DEF ReadShared, ReadAgain, ReadPcs
  <2>2. QuotaCounts'
    BY <1>1, QuotaServed DEF ReadShared, ReadAgain, quotaVars
  <2>3. BacklinksTyped'
    BY <1>1, ReaderMoves DEF ReadShared, ReadAgain, quotaVars, BacklinksInv, BacklinksTyped, ReadPcs, Windows
  <2> QED
    BY <2>1, <2>2, <2>3 DEF BacklinksInv
<1>2. ASSUME NEW rows \in Nat, Return(r, rows),
             Keep(r, rows) \/ UNCHANGED <<local, localLeft>>
      PROVE BacklinksInv'
  <2>1. LoaderLeased'
    BY <1>2, LoaderUntouched DEF ReadShared, ReadAgain, ReadPcs, Return
  <2>2. QuotaCounts'
    BY <1>2, QuotaServed DEF ReadShared, ReadAgain, quotaVars, Return
  <2>3. local' \in [Instances -> Nat] /\ localLeft' \in [Instances -> Nat]
    BY <1>2, KeepIsTyped DEF BacklinksInv, BacklinksTyped
  <2>4. BacklinksTyped'
    BY <1>2, <2>3, ReturnIsTyped DEF ReadShared, ReadAgain, quotaVars, BacklinksInv, BacklinksTyped, Windows
  <2> QED
    BY <2>1, <2>2, <2>4 DEF BacklinksInv
<1>3. 0 \in Nat /\ entry.rows \in Nat
  BY DEF BacklinksInv, BacklinksTyped
<1> QED
  BY <1>1, <1>2, <1>3 DEF ReadShared, ReadAgain

\* Nobody loads an entry that is free.
LEMMA FreeIsUnloaded ==
  ASSUME BacklinksOK, BacklinksInv, entry.state = "none" \/ entryLeft = 0 \/ entry.state = "ready"
  PROVE  \A q \in Readers : readPc[q] # "load"
BY BacklinkNumbers DEF BacklinksInv, BacklinksTyped, LoaderLeased

LEMMA ClaimEntryKeeps ==
  ASSUME BacklinksOK, BacklinksInv, NEW r \in Readers, ClaimEntry(r) PROVE BacklinksInv'
<1>0. /\ readPc[r] = "claim" /\ entry.lease # r /\ waited[r] <= Setup /\ waited[r] \in Nat
      /\ waited' \in [Readers -> Nat] /\ waited'[r] = 0 /\ \A q \in Readers : q # r => waited'[q] = waited[q]
      /\ loads \in Nat /\ UNCHANGED <<quota, minute, local, localLeft, host, window, published>>
  BY DEF ClaimEntry, BacklinksInv, BacklinksTyped, LoaderLeased, quotaVars
<1>1. CASE Move(r, "wait") /\ UNCHANGED <<entry, entryLeft, loads, got>>
  <2>1. readPc' \in [Readers -> ReadPcs] /\ readPc'[r] = "wait" /\ \A q \in Readers : q # r => readPc'[q] = readPc[q]
    BY <1>1, ReaderMoves DEF ReadPcs
  <2>2. QuotaCounts'
    BY <1>0, <1>1, QuotaServed
  <2>3. LoaderLeased'
    BY <1>0, <1>1, <2>1 DEF BacklinksInv, LoaderLeased, Timed
  <2>4. BacklinksTyped'
    BY <1>0, <1>1, <2>1 DEF BacklinksInv, BacklinksTyped, Windows
  <2> QED
    BY <2>2, <2>3, <2>4 DEF BacklinksInv
<1>2. CASE /\ EntryFree
           /\ entry' = [state |-> "pending", lease |-> r, rows |-> 0]
           /\ entryLeft' = LeaseTtl - waited[r]
           /\ loads' = loads + 1
           /\ got' = [got EXCEPT ![r] = loads']
           /\ Move(r, "load")
  <2>1. readPc' \in [Readers -> ReadPcs] /\ readPc'[r] = "load" /\ \A q \in Readers : q # r => readPc'[q] = readPc[q]
    BY <1>2, ReaderMoves DEF ReadPcs
  <2>2. QuotaCounts'
    BY <1>0, <1>2, QuotaServed
  <2>3. \A q \in Readers : readPc[q] # "load"
    BY <1>2, FreeIsUnloaded DEF EntryFree
  <2>4. entryLeft' \in Nat /\ entryLeft' + Setup >= LeaseTtl
    BY <1>0, <1>2, BacklinkNumbers
  <2>5. got' \in [Readers -> Nat] /\ got'[r] = loads' /\ loads' \in Nat
    BY <1>0, <1>2 DEF BacklinksInv, BacklinksTyped
  <2>6. LoaderLeased'
    BY <1>0, <1>2, <2>1, <2>3, <2>4, <2>5, BacklinkNumbers DEF BacklinksInv, LoaderLeased, Timed
  <2>7. BacklinksTyped'
    BY <1>0, <1>2, <2>1, <2>4, <2>5, SMTT(40) DEF BacklinksInv, BacklinksTyped, Windows
  <2> QED
    BY <2>2, <2>6, <2>7 DEF BacklinksInv
<1> QED
  BY <1>1, <1>2 DEF ClaimEntry

LEMMA LoadEndsKeeps ==
  ASSUME BacklinksOK, BacklinksInv, NEW r \in Readers, LoadEnds(r) PROVE BacklinksInv'
<1>1. PICK p \in {"publish", "release"} : Move(r, p)
  BY DEF LoadEnds
<1>2. readPc' \in [Readers -> ReadPcs] /\ readPc'[r] = p /\ \A q \in Readers : q # r => readPc'[q] = readPc[q]
  BY <1>1, ReaderMoves DEF ReadPcs
<1>3. QuotaCounts'
  BY <1>1, QuotaServed DEF LoadEnds, quotaVars
<1>4. /\ waited' \in [Readers -> Nat] /\ waited'[r] = 0 /\ (\A q \in Readers : q # r => waited'[q] = waited[q])
      /\ readPc[r] = "load"
  BY DEF LoadEnds, BacklinksInv, BacklinksTyped
<1>5. LoaderLeased'
  BY <1>2, <1>4 DEF LoadEnds, cacheVars, BacklinksInv, LoaderLeased, Timed
<1>6. BacklinksTyped'
  BY <1>2, <1>4 DEF LoadEnds, quotaVars, cacheVars, BacklinksInv, BacklinksTyped, Windows
<1> QED
  BY <1>3, <1>5, <1>6 DEF BacklinksInv

LEMMA PublishKeeps ==
  ASSUME BacklinksOK, BacklinksInv, NEW r \in Readers, Publish(r) \/ ReleaseEntry(r)
  PROVE  BacklinksInv' /\ published' >= published
<1>0. /\ readPc[r] \in {"publish", "release"} /\ UNCHANGED <<quota, minute, host, window, loads>>
      /\ got[r] \in Nat /\ loads \in Nat /\ published \in 0..loads
  BY DEF Publish, ReleaseEntry, BacklinksInv, BacklinksTyped, quotaVars
<1>1. PICK rows \in Nat : Return(r, rows) /\ (Keep(r, rows) \/ UNCHANGED <<local, localLeft>>)
  BY <1>0 DEF Publish, ReleaseEntry
<1>2. /\ got' \in [Readers -> Nat] /\ waited' \in [Readers -> Nat] /\ readPc' \in [Readers -> ReadPcs]
      /\ readPc'[r] = "done" /\ waited'[r] = 0
      /\ \A q \in Readers : q # r => readPc'[q] = readPc[q] /\ got'[q] = got[q] /\ waited'[q] = waited[q]
  BY <1>1, ReturnIsTyped DEF BacklinksInv
<1>3. local' \in [Instances -> Nat] /\ localLeft' \in [Instances -> Nat]
  BY <1>1, KeepIsTyped DEF BacklinksInv, BacklinksTyped
<1>4. QuotaCounts'
  BY <1>0, <1>1, QuotaServed DEF Return
<1>5. CASE Leased(r)
  <2>1. /\ entry.lease = r /\ got[r] = loads
        /\ \A q \in Readers : q # r => readPc[q] # "load"
    BY <1>5 DEF Leased, BacklinksInv, LoaderLeased
  <2>2. /\ entry' \in {[state |-> "ready", lease |-> NoReader, rows |-> got[r]], NoEntry}
        /\ entryLeft' \in Nat /\ published' \in {got[r], published}
    BY <1>0, <1>5, BacklinkNumbers DEF Publish, ReleaseEntry
  <2>3. entry' \in [state: {"none", "pending", "ready"}, lease: Readers \cup {NoReader}, rows: Nat]
        /\ entry'.lease = NoReader
    BY <1>0, <2>2 DEF NoEntry
  <2>4. LoaderLeased'
    BY <1>0, <1>2, <2>1, <2>3, BacklinkNumbers DEF BacklinksInv, LoaderLeased, Timed
  <2>5. published' \in 0..loads /\ published' >= published
    BY <1>0, <2>1, <2>2
  <2>6. BacklinksTyped'
    BY <1>0, <1>2, <1>3, <2>2, <2>3, <2>5 DEF BacklinksInv, BacklinksTyped, Windows
  <2> QED
    BY <1>4, <2>4, <2>5, <2>6 DEF BacklinksInv
<1>6. CASE ~Leased(r)
  <2>1. UNCHANGED <<entry, entryLeft, published>>
    BY <1>6 DEF Publish, ReleaseEntry
  <2>2. LoaderLeased'
    BY <1>0, <1>2, <1>6, <2>1 DEF BacklinksInv, LoaderLeased, Timed, Leased
  <2>3. BacklinksTyped'
    BY <1>0, <1>2, <1>3, <2>1 DEF BacklinksInv, BacklinksTyped, Windows
  <2> QED
    BY <1>0, <1>4, <2>1, <2>2, <2>3 DEF BacklinksInv
<1> QED
  BY <1>5, <1>6

LEMMA BackTickKeeps ==
  ASSUME BacklinksOK, BacklinksInv, BackTick PROVE BacklinksInv'
<1>1. QuotaCounts'
  BY QuotaUntouched DEF BackTick, quotaVars
<1>2. /\ \A r \in Readers : waited[r] \in Nat /\ waited'[r] = IF Timed(r) THEN waited[r] + 1 ELSE 0
      /\ waited' \in [Readers -> Nat]
  BY DEF BackTick, BacklinksInv, BacklinksTyped
<1>3. entryLeft \in Nat /\ entryLeft' = IF entryLeft = 0 THEN 0 ELSE entryLeft - 1
  BY DEF BackTick, BacklinksInv, BacklinksTyped, Less
<1>4. \A r \in Readers : readPc[r] = "load" => entryLeft > 0 /\ waited[r] < LoadTime
  BY <1>3, FreeIsUnloaded DEF BackTick
<1>5. LoaderLeased'
  <2>1. ASSUME NEW r \in Readers, readPc[r] = "load"
        PROVE waited'[r] <= LoadTime /\ entryLeft' + Setup + waited'[r] >= LeaseTtl
    BY <1>2, <1>3, <1>4, <2>1, BacklinkNumbers DEF Timed, BacklinksInv, LoaderLeased
  <2>2. ASSUME NEW r \in Readers, readPc[r] \in {"shared", "claim"} PROVE waited'[r] <= Setup
    BY <1>2, <2>2, BacklinkNumbers DEF Timed, BackTick
  <2> QED
    BY <1>2, <2>1, <2>2 DEF BackTick, BacklinksInv, LoaderLeased, Timed
<1>6. localLeft' \in [Instances -> Nat]
  BY DEF BackTick, BacklinksInv, BacklinksTyped, Less
<1>7. BacklinksTyped'
  BY <1>2, <1>3, <1>6 DEF BackTick, quotaVars, BacklinksInv, BacklinksTyped, Windows
<1> QED
  BY <1>1, <1>5, <1>7 DEF BacklinksInv

LEMMA DropEntryKeeps ==
  ASSUME BacklinksOK, BacklinksInv, DropEntry PROVE BacklinksInv'
<1>1. QuotaCounts'
  BY QuotaUntouched DEF DropEntry, quotaVars
<1>2. \A r \in Readers : readPc[r] # "load"
  BY FreeIsUnloaded DEF DropEntry
<1>3. LoaderLeased'
  BY <1>2, BacklinkNumbers DEF DropEntry, BacklinksInv, LoaderLeased, Timed, NoEntry
<1>4. BacklinksTyped'
  BY DEF DropEntry, quotaVars, BacklinksInv, BacklinksTyped, Windows, NoEntry
<1> QED
  BY <1>1, <1>3, <1>4 DEF BacklinksInv

LEMMA NextMinuteKeeps ==
  ASSUME BacklinksOK, BacklinksInv, NextMinute PROVE BacklinksInv'
<1>1. QuotaCounts'
  BY QuotaUntouched DEF NextMinute
<1>2. LoaderLeased'
  BY DEF NextMinute, cacheVars, BacklinksInv, LoaderLeased, Timed
<1>3. BacklinksTyped'
  <2>1. minute \in Windows /\ minute' = minute + 1 /\ minute < Minutes
    BY DEF NextMinute, BacklinksInv, BacklinksTyped
  <2>2. minute' \in Windows
    BY <2>1, BacklinkNumbers DEF Windows
  <2>3. Windows' = Windows
    BY DEF Windows
  <2> QED
    BY <2>2, <2>3 DEF NextMinute, cacheVars, BacklinksInv, BacklinksTyped
<1> QED
  BY <1>1, <1>2, <1>3 DEF BacklinksInv

LEMMA BacklinksStep ==
  ASSUME BacklinksOK, BacklinksInv, [BacklinksNext]_backVars
  PROVE  BacklinksInv' /\ published' >= published
<1>0. published \in Nat
  BY DEF BacklinksInv, BacklinksTyped
<1>1. CASE UNCHANGED backVars
  <2>1. BacklinksTyped' /\ LoaderLeased'
    BY <1>1 DEF backVars, quotaVars, cacheVars, BacklinksInv, BacklinksTyped, LoaderLeased, Timed, Windows
  <2>2. QuotaCounts'
    BY <1>1, QuotaUntouched DEF backVars, quotaVars
  <2> QED
    BY <1>0, <1>1, <2>1, <2>2 DEF BacklinksInv, backVars
<1>2. ASSUME NEW r \in Readers,
             \/ AskQuota(r) \/ InsertQuota(r) \/ AskQuotaAgain(r) \/ ReadLocal(r) \/ ReadShared(r)
             \/ ReadAgain(r) \/ ClaimEntry(r) \/ LoadEnds(r)
      PROVE  BacklinksInv' /\ UNCHANGED published
  BY <1>2, QuotaReadsKeep, ReadLocalKeeps, ReadSharedKeeps, ClaimEntryKeeps, LoadEndsKeeps
  DEF AskQuota, InsertQuota, AskQuotaAgain, ReadLocal, ReadShared, ReadAgain, ClaimEntry, LoadEnds
<1>3. CASE DropEntry \/ NextMinute \/ BackTick
  BY <1>0, <1>3, DropEntryKeeps, NextMinuteKeeps, BackTickKeeps DEF DropEntry, NextMinute, BackTick
<1> QED
  BY <1>0, <1>1, <1>2, <1>3, PublishKeeps DEF BacklinksNext

LEMMA BacklinksAlways ==
  ASSUME BacklinksOK PROVE BacklinksSpec => []BacklinksInv
BY BacklinksStart, BacklinksStep, PTL DEF BacklinksSpec

\* A minute's quota is granted exactly: no more reads pass than it allows, and one is denied
\* only when that many have passed; and at most one reader loads an entry at a time.
THEOREM ReadsAreBounded ==
  ASSUME BacklinksOK PROVE BacklinksSpec => []ReadsBounded
<1>1. BacklinksInv => QuotaIsExact
  BY BacklinkNumbers DEF BacklinksInv, BacklinksTyped, QuotaCounts, QuotaIsExact
<1>2. BacklinksInv => SingleLoader
  <2> SUFFICES ASSUME BacklinksInv PROVE SingleLoader
    OBVIOUS
  <2> DEFINE L == {r \in Readers : readPc[r] = "load"}
  <2>1. \A q, r \in L : q = r
    BY DEF BacklinksInv, LoaderLeased
  <2>2. L = {} \/ \E r : L = {r}
    BY <2>1
  <2> HIDE DEF L
  <2>3. Cardinality(L) <= 1
    <3>1. CASE L = {}
      BY <3>1, FS_EmptySet
    <3>2. ASSUME NEW r, L = {r} PROVE Cardinality(L) = 1
      BY <3>2, FS_Singleton
    <3> QED
      BY <2>2, <3>1, <3>2
  <2> QED
    BY <2>3 DEF SingleLoader, L
<1>3. BacklinksInv => ReadsBounded
  BY <1>1, <1>2 DEF ReadsBounded
<1> QED
  BY <1>3, BacklinksAlways, PTL

\* Published rows never give way to those of an earlier load, however late a reader publishes.
THEOREM RowsOnlyGrowNewer ==
  ASSUME BacklinksOK PROVE BacklinksSpec => RowsNeverOlder
<1>1. BacklinksInv /\ [BacklinksNext]_backVars => [published' >= published]_backVars
  BY BacklinksStep
<1> QED
  BY <1>1, BacklinksAlways, PTL DEF BacklinksSpec, RowsNeverOlder

-----------------------------------------------------------------------------
(***************************************************************************)
(* The admission transaction: what it has found is still so when it        *)
(* commits, and the document of a quota or a cooldown does not go before   *)
(* what it remembers has become irrelevant.                                *)
(***************************************************************************)
Holding == {r \in Reqs : reqPc[r] \in {"open", "ended", "released"}}
Counted(a, h) == {r \in Admitted : ask[r].actor = a /\ HourOf(r) = h}

Pcs == {"new", "txn", "refused", "open", "ended", "released", "done"}
Docs == [here: BOOLEAN, job: Reqs \cup {NoReq}, count: Nat, expires: Nat]

AdmissionTyped ==
  /\ now \in 0..MaxTime
  /\ docs \in [Ids -> Docs]
  /\ reqPc \in [Reqs -> Pcs]
  /\ ask \in [Reqs -> Asks \cup {NoAsk}]
  /\ start \in [Reqs -> Nat] /\ \A r \in Reqs : start[r] <= now
  /\ \A r \in Reqs : reqPc[r] \notin {"new", "refused"} => ask[r] \in Asks
  /\ verdict \in [Reqs -> BOOLEAN] /\ stale \in [Reqs -> BOOLEAN]
  /\ tries \in [Reqs -> Nat] /\ committed \in [Reqs -> Nat]

\* A claim is of a job that was admitted.
ClaimsAdmitted == \A id \in Ids : docs[id].job \in Admitted \cup {NoReq}

\* A snapshot that nobody has written over is how things are.
SnapshotFresh ==
  \A r \in Reqs : reqPc[r] = "txn" /\ verdict[r] /\ ~stale[r] => Admissible(docs, OpenJobs, r)

QueueCounts == IsFiniteSet(Holding) /\ docs[Queue].count = Cardinality(Holding)

\* A counter is exact, or it was deleted too late for anybody of its hour to ask again.
HourCounts(a, h) ==
  /\ IsFiniteSet(Counted(a, h)) /\ Cardinality(Counted(a, h)) <= LimitOf(a)
  /\ \/ docs[Quota(a, h)].count = Cardinality(Counted(a, h))
     \/ \E s \in Counted(a, h) : now >= start[s] + 2 * Window
  /\ docs[Quota(a, h)].here =>
       \E s \in Counted(a, h) : docs[Quota(a, h)].expires = start[s] + 2 * Window
HoursCount == \A a \in Actors, h \in Hours : HourCounts(a, h)

\* A cooldown is over, or its document, or that of a later one, stands.
CooldownsStand ==
  \A s \in Admitted : \/ now >= start[s] + Cooldown
                      \/ docs[TargetOf(s)].expires >= start[s] + Cooldown

AdmissionInv ==
  /\ AdmissionTyped /\ ClaimsAdmitted /\ SnapshotFresh
  /\ QueueCounts /\ HoursCount /\ CooldownsStand /\ CooldownHeld

-----------------------------------------------------------------------------
(***************************************************************************)
(* Hours and documents                                                     *)
(***************************************************************************)
LEMMA Numbers ==
  ASSUME ConstantsOK
  PROVE  /\ Window \in Nat /\ Window > 0 /\ Cooldown \in Nat /\ ClaimTime \in Nat /\ MaxTries \in Nat
         /\ AccountLimit \in Nat /\ GuestLimit \in Nat /\ QueueCap \in Nat
         /\ TxnTime \in Nat /\ MaxTime \in Nat /\ TxnTime <= Window
         /\ NoReq \notin Reqs /\ \A a : LimitOf(a) \in Nat
         /\ \A a \in Asks : a.actor \in Actors /\ a.target \in Targets
<1>1. /\ {AccountLimit, GuestLimit, QueueCap, Window, Cooldown, ClaimTime, MaxTries} \subseteq Nat \ {0}
      /\ {TxnTime, MaxTime} \subseteq Nat /\ TxnTime <= Window /\ NoReq \notin Reqs
  BY DEF ConstantsOK
<1>2. /\ AccountLimit \in Nat /\ GuestLimit \in Nat /\ QueueCap \in Nat /\ Window \in Nat /\ Window # 0
      /\ Cooldown \in Nat /\ ClaimTime \in Nat /\ MaxTries \in Nat /\ TxnTime \in Nat /\ MaxTime \in Nat
  BY <1>1
<1>3. \A a : LimitOf(a) \in Nat
  BY <1>2 DEF LimitOf
<1>4. \A a \in Asks : a.actor \in Actors /\ a.target \in Targets
  BY DEF Actors, Targets
<1> QED
  BY <1>1, <1>2, <1>3, <1>4

LEMMA Divides ==
  ASSUME NEW s \in Nat, NEW w \in Nat, w > 0
  PROVE s \div w \in Nat /\ (s \div w) * w <= s /\ s < (s \div w) * w + w
OBVIOUS

\* Two moments of one hour are less than an hour apart; hours do not go backwards.
LEMMA SameHour ==
  ASSUME NEW s \in Nat, NEW t \in Nat, NEW w \in Nat, w > 0, s \div w = t \div w
  PROVE s < t + w
BY Divides

LEMMA LaterHour ==
  ASSUME NEW s \in Nat, NEW t \in Nat, NEW w \in Nat, w > 0, s <= t
  PROVE s \div w <= t \div w
BY Divides

LEMMA IdsDiffer ==
  /\ \A a, t, b, h : Claim(a, t) # Quota(b, h)
  /\ \A a, t, u : Claim(a, t) # Target(u)
  /\ \A a, h, u : Quota(a, h) # Target(u)
  /\ \A a, t : Claim(a, t) # Queue
  /\ \A a, h : Quota(a, h) # Queue
  /\ \A t : Target(t) # Queue
  /\ \A a, t, b, u : Claim(a, t) = Claim(b, u) <=> a = b /\ t = u
  /\ \A a, h, b, k : Quota(a, h) = Quota(b, k) <=> a = b /\ h = k
  /\ \A t, u : Target(t) = Target(u) <=> t = u
BY DEF Claim, Quota, Target, Queue, Id

LEMMA IdsExist ==
  /\ \A a \in Actors, t \in Targets : Claim(a, t) \in Ids
  /\ \A a \in Actors, h \in Hours : Quota(a, h) \in Ids
  /\ \A t \in Targets : Target(t) \in Ids
  /\ Queue \in Ids
BY DEF Ids

\* The documents of a request exist, and are four.
LEMMA RequestIds ==
  ASSUME ConstantsOK, AdmissionTyped, NEW r \in Reqs, ask[r] \in Asks
  PROVE  /\ ClaimOf(r) \in Ids /\ QuotaOf(r) \in Ids /\ TargetOf(r) \in Ids /\ Queue \in Ids
         /\ HourOf(r) \in Hours /\ ask[r].actor \in Actors /\ ask[r].target \in Targets
<1>1. start[r] \in Nat /\ start[r] <= MaxTime
  BY Numbers DEF AdmissionTyped
<1>2. HourOf(r) \in Hours
  BY <1>1, Numbers, LaterHour, Divides DEF HourOf, Hours
<1> QED
  BY <1>2, Numbers, IdsExist DEF ClaimOf, QuotaOf, TargetOf

\* What an admission writes.
LEMMA Writes ==
  ASSUME ConstantsOK, AdmissionTyped, NEW r \in Reqs, ask[r] \in Asks, docs' = AfterAdmission(docs, r)
  PROVE  /\ docs' \in [Ids -> Docs]
         /\ docs'[ClaimOf(r)] = Doc(r, 0, start[r] + ClaimTime)
         /\ docs'[QuotaOf(r)] = Doc(NoReq, docs[QuotaOf(r)].count + 1,
                                    IF docs[QuotaOf(r)].here THEN docs[QuotaOf(r)].expires
                                    ELSE start[r] + 2 * Window)
         /\ docs'[TargetOf(r)] = Doc(NoReq, 0, start[r] + Cooldown)
         /\ docs'[Queue] = Doc(NoReq, docs[Queue].count + 1, 0)
         /\ \A id \in Ids \ Written(r) : docs'[id] = docs[id]
<1>1. ClaimOf(r) \in Ids /\ QuotaOf(r) \in Ids /\ TargetOf(r) \in Ids /\ Queue \in Ids
  BY RequestIds
<1>2. /\ ClaimOf(r) # QuotaOf(r) /\ ClaimOf(r) # TargetOf(r) /\ ClaimOf(r) # Queue
      /\ QuotaOf(r) # TargetOf(r) /\ QuotaOf(r) # Queue /\ TargetOf(r) # Queue
  BY IdsDiffer DEF ClaimOf, QuotaOf, TargetOf
<1>3. \A id \in Ids : docs'[id] = IF id \in Written(r) THEN NewDoc(docs[id], id, r) ELSE docs[id]
  BY DEF AfterAdmission
<1>4. NewDoc(docs[ClaimOf(r)], ClaimOf(r), r) = Doc(r, 0, start[r] + ClaimTime)
  BY <1>2 DEF NewDoc
<1>5. NewDoc(docs[QuotaOf(r)], QuotaOf(r), r)
        = Doc(NoReq, docs[QuotaOf(r)].count + 1,
              IF docs[QuotaOf(r)].here THEN docs[QuotaOf(r)].expires ELSE start[r] + 2 * Window)
  BY <1>2 DEF NewDoc
<1>6. NewDoc(docs[TargetOf(r)], TargetOf(r), r) = Doc(NoReq, 0, start[r] + Cooldown)
  BY <1>2 DEF NewDoc
<1>7. NewDoc(docs[Queue], Queue, r) = Doc(NoReq, docs[Queue].count + 1, 0)
  BY <1>2 DEF NewDoc
<1>8. /\ docs'[ClaimOf(r)] = Doc(r, 0, start[r] + ClaimTime)
      /\ docs'[QuotaOf(r)] = Doc(NoReq, docs[QuotaOf(r)].count + 1,
                                 IF docs[QuotaOf(r)].here THEN docs[QuotaOf(r)].expires
                                 ELSE start[r] + 2 * Window)
      /\ docs'[TargetOf(r)] = Doc(NoReq, 0, start[r] + Cooldown)
      /\ docs'[Queue] = Doc(NoReq, docs[Queue].count + 1, 0)
      /\ \A id \in Ids \ Written(r) : docs'[id] = docs[id]
  BY <1>1, <1>3, <1>4, <1>5, <1>6, <1>7 DEF Written
<1>9. docs' \in [Ids -> Docs]
  <2>1. docs \in [Ids -> Docs] /\ start[r] \in Nat
    BY DEF AdmissionTyped
  <2>2. /\ docs[QuotaOf(r)].count \in Nat /\ docs[QuotaOf(r)].expires \in Nat /\ docs[Queue].count \in Nat
    BY <1>1, <2>1 DEF Docs
  <2>3. /\ docs'[ClaimOf(r)] \in Docs /\ docs'[QuotaOf(r)] \in Docs
        /\ docs'[TargetOf(r)] \in Docs /\ docs'[Queue] \in Docs
    BY <1>8, <2>1, <2>2, Numbers DEF Doc, Docs
  <2>4. \A id \in Ids : docs'[id] \in Docs
    BY <1>8, <2>1, <2>3 DEF Written
  <2>5. docs' = [id \in Ids |-> docs'[id]]
    BY DEF AfterAdmission
  <2> QED
    BY <2>4, <2>5
<1> QED
  BY <1>8, <1>9

-----------------------------------------------------------------------------
(***************************************************************************)
(* Snapshots                                                               *)
(***************************************************************************)
\* What a request found stays so where nobody writes its documents: jobs that end only free
\* claims, and a job that is admitted has no claim yet.
LEMMA FindingHolds ==
  ASSUME ConstantsOK, AdmissionInv, NEW r \in Reqs, ask[r] \in Asks, Admissible(docs, OpenJobs, r),
         ask'[r] = ask[r], start'[r] = start[r],
         \A id \in Written(r) : docs'[id] = docs[id],
         \A q \in OpenJobs' : q \in OpenJobs \/ q \notin Admitted
  PROVE  Admissible(docs, OpenJobs, r)'
<1>1. /\ ClaimOf(r)' = ClaimOf(r) /\ QuotaOf(r)' = QuotaOf(r) /\ TargetOf(r)' = TargetOf(r)
      /\ LimitOf(ask'[r].actor) = LimitOf(ask[r].actor)
  BY DEF ClaimOf, QuotaOf, TargetOf, HourOf
<1>2. /\ docs'[ClaimOf(r)] = docs[ClaimOf(r)] /\ docs'[QuotaOf(r)] = docs[QuotaOf(r)]
      /\ docs'[TargetOf(r)] = docs[TargetOf(r)] /\ docs'[Queue] = docs[Queue]
  BY DEF Written
<1>3. docs[ClaimOf(r)].job \notin OpenJobs'
  <2>1. docs[ClaimOf(r)].job \in Admitted \cup {NoReq}
    BY RequestIds DEF AdmissionInv, ClaimsAdmitted
  <2>2. docs[ClaimOf(r)].job \notin OpenJobs
    BY DEF Admissible, ClaimHeld
  <2> QED
    BY <2>1, <2>2, Numbers DEF OpenJobs
<1> QED
  BY <1>1, <1>2, <1>3 DEF Admissible, ClaimHeld, QuotaOpen, TargetOpen, QueueOpen

LEMMA SnapshotsStayFresh ==
  ASSUME ConstantsOK, AdmissionInv,
         \A r \in Reqs : reqPc'[r] = "txn" /\ verdict'[r] /\ ~stale'[r] =>
           \/ Admissible(docs, OpenJobs, r)'
           \/ /\ reqPc[r] = "txn" /\ verdict[r] /\ ~stale[r] /\ ask'[r] = ask[r] /\ start'[r] = start[r]
              /\ \A id \in Written(r) : docs'[id] = docs[id],
         \A q \in OpenJobs' : q \in OpenJobs \/ q \notin Admitted
  PROVE  SnapshotFresh'
<1> SUFFICES ASSUME NEW r \in Reqs, reqPc'[r] = "txn", verdict'[r], ~stale'[r]
             PROVE  Admissible(docs, OpenJobs, r)'
  BY DEF SnapshotFresh
<1>1. CASE Admissible(docs, OpenJobs, r)'
  BY <1>1
<1>2. CASE /\ reqPc[r] = "txn" /\ verdict[r] /\ ~stale[r] /\ ask'[r] = ask[r] /\ start'[r] = start[r]
           /\ \A id \in Written(r) : docs'[id] = docs[id]
  <2>1. ask[r] \in Asks /\ Admissible(docs, OpenJobs, r)
    BY <1>2 DEF AdmissionInv, AdmissionTyped, SnapshotFresh
  <2> QED
    BY <1>2, <2>1, FindingHolds
<1> QED
  BY <1>1, <1>2

\* What is found when a transaction commits is found at that very moment.
LEMMA CommitIsAdmissible ==
  ASSUME AdmissionInv, NEW r \in Reqs, Commit(r) PROVE Admissible(docs, OpenJobs, r)
BY DEF AdmissionInv, SnapshotFresh, Commit, MayAdmit

-----------------------------------------------------------------------------
(***************************************************************************)
(* Counters and cooldowns                                                  *)
(***************************************************************************)
\* A step that admits nobody and leaves the documents alone, or deletes those that have
\* expired.
LEMMA LimitsStand ==
  ASSUME ConstantsOK, AdmissionInv, now' \in Nat, now' >= now, Admitted' = Admitted,
         \A r \in Admitted : ask'[r] = ask[r] /\ start'[r] = start[r] /\ committed'[r] = committed[r],
         \A id \in {Quota(a, h) : a \in Actors, h \in Hours} \cup {Target(t) : t \in Targets} :
           \/ docs'[id] = docs[id]
           \/ docs[id].here /\ docs[id].expires <= now /\ docs'[id] = Absent
  PROVE  HoursCount' /\ CooldownsStand' /\ CooldownHeld'
<1>0. /\ now \in Nat /\ \A r \in Admitted : start[r] \in Nat /\ ask[r] \in Asks
      /\ \A id \in Ids : docs[id].expires \in Nat
  BY DEF AdmissionInv, AdmissionTyped, Admitted, Docs
<1>1. ASSUME NEW a \in Actors, NEW h \in Hours PROVE HourCounts(a, h)'
  <2>1. Counted(a, h)' = Counted(a, h)
    BY DEF Counted, HourOf
  <2>2. HourCounts(a, h)
    BY DEF AdmissionInv, HoursCount
  <2>3. \A s \in Counted(a, h) : s \in Admitted /\ start[s] \in Nat /\ start'[s] = start[s]
    BY <1>0 DEF Counted
  <2>4. CASE docs'[Quota(a, h)] = docs[Quota(a, h)]
    BY <1>0, <2>1, <2>2, <2>3, <2>4, Numbers DEF HourCounts
  <2>5. CASE docs[Quota(a, h)].here /\ docs[Quota(a, h)].expires <= now /\ docs'[Quota(a, h)] = Absent
    <3>1. \E s \in Counted(a, h) : now >= start[s] + 2 * Window
      BY <2>2, <2>5 DEF HourCounts
    <3>2. \E s \in Counted(a, h)' : now' >= start'[s] + 2 * Window
      BY <1>0, <2>1, <2>3, <3>1, Numbers
    <3> QED
      BY <2>1, <2>2, <2>5, <3>2 DEF HourCounts, Absent
  <2> QED
    BY <2>4, <2>5
<1>2. ASSUME NEW s \in Admitted PROVE now' >= start'[s] + Cooldown \/ docs'[TargetOf(s)'].expires >= start'[s] + Cooldown
  <2>1. TargetOf(s)' = TargetOf(s) /\ start'[s] = start[s] /\ start[s] \in Nat
    BY <1>0 DEF TargetOf
  <2>2. TargetOf(s) \in {Target(t) : t \in Targets} /\ docs[TargetOf(s)].expires \in Nat
    BY <1>0, Numbers, IdsExist DEF TargetOf
  <2>3. now >= start[s] + Cooldown \/ docs[TargetOf(s)].expires >= start[s] + Cooldown
    BY DEF AdmissionInv, CooldownsStand
  <2>4. docs'[TargetOf(s)] = docs[TargetOf(s)] \/ docs[TargetOf(s)].expires <= now
    BY <2>2
  <2> QED
    BY <1>0, <2>1, <2>2, <2>3, <2>4, Numbers
<1>3. CooldownHeld'
  BY DEF AdmissionInv, CooldownHeld
<1> QED
  BY <1>1, <1>2, <1>3 DEF HoursCount, CooldownsStand

\* The counter of an admitted request's hour: nobody has deleted it, or its first request
\* was of another hour.
LEMMA CommitCounts ==
  ASSUME ConstantsOK, AdmissionInv, NEW r \in Reqs, Commit(r)
  PROVE  HoursCount'
<1>0. /\ reqPc[r] = "txn" /\ ask[r] \in Asks /\ start[r] \in Nat /\ now \in Nat /\ now <= start[r] + TxnTime
      /\ docs' = AfterAdmission(docs, r) /\ UNCHANGED <<now, ask, start>>
      /\ Admitted' = Admitted \cup {r} /\ r \notin Admitted
      /\ \A s \in Reqs : start[s] \in Nat
  <2>1. /\ reqPc[r] = "txn" /\ ask[r] \in Asks /\ now \in Nat /\ now - start[r] <= TxnTime
        /\ \A s \in Reqs : start[s] \in Nat
    BY DEF AdmissionInv, AdmissionTyped, Commit, MayAdmit, InTime
  <2>2. Admitted' = Admitted \cup {r} /\ r \notin Admitted
    BY <2>1 DEF AdmissionInv, AdmissionTyped, Commit, Admitted
  <2>3. now <= start[r] + TxnTime
    BY <2>1, Numbers
  <2> QED
    BY <2>1, <2>2, <2>3 DEF Commit
<1>1. /\ ask[r].actor \in Actors /\ HourOf(r) \in Hours /\ QuotaOf(r) \in Ids
      /\ docs'[QuotaOf(r)] = Doc(NoReq, docs[QuotaOf(r)].count + 1,
                                 IF docs[QuotaOf(r)].here THEN docs[QuotaOf(r)].expires
                                 ELSE start[r] + 2 * Window)
      /\ \A id \in Ids \ Written(r) : docs'[id] = docs[id]
  BY <1>0, RequestIds, Writes DEF AdmissionInv
<1>2. docs[QuotaOf(r)].count < LimitOf(ask[r].actor)
  BY CommitIsAdmissible DEF Admissible, QuotaOpen
<1> SUFFICES ASSUME NEW a \in Actors, NEW h \in Hours PROVE HourCounts(a, h)'
  BY DEF HoursCount
<1>3. /\ HourCounts(a, h) /\ Counted(a, h)' = {q \in Admitted' : ask[q].actor = a /\ HourOf(q) = h}
      /\ Counted(a, h) \subseteq Reqs
  BY <1>0 DEF AdmissionInv, HoursCount, Counted, HourOf, Admitted
<1>4. CASE a = ask[r].actor /\ h = HourOf(r)
  <2>1. Quota(a, h) = QuotaOf(r)
    BY <1>4 DEF QuotaOf
  <2>2. Counted(a, h)' = Counted(a, h) \cup {r} /\ r \notin Counted(a, h)
    BY <1>0, <1>3, <1>4 DEF Counted
  <2>3. ~ \E s \in Counted(a, h) : now >= start[s] + 2 * Window
    <3> SUFFICES ASSUME NEW s \in Counted(a, h) PROVE now < start[s] + 2 * Window
      BY <1>0, <1>3, Numbers
    <3>1. start[s] \in Nat /\ start[r] \div Window = start[s] \div Window
      BY <1>0, <1>3, <1>4 DEF Counted, HourOf
    <3>2. start[r] < start[s] + Window
      BY <1>0, <3>1, Numbers, SameHour
    <3> QED
      BY <1>0, <3>1, <3>2, Numbers
  <2>4. docs[QuotaOf(r)].count = Cardinality(Counted(a, h)) /\ IsFiniteSet(Counted(a, h))
    BY <1>3, <2>1, <2>3 DEF HourCounts
  <2>5. IsFiniteSet(Counted(a, h)') /\ Cardinality(Counted(a, h)') = Cardinality(Counted(a, h)) + 1
    BY <2>2, <2>4, FS_AddElement
  <2>6. docs'[QuotaOf(r)].count = Cardinality(Counted(a, h)') /\ Cardinality(Counted(a, h)') <= LimitOf(a)
    <3>1. Cardinality(Counted(a, h)) \in Nat /\ LimitOf(a) \in Nat
      BY <2>4, FS_CardinalityType, Numbers
    <3> QED
      BY <1>1, <1>2, <1>4, <2>4, <2>5, <3>1 DEF Doc
  <2>7. \E s \in Counted(a, h)' : docs'[QuotaOf(r)].expires = start[s] + 2 * Window
    <3>1. CASE docs[QuotaOf(r)].here
      <4>1. \E s \in Counted(a, h) : docs[QuotaOf(r)].expires = start[s] + 2 * Window
        BY <1>3, <2>1, <3>1 DEF HourCounts
      <4> QED
        BY <1>1, <2>2, <3>1, <4>1 DEF Doc
    <3>2. CASE ~docs[QuotaOf(r)].here
      BY <1>1, <2>2, <3>2 DEF Doc
    <3> QED
      BY <3>1, <3>2
  <2>8. QuotaOf(r)' = QuotaOf(r) /\ UNCHANGED <<start, now>>
    BY <1>0 DEF QuotaOf, HourOf
  <2> QED
    BY <2>1, <2>5, <2>6, <2>7, <2>8 DEF HourCounts
<1>5. CASE ~(a = ask[r].actor /\ h = HourOf(r))
  <2>1. Counted(a, h)' = Counted(a, h)
    BY <1>0, <1>3, <1>5 DEF Counted
  <2>2. docs'[Quota(a, h)] = docs[Quota(a, h)]
    <3>1. Quota(a, h) \in Ids
      BY IdsExist
    <3>2. Quota(a, h) \notin Written(r)
      BY <1>5, IdsDiffer DEF Written, ClaimOf, QuotaOf, TargetOf
    <3> QED
      BY <1>1, <3>1, <3>2
  <2> QED
    BY <1>0, <1>3, <2>1, <2>2 DEF HourCounts
<1> QED
  BY <1>4, <1>5

LEMMA CommitCools ==
  ASSUME ConstantsOK, AdmissionInv, NEW r \in Reqs, Commit(r)
  PROVE  CooldownsStand' /\ CooldownHeld'
<1>0. /\ reqPc[r] = "txn" /\ ask[r] \in Asks /\ now \in Nat /\ start[r] <= now
      /\ docs' = AfterAdmission(docs, r) /\ UNCHANGED <<now, ask, start>>
      /\ Admitted' = Admitted \cup {r} /\ r \notin Admitted
      /\ \A s \in Reqs : start[s] \in Nat
      /\ committed'[r] = now /\ \A s \in Admitted : committed'[s] = committed[s]
      /\ \A s \in Admitted : ask[s] \in Asks /\ s \in Reqs
  BY DEF AdmissionInv, AdmissionTyped, Commit, MayAdmit, Admitted
<1>1. /\ docs'[TargetOf(r)] = Doc(NoReq, 0, start[r] + Cooldown)
      /\ \A id \in Ids \ Written(r) : docs'[id] = docs[id]
      /\ TargetOf(r) \in Ids /\ docs[TargetOf(r)].expires \in Nat
  BY <1>0, RequestIds, Writes DEF AdmissionInv, AdmissionTyped, Docs
<1>2. docs[TargetOf(r)].expires <= start[r]
  BY CommitIsAdmissible DEF Admissible, TargetOpen
<1>3. ASSUME NEW s \in Admitted, ask[s].target = ask[r].target PROVE now >= start[s] + Cooldown
  <2>1. TargetOf(s) = TargetOf(r)
    BY <1>3 DEF TargetOf
  <2> QED
    BY <1>0, <1>1, <1>2, <1>3, <2>1, Numbers DEF AdmissionInv, CooldownsStand
<1>4. ASSUME NEW s \in Admitted'
      PROVE  now >= start[s] + Cooldown \/ docs'[TargetOf(s)].expires >= start[s] + Cooldown
  <2>1. CASE s = r
    BY <1>0, <1>1, <2>1, Numbers DEF Doc
  <2>2. CASE s # r /\ ask[s].target = ask[r].target
    BY <1>0, <1>3, <1>4, <2>2
  <2>3. CASE s # r /\ ask[s].target # ask[r].target
    <3>1. TargetOf(s) \in Ids
      BY <1>0, <1>4, <2>3, RequestIds DEF AdmissionInv
    <3>2. TargetOf(s) \notin Written(r)
      BY <2>3, IdsDiffer DEF Written, ClaimOf, QuotaOf, TargetOf
    <3> QED
      BY <1>0, <1>1, <1>4, <2>3, <3>1, <3>2 DEF AdmissionInv, CooldownsStand
  <2> QED
    BY <2>1, <2>2, <2>3
<1>5. CooldownsStand'
  BY <1>0, <1>4 DEF CooldownsStand, TargetOf
<1>6. CooldownHeld'
  <2> SUFFICES ASSUME NEW q \in Admitted', NEW s \in Admitted', q # s, ask[q].target = ask[s].target
               PROVE  committed'[q] >= start[s] + Cooldown \/ committed'[s] >= start[q] + Cooldown
    BY <1>0 DEF CooldownHeld
  <2>1. CASE q = r
    BY <1>0, <1>3, <2>1
  <2>2. CASE s = r
    BY <1>0, <1>3, <2>2
  <2>3. CASE q # r /\ s # r
    BY <1>0, <2>3 DEF AdmissionInv, CooldownHeld
  <2> QED
    BY <2>1, <2>2, <2>3
<1> QED
  BY <1>5, <1>6

LEMMA CommitKeeps ==
  ASSUME ConstantsOK, AdmissionInv, NEW r \in Reqs, Commit(r) PROVE AdmissionInv'
<1>0. /\ reqPc[r] = "txn" /\ ask[r] \in Asks /\ docs' = AfterAdmission(docs, r)
      /\ UNCHANGED <<now, ask, start>> /\ reqPc' = [reqPc EXCEPT ![r] = "open"]
      /\ verdict' = [verdict EXCEPT ![r] = FALSE] /\ committed' = [committed EXCEPT ![r] = now]
      /\ tries' = [tries EXCEPT ![r] = 0] /\ Touch(Written(r))
      /\ now \in Nat
  BY DEF AdmissionInv, AdmissionTyped, Commit, MayAdmit
<1>1. /\ docs' \in [Ids -> Docs]
      /\ docs'[ClaimOf(r)] = Doc(r, 0, start[r] + ClaimTime)
      /\ docs'[QuotaOf(r)].job = NoReq /\ docs'[TargetOf(r)].job = NoReq
      /\ docs'[Queue] = Doc(NoReq, docs[Queue].count + 1, 0)
      /\ \A id \in Ids \ Written(r) : docs'[id] = docs[id]
  <2>1. /\ docs' \in [Ids -> Docs]
        /\ docs'[ClaimOf(r)] = Doc(r, 0, start[r] + ClaimTime)
        /\ docs'[QuotaOf(r)] = Doc(NoReq, docs[QuotaOf(r)].count + 1,
                                   IF docs[QuotaOf(r)].here THEN docs[QuotaOf(r)].expires
                                   ELSE start[r] + 2 * Window)
        /\ docs'[TargetOf(r)] = Doc(NoReq, 0, start[r] + Cooldown)
        /\ docs'[Queue] = Doc(NoReq, docs[Queue].count + 1, 0)
        /\ \A id \in Ids \ Written(r) : docs'[id] = docs[id]
    BY <1>0, Writes DEF AdmissionInv
  <2>2. docs'[QuotaOf(r)].job = NoReq
    BY <2>1 DEF Doc
  <2>3. docs'[TargetOf(r)].job = NoReq
    BY <2>1 DEF Doc
  <2> QED
    BY <2>1, <2>2, <2>3
<1>2. /\ reqPc' \in [Reqs -> Pcs] /\ reqPc'[r] = "open" /\ \A q \in Reqs : q # r => reqPc'[q] = reqPc[q]
  BY <1>0 DEF AdmissionInv, AdmissionTyped, Pcs
<1>3. stale' \in [Reqs -> BOOLEAN] /\ \A q \in Reqs : reqPc'[q] = "txn" => stale'[q]
  BY <1>0 DEF Touch, Written, AdmissionInv, AdmissionTyped
<1>4. AdmissionTyped'
  BY <1>0, <1>1, <1>2, <1>3 DEF AdmissionInv, AdmissionTyped
<1>5. ClaimsAdmitted'
  <2>1. Admitted' = Admitted \cup {r}
    BY <1>0, <1>2 DEF Admitted
  <2>2. \A id \in Ids : docs'[id].job \in {docs[id].job, r, NoReq}
    BY <1>1 DEF Written, Doc
  <2> QED
    BY <2>1, <2>2 DEF AdmissionInv, ClaimsAdmitted
<1>6. SnapshotFresh'
  BY <1>3 DEF SnapshotFresh
<1>7. QueueCounts'
  <2>1. Holding' = Holding \cup {r} /\ r \notin Holding
    BY <1>0, <1>2 DEF Holding
  <2>2. IsFiniteSet(Holding') /\ Cardinality(Holding') = Cardinality(Holding) + 1
    BY <2>1, FS_AddElement DEF AdmissionInv, QueueCounts
  <2> QED
    BY <1>1, <2>2 DEF AdmissionInv, QueueCounts, Doc
<1> QED
  BY <1>4, <1>5, <1>6, <1>7, CommitCounts, CommitCools DEF AdmissionInv

-----------------------------------------------------------------------------
(***************************************************************************)
(* The other steps                                                         *)
(***************************************************************************)
\* No document changes.
LEMMA RequestsKeep ==
  ASSUME ConstantsOK, AdmissionInv, AdmissionTyped', UNCHANGED docs, now' >= now,
         Admitted' = Admitted, Holding' = Holding, OpenJobs' \subseteq OpenJobs,
         \A q \in Admitted : ask'[q] = ask[q] /\ start'[q] = start[q] /\ committed'[q] = committed[q],
         \A q \in Reqs : reqPc'[q] = "txn" /\ verdict'[q] /\ ~stale'[q] =>
           \/ Admissible(docs, OpenJobs, q)'
           \/ /\ reqPc[q] = "txn" /\ verdict[q] /\ ~stale[q] /\ ask'[q] = ask[q] /\ start'[q] = start[q]
  PROVE  AdmissionInv'
<1>1. HoursCount' /\ CooldownsStand' /\ CooldownHeld'
  <2>1. now' \in Nat
    BY DEF AdmissionTyped
  <2> QED
    BY <2>1, LimitsStand
<1>2. SnapshotFresh'
  BY SnapshotsStayFresh
<1>3. ClaimsAdmitted' /\ QueueCounts'
  BY DEF AdmissionInv, ClaimsAdmitted, QueueCounts
<1> QED
  BY <1>1, <1>2, <1>3 DEF AdmissionInv

LEMMA BeginKeeps ==
  ASSUME ConstantsOK, AdmissionInv, NEW r \in Reqs, NEW a \in Asks, Begin(r, a) PROVE AdmissionInv'
<1>0. /\ reqPc[r] = "new" /\ now \in Nat
      /\ reqPc' \in [Reqs -> Pcs] /\ ask' \in [Reqs -> Asks \cup {NoAsk}] /\ start' \in [Reqs -> Nat]
      /\ reqPc'[r] = "txn" /\ ask'[r] = a /\ start'[r] = now
      /\ \A q \in Reqs : q # r => /\ reqPc'[q] = reqPc[q] /\ ask'[q] = ask[q] /\ start'[q] = start[q]
                                  /\ verdict'[q] = verdict[q]
      /\ UNCHANGED <<now, docs, stale, tries, committed>>
  BY DEF Begin, AdmissionInv, AdmissionTyped, Pcs
<1>1. Admissible(docs, OpenJobs, r)' \in BOOLEAN
  BY DEF Admissible, ClaimHeld, QuotaOpen, TargetOpen, QueueOpen
<1>2. verdict' \in [Reqs -> BOOLEAN] /\ verdict'[r] = Admissible(docs, OpenJobs, r)'
  BY <1>1 DEF Begin, AdmissionInv, AdmissionTyped
<1>3. AdmissionTyped'
  BY <1>0, <1>2 DEF AdmissionInv, AdmissionTyped
<1>4. Admitted' = Admitted /\ Holding' = Holding /\ OpenJobs' = OpenJobs /\ r \notin Admitted
  BY <1>0 DEF Admitted, Holding, OpenJobs
<1>5. \A q \in Admitted : ask'[q] = ask[q] /\ start'[q] = start[q] /\ committed'[q] = committed[q]
  BY <1>0, <1>4 DEF Admitted
<1> QED
  BY <1>0, <1>2, <1>3, <1>4, <1>5, RequestsKeep

LEMMA RepeatKeeps ==
  ASSUME ConstantsOK, AdmissionInv, NEW r \in Reqs, Repeat(r) PROVE AdmissionInv'
<1>0. /\ UNCHANGED <<now, docs, reqPc, ask, start, committed>> /\ now \in Nat
      /\ \A q \in Reqs : q # r => verdict'[q] = verdict[q] /\ stale'[q] = stale[q]
  BY DEF Repeat, Snapshot, AdmissionInv, AdmissionTyped
<1>1. Admissible(docs, OpenJobs, r)' = Admissible(docs, OpenJobs, r)
  BY <1>0 DEF Admissible, ClaimHeld, QuotaOpen, TargetOpen, QueueOpen, OpenJobs, ClaimOf, QuotaOf, TargetOf, HourOf
<1>2. Admissible(docs, OpenJobs, r) \in BOOLEAN
  BY DEF Admissible, ClaimHeld, QuotaOpen, TargetOpen, QueueOpen
<1>3. verdict' \in [Reqs -> BOOLEAN] /\ verdict'[r] = Admissible(docs, OpenJobs, r) /\ stale' \in [Reqs -> BOOLEAN]
  BY <1>2 DEF Repeat, Snapshot, AdmissionInv, AdmissionTyped
<1>4. tries' \in [Reqs -> Nat]
  BY DEF Repeat, AdmissionInv, AdmissionTyped
<1>5. AdmissionTyped'
  BY <1>0, <1>3, <1>4 DEF AdmissionInv, AdmissionTyped
<1>6. Admitted' = Admitted /\ Holding' = Holding /\ OpenJobs' = OpenJobs
  BY <1>0 DEF Admitted, Holding, OpenJobs
<1> QED
  BY <1>0, <1>1, <1>3, <1>5, <1>6, RequestsKeep

LEMMA AnswerKeeps ==
  ASSUME ConstantsOK, AdmissionInv, NEW r \in Reqs, Answer(r) PROVE AdmissionInv'
<1>0. /\ UNCHANGED <<now, docs, committed>> /\ now \in Nat /\ reqPc[r] = "txn"
      /\ reqPc' \in [Reqs -> Pcs] /\ ask' \in [Reqs -> Asks \cup {NoAsk}] /\ start' \in [Reqs -> Nat]
      /\ verdict' \in [Reqs -> BOOLEAN] /\ stale' \in [Reqs -> BOOLEAN] /\ tries' \in [Reqs -> Nat]
      /\ reqPc'[r] = "refused" /\ start'[r] = 0
      /\ \A q \in Reqs : q # r => /\ reqPc'[q] = reqPc[q] /\ ask'[q] = ask[q] /\ start'[q] = start[q]
                                  /\ verdict'[q] = verdict[q] /\ stale'[q] = stale[q]
  BY DEF Answer, AdmissionInv, AdmissionTyped, Pcs
<1>1. AdmissionTyped'
  BY <1>0 DEF AdmissionInv, AdmissionTyped
<1>2. Admitted' = Admitted /\ Holding' = Holding /\ OpenJobs' = OpenJobs /\ r \notin Admitted
  BY <1>0 DEF Admitted, Holding, OpenJobs
<1>3. \A q \in Admitted : ask'[q] = ask[q] /\ start'[q] = start[q] /\ committed'[q] = committed[q]
  BY <1>0, <1>2 DEF Admitted
<1> QED
  BY <1>0, <1>1, <1>2, <1>3, RequestsKeep

LEMMA JobEndsKeeps ==
  ASSUME ConstantsOK, AdmissionInv, NEW r \in Reqs, JobEnds(r) PROVE AdmissionInv'
<1>0. /\ UNCHANGED <<now, docs, ask, start, verdict, stale, tries, committed>> /\ now \in Nat /\ reqPc[r] = "open"
      /\ reqPc' \in [Reqs -> Pcs] /\ reqPc'[r] = "ended" /\ \A q \in Reqs : q # r => reqPc'[q] = reqPc[q]
  BY DEF JobEnds, AdmissionInv, AdmissionTyped, Pcs
<1>1. AdmissionTyped'
  BY <1>0 DEF AdmissionInv, AdmissionTyped
<1>2. Admitted' = Admitted /\ Holding' = Holding /\ OpenJobs' \subseteq OpenJobs
  BY <1>0 DEF Admitted, Holding, OpenJobs
<1> QED
  BY <1>0, <1>1, <1>2, RequestsKeep

\* Documents are deleted or decremented, and what looks at them is told.
LEMMA DocsKeep ==
  ASSUME ConstantsOK, AdmissionInv, NEW ids \in SUBSET Ids, Touch(ids), reqPc' \in [Reqs -> Pcs],
         UNCHANGED <<now, ask, start, verdict, tries, committed>>, docs' \in [Ids -> Docs],
         \A q \in Reqs : \/ reqPc'[q] = reqPc[q]
                         \/ reqPc[q] \in {"ended", "released"} /\ reqPc'[q] \in {"released", "done"},
         \A id \in Ids : docs'[id] = docs[id] \/ (id \in ids /\ docs'[id].job \in {NoReq, docs[id].job}),
         \A id \in {Quota(a, h) : a \in Actors, h \in Hours} \cup {Target(t) : t \in Targets} :
           \/ docs'[id] = docs[id]
           \/ docs[id].here /\ docs[id].expires <= now /\ docs'[id] = Absent
  PROVE  AdmissionTyped' /\ ClaimsAdmitted' /\ SnapshotFresh' /\ HoursCount' /\ CooldownsStand' /\ CooldownHeld'
<1>0. now \in Nat /\ now' = now
  BY DEF AdmissionInv, AdmissionTyped
<1>1. stale' \in [Reqs -> BOOLEAN]
  BY DEF Touch, AdmissionInv, AdmissionTyped
<1>2. AdmissionTyped'
  BY <1>1 DEF AdmissionInv, AdmissionTyped, Pcs
<1>3. Admitted' = Admitted /\ OpenJobs' = OpenJobs
  BY DEF Admitted, OpenJobs
<1>4. ClaimsAdmitted'
  BY <1>3 DEF AdmissionInv, ClaimsAdmitted
<1>5. ASSUME NEW q \in Reqs, reqPc'[q] = "txn", ~stale'[q]
      PROVE  reqPc[q] = "txn" /\ ~stale[q] /\ \A id \in Written(q) : docs'[id] = docs[id]
  <2>1. reqPc[q] = "txn" /\ ~stale[q] /\ ids \cap Written(q) = {}
    BY <1>5 DEF Touch
  <2>2. Written(q) \subseteq Ids
    BY <2>1, RequestIds DEF AdmissionInv, AdmissionTyped, Written
  <2> QED
    BY <2>1, <2>2
<1>6. SnapshotFresh'
  BY <1>3, <1>5, SnapshotsStayFresh
<1>7. HoursCount' /\ CooldownsStand' /\ CooldownHeld'
  BY <1>0, <1>3, LimitsStand
<1> QED
  BY <1>2, <1>4, <1>6, <1>7

LEMMA ReleaseClaimKeeps ==
  ASSUME ConstantsOK, AdmissionInv, NEW r \in Reqs, ReleaseClaim(r) PROVE AdmissionInv'
<1>0. /\ reqPc[r] = "ended" /\ ask[r] \in Asks /\ docs \in [Ids -> Docs]
      /\ reqPc' \in [Reqs -> Pcs] /\ reqPc'[r] = "released" /\ \A q \in Reqs : q # r => reqPc'[q] = reqPc[q]
  BY DEF ReleaseClaim, AdmissionInv, AdmissionTyped, Pcs
<1>1. Absent \in Docs /\ Absent.job = NoReq
  BY DEF Absent, Docs
<1>2. PICK ids \in SUBSET {ClaimOf(r)} : /\ Touch(ids)
                                         /\ docs' = [id \in Ids |-> IF id \in ids THEN Absent ELSE docs[id]]
  <2>1. CASE docs[ClaimOf(r)].job = r
    <3>1. docs' = [docs EXCEPT ![ClaimOf(r)] = Absent] /\ Touch({ClaimOf(r)})
      BY <2>1 DEF ReleaseClaim
    <3>2. docs' = [id \in Ids |-> IF id \in {ClaimOf(r)} THEN Absent ELSE docs[id]]
      BY <1>0, <3>1
    <3> QED
      BY <3>1, <3>2
  <2>2. CASE docs[ClaimOf(r)].job # r
    <3>1. docs' = docs /\ Touch({})
      BY <2>2 DEF ReleaseClaim
    <3>2. docs' = [id \in Ids |-> IF id \in {} THEN Absent ELSE docs[id]]
      BY <1>0, <3>1
    <3> QED
      BY <3>1, <3>2
  <2> QED
    BY <2>1, <2>2
<1>3. /\ docs' \in [Ids -> Docs] /\ ids \in SUBSET Ids
      /\ \A id \in Ids : docs'[id] = docs[id] \/ (id \in ids /\ docs'[id].job = NoReq)
  <2>1. ids \in SUBSET Ids
    BY <1>0, <1>2, RequestIds DEF AdmissionInv
  <2>2. \A id \in Ids : docs'[id] = IF id \in ids THEN Absent ELSE docs[id]
    BY <1>2
  <2>3. docs' \in [Ids -> Docs]
    BY <1>0, <1>1, <1>2
  <2>4. \A id \in Ids : docs'[id] = docs[id] \/ (id \in ids /\ docs'[id].job = NoReq)
    BY <1>1, <2>2
  <2> QED
    BY <2>1, <2>3, <2>4
<1>4. /\ \A id \in {Quota(a, h) : a \in Actors, h \in Hours} \cup {Target(t) : t \in Targets} : docs'[id] = docs[id]
      /\ docs'[Queue] = docs[Queue]
  <2>1. \A id \in Ids : id # ClaimOf(r) => docs'[id] = docs[id]
    BY <1>2
  <2> QED
    BY <2>1, IdsDiffer, IdsExist DEF ClaimOf
<1>5. Holding' = Holding
  BY <1>0 DEF Holding
<1>6. QueueCounts'
  BY <1>4, <1>5 DEF AdmissionInv, QueueCounts
<1>7. /\ UNCHANGED <<now, ask, start, verdict, tries, committed>>
      /\ \A q \in Reqs : \/ reqPc'[q] = reqPc[q]
                         \/ reqPc[q] \in {"ended", "released"} /\ reqPc'[q] \in {"released", "done"}
  BY <1>0 DEF ReleaseClaim
<1> QED
  BY <1>0, <1>2, <1>3, <1>4, <1>6, <1>7, DocsKeep DEF AdmissionInv

LEMMA ReleaseSlotKeeps ==
  ASSUME ConstantsOK, AdmissionInv, NEW r \in Reqs, ReleaseSlot(r) PROVE AdmissionInv'
<1>0. /\ reqPc[r] = "released" /\ docs \in [Ids -> Docs] /\ docs[Queue] \in Docs
      /\ reqPc' \in [Reqs -> Pcs] /\ reqPc'[r] = "done" /\ \A q \in Reqs : q # r => reqPc'[q] = reqPc[q]
  BY IdsExist DEF ReleaseSlot, AdmissionInv, AdmissionTyped, Pcs
<1>1. r \in Holding /\ Holding' = Holding \ {r}
  BY <1>0 DEF Holding
<1>2. /\ IsFiniteSet(Holding') /\ Cardinality(Holding') = Cardinality(Holding) - 1
      /\ docs[Queue].count = Cardinality(Holding)
  BY <1>1, FS_RemoveElement DEF AdmissionInv, QueueCounts
<1>3. docs[Queue].count > 0 /\ docs[Queue].count \in Nat
  <2>1. IsFiniteSet(Holding) /\ Holding # {}
    BY <1>1 DEF AdmissionInv, QueueCounts
  <2>2. Cardinality(Holding) # 0 /\ Cardinality(Holding) \in Nat
    BY <2>1, FS_EmptySet, FS_CardinalityType
  <2> QED
    BY <1>2, <2>2
<1>4. docs' = [docs EXCEPT ![Queue].count = docs[Queue].count - 1] /\ Touch({Queue})
  BY <1>0, <1>3 DEF ReleaseSlot
<1>5. /\ docs' \in [Ids -> Docs] /\ docs'[Queue].count = docs[Queue].count - 1
      /\ docs'[Queue].job = docs[Queue].job
      /\ \A id \in Ids : id # Queue => docs'[id] = docs[id]
  <2>1. docs[Queue].count - 1 \in Nat
    BY <1>3
  <2> QED
    BY <1>0, <1>4, <2>1, IdsExist DEF Docs
<1>6. QueueCounts'
  BY <1>2, <1>5 DEF QueueCounts
<1>7. \A id \in {Quota(a, h) : a \in Actors, h \in Hours} \cup {Target(t) : t \in Targets} : docs'[id] = docs[id]
  BY <1>5, IdsDiffer, IdsExist
<1>8. /\ UNCHANGED <<now, ask, start, verdict, tries, committed>>
      /\ \A q \in Reqs : \/ reqPc'[q] = reqPc[q]
                         \/ reqPc[q] \in {"ended", "released"} /\ reqPc'[q] \in {"released", "done"}
  BY <1>0 DEF ReleaseSlot
<1>9. {Queue} \in SUBSET Ids /\ \A id \in Ids : docs'[id] = docs[id] \/ (id \in {Queue} /\ docs'[id].job = docs[id].job)
  BY <1>5, IdsExist
<1> QED
  BY <1>0, <1>4, <1>5, <1>6, <1>7, <1>8, <1>9, DocsKeep DEF AdmissionInv

LEMMA ExpireKeeps ==
  ASSUME ConstantsOK, AdmissionInv, NEW gone \in Ids, Expire(gone) PROVE AdmissionInv'
<1>0. /\ docs \in [Ids -> Docs] /\ docs' = [docs EXCEPT ![gone] = Absent] /\ Touch({gone})
      /\ gone # Queue /\ docs[gone].here /\ docs[gone].expires <= now
      /\ UNCHANGED <<reqPc, now, ask, start, verdict, tries, committed>> /\ reqPc' \in [Reqs -> Pcs]
  BY DEF Expire, AdmissionInv, AdmissionTyped
<1>1. Absent \in Docs /\ Absent.job = NoReq
  BY DEF Absent, Docs
<1>2. /\ docs' \in [Ids -> Docs] /\ docs'[gone] = Absent /\ \A id \in Ids : id # gone => docs'[id] = docs[id]
  BY <1>0, <1>1
<1>3. \A id \in {Quota(a, h) : a \in Actors, h \in Hours} \cup {Target(t) : t \in Targets} :
           \/ docs'[id] = docs[id]
           \/ docs[id].here /\ docs[id].expires <= now /\ docs'[id] = Absent
  BY <1>0, <1>2, IdsExist
<1>4. QueueCounts'
  <2>1. docs'[Queue] = docs[Queue] /\ Holding' = Holding
    BY <1>0, <1>2, IdsExist DEF Holding
  <2> QED
    BY <2>1 DEF AdmissionInv, QueueCounts
<1>5. \A id \in Ids : docs'[id] = docs[id] \/ (id \in {gone} /\ docs'[id].job = NoReq)
  <2>1. docs'[gone].job = NoReq
    BY <1>1, <1>2
  <2> QED
    BY <1>2, <2>1
<1> QED
  BY <1>0, <1>2, <1>3, <1>4, <1>5, DocsKeep DEF AdmissionInv

LEMMA TickKeeps ==
  ASSUME ConstantsOK, AdmissionInv, Tick PROVE AdmissionInv'
<1>1. /\ now \in Nat /\ now' = now + 1 /\ now' \in 0..MaxTime
      /\ UNCHANGED <<docs, reqPc, ask, start, verdict, stale, tries, committed>>
  BY Numbers DEF Tick, AdmissionInv, AdmissionTyped
<1>2. AdmissionTyped'
  BY <1>1 DEF AdmissionInv, AdmissionTyped
<1>3. Admitted' = Admitted /\ Holding' = Holding /\ OpenJobs' = OpenJobs
  BY <1>1 DEF Admitted, Holding, OpenJobs
<1> QED
  BY <1>1, <1>2, <1>3, RequestsKeep

LEMMA AdmissionStart ==
  ASSUME ConstantsOK, Init PROVE AdmissionInv
<1>1. AdmissionTyped
  BY Numbers DEF Init, AdmissionTyped, NoDocs, Absent, Docs, Pcs
<1>2. Admitted = {} /\ Holding = {} /\ \A a, h : Counted(a, h) = {}
  BY DEF Init, Admitted, Holding, Counted
<1>3. \A id \in Ids : docs[id] = Absent
  BY DEF Init, NoDocs
<1>4. ClaimsAdmitted /\ SnapshotFresh /\ CooldownsStand /\ CooldownHeld
  BY <1>2, <1>3 DEF Init, ClaimsAdmitted, SnapshotFresh, CooldownsStand, CooldownHeld, Absent
<1>5. QueueCounts
  BY <1>2, <1>3, IdsExist, FS_EmptySet DEF QueueCounts, Absent
<1>6. HoursCount
  BY <1>2, <1>3, IdsExist, FS_EmptySet, Numbers DEF HoursCount, HourCounts, Absent
<1> QED
  BY <1>1, <1>4, <1>5, <1>6 DEF AdmissionInv

LEMMA AdmissionStep ==
  ASSUME ConstantsOK, AdmissionInv, [Next]_vars PROVE AdmissionInv'
<1>1. CASE UNCHANGED vars
  <2>1. AdmissionTyped'
    BY <1>1 DEF vars, AdmissionInv, AdmissionTyped
  <2>2. Admitted' = Admitted /\ Holding' = Holding /\ OpenJobs' = OpenJobs
    BY <1>1 DEF vars, Admitted, Holding, OpenJobs
  <2>3. now' >= now
    BY <1>1 DEF vars, AdmissionInv, AdmissionTyped
  <2> QED
    BY <1>1, <2>1, <2>2, <2>3, RequestsKeep DEF vars
<1> QED
  BY <1>1, BeginKeeps, CommitKeeps, RepeatKeeps, AnswerKeeps, JobEndsKeeps, ReleaseClaimKeeps,
     ReleaseSlotKeeps, ExpireKeeps, TickKeeps DEF Next

LEMMA AdmissionAlways ==
  ASSUME ConstantsOK PROVE Spec => []AdmissionInv
BY AdmissionStart, AdmissionStep, PTL DEF Spec

-----------------------------------------------------------------------------
\* No actor is admitted beyond its limit in an hour, no target twice within its cooldown, and
\* the queue's counter is its queue, for any number of requests and whatever conflicts,
\* repetitions and deletions by the TTL index; as long as a request's transactions take no
\* longer than a quota's hour.
THEOREM AdmissionLimits ==
  ASSUME ConstantsOK PROVE Spec => []LimitsHold
<1>1. AdmissionInv => LimitsHold
  <2> SUFFICES ASSUME AdmissionInv PROVE LimitsHold
    OBVIOUS
  <2>1. QuotaHeld
    BY DEF AdmissionInv, HoursCount, HourCounts, Counted, QuotaHeld
  <2>2. QueueExact
    BY DEF AdmissionInv, QueueCounts, Holding, QueueExact
  <2> QED
    BY <2>1, <2>2 DEF AdmissionInv, LimitsHold
<1> QED
  BY <1>1, AdmissionAlways, PTL

\* What a request's snapshot has found is so when its job is inserted: the transaction is as
\* good as one step.
THEOREM AdmissionIsAtomic ==
  ASSUME ConstantsOK PROVE Spec => AdmitsAtomically
<1>1. AdmissionInv /\ [Next]_vars =>
        [\A r \in Reqs : reqPc[r] = "txn" /\ reqPc'[r] = "open" => Admissible(docs, OpenJobs, r)]_vars
  <2> SUFFICES ASSUME AdmissionInv, Next, NEW r \in Reqs, reqPc[r] = "txn", reqPc'[r] = "open"
               PROVE  Admissible(docs, OpenJobs, r)
    OBVIOUS
  <2>1. Commit(r)
    BY DEF Next, Begin, Commit, Repeat, Answer, JobEnds, ReleaseClaim, ReleaseSlot, Expire, Tick,
       AdmissionInv, AdmissionTyped
  <2> QED
    BY <2>1, CommitIsAdmissible
<1> QED
  BY <1>1, AdmissionAlways, PTL DEF Spec, AdmitsAtomically

-----------------------------------------------------------------------------
(***************************************************************************)
(* The leases of archive retrievals, for any number of calls, requesters   *)
(* and slots, and any durations with SetupTime + Deadline < LeaseTime.     *)
(***************************************************************************)
USE AdmissionAssumption

LEMMA InductiveInit == LeasesInit => Inductive
  BY DEF LeasesInit, Inductive, LeasesTypeOK, LeasesInTime, Owning, PC, Acquiring

LEMMA SlotIsDoc == \A w \in Workers :
    next[w] \in 0..GlobalSlotCount /\ next[w] < GlobalSlotCount => next[w] \in GlobalSlots /\ next[w] \in LeaseDocs
  BY DEF GlobalSlots, LeaseDocs

\* A free document is in no lease that still counts.
LEMMA FreeIsUnowned ==
  ASSUME Inductive, NEW d \in LeaseDocs, Free(d), NEW v \in Workers,
         Acquiring(v) \/ pc[v] = "retrieving"
  PROVE  d \notin owns[v]
<1>1. elapsed[v] \in Int /\ leaseLeft[d] = 0
  BY DEF Inductive, LeasesTypeOK, Free
<1>2. CASE Acquiring(v)
  BY <1>1, <1>2 DEF Inductive, LeasesInTime
<1>3. CASE pc[v] = "retrieving"
  BY <1>1, <1>3 DEF Inductive, LeasesInTime
<1> QED
  BY <1>2, <1>3

\* Taking a free document disturbs no other call.
LEMMA TakeKeeps ==
  ASSUME Inductive, NEW w \in Workers, NEW d \in LeaseDocs, Free(d), Take(w, d),
         Acquiring(w) \/ pc[w] = "idle",
         NEW label \in {"choosing", "admitted"},
         label = "choosing" => pc[w] = "idle",
         label = "admitted" => pc[w] = "choosing" /\ d \in GlobalSlots,
         Goto(w, label), UNCHANGED <<next, elapsed>>
  PROVE  Inductive'
<1> USE DEF Inductive, LeasesTypeOK
<1>1. /\ holder' = [holder EXCEPT ![d] = w]
      /\ leaseLeft' = [leaseLeft EXCEPT ![d] = LeaseTime]
      /\ owns' = [owns EXCEPT ![w] = @ \cup {d}]
      /\ pc' = [pc EXCEPT ![w] = label]
      /\ next' = next /\ elapsed' = elapsed
  BY DEF Take, Goto
<1>2. LeasesTypeOK'
  BY <1>1 DEF PC
<1>3. elapsed[w] \in 0..SetupTime
  BY DEF LeasesInTime, Owning, Acquiring
<1>4. ASSUME NEW v \in Workers, v # w PROVE
        /\ pc'[v] = pc[v] /\ owns'[v] = owns[v] /\ elapsed'[v] = elapsed[v]
        /\ Acquiring(v) \/ pc[v] = "retrieving" =>
             \A e \in owns[v] : holder'[e] = holder[e] /\ leaseLeft'[e] = leaseLeft[e]
  BY <1>1, <1>4, FreeIsUnowned
<1>5. ASSUME NEW e \in owns'[w] PROVE holder'[e] = w /\ leaseLeft'[e] >= LeaseTime - elapsed'[w]
  <2>1. CASE e = d
    BY <1>1, <1>3, <2>1
  <2>2. CASE e # d
    <3>1. e \in owns[w] /\ e \in LeaseDocs /\ Acquiring(w)
      BY <1>1, <1>5, <2>2 DEF Owning
    <3> QED
      BY <1>1, <2>2, <3>1 DEF LeasesInTime
  <2> QED
    BY <2>1, <2>2
<1>6. LeasesInTime'
  <2>1. ASSUME NEW v \in Workers, v = w PROVE LeasesInTime!(v)'
    BY <1>1, <1>3, <1>5, <2>1 DEF LeasesInTime, Acquiring
  <2>2. ASSUME NEW v \in Workers, v # w PROVE LeasesInTime!(v)'
    BY <1>4, <2>2 DEF LeasesInTime, Acquiring
  <2> QED
    BY <2>1, <2>2 DEF LeasesInTime
<1>7. Owning'
  <2>1. label = "admitted" => d \in owns'[w] /\ d \in GlobalSlots
    BY <1>1
  <2> QED
    BY <1>1, <2>1, <1>3, <1>4 DEF Owning, Acquiring
<1> QED
  BY <1>2, <1>6, <1>7

\* A call that only gives up what it owns leaves the others in time.
LEMMA ReleaseKeeps ==
  ASSUME Inductive, NEW w \in Workers, NEW d \in LeaseDocs, ReleaseLease(w, d)
  PROVE  Inductive'
<1> USE DEF Inductive, LeasesTypeOK
<1>1. /\ pc' = pc /\ next' = next /\ elapsed' = elapsed
      /\ owns' = [owns EXCEPT ![w] = @ \ {d}]
      /\ pc[w] = "releasing" /\ 0 \in 0..LeaseTime
  BY DEF ReleaseLease
<1>2. \A e \in LeaseDocs : holder[e] # w => holder'[e] = holder[e] /\ leaseLeft'[e] = leaseLeft[e]
  BY DEF ReleaseLease
<1>3. LeasesTypeOK'
  <2>1. holder' \in [LeaseDocs -> Workers \cup {Nobody}] /\ leaseLeft' \in [LeaseDocs -> 0..LeaseTime]
    BY <1>1 DEF ReleaseLease
  <2> QED
    BY <1>1, <2>1
<1>4. ASSUME NEW v \in Workers, Acquiring(v) \/ pc[v] = "retrieving"
      PROVE  /\ owns'[v] = owns[v]
             /\ \A e \in owns[v] : holder'[e] = holder[e] /\ leaseLeft'[e] = leaseLeft[e]
  <2>1. v # w
    BY <1>1, <1>4 DEF Acquiring
  <2>2. \A e \in owns[v] : holder[e] = v
    BY <1>4 DEF LeasesInTime
  <2> QED
    BY <1>1, <1>2, <2>1, <2>2
<1>5. LeasesInTime'
  BY <1>1, <1>4 DEF LeasesInTime, Acquiring
<1>6. Owning'
  BY <1>1 DEF Owning
<1> QED
  BY <1>3, <1>5, <1>6

\* Steps that move a call on and leave every document as it is.
LEMMA MoveKeeps ==
  ASSUME Inductive, NEW w \in Workers,
         GlobalSlotTaken(w) \/ GiveUp(w) \/ Retrieve(w) \/ Finish(w) \/ ReturnFromCall(w) \/ Abandon(w)
  PROVE  Inductive'
<1> USE DEF Inductive, LeasesTypeOK
<1>1. CASE GlobalSlotTaken(w)
  BY <1>1 DEF GlobalSlotTaken, LeasesInTime, Owning, Acquiring
<1>2. CASE GiveUp(w)
  BY <1>2 DEF GiveUp, Goto, LeasesInTime, Owning, Acquiring, PC
<1>3. CASE Retrieve(w)
  BY <1>3 DEF Retrieve, Goto, LeasesInTime, Owning, Acquiring, PC
<1>4. CASE Finish(w)
  BY <1>4 DEF Finish, Goto, LeasesInTime, Owning, Acquiring, PC
<1>5. CASE ReturnFromCall(w)
  BY <1>5 DEF ReturnFromCall, Goto, LeasesInTime, Owning, Acquiring, PC
<1>6. CASE Abandon(w)
  BY <1>6 DEF Abandon, Goto, LeasesInTime, Owning, Acquiring, PC
<1> QED
  BY <1>1, <1>2, <1>3, <1>4, <1>5, <1>6

\* A tick shortens every lease by what it adds to the age of its call.
LEMMA LeasesTickKeeps ==
  ASSUME Inductive, LeasesTick
  PROVE  Inductive'
<1> USE DEF Inductive, LeasesTypeOK
<1>1. /\ holder' = holder /\ pc' = pc /\ owns' = owns /\ next' = next
      /\ \A d \in LeaseDocs : leaseLeft'[d] = IF leaseLeft[d] > 0 THEN leaseLeft[d] - 1 ELSE 0
      /\ \A w \in Workers :
           elapsed'[w] = IF Acquiring(w) \/ pc[w] = "retrieving" THEN elapsed[w] + 1 ELSE elapsed[w]
  BY DEF LeasesTick
<1>2. \A w \in Workers : /\ Acquiring(w) => elapsed[w] < SetupTime
                         /\ pc[w] = "retrieving" => elapsed[w] < Deadline
  BY DEF LeasesTick, MayWait
<1>3. leaseLeft' \in [LeaseDocs -> 0..LeaseTime]
  <2>1. \A d \in LeaseDocs : leaseLeft[d] \in 0..LeaseTime
    OBVIOUS
  <2>2. \A d \in LeaseDocs : (IF leaseLeft[d] > 0 THEN leaseLeft[d] - 1 ELSE 0) \in 0..LeaseTime
    BY <2>1
  <2> QED
    BY <2>2 DEF LeasesTick
<1>4. elapsed' \in [Workers -> 0..(SetupTime + Deadline)]
  <2>1. \A w \in Workers : elapsed'[w] \in 0..(SetupTime + Deadline)
    BY <1>1, <1>2
  <2> QED
    BY <2>1 DEF LeasesTick
<1>5. LeasesTypeOK'
  BY <1>1, <1>3, <1>4
<1>6. LeasesInTime'
  <2>1. \A w \in Workers : \A d \in owns[w] : leaseLeft[d] \in 0..LeaseTime /\ leaseLeft'[d] >= leaseLeft[d] - 1
    BY <1>1
  <2>2. \A w \in Workers : Acquiring(w) =>
          /\ elapsed'[w] <= SetupTime
          /\ \A d \in owns[w] : holder[d] = w /\ leaseLeft'[d] >= LeaseTime - elapsed'[w]
    BY <1>1, <1>2, <2>1 DEF LeasesInTime
  <2>3. \A w \in Workers : pc[w] = "retrieving" =>
          /\ elapsed'[w] <= Deadline
          /\ \A d \in owns[w] : holder[d] = w /\ leaseLeft'[d] >= LeaseTime - SetupTime - elapsed'[w]
    BY <1>1, <1>2, <2>1 DEF LeasesInTime
  <2> QED
    BY <1>1, <2>2, <2>3 DEF LeasesInTime, Acquiring
<1>7. Owning'
  BY <1>1 DEF Owning, Acquiring
<1> QED
  BY <1>5, <1>6, <1>7

LEMMA InductiveStep == Inductive /\ [LeasesNext]_leasesVars => Inductive'
<1> SUFFICES ASSUME Inductive, [LeasesNext]_leasesVars PROVE Inductive'
  OBVIOUS
<1>1. ASSUME NEW w \in Workers, NEW r \in Requesters, Acquire(w, r) PROVE Inductive'
  <2>1. r \in LeaseDocs
    BY DEF LeaseDocs
  <2> QED
    BY <1>1, <2>1, TakeKeeps DEF Acquire
<1>2. ASSUME NEW w \in Workers, TakeGlobalSlot(w) PROVE Inductive'
  <2>1. next[w] \in LeaseDocs /\ next[w] \in GlobalSlots
    BY <1>2, SlotIsDoc DEF TakeGlobalSlot, Inductive, LeasesTypeOK
  <2>2. Acquiring(w)
    BY <1>2 DEF TakeGlobalSlot, Acquiring
  <2> QED
    BY <1>2, <2>1, <2>2, TakeKeeps DEF TakeGlobalSlot
<1>3. ASSUME NEW w \in Workers, NEW d \in LeaseDocs, ReleaseLease(w, d) PROVE Inductive'
  BY <1>3, ReleaseKeeps
<1>4. ASSUME NEW w \in Workers,
             GlobalSlotTaken(w) \/ GiveUp(w) \/ Retrieve(w) \/ Finish(w) \/ ReturnFromCall(w) \/ Abandon(w)
      PROVE  Inductive'
  BY <1>4, MoveKeeps
<1>5. ASSUME LeasesTick PROVE Inductive'
  BY <1>5, LeasesTickKeeps
<1>6. ASSUME UNCHANGED leasesVars PROVE Inductive'
  BY <1>6 DEF leasesVars, Inductive, LeasesTypeOK, LeasesInTime, Owning, Acquiring
<1> QED
  BY <1>1, <1>2, <1>3, <1>4, <1>5, <1>6 DEF LeasesNext, Call

LEMMA InductiveAlways == LeasesSpec => []Inductive
  BY InductiveInit, InductiveStep, PTL DEF LeasesSpec

-----------------------------------------------------------------------------
\* Two retrievals own no document in common.
LEMMA RetrievalsApart ==
  ASSUME Inductive, NEW v \in Retrieving, NEW w \in Retrieving,
         owns[v] \cap owns[w] # {}
  PROVE  v = w
  BY DEF Inductive, LeasesInTime, Retrieving

\* Variables keep their types: in particular no call waits for its retrieval, or
\* for the end of it, beyond what the lease of its documents was made for.
THEOREM TypeCorrect == LeasesSpec => []LeasesTypeOK
<1>1. Inductive => LeasesTypeOK
  BY DEF Inductive
<1> QED
  BY <1>1, InductiveAlways, PTL

\* No two retrievals of one requester run at a time, whatever crashes, expiries,
\* late and failed releases there are.
THEOREM RequestersAreSerial == LeasesSpec => []OnePerRequester
<1>1. Inductive => OnePerRequester
  BY RetrievalsApart DEF OnePerRequester
<1> QED
  BY <1>1, InductiveAlways, PTL

\* There are never more retrievals than slots: each one has a slot of its own.
THEOREM GlobalLimitHolds == LeasesSpec => []GlobalLimit
<1>1. ASSUME Inductive PROVE GlobalLimit
  <2> DEFINE slotOf == [w \in Retrieving |-> CHOOSE s \in GlobalSlots : s \in owns[w]]
  <2>1. ASSUME NEW w \in Retrieving PROVE slotOf[w] \in owns[w] \cap GlobalSlots
    <3>1. \E s \in GlobalSlots : s \in owns[w]
      BY <1>1, <2>1 DEF Inductive, Owning, Retrieving
    <3> QED
      BY <3>1
  <2>2. slotOf \in Injection(Retrieving, GlobalSlots)
    <3>1. slotOf \in [Retrieving -> GlobalSlots]
      BY <2>1
    <3>2. ASSUME NEW v \in Retrieving, NEW w \in Retrieving, slotOf[v] = slotOf[w]
          PROVE  v = w
      <4>1. slotOf[v] \in owns[v] \cap owns[w]
        BY <2>1, <3>2
      <4> QED
        BY <1>1, <4>1, RetrievalsApart
    <3> HIDE DEF slotOf
    <3> QED
      BY <3>1, <3>2, Fun_IsInj
  <2>3. IsFiniteSet(GlobalSlots) /\ Cardinality(GlobalSlots) = GlobalSlotCount
    BY FS_Interval DEF GlobalSlots
  <2> HIDE DEF slotOf
  <2>4. Cardinality(Retrieving) <= Cardinality(GlobalSlots)
    BY <2>2, <2>3, FS_Injection
  <2> QED
    BY <2>3, <2>4 DEF GlobalLimit
<1> QED
  BY <1>1, InductiveAlways, PTL
=============================================================================
