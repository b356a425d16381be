----------------------------- MODULE ArchiveRead -----------------------------
(***************************************************************************)
(* One crawl read from the web archive (CommonCrawlProvider,               *)
(* lib/crawler/providers/common-crawl.ts): the newest collection, the      *)
(* site's index records in it, then the records' ranges by two workers,    *)
(* every request retried within one deadline and the bytes of all of them  *)
(* counted against shared budgets while they arrive.                       *)
(*                                                                         *)
(* Sizes are in chunks.  The archive may answer an attempt with anything:  *)
(* it is checked for what it is, never for what was asked.                 *)
(***************************************************************************)
EXTENDS Naturals, Sequences, FiniteSets

CONSTANTS
  ArchiveTargets,          \* records [url, host, exact]
  CollectionLists,  \* sequences of [id, valid, availableAt, week]
  Listings,         \* what the index answers: sequences of [valid, url, host, range, length]
  FetchWorkers,
  MaxPages, MaxRange, MaxTotal,
  MaxRecord, MaxTotalInflated,
  MaxRetries,
  TotalTime         \* the deadline, in ticks

\* the lines of all listings, the entries of all lists of collections
Lines == UNION {{list[i] : i \in DOMAIN list} : list \in Listings}
Announced == UNION {{list[i] : i \in DOMAIN list} : list \in CollectionLists}

ArchiveOK ==
  /\ Listings \subseteq Seq(Lines) /\ CollectionLists \subseteq Seq(Announced)
  /\ \A entry \in Announced : {entry.availableAt, entry.week} \subseteq Nat
  /\ {MaxPages, MaxRange, MaxTotal, MaxRecord, MaxTotalInflated, MaxRetries, TotalTime} \subseteq Nat
  /\ FetchWorkers # {} /\ IsFiniteSet(FetchWorkers)

VARIABLES
  target, collections, listing,  \* what the crawl meets
  phase,        \* target, collection, index, records, done
  collection,   \* the collection in use
  records,      \* selected index records
  nextIndex,
  worker,       \* each worker's record and the request it makes
  output,       \* pages by record
  failure,      \* the first fault, and whether the job may be retried after it
  compressed, inflated, retries,   \* metrics
  wire,         \* chunks the archive has sent of ranges
  archiveClock

archiveVars == <<target, collections, listing, phase, collection, records, nextIndex, worker,
                 output, failure, compressed, inflated, retries, wire, archiveClock>>

NoFault == [code |-> "none", retryable |-> FALSE]
Fault(code) == [code |-> code, retryable |-> FALSE]
Transient(code) == [code |-> code, retryable |-> TRUE]
Idle == [at |-> 0, step |-> "idle", attempt |-> 0, bytes |-> 0]
Main == CHOOSE w \in FetchWorkers : TRUE
Asking(at) == [Idle EXCEPT !.at = at, !.step = "ready"]
NoPage == [url |-> "none", range |-> 0]

ArchiveInit ==
  /\ target \in ArchiveTargets /\ collections \in CollectionLists /\ listing \in Listings
  /\ phase = "target" /\ collection = "unknown" /\ records = <<>> /\ nextIndex = 1
  /\ worker = [w \in FetchWorkers |-> Idle]
  /\ output = <<>> /\ failure = NoFault
  /\ compressed = 0 /\ inflated = 0 /\ retries = 0 /\ wire = 0 /\ archiveClock = 0

Late == archiveClock >= TotalTime
inputs == <<target, collections, listing>>
metrics == <<compressed, inflated, retries, wire>>

\* the crawl method's catch
Throw(fault) == failure' = fault /\ phase' = "done"

----------------------------------------------------------------------------
(* What is read out of the answers                                         *)

\* parseLatestCommonCrawlCollection: an entry that is not well formed is skipped
Usable == {i \in DOMAIN collections : collections[i].valid}
Newer(a, b) ==
  \/ a.availableAt > b.availableAt
  \/ a.availableAt = b.availableAt /\ a.week > b.week
Latest == CHOOSE i \in Usable : \A j \in Usable : ~Newer(collections[j], collections[i])

\* parseCommonCrawlIndexRecords: any line that is not well formed fails them all;
\* those of another host, of another page than the one asked for, and those that
\* repeat a URL or a range are passed over
LinesBad == \/ \E i \in DOMAIN listing : ~listing[i].valid \/ listing[i].length > MaxRange
            \/ Len(listing) > MaxPages
OfTarget(line) == line.host = target.host /\ (target.exact => line.url = target.url)
AddLine(kept, line) ==
  IF /\ OfTarget(line)
     /\ \A i \in DOMAIN kept : kept[i].url # line.url /\ kept[i].range # line.range
  THEN Append(kept, line) ELSE kept
Parsed ==
  LET Kept[n \in 0..Len(listing)] ==
        IF n = 0 THEN <<>> ELSE AddLine(Kept[n - 1], listing[n])
  IN  Kept[Len(listing)]

----------------------------------------------------------------------------
(* request: the attempts of a call                                         *)

WorkerAt(w) == worker[w]
Calling(w) == phase \in {"collection", "index", "records"} /\ WorkerAt(w).step # "idle"

\* the worker's loop ends at its fault; the other finishes the record it is on
Failed(w, fault) ==
  IF phase = "records"
  THEN /\ failure' = IF failure = NoFault THEN fault ELSE failure
       /\ worker' = [worker EXCEPT ![w] = Idle] /\ UNCHANGED phase
  ELSE /\ worker' = [worker EXCEPT ![w] = Idle] /\ Throw(fault)

Send(w) ==
  /\ Calling(w) /\ WorkerAt(w).step = "ready"
  /\ IF Late THEN Failed(w, Transient("total_timeout"))
             ELSE worker' = [worker EXCEPT ![w].step = "open"] /\ UNCHANGED <<failure, phase>>
  /\ UNCHANGED <<inputs, collection, records, nextIndex, output, metrics, archiveClock>>

\* catch: a fault that may be retried is, while attempts are left
Retried(w, fault) ==
  IF fault.retryable /\ WorkerAt(w).attempt < MaxRetries
  THEN /\ worker' = [worker EXCEPT ![w] = [@ EXCEPT !.step = "resting", !.bytes = 0]]
       /\ retries' = retries + 1 /\ UNCHANGED <<failure, phase>>
  ELSE Failed(w, fault) /\ UNCHANGED retries

\* the name is not resolved, or not safely, the answer does not come in time or the
\* connection breaks, the response's headers are refused
RefusalsOfGet == {Transient("dns"), Fault("unsafe_dns"), Transient("request_timeout"),
                  Transient("network"), Fault("headers")}
GetFails(w) ==
  /\ Calling(w) /\ WorkerAt(w).step = "open"
  /\ \E fault \in RefusalsOfGet : Retried(w, fault)
  /\ UNCHANGED <<inputs, collection, records, nextIndex, output, compressed, inflated, wire, archiveClock>>

\* a chunk of a range, counted before it is kept; accountS3Bytes
CountedAtEnd(w) == compressed
Counted(w) == compressed + 1
ChunkArrives(w) ==
  /\ Calling(w) /\ phase = "records" /\ WorkerAt(w).step = "open" /\ WorkerAt(w).bytes <= MaxRange
  /\ wire' = wire + 1 /\ compressed' = Counted(w)
  /\ IF compressed' > MaxTotal THEN Failed(w, Fault("total_compressed"))
     ELSE IF WorkerAt(w).bytes + 1 > MaxRange THEN Failed(w, Fault("response_size"))
     ELSE worker' = [worker EXCEPT ![w].bytes = @ + 1] /\ UNCHANGED <<failure, phase>>
  /\ UNCHANGED <<inputs, collection, records, nextIndex, output, inflated, retries, archiveClock>>

\* a whole response with a status to retry on, or after the deadline
AnswersBusy(w) ==
  /\ Calling(w) /\ WorkerAt(w).step = "open"
  /\ Retried(w, IF Late THEN Transient("total_timeout") ELSE Transient("status"))
  /\ UNCHANGED <<inputs, collection, records, nextIndex, output, compressed, inflated, wire, archiveClock>>

Rested(w) ==
  /\ Calling(w) /\ WorkerAt(w).step = "resting"
  /\ IF Late THEN Failed(w, Transient("total_timeout"))
     ELSE /\ worker' = [worker EXCEPT ![w] = [Asking(@.at) EXCEPT !.attempt = worker[w].attempt + 1]]
          /\ UNCHANGED <<failure, phase>>
  /\ UNCHANGED <<inputs, collection, records, nextIndex, output, metrics, archiveClock>>

----------------------------------------------------------------------------
(* crawl                                                                   *)

CheckTarget ==
  /\ phase = "target"
  /\ \/ phase' = "collection" /\ worker' = [worker EXCEPT ![Main] = Asking(0)] /\ UNCHANGED failure
     \/ UNCHANGED worker
        /\ \E fault \in {Fault("invalid_target"), Transient("total_timeout")} : Throw(fault)
  /\ UNCHANGED <<inputs, collection, records, nextIndex, output, metrics, archiveClock>>

Answered(w) == Calling(w) /\ WorkerAt(w).step = "open" /\ ~Late

CollectionFound ==
  /\ phase = "collection" /\ Answered(Main)
  /\ \/ Usable # {} /\ phase' = "index" /\ collection' = collections[Latest].id
        /\ worker' = [worker EXCEPT ![Main] = Asking(0)] /\ UNCHANGED failure
     \/ worker' = [worker EXCEPT ![Main] = Idle] /\ Throw(Fault("collections")) /\ UNCHANGED collection
  /\ UNCHANGED <<inputs, records, nextIndex, output, metrics, archiveClock>>

\* no captures is an empty list; records beyond the pages asked for are left
IndexRead ==
  /\ phase = "index" /\ Answered(Main)
  /\ worker' = [worker EXCEPT ![Main] = Idle]
  /\ IF LinesBad THEN Throw(Fault("index")) /\ UNCHANGED <<records, output>>
     ELSE \E pages \in 1..MaxPages :
            /\ records' = SubSeq(Parsed, 1, IF Len(Parsed) < pages THEN Len(Parsed) ELSE pages)
            /\ output' = [i \in DOMAIN records' |-> NoPage]
            /\ phase' = "records" /\ UNCHANGED failure
  /\ UNCHANGED <<inputs, collection, nextIndex, metrics, archiveClock>>

\* the head of the workers' loop
TakeRecord(w) ==
  /\ phase = "records" /\ WorkerAt(w).step = "idle" /\ failure = NoFault /\ nextIndex <= Len(records)
  /\ worker' = [worker EXCEPT ![w] = Asking(nextIndex)]
  /\ nextIndex' = nextIndex + 1
  /\ UNCHANGED <<inputs, phase, collection, records, output, failure, metrics, archiveClock>>

\* fetchAndNormalizeRecord with the answer in hand: its status and range, its size,
\* the inflated member, and the page the WARC record says it is of
Reply == [framed : BOOLEAN, gzip : BOOLEAN, size : 1..(MaxRecord + 1),
          url : {listing[i].url : i \in DOMAIN listing}]
ReplyFault(w, reply) ==
  LET record == records[WorkerAt(w).at] IN
  CASE ~reply.framed -> Fault("range")
    [] reply.framed /\ WorkerAt(w).bytes # record.length -> Fault("range_length")
    [] reply.framed /\ WorkerAt(w).bytes = record.length /\ ~reply.gzip -> Fault("gzip")
    [] reply.framed /\ WorkerAt(w).bytes = record.length /\ reply.gzip ->
         IF inflated + reply.size > MaxTotalInflated THEN Fault("total_inflated")
         ELSE IF reply.size > MaxRecord THEN Fault("record_size")
         ELSE IF reply.url # record.url THEN Fault("warc_target") ELSE NoFault
Inflates(w, reply) == reply.framed /\ WorkerAt(w).bytes = records[WorkerAt(w).at].length /\ reply.gzip

PlaceOfNext(w) == IF nextIndex > Len(records) THEN Len(records) ELSE nextIndex
Place(w) == WorkerAt(w).at
RecordRead(w) ==
  /\ phase = "records" /\ Answered(w)
  /\ \E reply \in Reply :
       /\ inflated' = IF Inflates(w, reply) THEN inflated + reply.size ELSE inflated
       /\ IF ReplyFault(w, reply) # NoFault
          THEN Failed(w, ReplyFault(w, reply)) /\ UNCHANGED output
          ELSE /\ output' = [output EXCEPT ![Place(w)] =
                               [url |-> reply.url, range |-> records[WorkerAt(w).at].range]]
               /\ worker' = [worker EXCEPT ![w] = Idle] /\ UNCHANGED <<failure, phase>>
  /\ UNCHANGED <<inputs, collection, records, nextIndex, compressed, retries, wire, archiveClock>>

\* Promise.all of the workers
AllReturned ==
  /\ phase = "records" /\ \A w \in FetchWorkers : WorkerAt(w).step = "idle"
  /\ failure # NoFault \/ nextIndex > Len(records)
  /\ phase' = "done"
  /\ UNCHANGED <<inputs, collection, records, nextIndex, worker, output, failure, metrics, archiveClock>>

ArchiveTick ==
  /\ phase # "done" /\ archiveClock < TotalTime /\ archiveClock' = archiveClock + 1
  /\ UNCHANGED <<inputs, phase, collection, records, nextIndex, worker, output, failure, metrics>>

ArchiveNext ==
  \/ CheckTarget \/ CollectionFound \/ IndexRead \/ AllReturned \/ ArchiveTick
  \/ \E w \in FetchWorkers :
       Send(w) \/ GetFails(w) \/ ChunkArrives(w) \/ AnswersBusy(w) \/ Rested(w)
       \/ TakeRecord(w) \/ RecordRead(w)

ArchiveSpec == ArchiveInit /\ [][ArchiveNext]_archiveVars

----------------------------------------------------------------------------
\* A crawl without a fault has the page of every selected record at its record's
\* place, each of the site and no two of the same URL, whichever worker read it and
\* however often it was asked for; and what the archive sends, retried attempts
\* included, stays within the budget but for the chunk that broke it, once a worker.
ArchiveExact ==
  /\ phase = "done" /\ failure = NoFault =>
       /\ \A i \in DOMAIN records :
            output[i] = [url |-> records[i].url, range |-> records[i].range] /\ OfTarget(records[i])
       /\ \A i, j \in DOMAIN output : output[i].url = output[j].url => i = j
       /\ \E i \in Usable : /\ collection = collections[i].id
                           /\ \A j \in Usable : collections[j].availableAt <= collections[i].availableAt
  /\ wire <= MaxTotal + Cardinality(FetchWorkers)
=============================================================================
