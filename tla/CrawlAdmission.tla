--------------------------- MODULE CrawlAdmission ---------------------------
(***************************************************************************)
(* The transaction that admits a crawl job, taken apart                    *)
(* (lib/jobs/crawl-admission.ts).  A request reads four documents in a     *)
(* snapshot, the active claim of its actor and target, the actor's quota   *)
(* of the hour, the target's cooldown and the queue counter, and writes    *)
(* all four with the job, or none.  A write conflict repeats the whole     *)
(* transaction with the time taken before its first try.  Completed jobs   *)
(* release claim and counter in operations of their own, and a TTL index   *)
(* deletes whatever has expired.  AuditJobs models all this as one step.   *)
(***************************************************************************)
EXTENDS Naturals, FiniteSets

CONSTANTS
  Reqs,        \* requests; each one stands for the job it would insert
  Asks,        \* what requests ask for: an actor and a target
  Accounts,    \* the actors that are signed in
  AccountLimit, GuestLimit,  \* authenticatedPerHour, anonymousPerHour
  QueueCap,
  Window, Cooldown, ClaimTime, \* WINDOW_MS, TARGET_COOLDOWN_MS, ACTIVE_CLAIM_MS
  MaxTries,    \* ADMISSION_TRANSACTION_MAX_ATTEMPTS
  TxnTime,     \* how long a request's transactions can take, repetitions included
  MaxTime,     \* bound of the clock
  NoReq

Actors  == {a.actor : a \in Asks}
Targets == {a.target : a \in Asks}

ConstantsOK ==
  /\ NoReq \notin Reqs
  /\ Asks \subseteq [actor: Actors, target: Targets]
  /\ {AccountLimit, GuestLimit, QueueCap, Window, Cooldown, ClaimTime, MaxTries} \subseteq Nat \ {0}
  /\ NoReq \notin Actors \cup Targets
  /\ {TxnTime, MaxTime} \subseteq Nat
  /\ TxnTime <= Window  \* so that a counter outlives the transactions of its hour

VARIABLES
  now,
  docs,     \* the documents of crawlAdmission, by _id
  reqPc,    \* where a request or its job stands
  ask, start,
  verdict,  \* what the snapshot of an open transaction says: may the job be admitted?
  stale,    \* has another one written, since the snapshot, what it would write?
  tries, committed

vars == <<now, docs, reqPc, ask, start, verdict, stale, tries, committed>>

\* Document ids.
Id(kind, a, t, h) == [kind |-> kind, actor |-> a, target |-> t, hour |-> h]
Claim(a, t) == Id("active", a, t, 0)
Quota(a, h) == Id("quota", a, NoReq, h)
Target(t)   == Id("target", NoReq, t, 0)
Queue       == Id("queue", NoReq, NoReq, 0)

Hours == 0..(MaxTime \div Window)
Ids == {Claim(a, t) : a \in Actors, t \in Targets} \cup {Quota(a, h) : a \in Actors, h \in Hours}
         \cup {Target(t) : t \in Targets} \cup {Queue}
Absent == [here |-> FALSE, job |-> NoReq, count |-> 0, expires |-> 0]
Doc(j, n, e) == [here |-> TRUE, job |-> j, count |-> n, expires |-> e]

OpenJobs == {r \in Reqs : reqPc[r] = "open"}
Admitted == {r \in Reqs : reqPc[r] \in {"open", "ended", "released", "done"}}

LimitOf(a)  == IF a \in Accounts THEN AccountLimit ELSE GuestLimit
HourOf(r)   == start[r] \div Window
ClaimOf(r)  == Claim(ask[r].actor, ask[r].target)
QuotaOf(r)  == Quota(ask[r].actor, HourOf(r))
TargetOf(r) == Target(ask[r].target)
\* Bugs for the runs to find: a counter that is forgotten, limits that are off by one,
\* and (below) reads outside of the transaction.
WrittenUncounted(r) == {ClaimOf(r), QuotaOf(r), TargetOf(r)}
Written(r)  == {ClaimOf(r), QuotaOf(r), TargetOf(r), Queue}

\* claimActiveJob: the claim's job is open; a claim of an ended job is replaced.
ClaimHeld(d, open, r) == d[ClaimOf(r)].job \in open
QuotaOpenOnceMore(d, r) == d[QuotaOf(r)].count <= LimitOf(ask[r].actor)
QuotaOpen(d, r) == d[QuotaOf(r)].count < LimitOf(ask[r].actor)
TargetOpenEarly(d, r) == d[TargetOf(r)].expires <= start[r] + 1
TargetOpen(d, r) == d[TargetOf(r)].expires <= start[r]
QueueOpen(d) == d[Queue].count < QueueCap

Admissible(d, open, r) ==
  /\ ~ClaimHeld(d, open, r)
  /\ QuotaOpen(d, r)
  /\ TargetOpen(d, r)
  /\ QueueOpen(d)

\* The four writes.  Only an insertion sets a quota's expiry; the queue has none.
NewDoc(old, id, r) ==
  CASE id = ClaimOf(r)  -> Doc(r, 0, start[r] + ClaimTime)
    [] id = QuotaOf(r)  -> Doc(NoReq, old.count + 1,
                               IF old.here THEN old.expires ELSE start[r] + 2 * Window)
    [] id = TargetOf(r) -> Doc(NoReq, 0, start[r] + Cooldown)
    [] id = Queue       -> Doc(NoReq, old.count + 1, 0)

AfterAdmission(d, r) ==
  [id \in Ids |-> IF id \in Written(r) THEN NewDoc(d[id], id, r) ELSE d[id]]

NoAsk == [actor |-> NoReq, target |-> NoReq]
NoDocs == [id \in Ids |-> Absent]

Init ==
  /\ now = 0
  /\ docs = NoDocs
  /\ reqPc = [r \in Reqs |-> "new"]
  /\ ask = [r \in Reqs |-> NoAsk]
  /\ start = [r \in Reqs |-> 0]
  /\ verdict = [r \in Reqs |-> FALSE]
  /\ stale = [r \in Reqs |-> FALSE]
  /\ tries = [r \in Reqs |-> 0]
  /\ committed = [r \in Reqs |-> 0]

TouchNothing(ids) == stale' = [r \in Reqs |-> reqPc'[r] = "txn" /\ stale[r]]
\* Others' writes are seen by an open transaction as conflicts only.
Touch(ids) ==
  stale' = [r \in Reqs |-> reqPc'[r] = "txn" /\ (stale[r] \/ ids \cap Written(r) # {})]

\* All reads of a transaction are of one snapshot, so that it is decided then what
\* they will find.
Snapshot(r) ==
  /\ verdict' = [verdict EXCEPT ![r] = Admissible(docs, OpenJobs, r)]
  /\ stale' = [stale EXCEPT ![r] = FALSE]

Begin(r, a) ==
  /\ reqPc[r] = "new"
  /\ reqPc' = [reqPc EXCEPT ![r] = "txn"]
  /\ ask' = [ask EXCEPT ![r] = a]
  /\ start' = [start EXCEPT ![r] = now]
  /\ UNCHANGED <<now, docs, stale, tries, committed>>
  /\ verdict' = [verdict EXCEPT ![r] = Admissible(docs, OpenJobs, r)']

InTime(r) == now - start[r] <= TxnTime
MayAdmit(r) == reqPc[r] = "txn" /\ verdict[r]

\* All four documents and the job.
Commit(r) ==
  /\ MayAdmit(r) /\ ~stale[r] /\ InTime(r)
  /\ docs' = AfterAdmission(docs, r)
  /\ reqPc' = [reqPc EXCEPT ![r] = "open"]
  /\ verdict' = [verdict EXCEPT ![r] = FALSE]
  /\ committed' = [committed EXCEPT ![r] = now]
  /\ tries' = [tries EXCEPT ![r] = 0]
  /\ Touch(Written(r))
  /\ UNCHANGED <<now, ask, start>>

\* A transient conflict is repeated by withTransaction, a duplicate key or a lost
\* comparison by runAdmissionTransactionWithRetry, which counts.
Repeat(r) ==
  /\ MayAdmit(r) /\ stale[r] /\ InTime(r)
  /\ \/ UNCHANGED tries
     \/ /\ tries[r] + 1 < MaxTries
        /\ tries' = [tries EXCEPT ![r] = @ + 1]
  /\ Snapshot(r)
  /\ UNCHANGED <<now, docs, reqPc, ask, start, committed>>

\* The open job is reused or the request refused; nothing is written.
Answer(r) ==
  /\ reqPc[r] = "txn"
  /\ \/ ~MayAdmit(r)
     \/ ~InTime(r)
     \/ stale[r] /\ tries[r] + 1 = MaxTries
  /\ reqPc' = [reqPc EXCEPT ![r] = "refused"]
  /\ ask' = [ask EXCEPT ![r] = NoAsk]
  /\ start' = [start EXCEPT ![r] = 0]
  /\ verdict' = [verdict EXCEPT ![r] = FALSE]
  /\ stale' = [stale EXCEPT ![r] = FALSE]
  /\ tries' = [tries EXCEPT ![r] = 0]
  /\ UNCHANGED <<now, docs, committed>>

\* The job completes or fails; then releaseCrawlAdmission, in two operations.
JobEnds(r) ==
  /\ reqPc[r] = "open"
  /\ reqPc' = [reqPc EXCEPT ![r] = "ended"]
  /\ UNCHANGED <<now, docs, ask, start, verdict, stale, tries, committed>>

ReleaseClaim(r) ==
  LET owned == docs[ClaimOf(r)].job = r IN
  /\ reqPc[r] = "ended"
  /\ reqPc' = [reqPc EXCEPT ![r] = "released"]
  /\ docs' = IF owned THEN [docs EXCEPT ![ClaimOf(r)] = Absent] ELSE docs
  /\ Touch(IF owned THEN {ClaimOf(r)} ELSE {})
  /\ UNCHANGED <<now, ask, start, verdict, tries, committed>>

ReleaseSlot(r) ==
  LET counted == docs[Queue].count > 0 IN
  /\ reqPc[r] = "released"
  /\ reqPc' = [reqPc EXCEPT ![r] = "done"]
  /\ docs' = IF counted THEN [docs EXCEPT ![Queue].count = @ - 1] ELSE docs
  /\ Touch(IF counted THEN {Queue} ELSE {})
  /\ UNCHANGED <<now, ask, start, verdict, tries, committed>>

\* The TTL index crawl_admission_expires_at_ttl.
Expire(id) ==
  /\ id # Queue /\ docs[id].here /\ docs[id].expires <= now
  /\ docs' = [docs EXCEPT ![id] = Absent]
  /\ UNCHANGED reqPc
  /\ Touch({id})
  /\ UNCHANGED <<now, ask, start, verdict, tries, committed>>

Tick ==
  /\ now < MaxTime
  /\ now' = now + 1
  /\ UNCHANGED <<docs, reqPc, ask, start, verdict, stale, tries, committed>>

Next ==
  \/ \E r \in Reqs :
       (\E a \in Asks : Begin(r, a)) \/ Commit(r) \/ Repeat(r) \/ Answer(r)
         \/ JobEnds(r) \/ ReleaseClaim(r) \/ ReleaseSlot(r)
  \/ \E id \in Ids : Expire(id)
  \/ Tick

Spec == Init /\ [][Next]_vars

-----------------------------------------------------------------------------
\* No actor gets more jobs in an hour than its limit, whatever is repeated, and
\* although the TTL index deletes the counters (claimQuota).
QuotaHeld ==
  \A a \in Actors, h \in Hours :
    Cardinality({r \in Admitted : ask[r].actor = a /\ HourOf(r) = h}) <= LimitOf(a)

\* A target's next admission takes effect no earlier than a cooldown after the
\* request that was admitted before it, stale clocks of repeated transactions and
\* deleted cooldown documents included (claimTargetCooldown).
CooldownHeld ==
  \A r, s \in Admitted :
    r # s /\ ask[r].target = ask[s].target =>
      \/ committed[r] >= start[s] + Cooldown
      \/ committed[s] >= start[r] + Cooldown

\* The queue counter stands for exactly the admitted jobs whose slot has not been
\* released: a refused, reused or repeated request leaves no trace in it.
QueueExact ==
  docs[Queue].count = Cardinality({r \in Reqs : reqPc[r] \in {"open", "ended", "released"}})

\* All of it: no actor exceeds its quota, none repeats a target within the cooldown, and
\* the queue's counter is its queue.
LimitsHold == QuotaHeld /\ CooldownHeld /\ QueueExact

\* What a request found in its snapshot still holds when its job is inserted: the
\* claim is free, and quota, target and queue are open at that very moment.  This is
\* why AuditJobs may model the transaction as one step.
AdmitsAtomically ==
  [][\A r \in Reqs : reqPc[r] = "txn" /\ reqPc'[r] = "open" =>
       Admissible(docs, OpenJobs, r)]_vars
=============================================================================
