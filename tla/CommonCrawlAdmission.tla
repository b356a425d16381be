------------------------ MODULE CommonCrawlAdmission ------------------------
(***************************************************************************)
(* Admission of archive retrievals (lib/crawler/common-crawl-admission.ts):*)
(* a lease on the requester's own document, then a lease on one of the     *)
(* global slots, then a retrieval that the provider's deadline bounds.     *)
(* Nothing renews these leases: that one outlives the retrieval it admits  *)
(* is a matter of time alone, so this module has a clock.  Durations count *)
(* ticks, and a lease is what is left of it: zero once it has expired, and *)
(* when its document is absent.                                            *)
(***************************************************************************)
EXTENDS Integers, FiniteSets

CONSTANTS
  Workers,      \* calls of acquireCommonCrawlAdmission, by their leaseId
  Requesters,   \* requester documents
  GlobalSlotCount,    \* GLOBAL_SLOT_COUNT
  Nobody,       \* no leaseId in the document
  LeaseTime,    \* LEASE_DURATION_MS
  Deadline,     \* the provider's totalTimeoutMs
  SetupTime         \* assumed: from taking the first lease to the retrieval

GlobalSlots == 0..(GlobalSlotCount - 1)
LeaseDocs  == Requesters \cup GlobalSlots

ASSUME AdmissionAssumption ==
  /\ IsFiniteSet(Workers) /\ Nobody \notin Workers
  /\ Requesters \cap GlobalSlots = {}
  /\ GlobalSlotCount \in Nat
  /\ LeaseTime \in Nat /\ Deadline \in Nat /\ SetupTime \in Nat
  /\ SetupTime + Deadline < LeaseTime

VARIABLES
  holder,     \* leaseId of a document
  leaseLeft,       \* time until its leaseExpiresAt
  pc,
  owns,       \* the documents a call has leased and not yet given back
  next,       \* the slot it tries next
  elapsed         \* time since its first lease or since its retrieval began, else 0

leasesVars == <<holder, leaseLeft, pc, owns, next, elapsed>>

PC == {"idle", "choosing", "admitted", "retrieving", "releasing"}

LeasesTypeOK ==
  /\ holder \in [LeaseDocs -> Workers \cup {Nobody}]
  /\ leaseLeft \in [LeaseDocs -> 0..LeaseTime]
  /\ pc \in [Workers -> PC]
  /\ owns \in [Workers -> SUBSET LeaseDocs]
  /\ next \in [Workers -> 0..GlobalSlotCount]
  /\ elapsed \in [Workers -> 0..(SetupTime + Deadline)]

LeasesInit ==
  /\ holder = [d \in LeaseDocs |-> Nobody]
  /\ leaseLeft = [d \in LeaseDocs |-> 0]
  /\ pc = [w \in Workers |-> "idle"]
  /\ owns = [w \in Workers |-> {}]
  /\ next = [w \in Workers |-> 0]
  /\ elapsed = [w \in Workers |-> 0]

Goto(w, label) == pc' = [pc EXCEPT ![w] = label]

\* Mutant: a lease that is about to run out counts as free.
FreeEarly(d) == leaseLeft[d] <= 1

\* The filter of findOneAndUpdate, or the insert that follows it: the lease has
\* expired, was given back, or has no document yet.
Free(d) == leaseLeft[d] = 0

\* tryAcquireLease of a free document
Take(w, d) ==
  /\ holder' = [holder EXCEPT ![d] = w]
  /\ leaseLeft' = [leaseLeft EXCEPT ![d] = LeaseTime]
  /\ owns' = [owns EXCEPT ![w] = @ \cup {d}]

\* A call starts, with a random lease id that no document carries.  When its
\* requester's lease is taken it returns null at once, which changes nothing.
Acquire(w, r) ==
  /\ pc[w] = "idle"
  /\ \A d \in LeaseDocs : holder[d] # w
  /\ Free(r)
  /\ Take(w, r)
  /\ Goto(w, "choosing")
  /\ UNCHANGED <<next, elapsed>>

TakeGlobalSlot(w) ==
  /\ pc[w] = "choosing" /\ next[w] < GlobalSlotCount
  /\ Free(next[w])
  /\ Take(w, next[w])
  /\ Goto(w, "admitted")
  /\ UNCHANGED <<next, elapsed>>

GlobalSlotTaken(w) ==
  /\ pc[w] = "choosing" /\ next[w] < GlobalSlotCount
  /\ ~Free(next[w])
  /\ next' = [next EXCEPT ![w] = @ + 1]
  /\ UNCHANGED <<holder, leaseLeft, pc, owns, elapsed>>

\* No slot: the requester's lease goes back and the call returns null.
GiveUp(w) ==
  /\ pc[w] = "choosing" /\ next[w] = GlobalSlotCount
  /\ Goto(w, "releasing")
  /\ elapsed' = [elapsed EXCEPT ![w] = 0]
  /\ UNCHANGED <<holder, leaseLeft, owns, next>>

Retrieve(w) ==
  /\ pc[w] = "admitted"
  /\ Goto(w, "retrieving")
  /\ elapsed' = [elapsed EXCEPT ![w] = 0]
  /\ UNCHANGED <<holder, leaseLeft, owns, next>>

\* The retrieval returns or throws, at its deadline at the latest.
Finish(w) ==
  /\ pc[w] = "retrieving"
  /\ Goto(w, "releasing")
  /\ elapsed' = [elapsed EXCEPT ![w] = 0]
  /\ UNCHANGED <<holder, leaseLeft, owns, next>>

\* Mutant: the release does not look at the lease id.
ReleaseLeaseUnfenced(w, d) ==
  /\ pc[w] = "releasing" /\ d \in owns[w]
  /\ holder' = [holder EXCEPT ![d] = Nobody]
  /\ leaseLeft' = [leaseLeft EXCEPT ![d] = 0]
  /\ owns' = [owns EXCEPT ![w] = @ \ {d}]
  /\ UNCHANGED <<pc, next, elapsed>>

\* Both releases run at once, each fenced by the lease id.
ReleaseLease(w, d) ==
  /\ pc[w] = "releasing" /\ d \in owns[w]
  /\ IF holder[d] = w
     THEN /\ holder' = [holder EXCEPT ![d] = Nobody]
          /\ leaseLeft' = [leaseLeft EXCEPT ![d] = 0]
     ELSE UNCHANGED <<holder, leaseLeft>>
  /\ owns' = [owns EXCEPT ![w] = @ \ {d}]
  /\ UNCHANGED <<pc, next, elapsed>>

ReturnFromCall(w) ==
  /\ pc[w] = "releasing" /\ owns[w] = {}
  /\ Goto(w, "idle")
  /\ next' = [next EXCEPT ![w] = 0]
  /\ UNCHANGED <<holder, leaseLeft, owns, elapsed>>

\* The worker dies, an acquiring operation throws, or a release fails and its
\* error is swallowed: the documents stay as they are until they expire.
Abandon(w) ==
  /\ pc[w] # "idle"
  /\ Goto(w, "idle")
  /\ owns' = [owns EXCEPT ![w] = {}]
  /\ next' = [next EXCEPT ![w] = 0]
  /\ elapsed' = [elapsed EXCEPT ![w] = 0]
  /\ UNCHANGED <<holder, leaseLeft>>

Acquiring(w) == pc[w] \in {"choosing", "admitted"}

\* Mutant: the retrieval has no deadline.
MayWaitForever(w) == Acquiring(w) => elapsed[w] < SetupTime

\* Time passes for a call while its bound has not been reached.
MayWait(w) ==
  /\ Acquiring(w) => elapsed[w] < SetupTime
  /\ pc[w] = "retrieving" => elapsed[w] < Deadline

LeasesTick ==
  /\ \A w \in Workers : MayWait(w)
  /\ leaseLeft' = [d \in LeaseDocs |-> IF leaseLeft[d] > 0 THEN leaseLeft[d] - 1 ELSE 0]
  /\ elapsed' = [w \in Workers |->
               IF Acquiring(w) \/ pc[w] = "retrieving" THEN elapsed[w] + 1 ELSE elapsed[w]]
  /\ UNCHANGED <<holder, pc, owns, next>>

Call(w) ==
  \/ TakeGlobalSlot(w) \/ GlobalSlotTaken(w) \/ GiveUp(w)
  \/ Retrieve(w) \/ Finish(w)
  \/ (\E d \in LeaseDocs : ReleaseLease(w, d)) \/ ReturnFromCall(w)

LeasesNext ==
  \/ \E w \in Workers : Call(w) \/ Abandon(w) \/ \E r \in Requesters : Acquire(w, r)
  \/ LeasesTick

LeasesSpec == LeasesInit /\ [][LeasesNext]_leasesVars

-----------------------------------------------------------------------------
Retrieving == {w \in Workers : pc[w] = "retrieving"}

\* "Two retrievals globally": the slot of a retrieval is never taken over while
\* it runs, and no late release frees the slot of a successor.
GlobalLimit == Cardinality(Retrieving) <= GlobalSlotCount

\* "... and one active retrieval per requester."
OnePerRequester ==
  \A v, w \in Retrieving : owns[v] \cap owns[w] \cap Requesters # {} => v = w

-----------------------------------------------------------------------------
(***************************************************************************)
(* What makes them inductive: a call that has not released yet owns leases *)
(* that still have the time it may take.                                   *)
(***************************************************************************)
LeasesInTime ==
  \A w \in Workers :
    /\ Acquiring(w) => /\ elapsed[w] <= SetupTime
                       /\ \A d \in owns[w] : /\ holder[d] = w
                                             /\ leaseLeft[d] >= LeaseTime - elapsed[w]
    /\ pc[w] = "retrieving" =>
         /\ elapsed[w] <= Deadline
         /\ \A d \in owns[w] : /\ holder[d] = w
                               /\ leaseLeft[d] >= LeaseTime - SetupTime - elapsed[w]

Owning ==
  \A w \in Workers :
    /\ pc[w] = "idle" => owns[w] = {}
    /\ pc[w] \in {"idle", "releasing"} => elapsed[w] = 0
    /\ pc[w] \in {"admitted", "retrieving"} => owns[w] \cap GlobalSlots # {}

Inductive == LeasesTypeOK /\ LeasesInTime /\ Owning
=============================================================================
