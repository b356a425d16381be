--------------------------- MODULE ImmediateSlots ---------------------------
(***************************************************************************)
(* The leased execution slots of immediate audits                          *)
(* (lib/jobs/immediate-audit.ts).  After the response to a request an      *)
(* invocation tries the slots one after another, runs the audit under the  *)
(* first that is free, and gives the slot back.  Nobody renews the lease:  *)
(* the limit rests on the platform, which ends an invocation after         *)
(* Duration.  Time is counted down: left is what remains of a slot's       *)
(* lease, age the time since an invocation asked for its slot.  Asking     *)
(* takes no time to speak of.                                              *)
(***************************************************************************)
EXTENDS Naturals, FiniteSets

CONSTANTS
  Dispatches,  \* invocations
  SlotJobs,    \* job ids
  SlotCount,   \* slotCount()
  SlotLease,   \* SLOT_LEASE_MS
  Duration,    \* the platform's limit on an invocation
  NoDispatch

SlotsOK ==
  /\ IsFiniteSet(Dispatches) /\ NoDispatch \notin SlotJobs
  /\ {SlotCount, SlotLease, Duration} \subseteq Nat \ {0}
  /\ Duration < SlotLease

VARIABLES
  slotJob, left,       \* crawlWorkerSlots: jobId and what remains until expiresAt
  dispPc, dispJob,     \* an invocation: where it stands, and its job
  index,               \* the slot it tries or holds
  age

slotVars == <<slotJob, left, dispPc, dispJob, index, age>>

Slots == 1..SlotCount

SlotsTypeOK ==
  /\ slotJob \in [Slots -> SlotJobs \cup {NoDispatch}]
  /\ left \in [Slots -> 0..SlotLease]
  /\ dispPc \in [Dispatches -> {"idle", "asking", "running", "releasing"}]
  /\ dispJob \in [Dispatches -> SlotJobs \cup {NoDispatch}]
  /\ index \in [Dispatches -> 0..SlotCount + 1]
  /\ age \in [Dispatches -> 0..Duration]

SlotsInit ==
  /\ slotJob = [s \in Slots |-> NoDispatch]
  /\ left = [s \in Slots |-> 0]
  /\ dispPc = [d \in Dispatches |-> "idle"]
  /\ dispJob = [d \in Dispatches |-> NoDispatch]
  /\ index = [d \in Dispatches |-> 0]
  /\ age = [d \in Dispatches |-> 0]

Dispatch(d, j) ==
  /\ dispPc[d] = "idle"
  /\ dispPc' = [dispPc EXCEPT ![d] = "asking"]
  /\ dispJob' = [dispJob EXCEPT ![d] = j]
  /\ index' = [index EXCEPT ![d] = 1]
  /\ UNCHANGED <<slotJob, left, age>>

\* The invocation ends, or is ended: what it holds stays with its lease.
Gone(d) ==
  /\ dispPc' = [dispPc EXCEPT ![d] = "idle"]
  /\ dispJob' = [dispJob EXCEPT ![d] = NoDispatch]
  /\ index' = [index EXCEPT ![d] = 0]
  /\ age' = [age EXCEPT ![d] = 0]

\* Bug for the run to find: the clock of the comparison is ahead.
SlotFreeEarly(s) == left[s] <= 1
SlotFree(s) == left[s] = 0

TakeSlot(d) ==
  LET s == index[d] IN
  /\ dispPc[d] = "asking" /\ s \in Slots /\ SlotFree(s)
  /\ slotJob' = [slotJob EXCEPT ![s] = dispJob[d]]
  /\ left' = [left EXCEPT ![s] = SlotLease]
  /\ dispPc' = [dispPc EXCEPT ![d] = "running"]
  /\ UNCHANGED <<dispJob, index, age>>

\* The upsert meets a lease that runs: a duplicate key, and the next slot is tried.
SlotTaken(d) ==
  /\ dispPc[d] = "asking" /\ index[d] \in Slots /\ ~SlotFree(index[d])
  /\ index' = [index EXCEPT ![d] = @ + 1]
  /\ UNCHANGED <<slotJob, left, dispPc, dispJob, age>>

CapacityFull(d) ==
  /\ dispPc[d] = "asking" /\ index[d] \notin Slots
  /\ Gone(d)
  /\ UNCHANGED <<slotJob, left>>

\* processJob returns or throws.
AuditEnds(d) ==
  /\ dispPc[d] = "running"
  /\ dispPc' = [dispPc EXCEPT ![d] = "releasing"]
  /\ UNCHANGED <<slotJob, left, dispJob, index, age>>

OwnSlot(d) == slotJob[index[d]] = dispJob[d]

\* releaseImmediateAuditSlot, whose failure is only logged.
Release(d) ==
  /\ dispPc[d] = "releasing"
  /\ \/ /\ OwnSlot(d)
        /\ slotJob' = [slotJob EXCEPT ![index[d]] = NoDispatch]
        /\ left' = [left EXCEPT ![index[d]] = 0]
     \/ UNCHANGED <<slotJob, left>>
  /\ Gone(d)

Dies(d) ==
  /\ dispPc[d] # "idle"
  /\ Gone(d)
  /\ UNCHANGED <<slotJob, left>>

Busy(d) == dispPc[d] \in {"running", "releasing"}

SlotTick ==
  /\ \A d \in Dispatches : dispPc[d] # "asking" /\ (Busy(d) => age[d] < Duration)
  /\ left' = [s \in Slots |-> IF left[s] = 0 THEN 0 ELSE left[s] - 1]
  /\ age' = [d \in Dispatches |-> IF Busy(d) THEN age[d] + 1 ELSE 0]
  /\ UNCHANGED <<slotJob, dispPc, dispJob, index>>

SlotsNext ==
  \/ \E d \in Dispatches :
       \/ \E j \in SlotJobs : Dispatch(d, j)
       \/ TakeSlot(d) \/ SlotTaken(d) \/ CapacityFull(d)
       \/ AuditEnds(d) \/ Release(d) \/ Dies(d)
  \/ SlotTick

SlotsSpec == SlotsInit /\ [][SlotsNext]_slotVars

-----------------------------------------------------------------------------
\* No more audits run at a time than there are slots, although leases are not
\* renewed, releases fail and one job may be dispatched twice
\* (acquireImmediateAuditSlot: "it limits concurrent execution").
SlotLimit == Cardinality({d \in Dispatches : dispPc[d] = "running"}) <= SlotCount
=============================================================================
