---------------------------- MODULE StartAdmission ----------------------------
(***************************************************************************)
(* The start admission of one region: a durable object that all lanes of   *)
(* the region ask before they start a container, and tell how the start    *)
(* went (deployment/..-hundred-thousand-self-recovery/src/admission.ts,    *)
(* called by ..-regional-ramp/src/index.ts).  Grants are paced, and a lack *)
(* of capacity delays everybody, longer each time.                         *)
(* Lanes report late and out of order; a report may be lost.               *)
(***************************************************************************)
EXTENDS Naturals, Sequences

CONSTANTS
  Lanes,
  Interval,     \* GROWTHSENT_ADMISSION_INTERVAL_SECONDS
  MaxBackoff,   \* GROWTHSENT_ADMISSION_MAX_BACKOFF_SECONDS
  MaxStreak,    \* the streak that still doubles the delay, 6
  MaxTime,      \* bound on the clock
  MaxEvents     \* bound on grants and reports

AdmissionOK == \A n \in {Interval, MaxBackoff, MaxStreak, MaxTime, MaxEvents} : n \in Nat \ {0}

VARIABLES
  state,   \* the object's record: next admission, end of the backoff, failures in a row
  lane,    \* lane -> starting, and the time before which it does not ask again
  now,
  log      \* grants, capacity failures and successes as the object met them

admissionVars == <<state, lane, now, log>>

AdmissionInit ==
  /\ state = [next |-> 0, backoff |-> 0, streak |-> 0]
  /\ lane = [l \in Lanes |-> [starting |-> FALSE, wake |-> 0]]
  /\ now = 0 /\ log = <<>>

LesserTime(a, b) == IF a < b THEN a ELSE b
LaterTime(a, b) == IF a > b THEN a ELSE b
Logged(kind) == Len(log) < MaxEvents /\ log' = Append(log, [kind |-> kind, at |-> now])

\* capacity_backoff first, then paced: how long to wait
RetryAfter == IF state.backoff > now THEN state.backoff - now ELSE state.next - now

ClaimRefused(l) ==
  /\ ~lane[l].starting /\ lane[l].wake <= now
  /\ state.backoff > now \/ state.next > now
  /\ lane' = [lane EXCEPT ![l].wake = now + RetryAfter]
  /\ UNCHANGED <<state, now, log>>

ClaimGranted(l) ==
  /\ ~lane[l].starting /\ lane[l].wake <= now
  /\ state.backoff <= now /\ state.next <= now
  /\ state' = [state EXCEPT !.next = now + Interval]
  /\ lane' = [lane EXCEPT ![l].starting = TRUE]
  /\ Logged("grant") /\ UNCHANGED now

\* interval * 2 ** streak
Doubled[streak \in 0 .. MaxStreak] ==
  IF streak = 0 THEN Interval ELSE 2 * Doubled[streak - 1]
Delay(streak) == LesserTime(MaxBackoff, Doubled[streak])

\* a bug for the run to find: the backoff alone holds the lanes back
PaceKept(until) == state.next
PaceAfter(until) == LaterTime(state.next, until)

ReportCapacityFailure(l) ==
  LET streak == LesserTime(MaxStreak, state.streak + 1)
      until == now + Delay(streak) IN
  /\ lane[l].starting
  /\ state' = [next |-> PaceAfter(until), backoff |-> until, streak |-> streak]
  /\ lane' = [lane EXCEPT ![l].starting = FALSE]
  /\ Logged("failure") /\ UNCHANGED now

\* the streak is forgotten and the backoff ends at once; the pace it set stays
ReportStartSuccess(l) ==
  /\ lane[l].starting
  /\ state' = IF state.streak = 0 /\ state.backoff <= now THEN state
              ELSE [state EXCEPT !.streak = 0, !.backoff = LesserTime(@, now)]
  /\ lane' = [lane EXCEPT ![l].starting = FALSE]
  /\ Logged("success") /\ UNCHANGED now

\* a failure of another kind is not reported; a report that fails is not repeated
Unreported(l) ==
  /\ lane[l].starting
  /\ lane' = [lane EXCEPT ![l].starting = FALSE]
  /\ UNCHANGED <<state, now, log>>

AdmissionTick == now < MaxTime /\ now' = now + 1 /\ UNCHANGED <<state, lane, log>>

AdmissionNext ==
  \/ \E l \in Lanes : \/ ClaimRefused(l) \/ ClaimGranted(l) \/ ReportCapacityFailure(l)
                      \/ ReportStartSuccess(l) \/ Unreported(l)
  \/ AdmissionTick

AdmissionSpec == AdmissionInit /\ [][AdmissionNext]_admissionVars
-----------------------------------------------------------------------------
\* Failures in a row up to the i-th event, a success ending the row.
InARow[i \in 0 .. MaxEvents] ==
  IF i = 0 THEN 0
  ELSE CASE log[i].kind = "failure" -> InARow[i - 1] + 1
         [] log[i].kind = "success" -> 0
         [] OTHER -> InARow[i - 1]

\* However the lanes' reports overlap, two grants of a region are an interval apart, and
\* none is given before the delay of an earlier capacity failure is over, although the
\* success of another lane's start has been reported in between.
GrantsSpaced ==
  \A i, j \in 1 .. Len(log) :
    i < j /\ log[j].kind = "grant" =>
      /\ log[i].kind = "grant" => log[j].at >= log[i].at + Interval
      /\ log[i].kind = "failure" => log[j].at >= log[i].at + Delay(LesserTime(MaxStreak, InARow[i]))
=============================================================================
