---------------------------- MODULE RegionalRamp ----------------------------
(***************************************************************************)
(* One lane of the regional ramp                                           *)
(* (deployment/common-crawl-cloudflare-r2-standard1-regional-ramp): a      *)
(* coordinator Durable Object that wakes by alarm, polls the tasks it has  *)
(* in flight and starts the next one; a fixed pool of container slots,     *)
(* each with a runner that executes one task at a time; and the immutable  *)
(* R2 prefix of each task.                                                 *)
(*                                                                         *)
(* Time is left out: a retry falls due whenever the alarm fires, and the   *)
(* window in which a start counts as recent ends at any moment.            *)
(***************************************************************************)
EXTENDS Integers, FiniteSets, Sequences

CONSTANTS
  TaskCount,           \* GROWTHSENT_REGIONAL_TASK_COUNT; tasks by local number
  MaxConcurrent,       \* GROWTHSENT_MAX_CONCURRENT
  MaxAttempts,         \* MAX_TASK_ATTEMPTS
  MaxRuntimeAttempts,  \* MAX_RUNTIME_TASK_ATTEMPTS
  MaxFaults,           \* bound of the model: faults of every kind together
  Crashes,             \* may the coordinator restart while its alarm runs
  Restarts,            \* may a container restart by itself under a status read
  SlowCalls,           \* may a startTask call outlast a task another call started
  Guarded              \* does a credential guard end the lane

ASSUME RampAssumption ==
  /\ TaskCount \in Nat \ {0} /\ MaxConcurrent \in 1..TaskCount
  /\ MaxAttempts \in Nat \ {0} /\ MaxRuntimeAttempts \in 1..MaxAttempts
  /\ MaxFaults \in Nat
  /\ Crashes \in BOOLEAN /\ Restarts \in BOOLEAN /\ SlowCalls \in BOOLEAN
  /\ Guarded \in BOOLEAN

Tasks == 1..TaskCount
Slots == 1..MaxConcurrent

VARIABLES
  record,      \* the coordinator's durable RegionalRampRecord
  alarm,       \* the alarm handler in progress, with what it has read and found
  slot,        \* each container with its runner and its durable launch record
  prefix,      \* what R2 holds under the prefix of a task
  credential,  \* is the R2 credential still far enough from its expiry
  repair,      \* the operator's repair in progress, with what it has read
  faults,      \* how many faults have happened
  forgotten    \* history: the tasks whose retry another task's failure has replaced

vars == <<record, alarm, slot, prefix, credential, repair, faults, forgotten>>

-----------------------------------------------------------------------------
NoRetry == [kind |-> "none", task |-> 0, slot |-> 0, attempts |-> 0]

\* completed and quarantined hold the tasks that completed_count and
\* recoverable_failed_count count; terminal is the task of terminal_failure.
NoRecord == [state |-> "none", next |-> 1, inFlight |-> <<>>, retry |-> NoRetry,
             completed |-> {}, quarantined |-> {}, terminal |-> 0]

Asleep == [pc |-> "idle", seen |-> NoRecord, remaining |-> <<>>, completed |-> {},
           task |-> 0, slot |-> 0]

\* launch is the TASK_LAUNCH record and recent its age; calls are the startTask
\* calls between that record and the runner's answer, asked those before that record
\* whose outcome nobody waits for; mishap is the terminal record as far as it says that
\* the container ended badly.
FreshSlot ==
  [running |-> FALSE, runner |-> "idle", task |-> 0, failure |-> "none",
   launch |-> [state |-> "none", task |-> 0, attempts |-> 0], recent |-> FALSE,
   asked |-> {}, calls |-> {}, mishap |-> [task |-> 0, class |-> "none"]]

NoRepair == [pc |-> "idle", seen |-> NoRecord, left |-> {}]

Init ==
  /\ record = NoRecord
  /\ alarm = Asleep
  /\ slot = [s \in Slots |-> FreshSlot]
  /\ prefix = [t \in Tasks |-> "none"]
  /\ credential = TRUE
  /\ repair = NoRepair
  /\ faults = 0
  /\ forgotten = {}

\* What the fields hold.  A retry's attempts never pass their limit; those of a launch
\* record count the starts, of which a coordinator that restarts may make any number.
Entries == [task : Tasks, slot : Slots, attempts : Nat \ {0}]
Retries == {NoRetry} \cup [kind : {"start", "reconcile", "task"}, task : Tasks,
                           slot : Slots, attempts : 0..MaxAttempts]
Records ==
  [state : {"none", "launching", "completed", "recoverable", "failed", "expired"},
   next : 1..(TaskCount + 1), inFlight : Seq(Entries), retry : Retries,
   completed : SUBSET Tasks, quarantined : SUBSET Tasks, terminal : Tasks \cup {0}]
Alarms ==
  [pc : {"idle", "polling", "starting", "launched"}, seen : Records,
   remaining : Seq(Entries), completed : SUBSET Tasks,
   task : Tasks \cup {0}, slot : Slots \cup {0}]
Classes == {"none", "retryable", "capacity", "partial", "fatal"}
Containers ==
  [running : BOOLEAN, runner : {"idle", "running", "writing", "succeeded", "failed"},
   task : Tasks \cup {0}, failure : Classes,
   launch : [state : {"none", "pending", "accepted"}, task : Tasks \cup {0}, attempts : Nat],
   recent : BOOLEAN, asked : SUBSET Tasks, calls : SUBSET Tasks,
   mishap : [task : Tasks \cup {0}, class : Classes]]
Repairs == [pc : {"idle", "reading"}, seen : Records, left : SUBSET Slots]

TypeOK ==
  /\ record \in Records /\ Len(record.inFlight) <= MaxConcurrent
  /\ alarm \in Alarms
  /\ slot \in [Slots -> Containers]
  /\ prefix \in [Tasks -> {"none", "payload", "completed"}]
  /\ credential \in BOOLEAN
  /\ repair \in Repairs
  /\ faults \in 0..MaxFaults
  /\ forgotten \subseteq Tasks

Fault(happens) == IF happens THEN faults < MaxFaults /\ faults' = faults + 1
                             ELSE faults' = faults

-----------------------------------------------------------------------------
(***************************************************************************)
(* What a status read says about a task.                                   *)
(***************************************************************************)
Working == {"running", "writing"}

\* Mutant: the runner's task is not compared.
RunnerShowsAny(s, t, states) == slot[s].running /\ slot[s].runner \in states

RunnerShows(s, t, states) ==
  slot[s].running /\ slot[s].task = t /\ slot[s].runner \in states

TerminalFailure(s, t) ==
  IF RunnerShows(s, t, {"failed"}) THEN slot[s].failure
  ELSE IF slot[s].mishap.task = t THEN slot[s].mishap.class ELSE "none"

\* "capacity", "partial", "retryable" and "fatal" are the failures the alarm
\* tells apart; a stopped container that left none of them has lost its task.
Verdict(s, t) ==
  IF RunnerShows(s, t, {"succeeded"}) THEN "succeeded"
  ELSE IF TerminalFailure(s, t) # "none" THEN TerminalFailure(s, t)
  ELSE IF ~slot[s].running THEN "lost" ELSE "working"

TasksOf(entries) == {entries[i].task : i \in DOMAIN entries}
SlotsOf(entries) == {entries[i].slot : i \in DOMAIN entries}

-----------------------------------------------------------------------------
(***************************************************************************)
(* The records an alarm writes.                                            *)
(***************************************************************************)
Write(r) == record' = r /\ alarm' = Asleep

EndOrGoOn(r, remaining) ==
  IF r.next > TaskCount /\ remaining = <<>> THEN "recoverable" ELSE "launching"

\* Mutant: the quarantined task is not counted.
QuarantineUncounted(r, completed, remaining, t) ==
  [r EXCEPT !.state = EndOrGoOn(r, remaining), !.completed = completed,
            !.inFlight = remaining, !.retry = NoRetry]

Quarantine(r, completed, remaining, t) ==
  [r EXCEPT !.state = EndOrGoOn(r, remaining), !.completed = completed,
            !.inFlight = remaining, !.retry = NoRetry, !.quarantined = @ \cup {t}]

\* Mutant: the task waits for its retry and stays in flight as well.
RequeueInPlace(r, completed, remaining, entry, limit) ==
  [r EXCEPT !.completed = completed, !.inFlight = Append(remaining, entry),
            !.retry = [kind |-> "task", task |-> entry.task, slot |-> entry.slot,
                       attempts |-> entry.attempts + 1]]

\* retryInFlightTask: the one retry of the record is now this task's.
Requeue(r, completed, remaining, entry, limit) ==
  IF entry.attempts + 1 > limit THEN Quarantine(r, completed, remaining, entry.task)
  ELSE [r EXCEPT !.completed = completed, !.inFlight = remaining,
                 !.retry = [kind |-> "task", task |-> entry.task, slot |-> entry.slot,
                            attempts |-> entry.attempts + 1]]

FailLane(r, completed, remaining, t) ==
  [r EXCEPT !.state = "failed", !.completed = completed, !.inFlight = remaining,
            !.terminal = t]

\* The attempts of a reconciliation only set its delay.
Reconcile(r, completed, unresolved, entry) ==
  [r EXCEPT !.completed = completed, !.inFlight = unresolved,
            !.retry = [kind |-> "reconcile", task |-> entry.task, slot |-> entry.slot,
                       attempts |-> 0]]

\* Mutant: a reconciliation that has done its work stays on record.
ClearedKept(retry) == retry

Cleared(retry) == IF retry.kind = "reconcile" THEN NoRetry ELSE retry

Retrying(r) == r.retry.kind \in {"task", "start"}
Waiting(r) == IF Retrying(r) THEN {r.retry.task} ELSE {}

\* The one retry of the record makes room for a failure of this task.
Replaces(t) == forgotten' = forgotten \cup (Waiting(alarm.seen) \ {t})

-----------------------------------------------------------------------------
(***************************************************************************)
(* The alarm.  It reads the record once, and writes it once.               *)
(***************************************************************************)
Begin ==
  /\ record.state = "none"
  /\ record' = [NoRecord EXCEPT !.state = "launching"]
  /\ UNCHANGED <<alarm, slot, prefix, credential, faults, repair, forgotten>>

AlarmFires ==
  /\ record.state = "launching" /\ alarm.pc = "idle"
  /\ alarm' = [Asleep EXCEPT !.pc = "polling", !.seen = record]
  /\ UNCHANGED <<record, slot, prefix, credential, faults, repair, forgotten>>

Sees(e) == Verdict(e.slot, e.task)
IsWorking(e) == Sees(e) = "working"
Quiet(e) == Sees(e) \in {"succeeded", "working"}

\* The tasks before position i, all succeeded or working, are settled.
Before(i) == SubSeq(alarm.seen.inFlight, 1, i - 1)
From(i) == SubSeq(alarm.seen.inFlight, i, Len(alarm.seen.inFlight))
StillWorking(entries) ==
  LET kept[k \in 0..Len(entries)] ==
        IF k = 0 THEN <<>>
        ELSE IF IsWorking(entries[k]) THEN Append(kept[k - 1], entries[k]) ELSE kept[k - 1]
  IN kept[Len(entries)]
Counted(entries) ==
  alarm.seen.completed \cup {entries[j].task : j \in {k \in DOMAIN entries :
                                                        Sees(entries[k]) = "succeeded"}}

\* Mutant: the task that could not be read is left out.
UnresolvedAfter(i) == StillWorking(Before(i)) \o From(i + 1)

Unresolved(i) == StillWorking(Before(i)) \o From(i)

\* The status call throws, or the running container does not answer it.
PollUnreachable ==
  /\ alarm.pc = "polling"
  /\ \E i \in DOMAIN alarm.seen.inFlight :
       /\ \A j \in 1..(i - 1) : Quiet(alarm.seen.inFlight[j])
       /\ Write(Reconcile(alarm.seen, Counted(Before(i)), Unresolved(i),
                          alarm.seen.inFlight[i]))
       /\ Replaces(alarm.seen.inFlight[i].task)
  /\ Fault(TRUE)
  /\ UNCHANGED <<slot, prefix, credential, repair>>

\* The first task that failed or was lost ends the pass; the ones after it are
\* kept unread.
PollFailure ==
  /\ alarm.pc = "polling"
  /\ \E i \in DOMAIN alarm.seen.inFlight :
       LET entry == alarm.seen.inFlight[i]
           completed == Counted(Before(i))
           remaining == StillWorking(Before(i)) \o From(i + 1)
       IN /\ \A j \in 1..(i - 1) : Quiet(alarm.seen.inFlight[j])
          /\ \/ /\ Sees(entry) \in {"capacity", "lost"} /\ Replaces(entry.task)
                /\ Write(Requeue(alarm.seen, completed, remaining, entry, MaxAttempts))
             \/ /\ Sees(entry) = "retryable" /\ Replaces(entry.task)
                /\ Write(Requeue(alarm.seen, completed, remaining, entry,
                                 MaxRuntimeAttempts))
             \/ /\ Sees(entry) = "partial" /\ Replaces(entry.task)
                /\ Write(Quarantine(alarm.seen, completed, remaining, entry.task))
             \/ /\ Sees(entry) = "fatal" /\ UNCHANGED forgotten
                /\ Write(FailLane(alarm.seen, completed, remaining, entry.task))
  /\ UNCHANGED <<slot, prefix, credential, faults, repair>>

\* Mutant: the slot after as many as are busy.
FirstFreeByCount(remaining) == (Len(remaining) % MaxConcurrent) + 1

FirstFree(remaining) ==
  CHOOSE s \in Slots \ SlotsOf(remaining) :
    \A other \in Slots \ SlotsOf(remaining) : s <= other

MayStart(r, remaining) ==
  \/ r.retry.kind = "task"
  \/ /\ r.retry.kind = "start" \/ r.next <= TaskCount
     /\ Len(remaining) < MaxConcurrent

\* No task in flight has failed: the alarm starts a task, ends the lane, or
\* waits for the next poll.
PollQuiet ==
  /\ alarm.pc = "polling"
  /\ \A i \in DOMAIN alarm.seen.inFlight : Quiet(alarm.seen.inFlight[i])
  /\ LET r == alarm.seen
         remaining == StillWorking(r.inFlight)
         completed == Counted(r.inFlight)
         t == IF Retrying(r) THEN r.retry.task ELSE r.next
     IN \/ /\ MayStart(r, remaining) /\ credential
           /\ alarm' = [alarm EXCEPT !.pc = "starting", !.remaining = remaining,
                                     !.completed = completed, !.task = t,
                                     !.slot = IF Retrying(r) THEN r.retry.slot
                                                             ELSE FirstFree(remaining)]
           /\ UNCHANGED record
        \/ /\ MayStart(r, remaining) /\ ~credential
           /\ Write([r EXCEPT !.state = "expired", !.completed = completed,
                              !.inFlight = remaining, !.terminal = t])
        \/ /\ ~MayStart(r, remaining)
           /\ r.next > TaskCount /\ remaining = <<>> /\ r.retry = NoRetry
           /\ Write([r EXCEPT !.state = IF r.quarantined = {} THEN "completed"
                                                              ELSE "recoverable",
                              !.completed = completed, !.inFlight = <<>>])
        \/ /\ ~MayStart(r, remaining)
           /\ ~(r.next > TaskCount /\ remaining = <<>> /\ r.retry = NoRetry)
           /\ Write([r EXCEPT !.completed = completed, !.inFlight = remaining,
                              !.retry = Cleared(@)])
  /\ UNCHANGED <<slot, prefix, credential, faults, repair, forgotten>>

-----------------------------------------------------------------------------
(***************************************************************************)
(* What the alarm does with the outcome of startTask.                      *)
(***************************************************************************)

\* Mutant: a retried task counts as the next one.
AcceptedAsNext(r, attempts) ==
  [r EXCEPT !.inFlight = Append(alarm.remaining, [task |-> alarm.task,
                           slot |-> alarm.slot, attempts |-> attempts]),
            !.completed = alarm.completed, !.retry = NoRetry,
            !.next = IF r.retry.kind = "task" THEN alarm.task ELSE alarm.task + 1]

Accepted(r, attempts) ==
  [r EXCEPT !.inFlight = Append(alarm.remaining, [task |-> alarm.task,
                           slot |-> alarm.slot, attempts |-> attempts]),
            !.completed = alarm.completed, !.retry = NoRetry,
            !.next = IF r.retry.kind = "task" THEN @ ELSE alarm.task + 1]

\* Every refusal of startTask is retryable, and the retry is a "start" whatever
\* kind of retry it comes from.
Refused(r, attempts) ==
  IF attempts > MaxAttempts
  THEN Quarantine(r, alarm.completed, alarm.remaining, alarm.task)
  ELSE [r EXCEPT !.completed = alarm.completed, !.inFlight = alarm.remaining,
                 !.retry = [kind |-> "start", task |-> alarm.task, slot |-> alarm.slot,
                            attempts |-> attempts]]

\* A call that nobody waits for any more goes on in the slot; before its launch record
\* it may as well never have got there.
LeavesCall ==
  \/ UNCHANGED slot
  \/ /\ alarm.pc = "starting"
     /\ slot' = [slot EXCEPT ![alarm.slot].asked = @ \cup {alarm.task}]

\* The call throws in the coordinator.
StartThrows ==
  /\ alarm.pc \in {"starting", "launched"}
  /\ LET prior == alarm.seen.retry
     IN Write(Refused(alarm.seen, IF prior.kind = "start" /\ prior.task = alarm.task
                                  THEN prior.attempts + 1 ELSE 1))
  /\ LeavesCall
  /\ Fault(TRUE)
  /\ UNCHANGED <<prefix, credential, repair, forgotten>>

-----------------------------------------------------------------------------
(***************************************************************************)
(* startTask in the slot: up to its launch record, then from there to the  *)
(* runner's answer.                                                        *)
(***************************************************************************)
Matches(s, t) == slot[s].launch.task = t
Uncertain(s, t) == Matches(s, t) /\ slot[s].launch.state = "pending" /\ slot[s].recent

\* What the status read shows, unless a fault hides the runner of a container
\* that runs.
AlreadyThere(s, t, hidden) ==
  ~hidden /\ Matches(s, t) /\ RunnerShows(s, t, Working \cup {"succeeded"})
Busy(s, t, hidden) ==
  ~hidden /\ slot[s].running /\ slot[s].runner \in Working /\ slot[s].task # t
MayHide(s) == IF slot[s].running THEN BOOLEAN ELSE {FALSE}

LaunchAs(s, state, t, attempts) ==
  [slot[s] EXCEPT !.launch = [state |-> state, task |-> t, attempts |-> attempts],
                  !.recent = (state = "pending")]

StartReconciled ==
  /\ alarm.pc = "starting"
  /\ LET s == alarm.slot  t == alarm.task  attempts == slot[s].launch.attempts
     IN /\ AlreadyThere(s, t, FALSE)
        /\ slot' = [slot EXCEPT ![s] = LaunchAs(s, "accepted", t, attempts)]
        /\ Write(Accepted(alarm.seen, attempts))
  /\ UNCHANGED <<prefix, credential, faults, repair, forgotten>>

\* The last of these: the regional admission paces the start, or is unavailable.
StartDeferred ==
  /\ alarm.pc = "starting"
  /\ LET s == alarm.slot  t == alarm.task  prior == slot[s].launch.attempts
     IN \E hidden \in MayHide(s) :
          /\ ~AlreadyThere(s, t, hidden)
          /\ \/ /\ Busy(s, t, hidden)
                /\ Write(Refused(alarm.seen, IF Matches(s, t) THEN prior ELSE 1))
                /\ Fault(hidden)
             \/ /\ ~Busy(s, t, hidden) /\ Uncertain(s, t)
                /\ Write(Refused(alarm.seen, prior))
                /\ Fault(hidden)
             \/ /\ ~Uncertain(s, t) /\ ~slot[s].running
                /\ Write(Refused(alarm.seen, IF Matches(s, t) THEN prior ELSE 0))
                /\ Fault(TRUE)
  /\ UNCHANGED <<slot, prefix, credential, repair, forgotten>>

\* The launch record of one more attempt is written.
Launches(s, t) ==
  /\ \E hidden \in MayHide(s) :
       /\ ~AlreadyThere(s, t, hidden) /\ ~Busy(s, t, hidden) /\ ~Uncertain(s, t)
       /\ Fault(hidden)
  /\ slot' = [slot EXCEPT ![s] =
       [LaunchAs(s, "pending", t, IF Matches(s, t) THEN slot[s].launch.attempts + 1 ELSE 1)
         EXCEPT !.asked = @ \ {t}, !.calls = @ \cup {t}, !.mishap = FreshSlot.mishap]]

StartBegins ==
  /\ alarm.pc = "starting"
  /\ Launches(alarm.slot, alarm.task)
  /\ alarm' = [alarm EXCEPT !.pc = "launched"]
  /\ UNCHANGED <<record, prefix, credential, repair, forgotten>>

\* A call whose coordinator is gone takes the same turns: it finds its task there, is
\* refused, or launches it.
AbandonedStart(s, t) ==
  /\ t \in slot[s].asked
  /\ \/ Launches(s, t)
     \/ /\ AlreadyThere(s, t, FALSE)
        /\ slot' = [slot EXCEPT ![s] =
             [LaunchAs(s, "accepted", t, slot[s].launch.attempts) EXCEPT !.asked = @ \ {t}]]
        /\ Fault(FALSE)
     \/ /\ Busy(s, t, FALSE) \/ Uncertain(s, t) \/ ~slot[s].running
        /\ slot' = [slot EXCEPT ![s].asked = @ \ {t}]
        /\ Fault(FALSE)
  /\ UNCHANGED <<record, alarm, prefix, credential, repair, forgotten>>

\* The container is started if it does not run, and TaskRunner.start takes the
\* task, unless it is running or has finished it already.
RunnerTakes(c, t) ==
  IF c.running /\ c.task = t /\ c.runner \in Working \cup {"succeeded"} THEN c
  ELSE [c EXCEPT !.running = TRUE, !.runner = "running", !.task = t, !.failure = "none",
                 !.mishap = IF c.running THEN @ ELSE FreshSlot.mishap]

\* Of calls that overlap in a slot, each finds the attempts last recorded.
AttemptsOf(s, t) == IF Matches(s, t) THEN slot[s].launch.attempts ELSE 1

\* The outcome reaches the alarm if it still waits for this call.
Answer(s, t, r) ==
  IF alarm.pc = "launched" /\ alarm.slot = s /\ alarm.task = t
  THEN Write(r) ELSE UNCHANGED <<record, alarm>>

StartRuns(s, t) ==
  /\ t \in slot[s].calls
  /\ ~Busy(s, t, FALSE)
  /\ LET attempts == AttemptsOf(s, t)
     IN /\ slot' = [slot EXCEPT ![s] = [RunnerTakes(LaunchAs(s, "accepted", t, attempts), t)
                                         EXCEPT !.calls = @ \ {t}]]
        /\ Answer(s, t, Accepted(alarm.seen, attempts))
  /\ UNCHANGED <<prefix, credential, faults, repair, forgotten>>

\* The runner is busy with another task, the container does not start, or the
\* answer is lost on the way while the runner has or has not taken the task and
\* a second status read does not find it.
StartFails(s, t) ==
  /\ t \in slot[s].calls
  /\ LET attempts == AttemptsOf(s, t)
         pending == LaunchAs(s, "pending", t, attempts)
     IN /\ \/ /\ Busy(s, t, FALSE)
              /\ slot' = [slot EXCEPT ![s] = [pending EXCEPT !.calls = @ \ {t}]]
              /\ Fault(FALSE)
           \/ /\ ~Busy(s, t, FALSE)
              /\ \E c \in {pending, RunnerTakes(pending, t)} :
                   slot' = [slot EXCEPT ![s] = [c EXCEPT !.calls = @ \ {t}]]
              /\ Fault(TRUE)
        /\ Answer(s, t, Refused(alarm.seen, attempts))
  /\ UNCHANGED <<prefix, credential, repair, forgotten>>

PendingAges(s) ==
  /\ slot[s].recent
  /\ slot' = [slot EXCEPT ![s].recent = FALSE]
  /\ UNCHANGED <<record, alarm, prefix, credential, faults, repair, forgotten>>

-----------------------------------------------------------------------------
(***************************************************************************)
(* The runner's process and R2.  A task whose marker exists is reused; one *)
(* with payload and no marker is not written again.                        *)
(***************************************************************************)
MayEnd(s) == SlowCalls \/ slot[s].asked \cup slot[s].calls = {}

Becomes(s, state, class) ==
  slot' = [slot EXCEPT ![s].runner = state, ![s].failure = class]

RunnerWrites(s) ==
  /\ slot[s].runner = "running" /\ prefix[slot[s].task] = "none"
  /\ Becomes(s, "writing", "none")
  /\ prefix' = [prefix EXCEPT ![slot[s].task] = "payload"]
  /\ UNCHANGED <<record, alarm, credential, faults, repair, forgotten>>

RunnerSucceeds(s) ==
  /\ MayEnd(s)
  /\ \/ slot[s].runner = "running" /\ prefix[slot[s].task] = "completed"
     \/ slot[s].runner = "writing"
  /\ Becomes(s, "succeeded", "none")
  /\ prefix' = [prefix EXCEPT ![slot[s].task] = "completed"]
  /\ UNCHANGED <<record, alarm, credential, faults, repair, forgotten>>

\* An earlier attempt, or a sibling, has left payload.
RunnerFindsPayload(s) ==
  /\ MayEnd(s)
  /\ slot[s].runner = "running" /\ prefix[slot[s].task] = "payload"
  /\ Becomes(s, "failed", "partial")
  /\ UNCHANGED <<record, alarm, prefix, credential, faults, repair, forgotten>>

\* An upload that fails may have been stored, the marker's too.
RunnerFails(s) ==
  /\ MayEnd(s)
  /\ slot[s].runner \in Working
  /\ \/ \E class \in {"retryable", "fatal"} :
          Becomes(s, "failed", class) /\ UNCHANGED prefix
     \/ /\ slot[s].runner = "writing"
        /\ Becomes(s, "failed", "partial")
        /\ \E left \in {"payload", "completed"} :
             prefix' = [prefix EXCEPT ![slot[s].task] = left]
  /\ Fault(TRUE)
  /\ UNCHANGED <<record, alarm, credential, repair, forgotten>>

ContainerStops(s) ==
  /\ slot[s].running
  /\ \E class \in {"none", "retryable", "capacity", "fatal"} :
       slot' = [slot EXCEPT ![s].running = FALSE, ![s].runner = "idle",
                            ![s].task = 0, ![s].failure = "none",
                            ![s].mishap = [task |-> slot[s].launch.task, class |-> class]]
  /\ Fault(TRUE)
  /\ UNCHANGED <<record, alarm, prefix, credential, repair, forgotten>>

\* It stops between the check that it runs and the read of its runner, which
\* starts it again, with a runner that has no task.
ContainerRestarts(s) ==
  /\ Restarts
  /\ slot[s].running
  /\ slot' = [slot EXCEPT ![s].runner = "idle", ![s].task = 0, ![s].failure = "none",
                          ![s].mishap = FreshSlot.mishap]
  /\ Fault(TRUE)
  /\ UNCHANGED <<record, alarm, prefix, credential, repair, forgotten>>

\* The object restarts, and its alarm is delivered again.
CoordinatorCrashes ==
  /\ Crashes
  /\ alarm.pc # "idle" \/ repair.pc # "idle"
  /\ alarm' = Asleep /\ repair' = NoRepair
  /\ LeavesCall
  /\ Fault(TRUE)
  /\ UNCHANGED <<record, prefix, credential, forgotten>>

CredentialElapses ==
  /\ Guarded
  /\ credential' = FALSE
  /\ UNCHANGED <<record, alarm, slot, prefix, faults, repair, forgotten>>

-----------------------------------------------------------------------------
(***************************************************************************)
(* quarantineStaleInFlightTasks: an operator gives up the tasks of a       *)
(* drained lane whose slots say something else.  The record is read, the   *)
(* slots are asked, and the record is written, whatever an alarm has       *)
(* written in between or has still to write.                               *)
(***************************************************************************)
RepairReads ==
  /\ repair.pc = "idle"
  /\ record.state = "launching"
  /\ record.next > TaskCount /\ record.retry = NoRetry /\ record.inFlight # <<>>
  /\ repair' = [pc |-> "reading", seen |-> record, left |-> DOMAIN record.inFlight]
  /\ UNCHANGED <<record, alarm, slot, prefix, credential, faults, forgotten>>

\* The slot's runner is idle, of a task that is not the one on record.
Stale(e) ==
  slot[e.slot].running /\ slot[e.slot].runner \notin Working /\ slot[e.slot].task # e.task

RepairAsks(i) ==
  /\ i \in repair.left
  /\ \/ /\ Stale(repair.seen.inFlight[i]) /\ Fault(FALSE)
        /\ repair' = [repair EXCEPT !.left = @ \ {i}]
     \/ /\ Fault(Stale(repair.seen.inFlight[i]))
        /\ repair' = NoRepair
  /\ UNCHANGED <<record, alarm, slot, prefix, credential, forgotten>>

RepairWrites ==
  /\ repair.pc = "reading" /\ repair.left = {}
  /\ record' = [repair.seen EXCEPT !.state = "recoverable", !.inFlight = <<>>,
                   !.quarantined = @ \cup TasksOf(repair.seen.inFlight)]
  /\ repair' = NoRepair
  /\ UNCHANGED <<alarm, slot, prefix, credential, faults, forgotten>>

Repair == RepairReads \/ (\E i \in Slots : RepairAsks(i)) \/ RepairWrites

-----------------------------------------------------------------------------
Alarm ==
  \/ AlarmFires \/ PollUnreachable \/ PollFailure \/ PollQuiet
  \/ StartReconciled \/ StartDeferred \/ StartBegins \/ StartThrows

Container(s) ==
  \/ \E t \in Tasks : AbandonedStart(s, t) \/ StartRuns(s, t) \/ StartFails(s, t)
  \/ PendingAges(s)
  \/ RunnerWrites(s) \/ RunnerSucceeds(s) \/ RunnerFindsPayload(s) \/ RunnerFails(s)
  \/ ContainerStops(s) \/ ContainerRestarts(s)

\* A lane that has ended, or was never begun, goes nowhere of itself.
LaneOver == record.state \notin {"none", "launching"}

Next ==
  \/ Begin \/ Alarm \/ CoordinatorCrashes \/ CredentialElapses
  \/ Repair
  \/ \E s \in Slots : Container(s)

Spec == Init /\ [][Next]_vars

\* The platform delivers alarms and calls; the process of a task ends, by its
\* hard timeout at the latest.  Nobody is made to begin a lane or to repair one,
\* and no fault has to happen.
Fairness ==
  /\ WF_vars(AlarmFires) /\ WF_vars(PollFailure) /\ WF_vars(PollQuiet)
  /\ WF_vars(StartReconciled \/ StartDeferred \/ StartBegins)
  /\ \A s \in Slots :
       /\ WF_vars(\E t \in Tasks : AbandonedStart(s, t) \/ StartRuns(s, t) \/ StartFails(s, t))
       /\ WF_vars(PendingAges(s))
       /\ WF_vars(RunnerWrites(s)) /\ WF_vars(RunnerSucceeds(s))
       /\ WF_vars(RunnerFindsPayload(s))

FairSpec == Spec /\ Fairness

-----------------------------------------------------------------------------
(***************************************************************************)
(* Properties                                                              *)
(***************************************************************************)
Marked == {t \in Tasks : prefix[t] = "completed"}

\* What a record says of a task: it is in flight, to be retried, counted as completed, or
\* left to recovery, or the one the lane ended on.
Accounts(r) ==
  TasksOf(r.inFlight) \cup Waiting(r) \cup r.completed \cup r.quarantined \cup {r.terminal}

\* A task is lost in one way only: every task before the next one is accounted for, in a
\* lane of any number of slots, unless another task failed while it waited for its retry.
AccountedFor == \A t \in 1..(record.next - 1) : t \in Accounts(record) \cup forgotten

\* No task is lost at all.  One may be; see README.md.
NoTaskLost == \A t \in 1..(record.next - 1) : t \in Accounts(record)

\* "A completed task is proven only by its immutable R2 completion marker": what
\* the lane counts as completed has its marker, although the alarm only reads
\* the status of a runner that other tasks have used before and after.
CountedIsMarked == record.completed \subseteq Marked

\* A lane that reports "completed" has completed every task it has not forgotten, and one
\* that reports recoverable failures has counted those it has not completed.
EndMeansMarked ==
  /\ record.state = "completed" => Tasks \ forgotten \subseteq Marked
  /\ record.state = "recoverable" => Tasks \ (record.quarantined \cup forgotten) \subseteq Marked

\* What the lane writes down of its tasks is what the store proves of them, while it runs
\* and when it ends.
LaneSound == CountedIsMarked /\ EndMeansMarked

\* Tasks in flight, and the one to be retried, have slots of their own: the pool
\* is never oversubscribed.
SlotsDistinct ==
  /\ \A i, j \in DOMAIN record.inFlight :
       record.inFlight[i].slot = record.inFlight[j].slot => i = j
  /\ Retrying(record) => record.retry.slot \notin SlotsOf(record.inFlight)

\* The tasks that are under way or are to be started again.
Undecided(r) == TasksOf(r.inFlight) \cup Waiting(r)

\* The start that is retried is that of a task which was passed: it has failed in flight.
RestartsPassed(r) == r.retry.kind = "start" /\ r.retry.task < r.next

\* Of a lane that runs: a task that was passed and settled is not taken up again, whichever
\* failures, retries, late starts and restarts meet; and the next task moves back in one
\* case only, when a start that was refused to a failed task's retry succeeds after all, and
\* then to the task after that one.
SettledStaysSettled ==
  [][record.state = "launching" =>
       /\ \A t \in 1..(record.next - 1) :
            t \in Undecided(record') => t \in Undecided(record)
       /\ \/ record'.next >= record.next
          \/ RestartsPassed(record) /\ record'.next = record.retry.task + 1]_vars

\* A task left to recovery is not put in flight again.  It may be: see README.md.
QuarantineIsFinal ==
  [][\A t \in record.quarantined \ TasksOf(record.inFlight) :
       t \notin TasksOf(record'.inFlight)]_vars

\* A lane that has ended, by itself or by an operator, does not come back.
EndIsFinal == [][LaneOver => LaneOver']_vars

\* A lane that was begun ends.
LaneEnds == (record.state = "launching") ~> LaneOver
=============================================================================
