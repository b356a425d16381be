--------------------------- MODULE DomainJsonBuild ---------------------------
(***************************************************************************)
(* Building the domains' JSON files: queue messages name a bucket, every   *)
(* container of the pool serves the buckets of one remainder, and a queue  *)
(* consumer starts a bucket's build in it and polls the container's status *)
(* (workers/growthsent-domain-json/src/index.ts, container_entrypoint.py). *)
(*                                                                         *)
(* The buckets here are those of one container.  The status is of the      *)
(* bucket the container is on, whoever asks.                               *)
(***************************************************************************)
EXTENDS Naturals, FiniteSets

CONSTANTS
  Buckets,
  MaxDeliveries,  \* deliveries of a message before the queue gives it up
  MaxDeaths,      \* bound: deaths of the container's process
  NoBucket

BuildOK == MaxDeliveries \in Nat \ {0} /\ MaxDeaths \in Nat /\ NoBucket \notin Buckets

VARIABLES
  message,     \* bucket -> queued, starting, polling, acked or given_up
  deliveries,  \* bucket -> deliveries so far
  up,          \* the container's process runs
  current,     \* _current_bucket
  job,         \* _jobs: none, started, done or failed
  built,       \* buckets whose files have been written
  deaths

buildVars == <<message, deliveries, up, current, job, built, deaths>>

BuildInit ==
  /\ message = [b \in Buckets |-> "queued"] /\ deliveries = [b \in Buckets |-> 0]
  /\ up = FALSE /\ current = NoBucket /\ job = [b \in Buckets |-> "none"]
  /\ built = {} /\ deaths = 0

Moves(b, to) == message' = [message EXCEPT ![b] = to]

\* queue: startContainer leaves a container that runs as it is
Deliver(b) ==
  /\ message[b] = "queued" /\ deliveries[b] < MaxDeliveries
  /\ Moves(b, "starting") /\ deliveries' = [deliveries EXCEPT ![b] = @ + 1] /\ up' = TRUE
  /\ UNCHANGED <<current, job, built, deaths>>

\* the handler throws: the queue delivers the message again, so often
Redelivered(b) == IF deliveries[b] < MaxDeliveries THEN "queued" ELSE "given_up"

Ended(b) == job[b] \in {"done", "failed"}
\* a bug for the run to find: whatever runs is left running
NotBusy(b) == FALSE
Busy(b) == current \notin {NoBucket, b} /\ ~Ended(current)

\* POST /run, under the jobs' lock; container.fetch starts a container that has gone
Run(b) ==
  /\ message[b] = "starting" /\ up' = TRUE
  /\ \/ Busy(b) /\ Moves(b, Redelivered(b)) /\ UNCHANGED <<current, job>>
     \/ ~Busy(b) /\ Ended(b) /\ Moves(b, "polling") /\ UNCHANGED <<current, job>>
     \/ /\ ~Busy(b) /\ ~Ended(b) /\ Moves(b, "polling")
        /\ current' = b /\ job' = [job EXCEPT ![b] = "started"]
  /\ UNCHANGED <<deliveries, built, deaths>>

\* _run_bucket_thread
BuildEnds(b) ==
  /\ up /\ job[b] = "started"
  /\ \/ job' = [job EXCEPT ![b] = "done"] /\ built' = built \cup {b}
     \/ job' = [job EXCEPT ![b] = "failed"] /\ UNCHANGED built
  /\ UNCHANGED <<message, deliveries, up, current, deaths>>

\* a fresh process knows of no bucket; what the threads were building is lost
FreshDelivery == current' = NoBucket /\ job' = [b \in Buckets |-> "none"]

\* GET /status; a container that has gone is started here too
Poll(b) ==
  /\ message[b] = "polling"
  /\ IF ~up \/ current = NoBucket
     THEN Moves(b, "acked") /\ up' = TRUE /\ UNCHANGED <<current, job>>
     ELSE \/ job[current] = "done" /\ Moves(b, "acked") /\ UNCHANGED <<up, current, job>>
          \/ /\ job[current] = "failed" /\ Moves(b, Redelivered(b))
             /\ up' = FALSE /\ FreshDelivery
  /\ UNCHANGED <<deliveries, built, deaths>>

\* thirty minutes, or a status that cannot be had: the container is destroyed
TimesOut(b) ==
  /\ message[b] = "polling" /\ Moves(b, Redelivered(b))
  /\ up' = FALSE /\ FreshDelivery
  /\ UNCHANGED <<deliveries, built, deaths>>

\* the consumer itself is stopped: the message goes back, the container is left running
ConsumerStops(b) ==
  /\ message[b] = "polling" /\ Moves(b, Redelivered(b))
  /\ UNCHANGED <<deliveries, up, current, job, built, deaths>>

\* the request cannot be made: the message goes back
RunFails(b) ==
  /\ message[b] = "starting" /\ Moves(b, Redelivered(b))
  /\ UNCHANGED <<deliveries, up, current, job, built, deaths>>

Dies ==
  /\ up /\ deaths < MaxDeaths /\ deaths' = deaths + 1
  /\ up' = FALSE /\ FreshDelivery
  /\ UNCHANGED <<message, deliveries, built>>

BuildNext ==
  \/ \E b \in Buckets : \/ Deliver(b) \/ Run(b) \/ BuildEnds(b) \/ Poll(b) \/ TimesOut(b)
                        \/ ConsumerStops(b) \/ RunFails(b)
  \/ Dies

BuildSpec == BuildInit /\ [][BuildNext]_buildVars
-----------------------------------------------------------------------------
\* A container builds one bucket at a time, the one its status tells of, although its
\* buckets are delivered, repeated and given up independently.
OneBuildAtATime == \A b \in Buckets : job[b] = "started" => current = b

\* A message is acknowledged when its bucket has been built.  It does not hold: the status
\* is of whichever bucket the container is on, and of none after a restart.
AckedIsBuilt == \A b \in Buckets : message[b] = "acked" => b \in built
=============================================================================
