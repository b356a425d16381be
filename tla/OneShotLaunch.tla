---------------------------- MODULE OneShotLaunch ----------------------------
(***************************************************************************)
(* The launch of a canary or of the benchmark: one durable object, one     *)
(* container, one start for ever (deployment/..-10-wat-canary and          *)
(* ..-standard1-benchmark, src/index.ts).  Operators repeat the request,   *)
(* the object may be restarted at any await, the container may stop.       *)
(***************************************************************************)
EXTENDS Naturals, FiniteSets

CONSTANTS
  Requests,    \* POST /start requests
  MaxRestarts  \* bound: restarts of the object

LaunchOK == MaxRestarts \in Nat

VARIABLES
  launch,     \* the launch record: none, starting, start_accepted or start_failed
  launchFailure, \* a start failure has been recorded
  terminal,   \* the container's last recorded phase
  running,    \* the container runs
  starts,     \* times a start was begun
  request,    \* request -> new, starting, started, threw, 202, 409, 503, 404 or lost
  restarts

launchVars == <<launch, launchFailure, terminal, running, starts, request, restarts>>

LaunchInit ==
  /\ launch = "none" /\ launchFailure = FALSE /\ terminal = "none" /\ running = FALSE
  /\ starts = 0 /\ request = [r \in Requests |-> "new"] /\ restarts = 0

Replied(r, status) == request' = [request EXCEPT ![r] = status]

\* hasControlToken says no
Rejected(r) ==
  /\ request[r] = "new" /\ Replied(r, "404")
  /\ UNCHANGED <<launch, launchFailure, terminal, running, starts, restarts>>

\* a bug for the run to find: only the container is asked
ContainerUp == running
Begun == launch # "none" \/ running

\* startOnce: the input gates let nothing in between the read and the write
StartOnce(r) ==
  /\ request[r] = "new"
  /\ IF Begun THEN Replied(r, "409") /\ UNCHANGED <<launch, starts>>
     ELSE launch' = "starting" /\ starts' = starts + 1 /\ Replied(r, "starting")
  /\ UNCHANGED <<launchFailure, terminal, running, restarts>>

\* start() has the container up, and onStart recorded, or throws
ContainerStarts(r) ==
  /\ request[r] = "starting"
  /\ running' = TRUE /\ terminal' = "started" /\ Replied(r, "started")
  /\ UNCHANGED <<launch, launchFailure, starts, restarts>>
StartThrows(r) ==
  /\ request[r] = "starting"
  /\ launchFailure' = TRUE /\ Replied(r, "threw")
  /\ UNCHANGED <<launch, terminal, running, starts, restarts>>

RecordAccepted(r) ==
  /\ request[r] = "started"
  /\ launch' = "start_accepted" /\ Replied(r, "202")
  /\ UNCHANGED <<launchFailure, terminal, running, starts, restarts>>
RecordFailed(r) ==
  /\ request[r] = "threw"
  /\ launch' = "start_failed" /\ Replied(r, "503")
  /\ UNCHANGED <<launchFailure, terminal, running, starts, restarts>>

\* onStop, onError
ContainerEnds ==
  /\ running /\ running' = FALSE /\ terminal' \in {"stopped", "error"}
  /\ UNCHANGED <<launch, launchFailure, starts, request, restarts>>

\* the requests in progress are lost, the container may go on
ObjectRestarts ==
  /\ restarts < MaxRestarts /\ restarts' = restarts + 1
  /\ request' = [r \in Requests |-> IF request[r] \in {"starting", "started", "threw"}
                                    THEN "lost" ELSE request[r]]
  /\ UNCHANGED <<launch, launchFailure, terminal, running, starts>>

LaunchNext ==
  \/ \E r \in Requests : \/ Rejected(r) \/ StartOnce(r) \/ ContainerStarts(r) \/ StartThrows(r)
                         \/ RecordAccepted(r) \/ RecordFailed(r)
  \/ ContainerEnds \/ ObjectRestarts

LaunchSpec == LaunchInit /\ [][LaunchNext]_launchVars
-----------------------------------------------------------------------------
\* The fleet is started once, however often it is asked for, whatever became of the first
\* start and of the container; one request at most is told that it was accepted, and then
\* the container did start.
StartedOnce ==
  /\ starts <= 1
  /\ Cardinality({r \in Requests : request[r] = "202"}) <= 1
  /\ (\E r \in Requests : request[r] = "202") => terminal # "none" /\ ~launchFailure
=============================================================================
