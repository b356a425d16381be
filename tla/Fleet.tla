-------------------------------- MODULE Fleet --------------------------------
(***************************************************************************)
(* The three gates in front of the batch work, side by side: the start     *)
(* admission of a regional coordinator, the one-shot launch of a           *)
(* benchmark, and the consumer that builds one domain bucket at a time.    *)
(* They share no state: each has its own durable object or queue.          *)
(***************************************************************************)
EXTENDS StartAdmission, OneShotLaunch, DomainJsonBuild

FleetSpec == AdmissionSpec /\ LaunchSpec /\ BuildSpec
-----------------------------------------------------------------------------
\* Batch work starts spaced, once, and one build at a time (the coordinators' start
\* admission, the one-shot launch, the domain-json consumer).
FleetStarts == GrantsSpaced /\ StartedOnce /\ OneBuildAtATime
=============================================================================
