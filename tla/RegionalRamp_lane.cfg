SPECIFICATION Spec
CONSTANTS
  TaskCount = 2
  MaxConcurrent = 2
  MaxAttempts = 3
  MaxRuntimeAttempts = 2
  MaxFaults = 3
  Crashes = TRUE
  Restarts = TRUE
  SlowCalls = TRUE
  Guarded = FALSE
INVARIANTS
  TypeOK
  AccountedFor
  LaneSound
PROPERTIES
  SettledStaysSettled
\* A lane that has ended stops.
CHECK_DEADLOCK FALSE
