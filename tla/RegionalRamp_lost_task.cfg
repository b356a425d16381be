SPECIFICATION Spec
CONSTANTS
  TaskCount = 2
  MaxConcurrent = 2
  MaxAttempts = 3
  MaxRuntimeAttempts = 2
  MaxFaults = 2
  Crashes = FALSE
  Restarts = FALSE
  SlowCalls = FALSE
  Guarded = FALSE
INVARIANTS
  NoTaskLost
\* A lane that has ended stops.
CHECK_DEADLOCK FALSE
