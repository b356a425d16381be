SPECIFICATION FairSpec
CONSTANTS
  TaskCount = 2
  MaxConcurrent = 1
  MaxAttempts = 3
  MaxRuntimeAttempts = 2
  MaxFaults = 1
  Crashes = TRUE
  Restarts = FALSE
  SlowCalls = FALSE
  Guarded = FALSE
PROPERTIES
  LaneEnds
\* A lane that has ended stops.
CHECK_DEADLOCK FALSE
