SPECIFICATION FairSpec
CONSTANTS
  TaskCount = 3
  MaxConcurrent = 2
  MaxAttempts = 3
  MaxRuntimeAttempts = 2
  MaxFaults = 2
  Crashes = FALSE
  Restarts = FALSE
  SlowCalls = FALSE
  Guarded = TRUE
INVARIANTS
  SlotsDistinct
PROPERTIES
  LaneEnds
\* A lane that has ended stops.
CHECK_DEADLOCK FALSE
