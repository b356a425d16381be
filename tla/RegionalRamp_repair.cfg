SPECIFICATION Spec
CONSTANTS
  TaskCount = 1
  MaxConcurrent = 1
  MaxAttempts = 3
  MaxRuntimeAttempts = 2
  MaxFaults = 1
  Crashes = FALSE
  Restarts = TRUE
  SlowCalls = FALSE
  Guarded = FALSE
PROPERTIES
  EndIsFinal
\* A lane that has ended stops.
CHECK_DEADLOCK FALSE
