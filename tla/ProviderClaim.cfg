SPECIFICATION FairSpec
CONSTANTS
  Callers = {1, 2}
  TaskKey = 100
  Keys = {11}
  MaxRows = 2
  MaxCrashes = 1
INVARIANTS NoJobIsForgotten OneJobPerTask
PROPERTIES LeaseOutlivesItsJob ReleaseIsNotUndone LeaseEndsWithItsJob
