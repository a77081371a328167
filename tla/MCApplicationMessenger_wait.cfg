CONSTANTS
  t1 = t1 t2 = t2 NULL = NULL
  Thread <- TwoThreads
  JobThread <- None
  MaxMessages = 3
SPECIFICATION Spec
INVARIANTS CallerWaits NothingAfterCleanup
PROPERTIES WaitsReturn
