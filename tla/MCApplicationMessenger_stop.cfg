CONSTANTS
  t1 = t1 t2 = t2 NULL = NULL
  Thread <- TwoThreads
  JobThread <- OneThread
  MaxMessages = 3
SPECIFICATION Spec
PROPERTIES StopEnds
CHECK_DEADLOCK FALSE
