CONSTANTS
  j1 = j1 j2 = j2 j3 = j3
  w1 = w1 w2 = w2
  self = self NULL = NULL
  Job <- ThreeJobs
  Worker <- TwoWorkers
  Callback <- OneQueue
  MaxWorkers = 4
  IdSpace = 5
  FirstCounter = 3
  Self = self
  Key <- FirstTwoEqual
  JobsAtOnce = 1
  Lifo = FALSE
  QueuePriority = 1
SPECIFICATION QSpec
INVARIANTS UniqueJobs EntriesAreAlive Sequential HeldBackForAReason
PROPERTIES EveryHandedJobEnds
