CONSTANTS
  j1 = j1 j2 = j2 j3 = j3
  w1 = w1 w2 = w2 w3 = w3
  cb1 = cb1 NULL = NULL
  Job <- TwoJobs
  Worker <- TwoWorkers
  Callback <- OneCallback
  MaxWorkers = 4
  IdSpace = 5
  FirstCounter = 3
SPECIFICATION FairSpec
PROPERTIES UnPausedJobsResume
