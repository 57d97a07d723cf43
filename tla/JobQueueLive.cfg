SPECIFICATION FairSpec
CONSTANTS
  j1 = j1
  c1 = c1
  w1 = w1
  NoJob = NoJob
  NoWorker = NoWorker
  Jobs <- OneJob
  Calls <- OneCall
  Workers <- OneWorker
  Attempts = 2
  MaxStalled = 1
  Faults <- LockLoss
PROPERTIES
  EveryJobSettles
  UnfinishedIsRequeued
