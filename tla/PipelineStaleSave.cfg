SPECIFICATION Spec
CHECK_DEADLOCK FALSE
CONSTANTS
  a1 = a1
  d1 = d1
  e1 = e1
  w1 = w1
  w2 = w2
  NoJob = NoJob
  NoWorker = NoWorker
  Null = Null
  Apps <- OneApp
  Domains <- OneDomain
  Enqueuers <- OneEnqueuer
  Workers <- TwoWorkers
  Attempts = 1
  MaxStalled = 0
  MaxCalls = 2
  Intervals <- OneTick
  MaxTime = 1
  Faults <- NoFaults
SYMMETRY Symmetry
PROPERTIES
  OwnColumnsOnly
