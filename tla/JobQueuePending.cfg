SPECIFICATION Spec
CONSTANTS
  j1 = j1
  c1 = c1
  c2 = c2
  w1 = w1
  w2 = w2
  NoJob = NoJob
  NoWorker = NoWorker
  Jobs <- OneJob
  Calls <- TwoCalls
  Workers <- OneWorker
  Attempts = 2
  MaxStalled = 1
  Faults <- NoFaults
SYMMETRY Symmetry
PROPERTIES
  EnqueuedIsPending
