SPECIFICATION Spec
CONSTANTS
  s1 = s1
  s2 = s2
  p1 = p1
  p2 = p2
  Free = Free
  Dead = Dead
  Apps <- TwoApps
  Processes <- OneProcess
  Scans <- TwoScans
  ProcessOf <- BothInOne
  Batch = 1
  Ttl = 3
  MinBeat = 1
  LateBeat = FALSE
  MaxFailures = 1
SYMMETRY Symmetry
INVARIANTS
  TypeOK
  OneScan
  NeverTwice
PROPERTIES
  LoopIsComplete
