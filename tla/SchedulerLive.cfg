SPECIFICATION FairSpec
CONSTANTS
  s1 = s1
  s2 = s2
  p1 = p1
  p2 = p2
  Free = Free
  Dead = Dead
  Apps <- OneApp
  Processes <- TwoProcesses
  Scans <- TwoScans
  ProcessOf <- OneInEach
  Batch = 2
  Ttl = 2
  MinBeat = 1
  LateBeat = TRUE
  MaxFailures = 2
PROPERTIES
  OwnLockOnly
  LockComesFree
  DueIsVisited
