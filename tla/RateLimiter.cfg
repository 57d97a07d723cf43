SPECIFICATION FairSpec
CONSTANTS
  p1 = p1
  p2 = p2
  Free = Free
  Dead = Dead
  Clients <- TwoClients
  Domains <- TwoDomains
  GlobalLimit = 2
  DomainLimit = 1
  Ttl = 2
  MinBeat = 1
  Timeout = 2
  Poll = 1
  MaxFailures = 1
INVARIANTS
  TypeOK
  LimitRespected
  LeaseIsWhole
  WaitersHoldNothing
PROPERTIES
  OwnSlotOnly
  AcquireEnds
  SlotsComeFree
