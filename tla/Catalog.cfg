SPECIFICATION Spec
SYMMETRY Symmetric
CONSTANTS
  r1 = r1
  r2 = r2
  a1 = a1
  a2 = a2
  d1 = d1
  d2 = d2
  i1 = i1
  i2 = i2
  Roles <- TwoRoles
  Apps <- TwoApps
  Domains <- TwoDomains
  Ids <- TwoIds
  Tasks <- ThreeTasks
  NoId = NoId
  NoDomain = NoDomain
  NoRow = NoRow
INVARIANTS
  TypeOK
  LinkIsRight
  UpIsSeeded
  LosesOnce
