SPECIFICATION FairSpec
CHECK_DEADLOCK FALSE
CONSTANTS
  Raws <- ShortTexts
  RetryLimit = 3
  RedirectLimit = 2
  MaxResponseSize = 2
  TimeoutTicks = 2
  BaseDelay = 8
  LongestDelay = 9
  RetryAfters = {0, 20}
INVARIANTS
  TypeOK
  RequestsBounded
  RetriesAreRight
  VerdictsAgree
  TimeIsBounded
  SpellingsAgree
  NormalIsHost
PROPERTIES
  OnlyCheckedIsSent
  BudgetsRunDown
  GetEnds
