SPECIFICATION FairSpec
CONSTANTS
  Task = {t1, t2}
  Kid = {a, b}
  Interval = 2
  NoKid = NoKid
  NoAnswer = NoAnswer
INVARIANTS
  TypeOK
  OneRefreshAtATime
PROPERTIES
  RateLimitUnlessCrashed
  UnknownOnlyWhileNew
  ImplementsKeyService
  EveryCallEnds
  Recovers
