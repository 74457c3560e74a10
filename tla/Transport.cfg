SPECIFICATION EFairSpec
CONSTANTS
  Task = {t1}
  Timeout = 3
  Operations = 2
  MaxTotal = 9
  RetryAfter = {0, 4, 9}
  RetryCap = 5
  NoCall = NoCall
  Leeway = 6
  ExpiresIn = {0, 6, 9}
  SubjectLife <- MCSubjectLife
  FetchDelay = 1
  Behind <- MCBehind
  Floor = 3
  NoSubject = NoSubject
INVARIANTS
  TypeOK
  ActionAppliedAtMostOnce
  BudgetBoundsRetries
  TokensGoOutInTime
PROPERTY
  EveryCallEnds
