SPECIFICATION FairSpec
CONSTANTS
  Task = {t1, t2}
  Kid = {a, b}
  a = a
  b = b
  forger = forger
  NoKid = NoKid
  NoAnswer = NoAnswer
  NoToken = NoToken
  Local = Local
  Leeway = 1
  MaxNow = 2
  Token <- MCToken
  Config <- MCConfig
INVARIANTS
  TypeOK
  CallersAreVerified
  LocalOnlyWhenOpen
  WellFormedMetadataIsFound
PROPERTIES
  ErrorsAreTheServers
  StartupSettles
  EveryRequestEnds
VIEW View
