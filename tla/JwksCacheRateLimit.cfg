SPECIFICATION Spec
CONSTANTS
  Task = {t1, t2}
  Kid = {a, b}
  Interval = 2
  NoKid = NoKid
  NoAnswer = NoAnswer
SYMMETRY Perms
PROPERTY
  RateLimit
