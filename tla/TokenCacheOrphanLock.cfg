SPECIFICATION Spec
CONSTANTS
  Task = {t1, t2, t3}
  k1 = k1
  k2 = k2
  r1 = r1
  r2 = r2
  Request = {r1, r2}
  Key = {k1, k2}
  KeyOf <- MCKeyOf
  LockId = {l1, l2, l3, l4}
  Ttl = {0, 1}
  MaxNow = 1
  NoLock = NoLock
  NoEntry = NoEntry
  NoRequest = NoRequest
  NoAnswer = NoAnswer
SYMMETRY Perms
INVARIANT
  NoOrphanLock
