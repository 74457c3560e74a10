SPECIFICATION Spec
CONSTANTS
  Task = {t1, t2}
  Operation <- MCOperation
  Principal <- MCPrincipal
  PolicyConfig <- MCPolicyConfig
  ModeOf <- MCModeOf
  NoIdentifier = NoIdentifier
  NoSubject = NoSubject
  NoCredential = NoCredential
  s1 = s1
  s2 = s2
  LockId = {l1, l2, l3}
  Ttl = {1}
  MaxNow = 1
  NoLock = NoLock
  NoEntry = NoEntry
  NoRequest = NoRequest
  NoAnswer = NoAnswer
  Timeout = 1
  Operations = 1
  MaxTotal = 1
  RetryAfter = {}
  RetryCap = 1
  NoCall = NoCall
SYMMETRY Perms
INVARIANTS
  OnlyEntitledCalls
  CredentialFitsCall
VIEW View
