SPECIFICATION Spec
CONSTANTS
  Version <- MCVersion
  HandEntries <- MCHandEntries
  HandPolicy <- MCHandPolicy
  Type = {"t"}
  NoDetail = NoDetail
  NoPolicy = NoPolicy
  NoIdentifier = NoIdentifier
INVARIANTS
  TypeOK
  WrittenPolicyLoads
PROPERTIES
  BeyondConfigureSurvives
  ClosedStaysClosed
