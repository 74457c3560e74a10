SPECIFICATION Spec
CONSTANTS
  Version <- MCVersion
  HandEntries <- MCHandEntries
  HandPolicy <- MCHandPolicy
  Type = {"t"}
  NoDetail = NoDetail
  NoPolicy = NoPolicy
  NoIdentifier = NoIdentifier
PROPERTIES
  UnchangedLeftAsRecorded
