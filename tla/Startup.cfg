SPECIFICATION Spec
CONSTANTS
  Families = {"naming","binding","wiring","reference","selection","posture"}
  Upstream <- MCUpstream
  Order <- MCOrder
  Worlds <- MCWorlds
  Edits <- MCEdits
  Part <- MCPart
  Denylisted <- MCDenylisted
  StrayName <- MCStrayName
  MaxUnusual = 2
  ObjectType <- MCObjectType
  FieldName <- MCFieldName
  Words <- MCWords
  Normal <- MCNormal
  MaxWords = 3
  Key = {k1, k2, k3}
  Root = Root
  Target = {here, there}
  Networked = {there}
  Own = Own
  NoConfig = NoConfig
  NoDocument = NoDocument
  NoAnswer = NoAnswer
CHECK_DEADLOCK FALSE
INVARIANTS
  StaleNameReachesSameOrNone
  EveryArgumentArrives
  EveryToolCanBeCalled
  SafeModeIsSafe
  SelectionsAreWhole
  WalkedOnce
  OnlyCyclesAreCut
  ResultIsFinite
