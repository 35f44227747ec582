CONSTANTS
  u1 = u1
  u2 = u2
  f1 = f1
  none = none
  puller = puller
  Users = {u1, u2}
  RoleSets = {none, puller}
  NoRoles = none
  Factories = {f1}
  Request = request
  Other = other
  MaxHeight = 4
  MaxLookback = 2
  FailIfOld = TRUE
  BlockRange = 2
SPECIFICATION FairSpec
CHECK_DEADLOCK FALSE
INVARIANTS
  ResolvedIsComplete
  PartialIsSound
  AgeDecides
PROPERTIES
  ImplementsRoleAnswer
  ScanEnds
