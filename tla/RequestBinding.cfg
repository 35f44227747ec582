CONSTANTS
  f1 = f1
  f2 = f2
  o1 = o1
  r1 = r1
  good = good
  bad = bad
  c1 = c1
  c2 = c2
  none = none
  NoOwner = none
  Factories = {f1, f2}
  Owners = {o1, r1}
  Parties = {good, bad}
  Policies <- SomePolicies
  Starts <- SomeStarts
  Calls = {c1, c2}
  MaxHistory = 3
SYMMETRY CallSymmetry
SPECIFICATION Spec
CHECK_DEADLOCK FALSE
INVARIANTS
  TypeOK
  EvidenceInv
PROPERTIES
  ApprovalJustified
  NoFactoryIsDefinite
