CONSTANTS
  None = None
  p1 = p1
  p2 = p2
  Replicas = {p1, p2}
  MaxNonce = 3
  MaxAbove = 1
  Chunk = 2
  HasAccount = TRUE
  MaxFaults = 1
  MaxOthers = 1
SPECIFICATION Spec
SYMMETRY ReplicaSymmetry
INVARIANTS
  NeverPastUnconsumed
  SpaceNeverClosed
  FloorInv
