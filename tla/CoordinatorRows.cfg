CONSTANTS
  r1 = r1
  r2 = r2
  r3 = r3
  r4 = r4
  n1 = n1
  n2 = n2
  None = None
  p1 = p1
  p2 = p2
  Replicas = {p1}
  Requests = {r1, r2, r3, r4}
  Class <- RowsClass
  OwnNonce <- RowsOwnNonce
  Announced <- RowsAnnounced
  Misreserved = {r1}
  Prompt = {}
  Slow = {}
  Nonces = {n1, n2}
  Filters <- RowsFilters
  PageSize = 1
  GiveUpAfter = 1
  MaxCrashes = 1
  MaxStray = 1
SPECIFICATION Spec
INVARIANTS
  AcceptedAsAnnounced
  StatsAddUp
  ReservationInv
PROPERTY SpentNonceIsNotTakenUp
