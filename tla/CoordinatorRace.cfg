CONSTANTS
  r1 = r1
  r2 = r2
  r3 = r3
  r4 = r4
  n1 = n1
  n2 = n2
  None = None
  p1 = p1
  p2 = p2
  Replicas = {p1, p2}
  Requests = {r1, r2}
  Class <- RaceClass
  OwnNonce <- NoOwnNonce
  Announced <- ListedAsIs
  Misreserved = {}
  Prompt = {r2}
  Slow = {}
  Nonces = {n1, n2}
  Filters <- RaceFilters
  PageSize = 2
  GiveUpAfter = 1
  MaxCrashes = 0
  MaxStray = 1
SPECIFICATION Spec
SYMMETRY RaceSymmetry
INVARIANTS
  SignedUnderReservation
  NoNonceReuse
