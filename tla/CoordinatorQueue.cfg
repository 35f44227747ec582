CONSTANTS
  r1 = r1
  r2 = r2
  r3 = r3
  r4 = r4
  n1 = n1
  n2 = n2
  None = None
  p1 = p1
  p2 = p2
  Replicas = {p1}
  Requests = {r1, r2, r3}
  Class <- QueueClass
  OwnNonce <- NoOwnNonce
  Announced <- ListedAsIs
  Misreserved = {}
  Prompt = {r1}
  Slow = {r2}
  Nonces = {n1}
  Filters <- QueueFilters
  PageSize = 1
  GiveUpAfter = 2
  MaxCrashes = 1
  MaxStray = 0
SPECIFICATION FairSpec
INVARIANT TimeoutsBounded
PROPERTIES
  CycleEnds
  PromptIsSubmitted
