CONSTANTS
  c1 = c1
  c2 = c2
  c3 = c3
  Calls = {c1, c2, c3}
  Limit = 2
  Width = 2
  MaxPending = 2
  MaxNow = 4
SPECIFICATION FairSpec
CHECK_DEADLOCK FALSE
PROPERTY NoBudgetForRejected
