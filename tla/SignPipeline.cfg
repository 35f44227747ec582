CONSTANTS
  r1 = r1
  r2 = r2
  plain = plain
  hmac = hmac
  narrow = narrow
  None = None
  Requests = {r1, r2}
  Profiles <- TheProfiles
  Tokens = {plain, hmac, narrow}
  Issued <- TheIssued
  Overrides <- TheOverrides
  IdleTimeout = 4
  MaxBodyBytes = 1
  Tolerance = 1
  Budget = 1
  MaxRevoked = 1
  MaxClock = 1
SPECIFICATION FairSpec
CHECK_DEADLOCK FALSE
INVARIANTS
  StrangersLearnNothing
  SignedOnlyIfEntitled
  AnsweredBeforeIdle
PROPERTIES
  AnswerIsFinal
  HungCallsAreAnswered
