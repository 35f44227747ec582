CONSTANTS
  c1 = c1
  c2 = c2
  here = here
  targets = targets
  n1 = n1
  n2 = n2
  None = None
  NoDomain = NoDomain
  Guardian = Guardian
  Stranger = Stranger
  Calls = {c1, c2}
  Workloads <- TheWorkloads
  Places <- ThePlaces
  Names = {n1, n2}
  Provider <- TheProviders
  Ttl = 1
  Latency = 1
  MaxTime = 4
  MaxUpgrades = 1
  Absent = Absent
  Keys = {k1, k2, k3}
  Values = {v1, bad}
  Unparsable = {bad}
  Readers = {r1}
  Lives = {0, 1, 2}
  MaxEntries = 2
  MaxClock = 3
  Reverts = Reverts
  Malformed = Malformed
  Unreachable = Unreachable
  NoContract = NoContract
  NoFund = NoFund
  AnyBook = AnyBook
  Bodies <- MCBodies
  Policies <- MCPolicies
  FundAnswers <- MCFundAnswers
  IntentAnswers <- MCIntentAnswers
  FactoryAnswers <- MCFactoryAnswers
  ViewAnswers <- MCViewAnswers
  BookAnswers <- MCBookAnswers
SPECIFICATION PartsSpec
SYMMETRY NameSymmetry
CHECK_DEADLOCK FALSE
INVARIANTS
  SignedDomainIsRecent
  SignedWhatWasAsked
  OnePayloadPerRequest
  BlameIsRight
  VerdictIsRight
  AppendixIsDescribed
PROPERTIES
  ImplementsLossyMap
  RoomIsMadeByAge
