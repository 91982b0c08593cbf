CONSTANTS
  a = a
  b = b
  prod = prod
  dev = dev
  ConcreteSegments = {a, b}
  Wildcard = Wildcard
  Malformed = Malformed
  MAX_SEGMENTS = 2
  Amounts <- MCAmounts
  Others <- MCOthers
  Keys <- MCKeys
  Offers <- MCOffers
  AskedRequests <- MCAskedRequests
  maxDelegationDepth = 3

SPECIFICATION Spec
INVARIANTS
  AuthorityNeverGrows
  SubsetIsInclusion
  FullGrantCanBePassedOn
CHECK_DEADLOCK FALSE
