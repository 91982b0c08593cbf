CONSTANTS
  a = a
  b = b
  root = root
  middle = middle
  last = last
  other = other
  c1 = c1
  ConcreteSegments = {a, b}
  Wildcard = Wildcard
  Malformed = Malformed
  MAX_SEGMENTS = 1
  Amounts = {1, 2}
  Others = {}
  Keys <- MCKeys
  Jtis = {root, middle, last, other}
  Chains <- MCChains
  AskedRequests <- MCRequests
  Callers = {c1}
  MaxNow = 3

SPECIFICATION FairSpec
INVARIANTS
  TypeOK
  AllowedWasEligible
  DeniedForACause
PROPERTIES
  AllowedWhileEveryHopLives
  ImplementsAtomic
  CallsReturn
