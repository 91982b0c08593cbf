CONSTANTS
  a = a
  b = b
  A = A
  B = B
  kA = kA
  ConcreteSegments = {a, b}
  Wildcard = Wildcard
  Malformed = Malformed
  MAX_SEGMENTS = 1
  Amounts = {}
  Others = {}
  Keys = {}
  AskedRequests <- MCAskedRequests
  Identities = {A, B}
  Kids = {kA}
  KeyPairs <- NoPairs
  Grants <- LimitGrants
  Auds <- LimitAuds
  Ttls = {1}
  Handmade <- NoHandmade
  MAX_TTL_SECONDS = 2
  MAX_CAPABILITIES_PER_HOP = 1
  MAX_AUD_ENTRIES = 1
  maxDelegationDepth = 3
  Verifiers = {}
  MaxTokens = 2
  MaxNow = 0

SPECIFICATION Spec
INVARIANTS
  ReturnedHopsAreIssuable
