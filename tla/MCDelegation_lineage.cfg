CONSTANTS
  a = a
  b = b
  A = A
  B = B
  kA = kA
  ConcreteSegments = {a, b}
  Wildcard = Wildcard
  Malformed = Malformed
  MAX_SEGMENTS = 1
  Amounts = {}
  Others = {}
  Keys = {}
  AskedRequests <- MCAskedRequests
  Identities = {A, B}
  Kids = {kA}
  KeyPairs <- KeyOfB
  Grants <- DelegatedGrants
  Auds <- NoAuds
  Ttls = {2}
  Handmade <- LineageHandmade
  MAX_TTL_SECONDS = 2
  MAX_CAPABILITIES_PER_HOP = 1
  MAX_AUD_ENTRIES = 2
  maxDelegationDepth = 3
  Verifiers = {1}
  MaxTokens = 3
  MaxNow = 0

SPECIFICATION Spec
INVARIANTS
  TypeOK
  VerifiedNarrows
  OneLineage
  DelegationKeepsTheWalk
