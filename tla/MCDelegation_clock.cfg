CONSTANTS
  a = a
  b = b
  A = A
  B = B
  kA = kA
  ConcreteSegments = {a, b}
  Wildcard = Wildcard
  Malformed = Malformed
  MAX_SEGMENTS = 1
  Amounts = {}
  Others = {}
  Keys = {}
  AskedRequests <- MCAskedRequests
  Identities = {A, B}
  Kids = {kA}
  KeyPairs <- AllPairs
  Grants <- MintGrants
  Auds <- MintAuds
  Ttls = {2}
  Handmade <- ClockHandmade
  MAX_TTL_SECONDS = 2
  MAX_CAPABILITIES_PER_HOP = 1
  MAX_AUD_ENTRIES = 2
  maxDelegationDepth = 2
  Verifiers = {1}
  MaxTokens = 2
  MaxNow = 2

SPECIFICATION FairSpec
PROPERTIES
  AcceptedUnderTrustedKeys
  AcceptedHopsLivedTogether
  CallsEnd
