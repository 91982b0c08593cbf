CONSTANTS
  a = a
  b = b
  A1 = A1
  B1 = B1
  kA = kA
  kB = kB
  c1 = c1
  c2 = c2
  p1 = p1
  p2 = p2
  ConcreteSegments = {a, b}
  Wildcard = Wildcard
  Malformed = Malformed
  MAX_SEGMENTS = 1
  Amounts = {}
  Others = {}
  Keys = {}
  Identities = {A1, B1}
  Kids = {kA, kB}
  KeyPairs <- MCPairs
  Rotated <- OneRotated
  keysFile <- MCPairs
  Tokens <- MCTokens
  maxDelegationDepth = 2
  Presented <- GuardPresented
  AskedRequests <- GuardRequests
  Clients = {c1}
  MaxNow = 1
  Processes = {p1, p2}
  MaxRequests = 1
  Down = Down
  Durable = TRUE

SPECIFICATION FairSpec
INVARIANTS
  TypeOK
PROPERTIES
  ImplementsGuardedTool
  RevocationCascades
  RequestsAreAnswered
CHECK_DEADLOCK FALSE
