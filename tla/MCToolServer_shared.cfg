CONSTANTS
  a = a
  b = b
  A1 = A1
  B1 = B1
  kA = kA
  kB = kB
  c1 = c1
  c2 = c2
  p1 = p1
  p2 = p2
  ConcreteSegments = {a, b}
  Wildcard = Wildcard
  Malformed = Malformed
  MAX_SEGMENTS = 1
  Amounts = {}
  Others = {}
  Keys = {}
  Identities = {A1, B1}
  Kids = {kA, kB}
  KeyPairs <- OnePair
  Rotated <- OneRotated
  keysFile <- OnePair
  Tokens <- OneToken
  maxDelegationDepth = 2
  Presented <- OnePresented
  AskedRequests <- GuardRequests
  Clients = {c1, c2}
  MaxNow = 0
  Processes = {p1, p2}
  MaxRequests = 2
  Down = Down
  Durable = FALSE

SPECIFICATION Spec
SYMMETRY Alike
INVARIANTS
  AnswersAreOnRecord
PROPERTIES
  ImplementsGuardedTool
CHECK_DEADLOCK FALSE
