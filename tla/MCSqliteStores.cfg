CONSTANTS
  p1 = p1
  p2 = p2
  tA = tA
  tB = tB
  h1 = h1
  root = root
  Undefined = Undefined
  NULL = NULL
  Empty = Empty
  ForbiddenKeys = {"__proto__"}
  MAX_METADATA_KEYS = 1
  Processes = {p1, p2}
  Inputs <- MCInputs
  HopIds = {h1}
  Tenants = {tA}
  Filters <- MCFilters
  MaxIdentities = 1
  MaxEvents = 3
  MaxNow = 1

SPECIFICATION Spec
INVARIANTS
  TypeOK
  StoredAgentsAreTraceable
  TrailsReadInOrder
PROPERTIES
  ImplementsStores
SYMMETRY Symmetry
