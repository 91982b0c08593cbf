CONSTANTS
  e1 = e1
  e2 = e2
  c1 = c1
  c2 = c2
  throwing = throwing
  Callers = {c1, c2}
  Emitters = {e1, e2}
  HashChaining = {e1, e2}
  Listeners = {throwing}
  Throwing = {throwing}
  Types <- OneType
  MaxEvents = 3

SPECIFICATION Spec
INVARIANTS
  TypeOK
  EventsAreAccountedFor
  ResultsAreOnRecord
  ChainTellsGaps
  TamperingIsDetected
SYMMETRY Symmetry
