CONSTANTS
  e1 = e1
  e2 = e2
  c1 = c1
  c2 = c2
  throwing = throwing
  Callers = {c1}
  Emitters = {e1}
  HashChaining = {}
  Listeners = {throwing}
  Throwing = {throwing}
  Types <- OneType
  MaxEvents = 1

SPECIFICATION Spec
INVARIANTS
  ResultIsNeverDiscarded
