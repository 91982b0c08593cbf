CONSTANTS
  eu = eu
  us = us
  Data = {eu, us}
  MaxHops = 3
  MaxObjects = 2

SPECIFICATION Spec
INVARIANTS
  RestatedConstraintsPass
SYMMETRY Symmetry
