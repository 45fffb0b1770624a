CONSTANTS
  w1 = w1
  x = x
  jupiter = jupiter
  prod = prod
  dev = dev
  c1 = c1
  c2 = c2
  Null = Null
  Windows = {w1}
  Sites = {x, jupiter}
  Bases = {prod, dev}
  DEFAULT_API_BASE = prod
  Calls = {c1, c2}
  MaxSaves = 1
SPECIFICATION Spec
INVARIANTS HealthNamesItsBase
SYMMETRY Symmetry
CHECK_DEADLOCK FALSE
