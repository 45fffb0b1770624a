CONSTANTS
  w1 = w1
  x = x
  prod = prod
  dev = dev
  Null = Null
  Windows = {w1}
  Sites = {x}
  Bases = {prod, dev}
  DEFAULT_API_BASE = prod
  Calls = {}
  MaxSaves = 2
SPECIFICATION Spec
INVARIANTS ChoicesKept
CHECK_DEADLOCK FALSE
