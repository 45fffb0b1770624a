\* Three lookups of one address.
CONSTANTS
  l1 = l1
  l2 = l2
  l3 = l3
  a = a
  NoMint = NoMint
  Lookups = {l1, l2, l3}
  Mints = {a}
  CACHE_TTL_MS = 1
  NEGATIVE_TTL_MS = 1
  CACHE_MAX_ENTRIES = 1
  MaxClock = 1
  MaxClears = 0
SYMMETRY Symmetry
SPECIFICATION Spec
INVARIANTS SuccessConfirms
CHECK_DEADLOCK FALSE
