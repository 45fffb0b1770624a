\* Two lookups that overwrite each other's caches, which hold one entry of the two
\* addresses, while the clock passes both lifetimes.
CONSTANTS
  l1 = l1
  l2 = l2
  a = a
  b = b
  NoMint = NoMint
  Lookups = {l1, l2}
  Mints = {a, b}
  CACHE_TTL_MS = 0
  NEGATIVE_TTL_MS = 1
  CACHE_MAX_ENTRIES = 1
  MaxClock = 2
  MaxClears = 1
SPECIFICATION Spec
INVARIANTS StorageSound OnlyServerVerdicts
PROPERTIES EveryLookupAnswered ExpiredEntriesSwept
CHECK_DEADLOCK FALSE
