CONSTANTS
  a = a
  b = b
  NoMint = NoMint
  Mints = {a, b}
  RECENT_LIMIT = 2
  MaxSessions = 2
  MaxLookups = 3
  MaxFaults = 1
  RADIX = 3
  BYTE = 5
  KEY_BYTES = 2
  MIN_TEXT = 2
  MAX_TEXT = 3
  EXCLUDED_ADDRESSES <- MCExcluded
  MaxText = 5
SPECIFICATION Spec
INVARIANTS PopupSound CandidatesAreKeys
PROPERTIES EveryLookupEnds
CHECK_DEADLOCK FALSE
