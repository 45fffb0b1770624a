\* Two tokens, a page of none and three disturbances: an answer that comes after the page
\* has moved on.
CONSTANTS
  h = h
  a = a
  b = b
  Candidates = {}
  Genuine = {}
  Urls = {"/tokens", "/tokens/a", "/tokens/b"}
  NoUrl = "none"
  DetailPages = {"/tokens/a", "/tokens/b"}
  Feed = {}
  MAX_BATCH = 1
  MaxEvents = 3
  MaxFeedEvents = 0
  MaxFlights = 1
SPECIFICATION MCSpec
INVARIANTS OnlyOwnToken
CHECK_DEADLOCK FALSE
