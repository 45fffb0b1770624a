\* On the feed an element that holds a mint and another address, a message for one address
\* at a time, and two disturbances of any kind; in the catalogue two tokens, a page of
\* none, and four disturbances.
CONSTANTS
  h = h
  a = a
  b = b
  Candidates <- MCCandidates
  Genuine = {a}
  Urls = {"/", "/new", "/tokens", "/tokens/a", "/tokens/b"}
  NoUrl = "none"
  DetailPages = {"/tokens/a", "/tokens/b"}
  Feed = {"/", "/new"}
  MAX_BATCH = 1
  MaxEvents = 4
  MaxFeedEvents = 2
  MaxFlights = 2
SPECIFICATION MCSpec
INVARIANTS ContentSound PageTokenShown
PROPERTIES EveryCandidateAnswered
CHECK_DEADLOCK FALSE
