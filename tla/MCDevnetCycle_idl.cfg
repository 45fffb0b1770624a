\* The same checkouts, of which some IDL is stale.
CONSTANTS
  MaxAttempts = 2
  MaxRuns = 3
  MaxFaults = 2
  U16_MAX = 2
  U32_MAX = 167
  RawNames <- MCRawNames
  Contents <- MCContents
  MaxEntries = 3
  Items = {"list_trench", "slash"}
  Ids = {"id1", "id2"}
  NoId = "none"
  StateModules = {"bond.rs", "listing.rs"}
  ListedKinds = {"instruction"}
  Versions = {"1.0.0", "1.0.1"}
  BadVersion = "01"
  Icons = {"16.png", "48.png"}
SPECIFICATION Spec
INVARIANTS StaleIdlNeverPasses
CHECK_DEADLOCK FALSE
