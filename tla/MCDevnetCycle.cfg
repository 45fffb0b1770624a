\* Two faults of any kind, and one run more than that; archives on both sides of each limit.
CONSTANTS
  MaxAttempts = 2
  MaxRuns = 3
  MaxFaults = 2
  U16_MAX = 2
  U32_MAX = 167
  RawNames <- MCRawNames
  Contents <- MCContents
  MaxEntries = 3
  Items = {"list_trench", "slash"}
  Ids = {"id1", "id2"}
  NoId = "none"
  StateModules = {"bond.rs", "listing.rs"}
  ListedKinds = {"instruction"}
  Versions = {"1.0.0", "1.0.1"}
  BadVersion = "01"
  Icons = {"16.png", "48.png"}
SPECIFICATION Spec
INVARIANTS ScriptsSound IdlVerdictHolds ReleaseIsWhole
PROPERTIES CycleCompletes
CHECK_DEADLOCK FALSE
