\* Two crates.  A whole of three basis points, baskets of up to three mints, and a
\* u32 of four: too small for the larger totals and reached by the rebalances.
CONSTANTS
  c1 = c1
  c2 = c2
  m1 = m1
  m2 = m2
  m3 = m3
  Creators = {c1, c2}
  Mints = {m1, m2, m3}
  CrateIds = {1}
  Names = {0, 1, 2}
  Weights = {0, 1, 2, 3}
  MintLists <- MCMintLists
  WeightLists <- MCWeightLists
  MAX_BPS = 3
  MAX_CRATE_MINTS = 3
  MAX_CRATE_NAME_LEN = 1
  U32_MAX = 4
  U64_MAX = 2
  MaxClock = 3
SYMMETRY Symmetry
SPECIFICATION Spec
INVARIANTS CratesSound CheckIsExact
PROPERTIES CompositionCommitted
CHECK_DEADLOCK FALSE
