\* A slashed stall that still has pending listings.
CONSTANTS
  w1 = w1
  w2 = w2
  m1 = m1
  m2 = m2
  m3 = m3
  NoWallet = NoWallet
  Wallets = {w1, w2}
  Mints = {m1, m2, m3}
  BondAmounts = {1}
  BpsChoices = {10000}
  Uris = {1}
  Scores = {1000}
  ThesisHashes = {0, 1}
  MAX_BPS = 10000
  MAX_RELIC_SCORE = 1000
  MAX_STALL_URI_LEN = 2
  REPUTATION_STEP = 100
  U32_MAX = 2
  U64_MAX = 3
  I64_MAX = 200
  InitialBalance = 1
  InitialSupply = 3
  TransferFee = 0
  MaxClock = 2
SYMMETRY Symmetry
SPECIFICATION Spec
PROPERTIES SlashEndsActing
CHECK_DEADLOCK FALSE
