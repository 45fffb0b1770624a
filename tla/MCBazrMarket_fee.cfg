\* A Token-2022 bond mint that withholds one token of every transfer.
CONSTANTS
  w1 = w1
  w2 = w2
  m1 = m1
  m2 = m2
  NoWallet = NoWallet
  Wallets = {w1, w2}
  Mints = {m1, m2}
  BondAmounts = {3}
  BpsChoices = {3333}
  Uris = {0, 2, 3}
  Scores = {1000, 1001}
  ThesisHashes = {0, 1}
  MAX_BPS = 10000
  MAX_RELIC_SCORE = 1000
  MAX_STALL_URI_LEN = 2
  REPUTATION_STEP = 100
  U32_MAX = 5
  U64_MAX = 9
  I64_MAX = 500
  InitialBalance = 4
  InitialSupply = 9
  TransferFee = 1
  MaxClock = 1
SYMMETRY Symmetry
SPECIFICATION Spec
INVARIANTS BondReturnable
CHECK_DEADLOCK FALSE
