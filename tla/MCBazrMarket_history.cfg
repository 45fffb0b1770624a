\* Long histories at the edge of the counters: three mints but a u32 that holds
\* two, and a u64 that holds three, while the clock moves once.
CONSTANTS
  w1 = w1
  w2 = w2
  m1 = m1
  m2 = m2
  m3 = m3
  NoWallet = NoWallet
  Wallets = {w1, w2}
  Mints = {m1, m2, m3}
  BondAmounts = {1}
  BpsChoices = {10000}
  Uris = {1}
  Scores = {1000}
  ThesisHashes = {0, 1}
  MAX_BPS = 10000
  MAX_RELIC_SCORE = 1000
  MAX_STALL_URI_LEN = 2
  REPUTATION_STEP = 100
  U32_MAX = 2
  U64_MAX = 3
  I64_MAX = 200
  InitialBalance = 1
  InitialSupply = 3
  TransferFee = 0
  MaxClock = 2
SYMMETRY Symmetry
SPECIFICATION Spec
INVARIANTS HistoryOrdered GradesNeverStuck BondsNeverStuck
PROPERTIES HistoryPermanent RefinesLedger
CHECK_DEADLOCK FALSE
