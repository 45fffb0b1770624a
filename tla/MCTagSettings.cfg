CONSTANTS
  w1 = w1
  x = x
  jupiter = jupiter
  prod = prod
  dev = dev
  c1 = c1
  Null = Null
  Windows = {w1}
  Sites = {x, jupiter}
  Bases = {prod, dev}
  DEFAULT_API_BASE = prod
  Calls = {c1}
  MaxSaves = 2
SPECIFICATION Spec
INVARIANTS SettingsSound EditorSeesStored
PROPERTIES EverySaveAnswered
CHECK_DEADLOCK FALSE
