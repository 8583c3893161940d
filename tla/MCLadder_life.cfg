SPECIFICATION FairSpec
CONSTANTS
  BINS = 2
  LADDER_FEE_BPS = 5000
  FEE_PEAK_BPS = 6000
  FEE_RAMP_START = 3
  FEE_RAMP_END = 1
  FEE_ACC_SCALE = 4
  WAD_SCALAR = 2
  ROUND_SECS = 4
  OPEN_DELAY = 1
  LOCK_GAP_MIN = 1
  LOCK_GAP_MAX = 2
  SETTLES = 6
  MIN_ROUND = 3
  MAX_LEAD = 6
  OPEN_ON_TIME = 1
  OPEN_WINDOW = 1
  VOID_FALLBACK = 1
  CLAIM_GRACE = 2
  Traders = {u1}
  Lines <- MCOneLine
  Tranches = {a, b}
  ONE_TOKEN = 2
  Deposits = {3}
  Sizes = {1}
  Costs = {1, 2}
  Worsts = {1, 2}
  Results = {2}
  PauseValues = {TRUE, FALSE}
  MAX_NOW = 8
  MAX_TRADES = 2
  PER_TX = 2
  MAX_UNITS = 6
  BASE_UNITS = 1
  REDEEM_UNITS = 2
  CLAIM_EARLY_UNITS = 3
INVARIANTS FeePromise
PROPERTIES
  OneRoundPerDay
  RoundEnds
  EveryonePaidOut
CHECK_DEADLOCK FALSE
