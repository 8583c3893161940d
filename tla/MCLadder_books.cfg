SPECIFICATION Spec
CONSTANTS
  BINS = 2
  LADDER_FEE_BPS = 3000
  FEE_PEAK_BPS = 4000
  FEE_RAMP_START = 3
  FEE_RAMP_END = 1
  FEE_ACC_SCALE = 6
  WAD_SCALAR = 2
  ROUND_SECS = 4
  OPEN_DELAY = 1
  LOCK_GAP_MIN = 1
  LOCK_GAP_MAX = 1
  SETTLES = 5
  MIN_ROUND = 5
  MAX_LEAD = 5
  OPEN_ON_TIME = 1
  OPEN_WINDOW = 2
  VOID_FALLBACK = 1
  CLAIM_GRACE = 1
  Traders = {u1, u2}
  Lines <- MCLines
  Tranches = {a, b}
  ONE_TOKEN = 2
  Deposits = {6}
  Sizes = {1, 4}
  Costs = {1, 8}
  Worsts = {2}
  Results = {7}
  PauseValues = {FALSE}
  MAX_NOW = 6
  MAX_TRADES = 3
  PER_TX = 2
  MAX_UNITS = 6
  BASE_UNITS = 1
  REDEEM_UNITS = 2
  CLAIM_EARLY_UNITS = 3
SYMMETRY MCSymmetry
INVARIANTS
  ObligationsExact
  BasisExact
  EveryClaimFunded
  NoExitRefused
  DepositorsFirst
  ClientAgrees
CHECK_DEADLOCK FALSE
