SPECIFICATION StreetSpec
CONSTANTS
  VIRTUAL_SHARES = 2
  HOUSE_FEE_MULTIPLE = 2
  HOUSE_MIN_COMMIT_DIV = 2
  HOUSE_FEE_EMA_DIV = 2
  Owners = {o1}
  Amounts = {1}
  Quantities = {2}
  Results = {0, 5}
  FeeIncomes = {0, 1}
  PauseValues = {FALSE}
  ActiveValues = {TRUE}
  ONE_TOKEN = 1
  MAX_EPOCH = 2
  MAX_MONEY = 2
  BINS = 2
  LADDER_FEE_BPS = 5000
  FEE_PEAK_BPS = 5000
  FEE_RAMP_START = 2
  FEE_RAMP_END = 1
  FEE_ACC_SCALE = 1
  WAD_SCALAR = 1
  ROUND_SECS = 1
  OPEN_DELAY = 0
  LOCK_GAP_MIN = 1
  LOCK_GAP_MAX = 1
  Traders = {u1}
  MAX_DAY = 2
  Sizes = {5}
  Costs = {3}
  MAX_TRADES = 2
INVARIANTS
  EveryoneCovered
PROPERTIES
  HouseComesHome
CHECK_DEADLOCK FALSE
