SPECIFICATION Spec
CONSTANTS
  Prints <- MCPrints
  OPENS = 1
  LOCKS = 4
  SETTLES = 5
  OPEN_ON_TIME = 2
  OPEN_WINDOW = 3
  SETTLE_MAX_GAP = 1
  PUSH_MAX_GAP = 2
  VOID_FALLBACK = 3
  OPEN_CONF = 0
  STEP_CONF = 0
  MAX_UPDATES = 3
  MAX_NOW = 8
  CLOCK_SKEW = 1
  LIVE_LAG = 1
INVARIANTS
  OnlySettling
CHECK_DEADLOCK FALSE
