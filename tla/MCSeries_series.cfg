SPECIFICATION LiveSpec
CONSTANTS
  SPAN = 2
  CLOSE_SECS = 1
  Winter <- MCWinter
  SHIFT = 1
  NoRound <- MCNoRound
  LOOK_BACK = 4
  WARMUP = 2
  SKIP_AFTER = 5
  BACKFILL_WINDOW = 11
  OPEN_ON_TIME = 1
  DAILY = TRUE
  POOL_FED = TRUE
  VAR_MIN = 1
  VAR_MAX = 4
  VAR_KEEP_NUM = 1
  VAR_KEEP_DEN = 2
  Returns = {0, 9}
  Teaching <- MCGood
  Moving <- MCMoving
  SETTLE_LAG = 1
  BACKFILL = 3
  START_NOW = 8
  MAX_NOW = 29
INVARIANTS
  TypeOK
  NoHoles
  WarmByNow
  RestartsApart
  OpensInformed
  MirrorAgrees
PROPERTIES
  WarmsUp
  NeverBack
CHECK_DEADLOCK FALSE
