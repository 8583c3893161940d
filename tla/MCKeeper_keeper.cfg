SPECIFICATION FairSpec
CONSTANTS
  DAYS = 2
  DAY = 8
  LEAD = 1
  ON_TIME = 3
  WINDOW = 8
  VOID_FALLBACK = 1
  GRACE = 2
  BASE = 1
  CAP = 2
  LEARN_EVERY = 2
  CLEAR_EVERY = 2
  CLEAR_UP_SENDS = 1
  BEAT_STALE = 1
  SICK = 4
  MAX_NOW = 19
  TROUBLES = 1
INVARIANTS
  OpensInTime
  StuckIsTold
PROPERTIES RoundsEnd
CHECK_DEADLOCK FALSE
