SPECIFICATION FairSpec
CONSTANTS
  DEPOSIT = 5
  COST = 4
  SHARES = 2
  LEVEL = 2
  SALE = 3
  CREATOR_FEES = 2
  FEE = 1
  PAGE = 2
  POLL_PAGES = 2
  SAVE_EVERY = 2
  BACKFILL_MAX = 0
  MAX_CHAIN = 6
  FAULTS = 1
INVARIANTS
  CursorsCover
  HistoryTrue
PROPERTIES
  CaughtUp
CHECK_DEADLOCK FALSE
