SPECIFICATION FairSpec
CONSTANTS
  ACTIVE = {a}
  RETIRING = {r}
  a = a
  r = r
  MIN = 1
  TARGET = 2
  RECLAIM = 3
  DAILY = 4
  FEE = 1
  RENT = 1
  START_LAMPORTS = 2
  ROOM = 1
  RETIRED_DUST = 1
  RETURN_PER_TX = 2
  PACK = 1
  COLLECTS = 3
  DAYS = 1
  FUNDED = {0, 3}
  FAULTS = 1
INVARIANTS NetCapped Journaled
PROPERTIES AllHome
CHECK_DEADLOCK FALSE
