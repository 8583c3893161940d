SPECIFICATION Spec
CONSTANTS
  VIRTUAL_SHARES = 2
  HOUSE_FEE_MULTIPLE = 2
  HOUSE_MIN_COMMIT_DIV = 3
  HOUSE_FEE_EMA_DIV = 2
  Owners = {o1, o2}
  Amounts = {1}
  Quantities = {3}
  Results = {0, 3}
  FeeIncomes = {0, 1}
  PauseValues = {TRUE, FALSE}
  ActiveValues = {TRUE}
  ONE_TOKEN = 1
  MAX_EPOCH = 2
  PCTS = {50, 100}
  MAX_MONEY = 2
INVARIANTS
  ShownAsBooked
CHECK_DEADLOCK FALSE
