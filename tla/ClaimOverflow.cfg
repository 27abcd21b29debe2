SPECIFICATION Spec
CONSTANTS
  u1 = u1
  u2 = u2
  e1 = e1
  Users = {u1, u2}
  Ids = {e1}
  Mints = {}
  Native = Native
  None = None
  Dates = {0, 1}
  Amounts = {1000, 1999}
  MaxClock = 1
  MaxU64 = 150000000
  Funds = 1999
  TokenFunds = 0
  Endowment <- MCEndowment
CHECK_DEADLOCK FALSE
INVARIANT WinningSideCanClaim
