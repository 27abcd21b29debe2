SPECIFICATION LogSpec
CONSTANTS
  u1 = u1
  u2 = u2
  e1 = e1
  m1 = m1
  e2 = e2
  Users = {u1}
  Ids = {e1,e2}
  Mints = {m1}
  Native = Native
  None = None
  Dates = {1, 2}
  Amounts = {1000}
  MaxClock = 2
  MaxU64 = 1000000000
  Funds = 2000
  TokenFunds = 1000
  Endowment <- MCEndowment
CHECK_DEADLOCK FALSE
INVARIANTS LogShowsTheEvents LogShowsTheHoldings SystemFeesCollected
