SPECIFICATION Spec
CONSTANTS
  u1 = u1
  u2 = u2
  e1 = e1
  m1 = m1
  Users = {u1, u2}
  Ids = {e1}
  Mints = {m1}
  Native = Native
  None = None
  Dates = {0, 1}
  Amounts = {1000}
  MaxClock = 1
  MaxU64 = 1000000000
  Funds = 1000
  TokenFunds = 1000
  Endowment <- MCEndowment
CHECK_DEADLOCK FALSE
INVARIANT PoolIsTheVaultsAmount
