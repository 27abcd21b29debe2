SPECIFICATION FairSpec
CONSTANTS
  u1 = u1
  e1 = e1
  m1 = m1
  m2 = m2
  Native = Native
  None = None
  Users = {u1}
  Ids = {e1}
  Mints = {m1, m2}
  Dates = {0, 1}
  Amounts = {1999}
  MaxClock = 1
  Funds = 3998
  TokenFunds = 1999
  MaxU64 = 1000000000
  Endowment <- MCEndowment
PROPERTY EventsSettle
CHECK_DEADLOCK FALSE
