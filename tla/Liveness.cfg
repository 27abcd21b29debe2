SPECIFICATION FairSpec
CONSTANTS
  u1 = u1
  u2 = u2
  e1 = e1
  m1 = m1
  Users = {u1, u2}
  Ids = {e1}
  Mints = {m1}
  Native = Native
  None = None
  Dates = {0, 1}
  Amounts = {1999}
  MaxClock = 1
  MaxU64 = 199900000
  Funds = 1999
  TokenFunds = 1999
  Endowment <- MCEndowment
CHECK_DEADLOCK FALSE
PROPERTIES WinnersAreRepaid 
