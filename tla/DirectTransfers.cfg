SPECIFICATION SpecAmongTransfers
CONSTANTS
  u1 = u1
  u2 = u2
  e1 = e1
  m1 = m1
  m2 = m2
  Users = {u1, u2}
  Ids = {e1}
  Mints = {m1,m2}
  Native = Native
  None = None
  Dates = {1, 2}
  Amounts = {1000}
  MaxClock = 2
  MaxU64 = 1000000000
  Funds = 1000
  TokenFunds = 1000
  Unowned = m2
  Endowment <- MCEndowment
SYMMETRY Symmetry
CHECK_DEADLOCK FALSE
INVARIANTS PayoutsCovered SidesHoldAtLeastTheirStakes Conservation
