SPECIFICATION Spec
CONSTANTS
  u1 = u1
  u2 = u2
  e1 = e1
  m1 = m1
  Users = {u1, u2}
  Ids = {e1}
  Mints = {m1}
  Native = Native
  None = None
  Dates = {0, 1, 2}
  Amounts = {1000,1999}
  MaxClock = 2
  MaxU64 = 1000000000
  Funds = 1000
  TokenFunds = 2000
  Endowment <- MCEndowment
SYMMETRY Symmetry
CHECK_DEADLOCK FALSE
INVARIANTS TypeOK IInv SidesHoldTheirStakes PayoutsCovered NothingHeldBeforeTheStart
PROPERTY ImplementsMarket
