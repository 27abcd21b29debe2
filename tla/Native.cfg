SPECIFICATION Spec
CONSTANTS
  u1 = u1
  u2 = u2
  e1 = e1
  Users = {u1, u2}
  Ids = {e1}
  Mints = {}
  Native = Native
  None = None
  Dates = {0, 1, 2}
  Amounts = {0, 1000, 1999}
  MaxClock = 2
  MaxU64 = 299900000
  Funds = 4000
  TokenFunds = 0
  Endowment <- MCEndowment
SYMMETRY Symmetry
CHECK_DEADLOCK FALSE
INVARIANTS PoolsAreTicketSums SidesHoldTheirStakes PayoutsCovered BoundedPoolsCanBeClaimed OnlyDustIsLeft
PROPERTIES ResultIsFinal StakesGrowOnlyWhileOpen RejectionsAreFinal
