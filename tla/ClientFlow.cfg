SPECIFICATION ClientSpec
CONSTANTS
  u1 = u1
  u2 = u2
  e1 = e1
  m1 = m1
  m2 = m2
  Users = {u1, u2}
  Ids = {e1}
  Mints = {m1,m2}
  Outcome = "Left"
  Native = Native
  None = None
  Dates = {1, 2}
  Amounts = {1999}
  MaxClock = 2
  MaxU64 = 1000000000
  Funds = 3998
  TokenFunds = 3998
  Endowment <- MCEndowment
CHECK_DEADLOCK FALSE
INVARIANTS PoolIsTheVaultsAmount PoolsAreOfTheEventsMint
PROPERTIES PoolsCloseWithTheEvent ClientEventsSettle StakesAreRepaidOrLost
