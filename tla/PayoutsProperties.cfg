SPECIFICATION Spec
CONSTANTS
  MaxU64 = 1000000000
  Bets = {0, 1, 2, 3, 5, 7, 10, 33}
  MaxLosing = 21312
  LosingStep = 333
CHECK_DEADLOCK FALSE
INVARIANTS FeeIsCloseToExact RewardsFitThePool RewardIsCloseToExact
