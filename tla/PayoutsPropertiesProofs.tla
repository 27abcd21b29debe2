---------------------- MODULE PayoutsPropertiesProofs ----------------------
(***************************************************************************)
(* The bounds of PayoutsProperties for all bets and pools.                 *)
(***************************************************************************)
EXTENDS PayoutsProperties, PayoutsProofs

InputsInNat == bets \in [1..3 -> Nat] /\ losing \in Nat

LEMMA InputsAreNat == Spec => []InputsInNat
<1>1. Init => InputsInNat
  <2>1. SUFFICES ASSUME Init PROVE bets \in [1..3 -> Nat] /\ losing \in Nat
    BY DEF InputsInNat
  <2>2. \A i \in 1..3 : bets[i] \in Nat
    BY <2>1, InputsAssumption DEF Init
  <2> QED BY <2>1, <2>2 DEF Init
<1>2. InputsInNat /\ [GrowLosingPool]_inputs => InputsInNat'
  BY InputsAssumption DEF InputsInNat, GrowLosingPool, inputs
<1> QED BY <1>1, <1>2, PTL DEF Spec

(* The fee is less than 25 units below 2.5% of the pool, and never above. *)
LEMMA FeeBounds ==
    ASSUME NEW pool \in Nat
    PROVE  /\ FeeOf(pool) * 1000 <= pool * 25
           /\ pool * 25 < (FeeOf(pool) + 25) * 1000
<1>1. pool = 1000 * (pool \div 1000) + (pool % 1000)
  OBVIOUS
<1> QED BY <1>1 DEF FeeOf

(***************************************************************************)
(* The fee of every pool is 2.5% of it, less at most 25 units.             *)
(***************************************************************************)
THEOREM FeeIsAlwaysCloseToExact == Spec => []FeeIsCloseToExact
<1>1. InputsInNat => FeeIsCloseToExact
  BY FeeBounds DEF InputsInNat, FeeIsCloseToExact
<1> QED BY <1>1, InputsAreNat, PTL

(* Three rewards of one side together never exceed the losing pool: the    *)
(* shares add up to at most 100000.                                        *)
LEMMA ThreeRewards ==
    ASSUME NEW a \in Nat, NEW b \in Nat, NEW c \in Nat, NEW lost \in Nat,
           NEW w \in Nat, w > 0, a + b + c = w
    PROVE  RewardOf(a, w, lost) + RewardOf(b, w, lost) + RewardOf(c, w, lost)
             <= lost
<1> DEFINE x == ShareOf(a, w)
           y == ShareOf(b, w)
           z == ShareOf(c, w)
<1>1. /\ ShareIsRounded(a, w) /\ RewardIsRounded(a, w, lost)
      /\ ShareIsRounded(b, w) /\ RewardIsRounded(b, w, lost)
      /\ ShareIsRounded(c, w) /\ RewardIsRounded(c, w, lost)
  BY ShareBounds, RewardBounds
<1>2. x \in Nat /\ y \in Nat /\ z \in Nat
  BY <1>1 DEF ShareIsRounded
<1>3. w * x <= 100000 * a /\ w * y <= 100000 * b /\ w * z <= 100000 * c
  BY <1>1 DEF ShareIsRounded
<1>4. /\ RewardOf(a, w, lost) \in Nat /\ RewardOf(b, w, lost) \in Nat
      /\ RewardOf(c, w, lost) \in Nat
      /\ 100000 * RewardOf(a, w, lost) <= lost * x
      /\ 100000 * RewardOf(b, w, lost) <= lost * y
      /\ 100000 * RewardOf(c, w, lost) <= lost * z
  BY <1>1 DEF RewardIsRounded
<1> HIDE DEF x, y, z
<1>5. w * (x + y + z) <= w * 100000
  <2>1. 100000 * a + 100000 * b + 100000 * c = w * 100000
    OBVIOUS
  <2>2. w * (x + y + z) = w * x + w * y + w * z
    BY <1>2
  <2>3. w * x \in Nat /\ w * y \in Nat /\ w * z \in Nat
    BY <1>2
  <2> QED BY <1>3, <2>1, <2>2, <2>3
<1>6. x + y + z <= 100000
  <2>1. SUFFICES ASSUME x + y + z >= 100001 PROVE FALSE
    BY <1>2
  <2>2. w * (x + y + z) >= w * 100001
    BY <1>2, <2>1
  <2> QED BY <1>2, <1>5, <2>2
<1>7. lost * (x + y + z) <= lost * 100000
  BY <1>2, <1>6
<1>8. lost * (x + y + z) = lost * x + lost * y + lost * z
  BY <1>2
<1>9. lost * x \in Nat /\ lost * y \in Nat /\ lost * z \in Nat
  BY <1>2
<1> QED BY <1>4, <1>7, <1>8, <1>9

(***************************************************************************)
(* Three winners never get more than the losing pool, whatever they bet.   *)
(* (RewardsNeverExceedThePool says it of any number of them.)              *)
(***************************************************************************)
THEOREM RewardsAlwaysFitThePool == Spec => []RewardsFitThePool
<1>1. InputsInNat => RewardsFitThePool
  <2>1. SUFFICES ASSUME InputsInNat, Winning > 0
                 PROVE  RewardOf(bets[1], Winning, losing)
                          + RewardOf(bets[2], Winning, losing)
                          + RewardOf(bets[3], Winning, losing) <= losing
    BY DEF RewardsFitThePool
  <2>2. /\ bets[1] \in Nat /\ bets[2] \in Nat /\ bets[3] \in Nat
        /\ losing \in Nat
    BY <2>1 DEF InputsInNat
  <2>3. Winning \in Nat /\ bets[1] + bets[2] + bets[3] = Winning
    BY <2>2 DEF Winning
  <2> QED BY <2>1, <2>2, <2>3, ThreeRewards
<1> QED BY <1>1, InputsAreNat, PTL

(* The exact fraction of the losing pool, in whole units. *)
ExactReward(bet, winning, lost) == (bet * lost) \div winning

LEMMA RewardCloseToExact ==
    ASSUME NEW bet \in Nat, NEW winning \in Nat, winning > 0,
           NEW lost \in Nat, bet <= winning
    PROVE  /\ RewardOf(bet, winning, lost) <= ExactReward(bet, winning, lost)
           /\ ExactReward(bet, winning, lost)
                <= RewardOf(bet, winning, lost) + 1 + lost \div 100000
<1> DEFINE x == ShareOf(bet, winning)
           r == RewardOf(bet, winning, lost)
           e == ExactReward(bet, winning, lost)
           d == lost \div 100000
<1>1. x \in Nat /\ winning * x <= 100000 * bet
      /\ 100000 * bet < winning * x + winning
  BY ShareBounds DEF ShareIsRounded
<1>2. r \in Nat /\ 100000 * r <= lost * x /\ lost * x < 100000 * r + 100000
  BY RewardBounds DEF RewardIsRounded
<1>3. e \in Nat /\ winning * e <= bet * lost /\ bet * lost < winning * e + winning
  <2>1. bet * lost \in Nat
    OBVIOUS
  <2> QED BY <2>1, DivisionBounds DEF ExactReward
<1>4. d \in Nat /\ lost < 100000 * d + 100000
  BY DivisionBounds
<1> HIDE DEF x, r, e, d
<1>5. r <= e
  <2>1. winning * (100000 * r) <= winning * (lost * x)
    BY <1>1, <1>2
  <2>2. lost * (winning * x) <= lost * (100000 * bet)
    BY <1>1
  <2>3. winning * (lost * x) = lost * (winning * x)
    BY <1>1
  <2>4. 100000 * (winning * r) <= 100000 * (bet * lost)
    BY <1>1, <1>2, <2>1, <2>2, <2>3
  <2>5. winning * r <= bet * lost
    BY <1>2, <2>4
  <2>6. SUFFICES ASSUME r >= e + 1 PROVE FALSE
    BY <1>2, <1>3
  <2>7. winning * r >= winning * e + winning
    BY <1>2, <1>3, <2>6
  <2> QED BY <1>2, <1>3, <2>5, <2>7
<1>6. e <= r + 1 + d
  <2>1. SUFFICES ASSUME e >= r + d + 2 PROVE FALSE
    BY <1>2, <1>3, <1>4
  <2>2. 100000 * (winning * e) <= lost * (100000 * bet)
    BY <1>3
  <2>3. lost * (100000 * bet) <= lost * (winning * x + winning)
    BY <1>1
  <2>4. lost * (winning * x + winning) = winning * (lost * x) + winning * lost
    BY <1>1
  <2>5. winning * (lost * x) <= winning * (100000 * r + 100000)
    BY <1>1, <1>2
  <2>6. winning * (100000 * e) <= winning * (100000 * r + 100000 + lost)
    <3>1. winning * (100000 * r + 100000 + lost)
            = winning * (100000 * r + 100000) + winning * lost
      BY <1>2
    <3>2. winning * (100000 * e) = 100000 * (winning * e)
      BY <1>3
    <3>3. winning * (lost * x) \in Nat /\ winning * lost \in Nat
      BY <1>1
    <3> QED BY <1>1, <1>2, <1>3, <2>2, <2>3, <2>4, <2>5, <3>1, <3>2, <3>3
  <2>7. 100000 * e > 100000 * r + 100000 + lost
    BY <1>2, <1>3, <1>4, <2>1
  <2>8. winning * (100000 * e) > winning * (100000 * r + 100000 + lost)
    BY <1>2, <1>3, <2>7
  <2> QED BY <1>2, <1>3, <2>6, <2>8
<1> QED BY <1>5, <1>6 DEF r, e, d

(***************************************************************************)
(* A reward is never above the exact fraction of the losing pool, and the  *)
(* two roundings cost less than a unit and 1/100000 of that pool.          *)
(***************************************************************************)
THEOREM RewardIsAlwaysCloseToExact == Spec => []RewardIsCloseToExact
<1>1. InputsInNat => RewardIsCloseToExact
  <2>1. SUFFICES ASSUME InputsInNat, Winning > 0
                 PROVE  /\ RewardOf(bets[1], Winning, losing)
                             <= ExactReward(bets[1], Winning, losing)
                        /\ ExactReward(bets[1], Winning, losing)
                             <= RewardOf(bets[1], Winning, losing) + 1
                                  + losing \div 100000
    BY SMT DEF RewardIsCloseToExact, ExactReward
  <2>2. /\ bets[1] \in Nat /\ bets[2] \in Nat /\ bets[3] \in Nat
        /\ losing \in Nat
    BY <2>1 DEF InputsInNat
  <2>3. Winning \in Nat /\ bets[1] <= Winning
    BY <2>2 DEF Winning
  <2> QED BY <2>1, <2>2, <2>3, RewardCloseToExact, SMT
<1> QED BY <1>1, InputsAreNat, PTL
=============================================================================
