-------------------------- MODULE PayoutsProperties --------------------------
(***************************************************************************)
(* The rounded arithmetic of Payouts against the exact fractions it stands *)
(* for, over bounded inputs: one winning side with the bets of three       *)
(* winners, and a losing pool that grows.  The inputs are enumerated by a  *)
(* behaviour of their own: this module has no counterpart in the code.     *)
(***************************************************************************)
EXTENDS Payouts, Sequences

CONSTANTS
    Bets,        \* bound: the winners' bets
    MaxLosing,   \* bound: the losing pool
    LosingStep   \* the losing pools tried are the multiples of LosingStep

ASSUME InputsAssumption == Bets \subseteq Nat /\ LosingStep \in Nat

VARIABLES bets, losing
inputs == <<bets, losing>>

Init == bets \in [1..3 -> Bets] /\ losing = 0

GrowLosingPool ==
    /\ losing + LosingStep <= MaxLosing
    /\ losing' = losing + LosingStep
    /\ bets' = bets

Spec == Init /\ [][GrowLosingPool]_inputs

Winning == bets[1] + bets[2] + bets[3]

(***************************************************************************)
(* The fee never exceeds 2.5% of the pool, and misses less than 25 units of*)
(* it: what the division before the multiplication can cost.  Stated with  *)
(* the exact fee as pool * 25 / 1000.                                      *)
(***************************************************************************)
FeeIsCloseToExact ==
    /\ FeeOf(losing) * 1000 <= losing * 25
    /\ losing * 25 < (FeeOf(losing) + 25) * 1000

(***************************************************************************)
(* All winners together are never promised more than the losing pool, so   *)
(* that no order of claims can leave the last one short.                   *)
(***************************************************************************)
RewardsFitThePool ==
    Winning > 0 =>
        RewardOf(bets[1], Winning, losing) + RewardOf(bets[2], Winning, losing)
          + RewardOf(bets[3], Winning, losing) <= losing

(***************************************************************************)
(* The two roundings cost a winner less than one unit plus a hundred       *)
(* thousandth of the losing pool, against the exact bet * losing / winning.*)
(***************************************************************************)
RewardIsCloseToExact ==
    Winning > 0 =>
        LET exact == (bets[1] * losing) \div Winning
            reward == RewardOf(bets[1], Winning, losing)
        IN  /\ reward <= exact
            /\ exact <= reward + 1 + losing \div 100000
=============================================================================
