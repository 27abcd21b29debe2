------------------------------ MODULE Payouts ------------------------------
(***************************************************************************)
(* The integer arithmetic of the event program: the fee that finish_event  *)
(* takes from the losing pool and the reward that claim_rewards pays to a  *)
(* winning ticket.  Every Rust operation is on u64 and the release profile *)
(* keeps overflow-checks on, so an intermediate result that does not fit   *)
(* aborts the transaction instead of wrapping.                             *)
(***************************************************************************)
EXTENDS Integers

CONSTANT MaxU64    \* the largest u64; smaller in the bounded instances

ASSUME MaxU64Assumption == MaxU64 \in Nat

(***************************************************************************)
(* `event.right_pool / 1000 * 25`: the division comes first, so the fee is *)
(* taken on whole thousands only.  It is paid twice, to the creator and to *)
(* the system.                                                             *)
(***************************************************************************)
WrongFeeRoundedUp(pool) == (pool \div 1000 + 1) * 25
FeeOf(pool) == (pool \div 1000) * 25

(***************************************************************************)
(* `bet_amount * 100_000 / winning_pool * losing_pool / 100_000`, evaluated*)
(* from left to right: the ticket's share of the winning pool in units of  *)
(* 1/100000, rounded down, and then that share of the losing pool, rounded *)
(* down again.                                                             *)
(***************************************************************************)
WrongShareInPercent(bet, winning) == ((bet * 100) \div winning) * 1000
ShareOf(bet, winning) == (bet * 100000) \div winning

WrongRewardRoundedUp(bet, winning, losing) ==
    (ShareOf(bet, winning) * losing + 99999) \div 100000
RewardOf(bet, winning, losing) == (ShareOf(bet, winning) * losing) \div 100000

(***************************************************************************)
(* When the expression has a value: no division by an empty winning pool   *)
(* and every product fits a u64.                                           *)
(***************************************************************************)
WrongRewardFits(bet, winning, losing) ==
    /\ winning > 0
    /\ bet * 100000 + (winning - 1) <= MaxU64
    /\ ShareOf(bet, winning) * losing <= MaxU64
RewardFits(bet, winning, losing) ==
    /\ winning > 0
    /\ bet * 100000 <= MaxU64
    /\ ShareOf(bet, winning) * losing <= MaxU64
=============================================================================
