------------------------ MODULE EventProtocolProofs ------------------------
(***************************************************************************)
(* What follows from the inductive invariant of EventProtocol: solvency,   *)
(* the action properties and the final errors, and the system's fees.      *)
(***************************************************************************)
EXTENDS EventProtocolInvariantProofs, Rejections

----------------------------------------------------------------------------
(***************************************************************************)
(* Solvency: once the result is set, what an event holds covers all that   *)
(* it still owes. It follows from the inductive invariant (a side holds    *)
(* what it took in and did not pay out) and from the bound on the rounded  *)
(* rewards.                                                                *)
(***************************************************************************)

LEMMA OverPair ==
    ASSUME NEW f, NEW g, NEW h,
           \A u \in Users : f[u] \in Nat /\ g[u] \in Nat /\ h[u] = f[u] + g[u]
    PROVE  Over(h) = Over(f) + Over(g)
BY SumOfPairs, SetsAssumption DEF Over

(* The rewards already claimed and those still to come, together, fit the  *)
(* losing pool.                                                            *)
LEMMA RewardsFitTheLosingPool ==
    ASSUME TypeOK, NEW id \in Ids, NEW w \in Sides, Deployed(id),
           event[id].pool[w] = Staked(id, w)
    PROVE  ClaimedBy(id, w) + StillToClaim(id, w) <= event[id].pool[Other(w)]
<1> DEFINE bet == [u \in Users |-> Stake(id, w, u)]
           winning == event[id].pool[w]
           lost == event[id].pool[Other(w)]
           claimed == [u \in Users |-> RewardIf(id, w, u, TRUE)]
           unclaimed == [u \in Users |-> RewardIf(id, w, u, FALSE)]
           both == [u \in Users |-> claimed[u] + unclaimed[u]]
           reward == [u \in Users |-> RewardOf(bet[u], winning, lost)]
<1>1. winning \in Nat /\ lost \in Nat
  BY PoolsAreNat, OtherIsSide
<1>2. \A u \in Users : claimed[u] \in Nat /\ unclaimed[u] \in Nat
  BY TicketTermsAreNat DEF TicketTermsInNat
<1>3. ClaimedBy(id, w) = Over(claimed) /\ StillToClaim(id, w) = Over(unclaimed)
  BY DEF ClaimedBy, StillToClaim
<1>4. \A u \in Users : both[u] = claimed[u] + unclaimed[u] /\ both[u] \in Nat
  <2>1. \A u \in Users : both[u] = claimed[u] + unclaimed[u]
    OBVIOUS
  <2> HIDE DEF claimed, unclaimed, both
  <2> QED BY <1>2, <2>1
<1>5. Over(both) = Over(claimed) + Over(unclaimed)
  <2> HIDE DEF claimed, unclaimed, both
  <2> QED BY <1>2, <1>4, OverPair
<1>6. Over(both) <= lost
  <2>1. CASE winning = 0
    <3>1. \A u \in Users : both[u] = 0
      BY <2>1 DEF RewardIf
    <3> HIDE DEF both
    <3>2. Over(both) = 0
      BY <3>1, SumOfZeros, SetsAssumption DEF Over
    <3> QED BY <1>1, <3>2
  <2>2. CASE winning > 0
    <3>1. \A u \in Users : bet[u] \in Nat
      BY TicketTermsAreNat DEF TicketTermsInNat
    <3>2. winning = SumFunctionOnSet(bet, Users)
      BY DEF Staked, Over
    <3>3. SumFunctionOnSet(reward, Users) <= lost
      <4> HIDE DEF bet, winning, lost
      <4> QED BY <1>1, <2>2, <3>1, <3>2, SetsAssumption,
                 RewardsNeverExceedThePool
    <3>4. \A u \in Users : reward[u] \in Nat
      <4> HIDE DEF bet, winning, lost
      <4> QED BY <1>1, <2>2, <3>1, RewardIsNat
    <3>5. \A u \in Users : both[u] <= reward[u]
      <4>1. TAKE u \in Users
      <4>2. CASE HasTicket(id, w, u)
        <5>1. /\ ticket[id][w][u].claimed \in BOOLEAN
              /\ bet[u] = ticket[id][w][u].amount
          BY <4>2, AccountTypes DEF Ticket, Stake
        <5>2. Reward(u, id, w) = reward[u]
          BY <5>1 DEF Reward
        <5>3. \/ claimed[u] = reward[u] /\ unclaimed[u] = 0
              \/ claimed[u] = 0 /\ unclaimed[u] = reward[u]
          BY <2>2, <4>2, <5>1, <5>2 DEF RewardIf
        <5> HIDE DEF claimed, unclaimed, reward
        <5> QED BY <3>4, <5>3
      <4>3. CASE ~HasTicket(id, w, u)
        <5>1. claimed[u] = 0 /\ unclaimed[u] = 0
          BY <4>3 DEF RewardIf
        <5> HIDE DEF claimed, unclaimed, reward
        <5> QED BY <3>4, <5>1
      <4> QED BY <4>2, <4>3
    <3> HIDE DEF both, reward
    <3>6. Over(both) <= SumFunctionOnSet(reward, Users)
      BY <1>4, <3>4, <3>5, SumMonotone, SetsAssumption DEF Over
    <3>7. Over(both) \in Nat /\ SumFunctionOnSet(reward, Users) \in Nat
      BY <1>4, <3>4, OverIsNat, SumIsNat, SetsAssumption
    <3> HIDE DEF lost
    <3> QED BY <1>1, <3>3, <3>6, <3>7
  <2> HIDE DEF winning
  <2> QED BY <1>1, <2>1, <2>2
<1> QED BY <1>3, <1>5, <1>6

(* Each side holds, in tokens and lamports together, what it owes; a token *)
(* side whose pool was burned owes nothing.                                *)
LEMMA SideCoversWhatItOwes ==
    ASSUME TypeOK, NEW id \in Ids, NEW s \in Sides, Deployed(id),
           IsResultSet(id), EventInv(id)
    PROVE  /\ Owes(id, s) \in Nat
           /\ \/ Owes(id, s) <= Held(id, s)
              \/ event[id].mint[s] # Native /\ Owes(id, s) = 0
<1> DEFINE w == Other(s)
<1>1. w \in Sides /\ w # s /\ Other(w) = s
  BY OtherIsSide
<1>2. event[id].result \in Sides
  <2>1. event[id] \in PredictionEvent
    BY DEF TypeOK, Deployed
  <2> QED BY <2>1 DEF PredictionEvent, IsResultSet
<1>3. HasWon(id, s) \/ HasLost(id, s)
  BY <1>2 DEF HasWon, HasLost, Sides, Other
<1>4. ~(HasWon(id, s) /\ HasLost(id, s))
  BY <1>1 DEF HasWon, HasLost
<1>5. SideHoldsItsStakes(id, s)
  BY DEF EventInv
<1>6. CASE HasWon(id, s)
  <2>1. Owes(id, s) = StillToWithdraw(id, s) /\ Held(id, s) = StillToWithdraw(id, s)
    BY <1>4, <1>5, <1>6 DEF Owes, SideHoldsItsStakes, IsResultSet
  <2>2. StillToWithdraw(id, s) \in Nat
    BY TotalsAreNat
  <2> QED BY <2>1, <2>2
<1>7. CASE HasLost(id, s) /\ event[id].burning
  <2>1. Owes(id, s) = 0
    BY <1>4, <1>7 DEF Owes
  <2>2. event[id].mint[s] = Native => Held(id, s) = event[id].pool[s]
    BY <1>4, <1>5, <1>7 DEF SideHoldsItsStakes, IsResultSet
  <2>3. event[id].pool[s] \in Nat
    BY PoolsAreNat
  <2> QED BY <2>1, <2>2, <2>3
<1>8. CASE HasLost(id, s) /\ ~event[id].burning
  <2>1. /\ Owes(id, s) = StillToClaim(id, w)
        /\ Held(id, s) = event[id].pool[s] - ClaimedBy(id, w)
    BY <1>4, <1>5, <1>8 DEF Owes, SideHoldsItsStakes, IsResultSet
  <2>2. event[id].pool[w] = Staked(id, w)
    <3>1. PoolIsTicketSum(id, w) /\ ~HasLost(id, w)
      BY <1>1, <1>4, <1>8 DEF EventInv, HasLost
    <3> QED BY <3>1 DEF PoolIsTicketSum
  <2>3. ClaimedBy(id, w) + StillToClaim(id, w) <= event[id].pool[s]
    BY <1>1, <2>2, RewardsFitTheLosingPool
  <2>4. /\ ClaimedBy(id, w) \in Nat /\ StillToClaim(id, w) \in Nat
        /\ event[id].pool[s] \in Nat
    BY <1>1, TotalsAreNat, PoolsAreNat
  <2> QED BY <2>1, <2>3, <2>4
<1> QED BY <1>3, <1>6, <1>7, <1>8

LEMMA VaultAmountIsNat ==
    ASSUME TypeOK, NEW id \in Ids, NEW s \in Sides
    PROVE  VaultAmount(id, s) \in Nat
<1>1. vault[id][s] = None \/ vault[id][s] \in TokenAccount
  BY DEF TypeOK
<1> QED BY <1>1 DEF VaultAmount, TokenAccount

LEMMA EventIsCovered ==
    ASSUME TypeOK, NEW id \in Ids, Deployed(id), IsResultSet(id), EventInv(id)
    PROVE  EventCovers(id)
<1>1. ASSUME NEW s \in Sides
      PROVE  /\ VaultAmount(id, s) \in Nat /\ solHeld[id][s] \in Int
             /\ Owes(id, s) \in Nat
             /\ Held(id, s) = solHeld[id][s] + VaultAmount(id, s)
             /\ \/ Owes(id, s) <= Held(id, s)
                \/ event[id].mint[s] # Native /\ Owes(id, s) = 0
  BY SideCoversWhatItOwes, VaultAmountIsNat DEF Held, TypeOK
<1>2. ASSUME NEW s \in Sides, event[id].mint[s] = Native
      PROVE  VaultAmount(id, s) = 0
  <2>1. SUFFICES ASSUME VaultAmount(id, s) > 0 PROVE FALSE
    BY <1>1
  <2>2. VaultReady(id, s)
    BY <2>1 DEF EventInv, TokensInOwnVault
  <2>3. vault[id][s] \in TokenAccount
    BY <2>2 DEF VaultReady, HasVault, TypeOK
  <2> QED BY <1>2, <2>2, <2>3, SetsAssumption DEF VaultReady, TokenAccount
<1>3. ASSUME NEW s \in Sides
      PROVE  SolOwed(id, s) \in Nat /\ solHeld[id][s] >= SolOwed(id, s)
  <2>1. CASE event[id].mint[s] = Native
    <3>1. SolOwed(id, s) = Owes(id, s) /\ solHeld[id][s] = Held(id, s)
      BY <1>1, <1>2, <2>1 DEF SolOwed
    <3>2. Owes(id, s) \in Nat /\ Owes(id, s) <= Held(id, s)
      BY <1>1, <2>1
    <3> QED BY <3>1, <3>2
  <2>2. CASE event[id].mint[s] # Native
    <3>1. SolOwed(id, s) = 0 /\ solHeld[id][s] >= 0
      BY <2>2 DEF SolOwed, EventInv, TokensInOwnVault
    <3> QED BY <1>1, <3>1
  <2> QED BY <2>1, <2>2
<1>4. lamports[id] >= SolOwed(id, "Left") + SolOwed(id, "Right")
  <2>1. "Left" \in Sides /\ "Right" \in Sides
    BY DEF Sides
  <2>2. lamports[id] = solHeld[id]["Left"] + solHeld[id]["Right"]
    BY DEF EventInv, SolAddsUp
  <2> QED BY <1>1, <1>3, <2>1, <2>2
<1>5. ASSUME NEW s \in Sides, event[id].mint[s] # Native, StakedInKind(id, s)
      PROVE  /\ VaultAmount(id, s) >= Owes(id, s)
             /\ Owes(id, s) > 0 => VaultReady(id, s)
  <2>1. Held(id, s) = VaultAmount(id, s)
    BY <1>1, <1>5 DEF StakedInKind
  <2>2. VaultAmount(id, s) >= Owes(id, s)
    BY <1>1, <2>1
  <2>3. Owes(id, s) > 0 => VaultAmount(id, s) > 0
    BY <1>1, <2>2
  <2> QED BY <2>2, <2>3 DEF EventInv, TokensInOwnVault
<1> QED BY <1>4, <1>5 DEF EventCovers

(***************************************************************************)
(* No settled event can be short: however many winners there are, however  *)
(* their rewards are rounded, and in whatever order they claim and         *)
(* withdraw, the lamports of the event account cover its SOL sides and the *)
(* pool of a token side staked in tokens covers that side.                 *)
(***************************************************************************)
THEOREM PayoutsCoveredAlways == Spec => []PayoutsCovered
<1>1. IInv => PayoutsCovered
  BY EventIsCovered DEF IInv, PayoutsCovered
<1> QED BY <1>1, InductiveInvariant, PTL
----------------------------------------------------------------------------
(* The pool of a side that has not lost is the sum of its stakes. *)
LEMMA WinningPoolIsStaked ==
    ASSUME TypeOK, NEW id \in Ids, Deployed(id), IsResultSet(id), EventInv(id)
    PROVE  LET w == event[id].result
           IN  /\ w \in Sides /\ Other(w) \in Sides /\ Other(w) # w
               /\ event[id].pool[w] = Staked(id, w)
               /\ HasLost(id, Other(w)) /\ ~HasWon(id, Other(w))
<1> DEFINE w == event[id].result
<1>1. w \in Sides
  <2>1. event[id] \in PredictionEvent
    BY DEF TypeOK, Deployed
  <2> QED BY <2>1 DEF PredictionEvent, IsResultSet
<1>2. Other(w) \in Sides /\ Other(w) # w /\ Other(Other(w)) = w
  BY <1>1, OtherIsSide
<1>3. PoolIsTicketSum(id, w) /\ ~HasLost(id, w)
  BY <1>1, <1>2 DEF EventInv, HasLost
<1> QED BY <1>1, <1>2, <1>3 DEF PoolIsTicketSum, HasLost, HasWon

LEMMA StakeWithinPool ==
    ASSUME TypeOK, NEW id \in Ids, NEW w \in Sides, NEW u \in Users
    PROVE  Stake(id, w, u) \in Nat /\ Stake(id, w, u) <= Staked(id, w)
<1> DEFINE bet == [v \in Users |-> Stake(id, w, v)]
<1>1. \A v \in Users : bet[v] \in Nat
  BY TicketTermsAreNat DEF TicketTermsInNat
<1>2. Staked(id, w) = SumFunctionOnSet(bet, Users)
  BY DEF Staked, Over
<1>3. bet[u] = Stake(id, w, u)
  OBVIOUS
<1> HIDE DEF bet
<1> QED BY <1>1, <1>2, <1>3, SumBoundsElement, SetsAssumption

(***************************************************************************)
(* Whatever the number of users and their stakes, a claim can abort on its *)
(* arithmetic only if one of the two pools, in units of 1/100000, is more  *)
(* than a u64 holds.                                                       *)
(***************************************************************************)
THEOREM BoundedPoolsCanBeClaimedAlways == Spec => []BoundedPoolsCanBeClaimed
<1>1. IInv => BoundedPoolsCanBeClaimed
  <2> SUFFICES ASSUME IInv, NEW id \in Ids, Deployed(id), IsResultSet(id),
                      \A s \in Sides : FitsScaled(event[id].pool[s]),
                      NEW u \in Users,
                      Stake(id, event[id].result, u) > 0
               PROVE  RewardFits(Stake(id, event[id].result, u),
                                 event[id].pool[event[id].result],
                                 event[id].pool[Other(event[id].result)])
    BY DEF BoundedPoolsCanBeClaimed
  <2> DEFINE w == event[id].result
             bet == Stake(id, w, u)
             winning == event[id].pool[w]
             lost == event[id].pool[Other(w)]
  <2>1. TypeOK /\ EventInv(id)
    BY DEF IInv
  <2>2. w \in Sides /\ Other(w) \in Sides /\ winning = Staked(id, w)
    BY <2>1, WinningPoolIsStaked
  <2>3. winning \in Nat /\ lost \in Nat
    BY <2>1, <2>2, PoolsAreNat
  <2>4. bet \in Nat /\ bet <= winning
    BY <2>1, <2>2, StakeWithinPool
  <2>5. winning <= MaxU64 \div 100000 /\ lost <= MaxU64 \div 100000
    BY <2>2 DEF FitsScaled
  <2>6. 0 < bet
    BY <2>4
  <2> HIDE DEF bet, winning, lost
  <2>7. RewardFits(bet, winning, lost)
    BY <2>3, <2>4, <2>5, <2>6, BoundedRewardFits
  <2> QED BY <2>7 DEF bet, winning, lost
<1> QED BY <1>1, InductiveInvariant, PTL

(* When every winner has claimed, what was claimed is all of the rewards.  *)
LEMMA AllRewardsClaimed ==
    ASSUME TypeOK, NEW id \in Ids, NEW w \in Sides, Deployed(id),
           NEW winning, winning = event[id].pool[w], winning \in Nat,
           winning > 0,
           NEW lost, lost = event[id].pool[Other(w)], lost \in Nat,
           \A u \in Users : Stake(id, w, u) > 0 => ticket[id][w][u].claimed
    PROVE  ClaimedBy(id, w)
             = SumFunctionOnSet([u \in Users |->
                   RewardOf(Stake(id, w, u), winning, lost)], Users)
<1> DEFINE reward == [u \in Users |-> RewardOf(Stake(id, w, u), winning, lost)]
           claimed == [u \in Users |-> RewardIf(id, w, u, TRUE)]
<1>1. \A u \in Users : Stake(id, w, u) \in Nat
  BY TicketTermsAreNat DEF TicketTermsInNat
<1>2. \A u \in Users : reward[u] \in Nat
  BY <1>1, RewardIsNat
<1>3. \A u \in Users : claimed[u] = reward[u]
  <2>1. TAKE u \in Users
  <2>2. CASE Stake(id, w, u) > 0
    <3>1. HasTicket(id, w, u) /\ ticket[id][w][u].claimed = TRUE
      <4>1. HasTicket(id, w, u)
        BY <2>2 DEF Stake
      <4>2. ticket[id][w][u].claimed \in BOOLEAN
        BY <4>1, AccountTypes DEF Ticket
      <4> QED BY <2>2, <4>1, <4>2
    <3>2. Stake(id, w, u) = ticket[id][w][u].amount
      BY <3>1 DEF Stake
    <3>3. RewardIf(id, w, u, TRUE) = Reward(u, id, w)
      BY <3>1 DEF RewardIf
    <3> QED BY <3>2, <3>3 DEF Reward
  <2>3. CASE Stake(id, w, u) = 0
    <3>1. reward[u] = 0
      BY <2>3, NoBetNoReward
    <3>2. RewardIf(id, w, u, TRUE) = 0
      <4>1. CASE HasTicket(id, w, u)
        <5>1. ticket[id][w][u].amount = 0
          BY <2>3, <4>1 DEF Stake
        <5>2. Reward(u, id, w) = 0
          BY <5>1, NoBetNoReward DEF Reward
        <5> QED BY <5>2 DEF RewardIf
      <4>2. CASE ~HasTicket(id, w, u)
        BY <4>2 DEF RewardIf
      <4> QED BY <4>1, <4>2
    <3> HIDE DEF reward
    <3> QED BY <3>1, <3>2
  <2>4. Stake(id, w, u) = 0 \/ Stake(id, w, u) > 0
    BY <1>1
  <2> HIDE DEF reward, claimed
  <2> QED BY <2>2, <2>3, <2>4
<1>4. ClaimedBy(id, w) = Over(claimed)
  BY DEF ClaimedBy
<1> HIDE DEF reward, claimed
<1>5. Over(claimed) = Over(reward)
  BY <1>2, <1>3, OverSame
<1> QED BY <1>4, <1>5 DEF Over, reward

(***************************************************************************)
(* However many winners there are, when the last one has claimed less than *)
(* one unit and 1/100000 of the losing pool per winner is left of it: the  *)
(* rest has reached them.                                                  *)
(***************************************************************************)
THEOREM OnlyDustIsLeftAlways == Spec => []OnlyDustIsLeft
<1>1. IInv => OnlyDustIsLeft
  <2> SUFFICES ASSUME IInv, NEW id \in Ids, Deployed(id), IsResultSet(id),
                      ~event[id].burning, Winners(id) # {},
                      \A u \in Winners(id) :
                          ticket[id][event[id].result][u].claimed
               PROVE  LET l == Other(event[id].result)
                      IN  100000 * Held(id, l)
                            < Cardinality(Winners(id))
                                * (event[id].pool[l] + 100000)
    BY DEF OnlyDustIsLeft
  <2> DEFINE w == event[id].result
             l == Other(w)
             winning == event[id].pool[w]
             lost == event[id].pool[l]
             bet == [u \in Users |-> Stake(id, w, u)]
             rewards == SumFunctionOnSet([u \in Users |->
                            RewardOf(bet[u], winning, lost)], Users)
             n == Cardinality({u \in Users : bet[u] > 0})
  <2>1. TypeOK /\ EventInv(id)
    BY DEF IInv
  <2>2. /\ w \in Sides /\ l \in Sides /\ Other(l) = w
        /\ winning = Staked(id, w)
        /\ HasLost(id, l) /\ ~HasWon(id, l)
    BY <2>1, WinningPoolIsStaked, OtherIsSide
  <2>3. winning \in Nat /\ lost \in Nat
    BY <2>1, <2>2, PoolsAreNat
  <2>4. \A u \in Users : bet[u] \in Nat
    BY <2>1, <2>2, TicketTermsAreNat DEF TicketTermsInNat
  <2>5. winning > 0
    <3>1. PICK u \in Users : Stake(id, w, u) > 0
      BY DEF Winners
    <3>2. Stake(id, w, u) \in Nat /\ Stake(id, w, u) <= Staked(id, w)
      BY <2>1, <2>2, StakeWithinPool
    <3> HIDE DEF w, winning
    <3> QED BY <2>2, <2>3, <3>1, <3>2
  <2>6. Held(id, l) = lost - ClaimedBy(id, w)
    BY <2>1, <2>2 DEF EventInv, SideHoldsItsStakes
  <2>7. ClaimedBy(id, w) = rewards
    <3>1. \A u \in Users : Stake(id, w, u) > 0 => ticket[id][w][u].claimed
      BY DEF Winners
    <3> QED BY <2>1, <2>2, <2>3, <2>5, <3>1, AllRewardsClaimed
  <2>8. n = Cardinality(Winners(id))
    <3>1. Winners(id) = {u \in Users : bet[u] > 0}
      BY DEF Winners
    <3> QED BY <3>1
  <2>9. winning = SumFunctionOnSet(bet, Users)
    BY <2>2 DEF Staked, Over
  <2> HIDE DEF bet, winning, lost
  <2>10. 100000 * lost < 100000 * rewards + n * (lost + 100000)
    BY <2>3, <2>4, <2>5, <2>9, SetsAssumption, RewardsMissLittle
  <2>11. rewards \in Nat
    <3>1. \A u \in Users : RewardOf(bet[u], winning, lost) \in Nat
      BY <2>3, <2>4, <2>5, RewardIsNat
    <3> QED BY <3>1, SumIsNat, SetsAssumption
  <2>12. n * (lost + 100000) \in Nat
    <3>1. IsFiniteSet({u \in Users : bet[u] > 0})
      BY SetsAssumption, FS_Subset
    <3>2. n \in Nat
      BY <3>1, FS_CardinalityType
    <3> HIDE DEF n
    <3> QED BY <2>3, <3>2, SMT
  <2> HIDE DEF rewards, n
  <2>13. 100000 * Held(id, l) < n * (lost + 100000)
    BY <2>3, <2>6, <2>7, <2>10, <2>11, <2>12, SMT
  <2> QED BY <2>8, <2>13 DEF lost
<1> QED BY <1>1, InductiveInvariant, PTL

----------------------------------------------------------------------------
(***************************************************************************)
(* The action properties: a case analysis of what one step can do to the   *)
(* record and the tickets of one event.                                    *)
(***************************************************************************)

StakesKept(id) ==
    \A s \in Sides, u \in Users : Stake(id, s, u)' = Stake(id, s, u)

LEMMA SameTicketsKeepStakes ==
    ASSUME NEW id \in Ids, ticket'[id] = ticket[id]
    PROVE  StakesKept(id)
BY DEF StakesKept, Stake, HasTicket

(* Paying a winner marks a ticket and changes no stake. *)
LEMMA PayingKeepsStakes ==
    ASSUME TypeOK, TypeOK', NEW u \in Users, NEW id \in Ids, NEW w \in Sides,
           ClaimRewards(u, id, w) \/ WithdrawDeposited(u, id, w)
    PROVE  event' = event /\ StakesKept(id)
<1>1. /\ Deployed(id) /\ HasTicket(id, w, u) /\ event' = event
      /\ ~ticket[id][w][u].claimed \/ ~ticket[id][w][u].withdrawn
      /\ \/ ticket' = [ticket EXCEPT ![id][w][u].claimed = TRUE]
         \/ ticket' = [ticket EXCEPT ![id][w][u].withdrawn = TRUE]
  BY DEF ClaimRewards, MayClaim, WithdrawDeposited, MayWithdraw
<1>2. /\ HasTicket(id, w, u)'
      /\ ticket'[id][w][u].amount = ticket[id][w][u].amount
      /\ \A z \in Sides, v \in Users :
            (z # w \/ v # u) => ticket'[id][z][v] = ticket[id][z][v]
  BY <1>1, TicketMarked
<1> QED BY <1>1, <1>2 DEF StakesKept, Stake, HasTicket

(***************************************************************************)
(* All that a step can do to one event's record and stakes: nothing to     *)
(* either, or it deploys, votes, sets the result, pays, or closes.         *)
(***************************************************************************)
LEMMA StepOnEvent ==
    ASSUME TypeOK, TypeOK', [Next]_vars, NEW i \in Ids
    PROVE  \/ event'[i] = event[i] /\ StakesKept(i)
           \/ ~Deployed(i) /\ StakesKept(i)
           \/ \E u \in Users, s \in Sides, n \in Nat :
                 VoteOpen(i) /\ RecordVote(u, i, s, n)
           \/ Deployed(i) /\ ~IsResultSet(i) /\ StakesKept(i)
           \/ Deployed(i) /\ ~IsStarted(i) /\ StakesKept(i)
<1>1. CASE SameAccounts(i)
  BY <1>1, SameTicketsKeepStakes DEF SameAccounts
<1>2. CASE Tick \/ UNCHANGED vars
  <2>1. event' = event /\ ticket' = ticket
    BY <1>2 DEF Tick, vars
  <2> QED BY <2>1, SameTicketsKeepStakes
<1>3. CASE SetUp
  <2>1. CASE Initialize
    BY <1>1, <2>1 DEF Initialize, SameAccounts
  <2>2. ASSUME NEW m \in Mints, CreateSystemFeeTokenAccount(m)
        PROVE  SameAccounts(i)
    BY <2>2 DEF CreateSystemFeeTokenAccount, SameAccounts
  <2>3. ASSUME NEW u \in Users, NEW id \in Ids, NEW start \in Dates,
               NEW end \in Dates, NEW mint \in [Sides -> Assets],
               NEW burning \in BOOLEAN,
               DeployEvent(u, id, start, end, mint, burning)
        PROVE  SameAccounts(i) \/ (~Deployed(i) /\ StakesKept(i))
    <3>1. CASE id = i
      BY <2>3, <3>1, SameTicketsKeepStakes DEF DeployEvent, NewEvent
    <3> QED BY <2>3, <3>1, OtherEventsUntouched
  <2>4. ASSUME NEW id \in Ids, NEW s \in Sides, NEW m \in Mints,
               CreateEventTokenAccount(id, s, m)
        PROVE  event'[i] = event[i] /\ StakesKept(i)
    BY <2>4, SameTicketsKeepStakes DEF CreateEventTokenAccount
  <2> QED BY <1>1, <1>3, <2>1, <2>2, <2>3, <2>4 DEF SetUp
<1>4. CASE Vote
  <2>1. PICK u \in Users, id \in Ids, s \in Sides, n \in Amounts :
          VoteWithTokens(u, id, s, n) \/ VoteWithLamports(u, id, s, n)
    BY <1>4 DEF Vote
  <2>2. n \in Nat
    BY BoundsAssumption
  <2>3. CASE id = i
    BY <2>1, <2>2, <2>3 DEF VoteWithTokens, TakeTokens, VoteWithLamports, TakeLamports
  <2> QED BY <1>1, <2>1, <2>2, <2>3, OtherEventsUntouched
<1>5. CASE Settle
  <2>1. PICK u \in Users, id \in Ids, s \in Sides :
          \/ FinishEvent(u, id, s)
          \/ ClaimRewards(u, id, s)
          \/ WithdrawDeposited(u, id, s)
    BY <1>5 DEF Settle
  <2>2. CASE id = i /\ FinishEvent(u, id, s)
    BY <2>2, SameTicketsKeepStakes DEF FinishEvent, MayFinish
  <2>3. CASE id = i /\ ~FinishEvent(u, id, s)
    BY <2>1, <2>3, PayingKeepsStakes
  <2> QED BY <1>1, <2>1, <2>2, <2>3, OtherEventsUntouched
<1>6. CASE Close
  <2>1. PICK u \in Users, id \in Ids, pools \in SUBSET Sides :
          CloseEvent(u, id, pools)
    BY <1>6 DEF Close
  <2>2. CASE id = i
    BY <2>1, <2>2, SameTicketsKeepStakes DEF CloseEvent, MayClose
  <2> QED BY <1>1, <2>1, <2>2, OtherEventsUntouched
<1> QED BY <1>2, <1>3, <1>4, <1>5, <1>6 DEF Next

LEMMA SettledEventStaysStep ==
    IInv /\ IInv' /\ [Next]_vars => \A id \in Ids : SettledEventStays(id)
<1> SUFFICES ASSUME IInv, IInv', [Next]_vars, NEW id \in Ids,
                    Deployed(id), IsResultSet(id)
             PROVE  event'[id] = event[id] /\ StakesKept(id)
  BY DEF SettledEventStays, StakesKept
<1>1. TypeOK /\ TypeOK' /\ DatesInOrder(id)
  BY DEF IInv, EventInv
<1>2. IsStarted(id)
  BY <1>1, SettledIsStarted DEF DatesInOrder
<1> QED BY <1>1, <1>2, StepOnEvent DEF VoteOpen

(***************************************************************************)
(* Once its result is set no instruction changes an event's record or a    *)
(* stake on it: a settled event is past its end, so it can be neither      *)
(* voted on, nor finished again, nor closed.                               *)
(***************************************************************************)
THEOREM ResultIsFinalAlways == Spec => ResultIsFinal
BY SettledEventStaysStep, InductiveInvariant, PTL DEF Spec, ResultIsFinal

(***************************************************************************)
(* No step lowers a stake, and a stake grows only by a vote on an event    *)
(* that is open at that moment.                                            *)
(***************************************************************************)
THEOREM StakesGrowOnlyWhileOpenAlways == Spec => StakesGrowOnlyWhileOpen
<1>1. IInv /\ IInv' /\ [Next]_vars => \A id \in Ids : StakesMayGrow(id)
  <2> SUFFICES ASSUME IInv, IInv', [Next]_vars, NEW id \in Ids
               PROVE  StakesMayGrow(id)
    OBVIOUS
  <2>1. TypeOK /\ TypeOK'
    BY DEF IInv
  <2>2. CASE StakesKept(id)
    BY <2>2 DEF StakesMayGrow, StakesKept
  <2>3. ASSUME NEW u \in Users, NEW s \in Sides, NEW n \in Nat,
               VoteOpen(id), RecordVote(u, id, s, n)
        PROVE  StakesMayGrow(id)
    <3>1. /\ Deployed(id)
          /\ event[id].start_date <= clock
          /\ ~(event[id].end_date <= clock)
      BY <2>3 DEF VoteOpen, IsStarted, IsFinished
    <3>2. event[id].end_date \in Nat /\ clock \in Nat
      BY <2>1, <3>1, BoundsAssumption DEF TypeOK, PredictionEvent, Deployed
    <3>3. clock < event[id].end_date
      BY <3>1, <3>2
    <3>4. /\ Stake(id, s, u)' = Stake(id, s, u) + n
          /\ \A v \in Users \ {u} : Stake(id, s, v)' = Stake(id, s, v)
          /\ \A v \in Users :
                Stake(id, Other(s), v)' = Stake(id, Other(s), v)
      BY <2>1, <2>3, <3>1, VoteRecorded
    <3>5. Stake(id, s, u) \in Nat
      BY <2>1, TicketTermsAreNat DEF TicketTermsInNat
    <3>6. Stake(id, s, u)' # Stake(id, s, u)
             => Stake(id, s, u)' > Stake(id, s, u)
      BY <2>3, <3>4, <3>5
    <3>7. \A z \in Sides, v \in Users :
             Stake(id, z, v)' # Stake(id, z, v) => z = s /\ v = u
      BY <3>4 DEF Sides, Other
    <3> QED BY <3>1, <3>3, <3>6, <3>7 DEF StakesMayGrow
  <2> QED BY <2>1, <2>2, <2>3, StepOnEvent
<1> QED BY <1>1, InductiveInvariant, PTL DEF Spec, StakesGrowOnlyWhileOpen

----------------------------------------------------------------------------
(* Errors that are final.                                                  *)

TermsKept(i) ==
    /\ Deployed(i)'
    /\ event'[i].creator = event[i].creator
    /\ event'[i].start_date = event[i].start_date
    /\ event'[i].end_date = event[i].end_date
    /\ event'[i].burning = event[i].burning

(* Once an event has started no step removes it or changes its terms. *)
LEMMA StartedEventStays ==
    ASSUME TypeOK, TypeOK', [Next]_vars, NEW i \in Ids,
           Deployed(i), IsStarted(i)
    PROVE  TermsKept(i)
<1>1. CASE event'[i] = event[i]
  BY <1>1 DEF TermsKept, Deployed
<1>2. CASE Tick \/ UNCHANGED vars
  BY <1>1, <1>2 DEF Tick, vars
<1>3. CASE SetUp
  <2>1. ASSUME NEW u \in Users, NEW id \in Ids, NEW start \in Dates,
               NEW end \in Dates, NEW mint \in [Sides -> Assets],
               NEW burning \in BOOLEAN,
               DeployEvent(u, id, start, end, mint, burning)
        PROVE  event'[i] = event[i]
    BY <2>1 DEF DeployEvent, TypeOK
  <2> QED BY <1>1, <1>3, <2>1
          DEF SetUp, Initialize, CreateSystemFeeTokenAccount,
              CreateEventTokenAccount
<1>4. CASE Vote
  <2> SUFFICES ASSUME NEW u \in Users, NEW id \in Ids, NEW s \in Sides,
                      NEW n \in Amounts,
                      \/ VoteWithTokens(u, id, s, n)
                      \/ VoteWithLamports(u, id, s, n)
               PROVE  TermsKept(i)
    BY <1>4 DEF Vote
  <2>1. RecordVote(u, id, s, n) /\ Deployed(id) /\ n \in Nat
    BY BoundsAssumption DEF VoteWithTokens, VoteWithLamports, VoteOpen
  <2>2. CASE id = i
    <3>1. /\ Deployed(i)'
          /\ event'[i].start_date = event[i].start_date
          /\ event'[i].end_date = event[i].end_date
          /\ event'[i].burning = event[i].burning
      BY <2>1, <2>2, VoteRecorded
    <3>2. event'[i].creator = event[i].creator
      <4>1. event[i] \in PredictionEvent
        BY DEF TypeOK, Deployed
      <4>2. event'[i] = [event[i] EXCEPT !.pool[s] = @ + n]
        BY <2>1, <2>2 DEF RecordVote, TypeOK
      <4> QED BY <4>1, <4>2 DEF PredictionEvent
    <3> QED BY <3>1, <3>2 DEF TermsKept
  <2>3. CASE id # i
    BY <1>1, <2>1, <2>3 DEF RecordVote, TypeOK
  <2> QED BY <2>2, <2>3
<1>5. CASE Settle
  <2>1. ASSUME NEW u \in Users, NEW id \in Ids, NEW r \in Sides,
               FinishEvent(u, id, r)
        PROVE  TermsKept(i)
    <3>1. CASE id = i
      <4>1. /\ Deployed(i)'
            /\ event'[i].start_date = event[i].start_date
            /\ event'[i].end_date = event[i].end_date
            /\ event'[i].burning = event[i].burning
        BY <2>1, <3>1, ResultRecorded
      <4>2. event'[i].creator = event[i].creator
        <5>1. event[i] \in PredictionEvent
          BY DEF TypeOK, Deployed
        <5>2. event'[i] = [event[i] EXCEPT !.result = r,
                             !.pool[Other(r)] = @ - 2 * FeeOf(@)]
          BY <2>1, <3>1 DEF FinishEvent, TypeOK
        <5> QED BY <5>1, <5>2 DEF PredictionEvent
      <4> QED BY <4>1, <4>2 DEF TermsKept
    <3>2. CASE id # i
      BY <1>1, <2>1, <3>2 DEF FinishEvent, TypeOK
    <3> QED BY <3>1, <3>2
  <2>2. ASSUME NEW u \in Users, NEW id \in Ids, NEW w \in Sides,
               ClaimRewards(u, id, w) \/ WithdrawDeposited(u, id, w)
        PROVE  event' = event
    BY <2>2 DEF ClaimRewards, WithdrawDeposited
  <2> QED BY <1>1, <1>5, <2>1, <2>2 DEF Settle
<1>6. CASE Close
  <2>1. ASSUME NEW u \in Users, NEW id \in Ids, NEW pools \in SUBSET Sides,
               CloseEvent(u, id, pools)
        PROVE  event'[i] = event[i]
    BY <2>1 DEF CloseEvent, MayClose, TypeOK
  <2> QED BY <1>1, <1>6, <2>1 DEF Close
<1> QED BY <1>2, <1>3, <1>4, <1>5, <1>6 DEF Next

(* Time does not run backwards, and the master account stays. *)
LEMMA ClockAndMasterStay ==
    ASSUME TypeOK, [Next]_vars
    PROVE  /\ clock' \in Nat /\ clock <= clock'
           /\ fee[Native] # None => fee'[Native] # None
<1>1. clock \in Nat /\ clock + 1 \in Nat /\ clock <= clock + 1
  BY DEF TypeOK
<1>2. CASE clock' = clock /\ fee' = fee
  BY <1>1, <1>2
<1>3. CASE Tick \/ UNCHANGED vars
  BY <1>1, <1>2, <1>3 DEF Tick, vars
<1>4. CASE SetUp
  <2>1. ASSUME NEW m \in Mints, CreateSystemFeeTokenAccount(m)
        PROVE  clock' = clock /\ fee'[Native] = fee[Native]
    BY <2>1, SetsAssumption DEF CreateSystemFeeTokenAccount, TypeOK, Assets
  <2>2. Initialize => clock' = clock /\ fee[Native] = None
    BY DEF Initialize
  <2> QED BY <1>1, <1>2, <1>4, <2>1, <2>2
          DEF SetUp, DeployEvent, CreateEventTokenAccount
<1>5. CASE Vote
  BY <1>2, <1>5 DEF Vote, VoteWithTokens, VoteWithLamports
<1>6. CASE Settle
  <2>1. ASSUME NEW u \in Users, NEW id \in Ids, NEW r \in Sides,
               FinishEvent(u, id, r)
        PROVE  clock' = clock /\ fee'[Native] # None
    <3>1. clock' = clock /\ fee[Native] # None /\ Native \in Assets
      BY <2>1 DEF FinishEvent, MayFinish, Assets
    <3>2. fee[Native] \in Nat
      BY <3>1 DEF TypeOK
    <3>3. FeeOf(event[id].pool[Other(r)]) \in Nat
      <4>1. event[id].pool[Other(r)] \in Nat
        BY <2>1, PoolsAreNat, OtherIsSide DEF FinishEvent, MayFinish
      <4> QED BY <4>1, FeesFitThePool
    <3>4. \/ fee'[Native] = fee[Native]
          \/ fee'[Native] = fee[Native] + FeeOf(event[id].pool[Other(r)])
      BY <2>1, <3>1 DEF FinishEvent, TakeFeesInTokens, TakeFeesInLamports, TypeOK
    <3>5. fee'[Native] \in Nat
      BY <3>2, <3>3, <3>4
    <3> QED BY <3>1, <3>5, NoneAssumption
  <2>2. ASSUME NEW u \in Users, NEW id \in Ids, NEW w \in Sides,
               ClaimRewards(u, id, w) \/ WithdrawDeposited(u, id, w)
        PROVE  clock' = clock /\ fee' = fee
    BY <2>2 DEF ClaimRewards, WithdrawDeposited
  <2> QED BY <1>1, <1>2, <1>6, <2>1, <2>2 DEF Settle
<1>7. CASE Close
  BY <1>2, <1>7 DEF Close, CloseEvent
<1> QED BY <1>3, <1>4, <1>5, <1>6, <1>7 DEF Next

TicketKept(i, z, v) ==
    /\ HasTicket(i, z, v)'
    /\ ticket[i][z][v].claimed => ticket'[i][z][v].claimed
    /\ ticket[i][z][v].withdrawn => ticket'[i][z][v].withdrawn

(* A ticket is for ever, and so are its marks. *)
LEMMA TicketsStay ==
    ASSUME TypeOK, TypeOK', [Next]_vars,
           NEW i \in Ids, NEW z \in Sides, NEW v \in Users, HasTicket(i, z, v)
    PROVE  TicketKept(i, z, v)
<1>1. CASE ticket'[i][z][v] = ticket[i][z][v]
  BY <1>1 DEF TicketKept, HasTicket
<1>2. CASE ticket' = ticket
  BY <1>1, <1>2
<1>3. ticket[i][z][v] \in Ticket
  BY AccountTypes
<1>4. CASE Tick \/ UNCHANGED vars
  BY <1>2, <1>4 DEF Tick, vars
<1>5. CASE SetUp
  BY <1>2, <1>5 DEF SetUp, Initialize, CreateSystemFeeTokenAccount,
                    DeployEvent, CreateEventTokenAccount
<1>6. CASE Vote
  <2> SUFFICES ASSUME NEW u \in Users, NEW id \in Ids, NEW s \in Sides,
                      NEW n \in Amounts, RecordVote(u, id, s, n)
               PROVE  TicketKept(i, z, v)
    BY <1>6 DEF Vote, VoteWithTokens, VoteWithLamports
  <2>1. CASE id = i /\ s = z /\ u = v
    <3>1. /\ ticket'[i][z][v] = [ticket[i][z][v] EXCEPT !.amount = @ + n]
          /\ ticket[i][z][v].amount + n <= MaxU64
      BY <2>1 DEF RecordVote, TicketOrNew, TypeOK
    <3>2. [ticket[i][z][v] EXCEPT !.amount = @ + n] \in Ticket
      BY <1>3, <3>1, BoundsAssumption, MaxU64Assumption DEF Ticket
    <3>3. /\ ticket'[i][z][v].claimed = ticket[i][z][v].claimed
          /\ ticket'[i][z][v].withdrawn = ticket[i][z][v].withdrawn
      BY <1>3, <3>1 DEF Ticket
    <3> QED BY <3>1, <3>2, <3>3, NotNone DEF TicketKept, HasTicket
  <2>2. CASE ~(id = i /\ s = z /\ u = v)
    BY <1>1, <2>2 DEF RecordVote, TypeOK
  <2> QED BY <2>1, <2>2
<1>7. CASE Settle
  <2>1. ASSUME NEW u \in Users, NEW id \in Ids, NEW w \in Sides,
               ClaimRewards(u, id, w) \/ WithdrawDeposited(u, id, w)
        PROVE  TicketKept(i, z, v)
    <3>1. \/ ticket' = [ticket EXCEPT ![id][w][u].claimed = TRUE]
          \/ ticket' = [ticket EXCEPT ![id][w][u].withdrawn = TRUE]
      BY <2>1 DEF ClaimRewards, WithdrawDeposited
    <3>2. CASE id = i /\ w = z /\ u = v
      <4>1. CASE ticket' = [ticket EXCEPT ![id][w][u].claimed = TRUE]
        <5>1. ticket'[i][z][v] = [ticket[i][z][v] EXCEPT !.claimed = TRUE]
          BY <3>2, <4>1 DEF TypeOK
        <5> QED BY <1>3, <5>1, NotNone DEF TicketKept, HasTicket, Ticket
      <4>2. CASE ticket' = [ticket EXCEPT ![id][w][u].withdrawn = TRUE]
        <5>1. ticket'[i][z][v] = [ticket[i][z][v] EXCEPT !.withdrawn = TRUE]
          BY <3>2, <4>2 DEF TypeOK
        <5> QED BY <1>3, <5>1, NotNone DEF TicketKept, HasTicket, Ticket
      <4> QED BY <3>1, <4>1, <4>2
    <3>3. CASE ~(id = i /\ w = z /\ u = v)
      BY <1>1, <3>1, <3>3 DEF TypeOK
    <3> QED BY <3>2, <3>3
  <2>2. ASSUME NEW u \in Users, NEW id \in Ids, NEW r \in Sides,
               FinishEvent(u, id, r)
        PROVE  ticket' = ticket
    BY <2>2 DEF FinishEvent
  <2> QED BY <1>2, <1>7, <2>1, <2>2 DEF Settle
<1>8. CASE Close
  BY <1>2, <1>8 DEF Close, CloseEvent
<1> QED BY <1>4, <1>5, <1>6, <1>7, <1>8 DEF Next

(* What a step leaves of an event and of its tickets. *)
StepKeeps(i) ==
    /\ Deployed(i) /\ IsStarted(i) => TermsKept(i) /\ IsStarted(i)'
    /\ Deployed(i) /\ IsFinished(i) /\ IsStarted(i) => IsFinished(i)'
    /\ Deployed(i) /\ IsResultSet(i) =>
          /\ IsStarted(i) /\ IsFinished(i)
          /\ event'[i] = event[i]
    /\ \A z \in Sides, v \in Users : HasTicket(i, z, v) =>
          Deployed(i) /\ IsStarted(i) /\ TicketKept(i, z, v)
    /\ fee[Native] # None => fee'[Native] # None

LEMMA StepKeepsAll ==
    ASSUME IInv, IInv', [Next]_vars, NEW i \in Ids
    PROVE  StepKeeps(i)
<1>1. TypeOK /\ TypeOK' /\ EventInv(i) /\ DatesInOrder(i)
  BY DEF IInv, EventInv
<1>2. /\ clock \in Nat /\ clock' \in Nat /\ clock <= clock'
      /\ fee[Native] # None => fee'[Native] # None
  BY <1>1, ClockAndMasterStay DEF TypeOK
<1>3. Deployed(i) /\ IsStarted(i) => TermsKept(i)
  BY <1>1, StartedEventStays
<1>4. ASSUME Deployed(i), IsStarted(i)
      PROVE  IsStarted(i)' /\ (IsFinished(i) => IsFinished(i)')
  <2>1. event[i].start_date \in Nat /\ event[i].end_date \in Nat
    BY <1>1, <1>4, BoundsAssumption DEF TypeOK, PredictionEvent, Deployed
  <2>2. /\ event'[i].start_date = event[i].start_date
        /\ event'[i].end_date = event[i].end_date
    BY <1>3, <1>4 DEF TermsKept
  <2> QED BY <1>2, <1>4, <2>1, <2>2 DEF IsStarted, IsFinished
<1>5. ASSUME Deployed(i), IsResultSet(i)
      PROVE  IsStarted(i) /\ IsFinished(i) /\ event'[i] = event[i]
  <2>1. event'[i] = event[i]
    BY <1>5, SettledEventStaysStep DEF SettledEventStays
  <2>2. IsFinished(i) /\ IsStarted(i)
    BY <1>1, <1>5, SettledIsStarted DEF DatesInOrder
  <2> QED BY <2>1, <2>2
<1>6. ASSUME NEW z \in Sides, NEW v \in Users, HasTicket(i, z, v)
      PROVE  Deployed(i) /\ IsStarted(i) /\ TicketKept(i, z, v)
  <2>1. ~NothingHeld(i)
    BY <1>6 DEF NothingHeld
  <2>2. Deployed(i) /\ IsStarted(i)
    BY <1>1, <2>1 DEF EventInv
  <2> QED BY <1>1, <1>6, <2>2, TicketsStay
<1> QED BY <1>2, <1>3, <1>4, <1>5, <1>6 DEF StepKeeps

LEMMA FinalRejectionsStayStep ==
    IInv /\ IInv' /\ [Next]_vars => \A id \in Ids : FinalRejectionsStay(id)
<1> SUFFICES ASSUME IInv, IInv', [Next]_vars, NEW id \in Ids
             PROVE  FinalRejectionsStay(id)
  OBVIOUS
<1>1. StepKeeps(id)
  BY StepKeepsAll
<1>2. StaysIfFinal(VoteRejection(id), VoteRejection(id)')
  <2>1. SUFFICES ASSUME VoteRejection(id) \in Final
                 PROVE  VoteRejection(id)' = VoteRejection(id)
    BY DEF StaysIfFinal
  <2>2. Deployed(id) /\ IsStarted(id) /\ IsFinished(id)
    BY <1>1, <2>1 DEF VoteRejection, Final, Accepted, StepKeeps
  <2>3. Deployed(id)' /\ IsStarted(id)' /\ IsFinished(id)'
    BY <1>1, <2>2 DEF StepKeeps, TermsKept
  <2> QED BY <2>2, <2>3 DEF VoteRejection
<1>3. ASSUME NEW u \in Users
      PROVE  StaysIfFinal(FinishRejection(u, id), FinishRejection(u, id)')
  <2>1. SUFFICES ASSUME FinishRejection(u, id) \in Final
                 PROVE  FinishRejection(u, id)' = FinishRejection(u, id)
    BY DEF StaysIfFinal
  <2>2. /\ Deployed(id) /\ fee[Native] # None /\ u = event[id].creator
        /\ IsFinished(id) /\ IsResultSet(id)
    BY <2>1 DEF FinishRejection, Final, Accepted
  <2>3. /\ Deployed(id)' /\ fee'[Native] # None /\ u = event'[id].creator
        /\ IsFinished(id)' /\ IsResultSet(id)'
    BY <1>1, <2>2 DEF StepKeeps, TermsKept, IsResultSet
  <2> QED BY <2>2, <2>3 DEF FinishRejection
<1>4. ASSUME NEW u \in Users
      PROVE  StaysIfFinal(CloseRejection(u, id), CloseRejection(u, id)')
  <2>1. SUFFICES ASSUME CloseRejection(u, id) \in Final
                 PROVE  CloseRejection(u, id)' = CloseRejection(u, id)
    BY DEF StaysIfFinal
  <2>2. Deployed(id) /\ u = event[id].creator /\ IsStarted(id)
    BY <2>1 DEF CloseRejection, Final, Accepted
  <2>3. Deployed(id)' /\ u = event'[id].creator /\ IsStarted(id)'
    BY <1>1, <2>2 DEF StepKeeps, TermsKept
  <2> QED BY <2>2, <2>3 DEF CloseRejection
<1>5. ASSUME NEW u \in Users, NEW w \in Sides
      PROVE  StaysIfFinal(ClaimRejection(u, id, w), ClaimRejection(u, id, w)')
  <2>1. SUFFICES ASSUME ClaimRejection(u, id, w) \in Final
                 PROVE  ClaimRejection(u, id, w)' = ClaimRejection(u, id, w)
    BY DEF StaysIfFinal
  <2>2. Deployed(id) /\ HasTicket(id, w, u)
    BY <2>1 DEF ClaimRejection, Final
  <2>3. IsStarted(id) /\ TicketKept(id, w, u) /\ TermsKept(id)
    BY <1>1, <2>2 DEF StepKeeps
  <2>4. /\ Deployed(id)' /\ HasTicket(id, w, u)'
        /\ event'[id].burning = event[id].burning
    BY <2>3 DEF TicketKept, TermsKept
  <2>5. CASE event[id].burning
    BY <2>2, <2>4, <2>5 DEF ClaimRejection
  <2>6. CASE ~event[id].burning
    <3>1. IsResultSet(id)
      BY <2>1, <2>2, <2>6 DEF ClaimRejection, Final
    <3>2. event'[id] = event[id] /\ IsResultSet(id)'
      BY <1>1, <2>2, <3>1 DEF StepKeeps, IsResultSet
    <3>3. event[id].result # w \/ ticket[id][w][u].claimed
      BY <2>1, <2>2, <2>6, <3>1 DEF ClaimRejection, Final, Accepted
    <3>4. ticket[id][w][u].claimed => ticket'[id][w][u].claimed
      BY <2>3 DEF TicketKept
    <3> QED BY <2>2, <2>4, <2>6, <3>1, <3>2, <3>3, <3>4 DEF ClaimRejection
  <2> QED BY <2>5, <2>6
<1>6. ASSUME NEW u \in Users, NEW w \in Sides
      PROVE  StaysIfFinal(WithdrawRejection(u, id, w),
                          WithdrawRejection(u, id, w)')
  <2>1. SUFFICES ASSUME WithdrawRejection(u, id, w) \in Final
                 PROVE  WithdrawRejection(u, id, w)' = WithdrawRejection(u, id, w)
    BY DEF StaysIfFinal
  <2>2. Deployed(id) /\ HasTicket(id, w, u) /\ IsResultSet(id)
    BY <2>1 DEF WithdrawRejection, Final
  <2>3. IsStarted(id) /\ TicketKept(id, w, u) /\ TermsKept(id)
    BY <1>1, <2>2 DEF StepKeeps
  <2>4. /\ Deployed(id)' /\ HasTicket(id, w, u)'
        /\ event'[id] = event[id] /\ IsResultSet(id)'
    BY <1>1, <2>2, <2>3 DEF StepKeeps, TicketKept, TermsKept, IsResultSet
  <2>5. event[id].result # w \/ ticket[id][w][u].withdrawn
    BY <2>1, <2>2 DEF WithdrawRejection, Final, Accepted
  <2>6. ticket[id][w][u].withdrawn => ticket'[id][w][u].withdrawn
    BY <2>3 DEF TicketKept
  <2> QED BY <2>2, <2>4, <2>5, <2>6 DEF WithdrawRejection
<1> QED BY <1>2, <1>3, <1>4, <1>5, <1>6 DEF FinalRejectionsStay

(***************************************************************************)
(* Whoever is refused because something is over is refused for ever: the   *)
(* dates, creator and burning flag of a started event, the record of a     *)
(* settled one and the marks of a ticket stay, and only an event that has  *)
(* not started, which no ticket refers to, can be closed and its id reused.*)
(***************************************************************************)
THEOREM RejectionsAreFinalAlways == Spec => RejectionsAreFinal
BY FinalRejectionsStayStep, InductiveInvariant, PTL DEF Spec, RejectionsAreFinal

----------------------------------------------------------------------------
LEMMA FeeBalanceIsNat ==
    ASSUME TypeOK, NEW a \in Assets
    PROVE  /\ FeeBalance(a) \in Nat
           /\ fee[a] # None => fee[a] \in Nat /\ FeeBalance(a) = fee[a]
BY DEF TypeOK, FeeBalance

----------------------------------------------------------------------------
(* The fees.                                                               *)

Settled(id) == Deployed(id) /\ IsResultSet(id)

FeesOfAll(a) == SumFunctionOnSet([id \in Ids |-> FeeFrom(id, a)], Ids)

(* What a step that settles nothing can do to the fee accounts. *)
LEMMA StepFees ==
    ASSUME TypeOK, [Next]_vars
    PROVE  \/ \E u \in Users, id \in Ids, r \in Sides : FinishEvent(u, id, r)
           \/ /\ \A i \in Ids : Settled(i)' => Settled(i)
              /\ \/ fee' = fee
                 \/ \E a \in Assets : /\ fee[a] = None
                                      /\ fee' = [fee EXCEPT ![a] = 0]
<1>1. CASE event' = event /\ fee' = fee
  BY <1>1 DEF Settled, Deployed, IsResultSet
<1>2. CASE Tick \/ UNCHANGED vars
  BY <1>1, <1>2 DEF Tick, vars
<1>3. CASE Initialize
  BY <1>3 DEF Initialize, Settled, Deployed, IsResultSet, Assets
<1>4. ASSUME NEW m \in Mints, CreateSystemFeeTokenAccount(m)
      PROVE  /\ \A i \in Ids : Settled(i)' => Settled(i)
             /\ \E a \in Assets : fee[a] = None /\ fee' = [fee EXCEPT ![a] = 0]
  BY <1>4 DEF CreateSystemFeeTokenAccount, Settled, Deployed, IsResultSet,
              Assets
<1>5. ASSUME NEW u \in Users, NEW id \in Ids, NEW start \in Dates,
             NEW end \in Dates, NEW mint \in [Sides -> Assets],
             NEW burning \in BOOLEAN,
             DeployEvent(u, id, start, end, mint, burning)
      PROVE  fee' = fee /\ \A i \in Ids : Settled(i)' => Settled(i)
  <2>1. /\ event' = [event EXCEPT ![id] =
                       NewEvent(u, start, end, mint, burning)]
        /\ fee' = fee
    BY <1>5 DEF DeployEvent
  <2>2. event'[id].result = None
    BY <2>1 DEF TypeOK, NewEvent
  <2>3. \A i \in Ids \ {id} : event'[i] = event[i]
    BY <2>1 DEF TypeOK
  <2> QED BY <2>1, <2>2, <2>3 DEF Settled, Deployed, IsResultSet
<1>6. ASSUME NEW id \in Ids, NEW s \in Sides, NEW m \in Mints,
             CreateEventTokenAccount(id, s, m)
      PROVE  event' = event /\ fee' = fee
  BY <1>6 DEF CreateEventTokenAccount
<1>7. ASSUME NEW u \in Users, NEW id \in Ids, NEW s \in Sides, NEW n \in Amounts,
             VoteWithTokens(u, id, s, n) \/ VoteWithLamports(u, id, s, n)
      PROVE  fee' = fee /\ \A i \in Ids : Settled(i)' => Settled(i)
  <2>1. /\ event' = [event EXCEPT ![id].pool[s] = @ + n]
        /\ fee' = fee /\ Deployed(id)
    BY <1>7 DEF VoteWithTokens, VoteWithLamports, RecordVote, VoteOpen
  <2>2. event[id] \in PredictionEvent
    BY <2>1 DEF TypeOK, Deployed
  <2>3. event'[id].result = event[id].result
    BY <2>1, <2>2 DEF TypeOK, PredictionEvent
  <2>4. \A i \in Ids \ {id} : event'[i] = event[i]
    BY <2>1 DEF TypeOK
  <2> QED BY <2>1, <2>3, <2>4 DEF Settled, Deployed, IsResultSet
<1>8. ASSUME NEW u \in Users, NEW id \in Ids, NEW s \in Sides,
             ClaimRewards(u, id, s) \/ WithdrawDeposited(u, id, s)
      PROVE  event' = event /\ fee' = fee
  BY <1>8 DEF ClaimRewards, WithdrawDeposited
<1>9. ASSUME NEW u \in Users, NEW id \in Ids, NEW pools \in SUBSET Sides,
             CloseEvent(u, id, pools)
      PROVE  fee' = fee /\ \A i \in Ids : Settled(i)' => Settled(i)
  <2>1. event' = [event EXCEPT ![id] = None] /\ fee' = fee
    BY <1>9 DEF CloseEvent
  <2>2. event'[id] = None /\ \A i \in Ids \ {id} : event'[i] = event[i]
    BY <2>1 DEF TypeOK
  <2> QED BY <2>1, <2>2 DEF Settled, Deployed, IsResultSet
<1>10. CASE SetUp
  BY <1>1, <1>3, <1>4, <1>5, <1>6, <1>10 DEF SetUp
<1>11. CASE Vote
  BY <1>7, <1>11 DEF Vote
<1>12. CASE Settle
  BY <1>1, <1>8, <1>12 DEF Settle
<1>13. CASE Close
  BY <1>9, <1>13 DEF Close
<1> QED BY <1>2, <1>10, <1>11, <1>12, <1>13 DEF Next

FeesInNat == \A id \in Ids, a \in Assets : FeeFrom(id, a) \in Nat

LEMMA FeeFromIsNat ==
    ASSUME TypeOK, NEW id \in Ids, NEW a \in Assets
    PROVE  FeeFrom(id, a) \in Nat
<1>1. CASE Deployed(id) /\ IsResultSet(id)
  <2>1. event[id].result \in Sides
    <3>1. event[id] \in PredictionEvent
      BY <1>1 DEF TypeOK, Deployed
    <3> QED BY <1>1, <3>1 DEF PredictionEvent, IsResultSet
  <2>2. Staked(id, Other(event[id].result)) \in Nat
    BY <2>1, TotalsAreNat, OtherIsSide
  <2>3. FeeOf(Staked(id, Other(event[id].result))) \in Nat
    BY <2>2, FeesFitThePool
  <2> QED BY <2>3 DEF FeeFrom
<1>2. CASE ~(Deployed(id) /\ IsResultSet(id))
  BY <1>2 DEF FeeFrom
<1> QED BY <1>1, <1>2

LEMMA FeesAreNat == TypeOK => FeesInNat
BY FeeFromIsNat DEF FeesInNat

LEMMA FeesAreNatNext == TypeOK' => FeesInNat'
BY FeesAreNat, PTL

LEMMA SameStakesSameTotal ==
    ASSUME TypeOK, TypeOK', NEW id \in Ids, NEW s \in Sides,
           \A u \in Users : Stake(id, s, u)' = Stake(id, s, u)
    PROVE  Staked(id, s)' = Staked(id, s)
<1> DEFINE f == [u \in Users |-> Stake(id, s, u)]
           g == [u \in Users |-> Stake(id, s, u)']
<1>1. \A u \in Users : f[u] \in Nat /\ g[u] = f[u]
  BY TicketTermsAreNat DEF TicketTermsInNat
<1>2. Staked(id, s) = Over(f) /\ Staked(id, s)' = Over(g)
  BY DEF Staked, Over
<1> HIDE DEF f, g
<1> QED BY <1>1, <1>2, OverSame

(* A settled event's fee is not touched, and nothing else becomes a fee. *)
LEMMA FeeFromStays ==
    ASSUME TypeOK, TypeOK', NEW id \in Ids, NEW a \in Assets,
           SettledEventStays(id), Settled(id)' => Settled(id)
    PROVE  FeeFrom(id, a)' = FeeFrom(id, a)
<1>1. CASE Settled(id)
  <2>1. /\ event'[id] = event[id]
        /\ \A s \in Sides, u \in Users : Stake(id, s, u)' = Stake(id, s, u)
    BY <1>1 DEF Settled, SettledEventStays
  <2>2. event[id].result \in Sides
    <3>1. event[id] \in PredictionEvent
      BY <1>1 DEF TypeOK, Deployed, Settled
    <3> QED BY <1>1, <3>1 DEF PredictionEvent, IsResultSet, Settled
  <2>3. Other(event[id].result) \in Sides
    BY <2>2, OtherIsSide
  <2>4. Staked(id, Other(event[id].result))'
          = Staked(id, Other(event[id].result))
    <3> DEFINE l == Other(event[id].result)
    <3>1. \A u \in Users : Stake(id, l, u)' = Stake(id, l, u)
      <4> HIDE DEF l
      <4> QED BY <2>1, <2>3 DEF l
    <3> QED BY <2>1, <2>3, SameStakesSameTotal
  <2> QED BY <2>1, <2>4 DEF FeeFrom, Deployed, IsResultSet
<1>2. CASE ~Settled(id)
  BY <1>2 DEF FeeFrom, Settled
<1> QED BY <1>1, <1>2

(* What setting the result adds to the system's fee accounts. *)
LEMMA FeePaidToTheSystem ==
    ASSUME TypeOK, NEW u \in Users, NEW id \in Ids, NEW r \in Sides,
           FinishEvent(u, id, r), NEW a \in Assets
    PROVE  LET l == Other(r)
               amount == FeeOf(event[id].pool[l])
           IN  FeeBalance(a)' = FeeBalance(a)
                     + (IF event[id].mint[l] = a THEN amount ELSE 0)
<1> DEFINE l == Other(r)
           amount == FeeOf(event[id].pool[l])
<1>1. l \in Sides /\ Deployed(id)
  BY OtherIsSide DEF FinishEvent, MayFinish
<1>2. amount \in Nat
  <2>1. event[id].pool[l] \in Nat
    BY <1>1, PoolsAreNat
  <2> QED BY <2>1, FeesFitThePool
<1>3. /\ event[id].mint[l] \in Assets
      /\ fee[event[id].mint[l]] # None
      /\ fee' = [fee EXCEPT ![event[id].mint[l]] = @ + amount]
  <2>1. event[id].mint[l] \in Assets
    BY <1>1 DEF TypeOK, Deployed, PredictionEvent
  <2>2. fee[Native] # None
    BY DEF FinishEvent, MayFinish
  <2> QED BY <2>1, <2>2 DEF FinishEvent, TakeFeesInTokens, TakeFeesInLamports
<1>4. /\ fee'[event[id].mint[l]] = fee[event[id].mint[l]] + amount
      /\ event[id].mint[l] # a => fee'[a] = fee[a]
  BY <1>3 DEF TypeOK
<1>5. fee[event[id].mint[l]] \in Nat
  BY <1>3, FeeBalanceIsNat
<1>6. fee'[event[id].mint[l]] # None
  BY <1>2, <1>4, <1>5, NoneAssumption
<1>7. FeeBalance(a)' = FeeBalance(a)
        + (IF event[id].mint[l] = a THEN amount ELSE 0)
  <2> HIDE DEF amount, l
  <2>1. CASE event[id].mint[l] = a
    BY <1>3, <1>4, <1>6, <2>1 DEF FeeBalance
  <2>2. CASE event[id].mint[l] # a
    <3>1. FeeBalance(a)' = FeeBalance(a)
      BY <1>4, <2>2 DEF FeeBalance
    <3>2. FeeBalance(a) \in Nat
      BY FeeBalanceIsNat
    <3> QED BY <2>2, <3>1, <3>2
  <2> QED BY <2>1, <2>2
<1> QED BY <1>7

(* The one fee that setting a result adds. *)
LEMMA FeeFromFinished ==
    ASSUME TypeOK, TypeOK', NEW u \in Users, NEW id \in Ids, NEW r \in Sides,
           EventInv(id), FinishEvent(u, id, r), NEW a \in Assets
    PROVE  LET l == Other(r)
               amount == FeeOf(event[id].pool[l])
           IN  /\ amount \in Nat
               /\ FeeFrom(id, a) = 0
               /\ FeeFrom(id, a)' = IF event[id].mint[l] = a THEN amount ELSE 0
               /\ FeeBalance(a)' = FeeBalance(a)
                     + (IF event[id].mint[l] = a THEN amount ELSE 0)
<1> DEFINE l == Other(r)
           amount == FeeOf(event[id].pool[l])
<1>1. /\ l \in Sides /\ Deployed(id) /\ ~IsResultSet(id)
      /\ ticket' = ticket /\ Deployed(id)'
      /\ event'[id].mint = event[id].mint
      /\ event'[id].result = r /\ r # None
  BY OtherIsSide, ResultRecorded, NoneAssumption DEF FinishEvent, MayFinish
<1>2. event[id].pool[l] \in Nat /\ amount \in Nat
  <2>1. event[id].pool[l] \in Nat
    BY <1>1, PoolsAreNat
  <2> QED BY <2>1, FeesFitThePool
<1>3. event[id].pool[l] = Staked(id, l)
  <2>1. ~HasLost(id, l)
    BY <1>1, OtherIsSide, NoneAssumption DEF HasLost, IsResultSet
  <2> QED BY <1>1, <2>1 DEF EventInv, PoolIsTicketSum
<1>4. Staked(id, l)' = Staked(id, l)
  <2>1. \A v \in Users : Stake(id, l, v)' = Stake(id, l, v)
    BY <1>1 DEF Stake, HasTicket
  <2> QED BY <1>1, <2>1, SameStakesSameTotal
<1>5. FeeFrom(id, a) = 0
  BY <1>1 DEF FeeFrom
<1>6. FeeFrom(id, a)' = IF event[id].mint[l] = a THEN amount ELSE 0
  <2>1. IsResultSet(id)'
    BY <1>1 DEF IsResultSet
  <2>2. FeeOf(Staked(id, l))' = amount
    BY <1>3, <1>4
  <2>3. FeeFrom(id, a)' = IF event'[id].mint[l] = a
                          THEN FeeOf(Staked(id, l))' ELSE 0
    BY <1>1, <2>1 DEF FeeFrom
  <2> QED BY <1>1, <2>2, <2>3
<1>7. FeeBalance(a)' = FeeBalance(a)
        + (IF event[id].mint[l] = a THEN amount ELSE 0)
  BY FeePaidToTheSystem
<1> QED BY <1>2, <1>5, <1>6, <1>7

FeesAreBooked == \A a \in Assets : FeeBalance(a) = FeesOfAll(a)

LEMMA FeesBookedInit == Init => FeesAreBooked
<1> SUFFICES ASSUME Init, NEW a \in Assets PROVE FeeBalance(a) = FeesOfAll(a)
  BY DEF FeesAreBooked
<1> DEFINE f == [id \in Ids |-> FeeFrom(id, a)]
<1>1. FeeBalance(a) = 0
  BY DEF Init, FeeBalance
<1>2. \A id \in Ids : f[id] = 0
  BY DEF Init, FeeFrom, Deployed
<1> HIDE DEF f
<1>3. SumFunctionOnSet(f, Ids) = 0
  BY <1>2, SumOfZeros, SetsAssumption
<1> QED BY <1>1, <1>3 DEF f, FeesOfAll

LEMMA FeesBookedStep ==
    IInv /\ IInv' /\ FeesAreBooked /\ [Next]_vars => FeesAreBooked'
<1> SUFFICES ASSUME IInv, IInv', FeesAreBooked, [Next]_vars, NEW a \in Assets
             PROVE  FeeBalance(a)' = FeesOfAll(a)'
  BY DEF FeesAreBooked
<1> DEFINE f == [id \in Ids |-> FeeFrom(id, a)]
           g == [id \in Ids |-> FeeFrom(id, a)']
<1>1. TypeOK /\ TypeOK' /\ \A id \in Ids : SettledEventStays(id)
  BY SettledEventStaysStep DEF IInv
<1>2. \A id \in Ids : f[id] \in Nat /\ g[id] \in Nat
  BY <1>1, FeesAreNat, FeesAreNatNext DEF FeesInNat
<1>3. /\ FeesOfAll(a) = SumFunctionOnSet(f, Ids)
      /\ FeesOfAll(a)' = SumFunctionOnSet(g, Ids)
  BY DEF FeesOfAll
<1>4. FeeBalance(a) = FeesOfAll(a) /\ FeeBalance(a) \in Nat
  BY <1>1, FeeBalanceIsNat DEF FeesAreBooked
<1>5. ASSUME NEW u \in Users, NEW id \in Ids, NEW r \in Sides,
             FinishEvent(u, id, r)
      PROVE  FeeBalance(a)' = FeesOfAll(a)'
  <2> DEFINE more == IF event[id].mint[Other(r)] = a
                     THEN FeeOf(event[id].pool[Other(r)]) ELSE 0
  <2>1. /\ f[id] = 0 /\ g[id] = more /\ more \in Nat
        /\ FeeBalance(a)' = FeeBalance(a) + more
    <3>1. EventInv(id)
      BY DEF IInv
    <3> QED BY <1>1, <1>5, <3>1, FeeFromFinished
  <2>2. \A i \in Ids \ {id} : g[i] = f[i]
    <3>1. TAKE i \in Ids \ {id}
    <3>2. event'[i] = event[i]
      BY <1>1, <1>5 DEF FinishEvent, TypeOK
    <3>3. Settled(i)' => Settled(i)
      BY <3>2 DEF Settled, Deployed, IsResultSet
    <3> QED BY <1>1, <3>3, FeeFromStays
  <2> HIDE DEF f, g, more
  <2>3. SumFunctionOnSet(g, Ids) = SumFunctionOnSet(f, Ids) + (g[id] - f[id])
    BY <1>2, <2>2, SumUpdate, SetsAssumption
  <2> QED BY <1>3, <1>4, <2>1, <2>3
<1>6. CASE /\ \A i \in Ids : Settled(i)' => Settled(i)
           /\ \/ fee' = fee
              \/ \E b \in Assets : /\ fee[b] = None
                                   /\ fee' = [fee EXCEPT ![b] = 0]
  <2>1. \A i \in Ids : g[i] = f[i]
    BY <1>1, <1>6, FeeFromStays
  <2>2. FeeBalance(a)' = FeeBalance(a)
    <3>1. CASE fee' = fee
      BY <3>1 DEF FeeBalance
    <3>2. ASSUME NEW b \in Assets, fee[b] = None, fee' = [fee EXCEPT ![b] = 0]
          PROVE  FeeBalance(a)' = FeeBalance(a)
      <4>1. fee'[b] = 0 /\ (a # b => fee'[a] = fee[a])
        BY <1>1, <3>2 DEF TypeOK
      <4> QED BY <3>2, <4>1 DEF FeeBalance
    <3> QED BY <1>6, <3>1, <3>2
  <2> HIDE DEF f, g
  <2>3. SumFunctionOnSet(g, Ids) = SumFunctionOnSet(f, Ids)
    BY <1>2, <2>1, SumSame, SetsAssumption
  <2> QED BY <1>3, <1>4, <2>2, <2>3
<1> QED BY <1>1, <1>5, <1>6, StepFees

(***************************************************************************)
(* However many events there are, the system's account for an asset holds  *)
(* one fee for each settled event whose losing side is in that asset, and  *)
(* nothing else ever enters or leaves it.                                  *)
(***************************************************************************)
THEOREM SystemFeesCollectedAlways == Spec => []SystemFeesCollected
<1>1. IInv /\ FeesAreBooked => SystemFeesCollected
  <2> SUFFICES ASSUME IInv, FeesAreBooked, NEW a \in Assets
               PROVE  IF fee[a] = None THEN FeesOfAll(a) = 0
                                       ELSE fee[a] = FeesOfAll(a)
    BY DEF SystemFeesCollected, FeesOfAll
  <2> QED BY DEF FeesAreBooked, FeeBalance
<1> QED BY <1>1, FeesBookedInit, FeesBookedStep, InductiveInvariant, PTL
        DEF Spec

----------------------------------------------------------------------------
(* What the instructions do to the totals of the tickets.                  *)

(* What a vote adds to the totals of the two sides. *)
LEMMA VoteAdds ==
    ASSUME TypeOK, TypeOK', NEW u \in Users, NEW id \in Ids, NEW s \in Sides,
           NEW n \in Nat, VoteOpen(id), RecordVote(u, id, s, n)
    PROVE  /\ Staked(id, s)' = Staked(id, s) + n
           /\ Staked(id, Other(s))' = Staked(id, Other(s))
           /\ ~IsResultSet(id)' /\ Deployed(id)'
           /\ IsStarted(id)' <=> event[id].start_date <= clock'
           /\ event'[id].mint = event[id].mint
           /\ \A z \in Sides : /\ ~HasLost(id, z) /\ ~HasWon(id, z)
                               /\ ~HasLost(id, z)' /\ ~HasWon(id, z)'
<1> DEFINE t == Other(s)
<1>1. t \in Sides /\ t # s
  BY OtherIsSide
<1>2. Deployed(id) /\ ~IsResultSet(id)
  BY DEF VoteOpen
<1>3. /\ Deployed(id)'
      /\ event'[id].start_date = event[id].start_date
      /\ event'[id].mint = event[id].mint
      /\ event'[id].result = event[id].result
      /\ Stake(id, s, u)' = Stake(id, s, u) + n
      /\ \A v \in Users \ {u} : Stake(id, s, v)' = Stake(id, s, v)
      /\ \A v \in Users : Stake(id, t, v)' = Stake(id, t, v)
  BY <1>2, VoteRecorded
<1>4. /\ Staked(id, s)' = Staked(id, s) + (Stake(id, s, u)' - Stake(id, s, u))
      /\ Staked(id, t)' = Staked(id, t) + (Stake(id, t, u)' - Stake(id, t, u))
  BY <1>1, <1>3, StakedUpdate
<1>5. /\ Staked(id, s) \in Nat /\ Staked(id, t) \in Nat
      /\ Stake(id, s, u) \in Nat /\ Stake(id, t, u) \in Nat
  BY <1>1, TotalsAreNat, TicketTermsAreNat DEF TicketTermsInNat
<1>6. Staked(id, s)' = Staked(id, s) + n /\ Staked(id, t)' = Staked(id, t)
  BY <1>3, <1>4, <1>5
<1>7. \A z \in Sides : /\ ~HasLost(id, z) /\ ~HasWon(id, z)
                       /\ ~HasLost(id, z)' /\ ~HasWon(id, z)'
  BY <1>2, <1>3, OtherIsSide, NotNone DEF IsResultSet, HasLost, HasWon
<1> QED BY <1>2, <1>3, <1>6, <1>7 DEF IsResultSet, IsStarted

UnclaimedIsZero ==
    \A id \in Ids, w \in Sides :
        (\A v \in Users : HasTicket(id, w, v) => ~ticket[id][w][v].claimed)
            => ClaimedBy(id, w) = 0

LEMMA NothingClaimed == UnclaimedIsZero
<1> SUFFICES ASSUME NEW id \in Ids, NEW w \in Sides,
                    \A v \in Users :
                        HasTicket(id, w, v) => ~ticket[id][w][v].claimed
             PROVE  ClaimedBy(id, w) = 0
  BY DEF UnclaimedIsZero
<1> DEFINE g == [v \in Users |-> RewardIf(id, w, v, TRUE)]
<1>1. \A v \in Users : g[v] = 0
  BY DEF RewardIf
<1>2. ClaimedBy(id, w) = SumFunctionOnSet(g, Users)
  BY DEF ClaimedBy, Over
<1> HIDE DEF g
<1> QED BY <1>1, <1>2, SumOfZeros, SetsAssumption

LEMMA NothingClaimedNext == UnclaimedIsZero'
BY NothingClaimed, PTL

LEMMA ClaimMarks ==
    ASSUME TypeOK, TypeOK', NEW u \in Users, NEW id \in Ids, NEW w \in Sides,
           ClaimRewards(u, id, w)
    PROVE  /\ Reward(u, id, w) \in Nat
           /\ StillToWithdraw(id, w)' = StillToWithdraw(id, w)
           /\ ClaimedBy(id, w)' = ClaimedBy(id, w) + Reward(u, id, w)
<1> DEFINE n == Reward(u, id, w)
<1>1. /\ Deployed(id) /\ HasTicket(id, w, u) /\ ~ticket[id][w][u].claimed
      /\ event[id].pool[w] > 0 /\ event' = event
      /\ ticket' = [ticket EXCEPT ![id][w][u].claimed = TRUE]
  BY DEF ClaimRewards, MayClaim, RewardFits
<1>2. n \in Nat
  BY <1>1, RewardOfTicketIsNat
<1>3. /\ HasTicket(id, w, u)'
      /\ ticket'[id][w][u].amount = ticket[id][w][u].amount
      /\ \A z \in Sides, v \in Users :
            (z # w \/ v # u) => ticket'[id][z][v] = ticket[id][z][v]
  BY <1>1, TicketMarked
<1>4. /\ ticket'[id][w][u].claimed
      /\ ticket'[id][w][u].withdrawn = ticket[id][w][u].withdrawn
  <2>1. ticket[id][w][u] \in Ticket
    BY <1>1, AccountTypes
  <2> QED BY <1>1, <2>1 DEF TypeOK, Ticket
<1>5. StillToWithdraw(id, w)' = StillToWithdraw(id, w)
  <2>1. \A v \in Users : Unwithdrawn(id, w, v)' = Unwithdrawn(id, w, v)
    BY <1>1, <1>3, <1>4 DEF Unwithdrawn, HasTicket
  <2>2. StillToWithdraw(id, w) \in Nat /\ Unwithdrawn(id, w, u) \in Nat
    BY TotalsAreNat, TicketTermsAreNat DEF TicketTermsInNat
  <2>3. StillToWithdraw(id, w)' = StillToWithdraw(id, w)
          + (Unwithdrawn(id, w, u)' - Unwithdrawn(id, w, u))
    BY <2>1, StillToWithdrawUpdate
  <2> QED BY <2>1, <2>2, <2>3
<1>6. ClaimedBy(id, w)' = ClaimedBy(id, w) + n
  <2>1. \A v \in Users \ {u} :
          RewardIf(id, w, v, TRUE)' = RewardIf(id, w, v, TRUE)
    BY <1>1, <1>3 DEF RewardIf, HasTicket, Reward
  <2>2. RewardIf(id, w, u, TRUE) = 0 /\ RewardIf(id, w, u, TRUE)' = n
    BY <1>1, <1>3, <1>4 DEF RewardIf, Reward
  <2>3. Deployed(id)' /\ ClaimedBy(id, w) \in Nat
    BY <1>1, TotalsAreNat DEF Deployed
  <2>4. ClaimedBy(id, w)' = ClaimedBy(id, w)
          + (RewardIf(id, w, u, TRUE)' - RewardIf(id, w, u, TRUE))
    BY <1>1, <2>1, <2>3, ClaimedByUpdate
  <2>5. ClaimedBy(id, w)' = ClaimedBy(id, w) + (n - 0)
    BY <2>2, <2>4
  <2> HIDE DEF n
  <2> QED BY <1>2, <2>3, <2>5
<1> QED BY <1>2, <1>5, <1>6

LEMMA WithdrawalMarks ==
    ASSUME TypeOK, TypeOK', NEW u \in Users, NEW id \in Ids, NEW w \in Sides,
           WithdrawDeposited(u, id, w)
    PROVE  /\ ticket[id][w][u].amount \in Nat
           /\ StillToWithdraw(id, w)'
                = StillToWithdraw(id, w) - ticket[id][w][u].amount
           /\ ClaimedBy(id, w)' = ClaimedBy(id, w)
<1> DEFINE n == ticket[id][w][u].amount
<1>1. /\ Deployed(id) /\ HasTicket(id, w, u) /\ ~ticket[id][w][u].withdrawn
      /\ event' = event
      /\ ticket' = [ticket EXCEPT ![id][w][u].withdrawn = TRUE]
  BY DEF WithdrawDeposited, MayWithdraw
<1>2. n \in Nat
  BY <1>1, BetIsNat
<1>3. /\ HasTicket(id, w, u)'
      /\ ticket'[id][w][u].amount = ticket[id][w][u].amount
      /\ \A z \in Sides, v \in Users :
            (z # w \/ v # u) => ticket'[id][z][v] = ticket[id][z][v]
  BY <1>1, TicketMarked
<1>4. /\ ticket'[id][w][u].withdrawn
      /\ ticket'[id][w][u].claimed = ticket[id][w][u].claimed
  <2>1. ticket[id][w][u] \in Ticket
    BY <1>1, AccountTypes
  <2> QED BY <1>1, <2>1 DEF TypeOK, Ticket
<1>5. StillToWithdraw(id, w)' = StillToWithdraw(id, w) - n
  <2>1. \A v \in Users \ {u} :
          Unwithdrawn(id, w, v)' = Unwithdrawn(id, w, v)
    BY <1>3 DEF Unwithdrawn, HasTicket
  <2>2. Unwithdrawn(id, w, u) = n /\ Unwithdrawn(id, w, u)' = 0
    BY <1>1, <1>3, <1>4 DEF Unwithdrawn
  <2>3. StillToWithdraw(id, w) \in Nat
    BY TotalsAreNat
  <2>4. StillToWithdraw(id, w)' = StillToWithdraw(id, w)
          + (Unwithdrawn(id, w, u)' - Unwithdrawn(id, w, u))
    BY <2>1, StillToWithdrawUpdate
  <2> QED BY <1>2, <2>2, <2>3, <2>4
<1>6. ClaimedBy(id, w)' = ClaimedBy(id, w)
  <2>1. \A v \in Users : RewardIf(id, w, v, TRUE)' = RewardIf(id, w, v, TRUE)
    BY <1>1, <1>3, <1>4 DEF RewardIf, HasTicket, Reward
  <2>2. /\ Deployed(id)' /\ ClaimedBy(id, w) \in Nat
        /\ RewardIf(id, w, u, TRUE) \in Nat
    BY <1>1, TotalsAreNat, TicketTermsAreNat DEF Deployed, TicketTermsInNat
  <2>3. ClaimedBy(id, w)' = ClaimedBy(id, w)
          + (RewardIf(id, w, u, TRUE)' - RewardIf(id, w, u, TRUE))
    BY <1>1, <2>1, <2>2, ClaimedByUpdate
  <2> DEFINE r == RewardIf(id, w, u, TRUE)
  <2>4. ClaimedBy(id, w)' = ClaimedBy(id, w) + (r - r)
    BY <2>1, <2>3
  <2>5. r \in Nat
    BY <2>2
  <2> HIDE DEF r
  <2> QED BY <2>2, <2>4, <2>5
<1> QED BY <1>2, <1>5, <1>6
=============================================================================
