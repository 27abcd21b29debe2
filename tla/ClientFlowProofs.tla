-------------------------- MODULE ClientFlowProofs --------------------------
(***************************************************************************)
(* What the comments of the source say of the pools holds among the        *)
(* repository's clients, for any number of them and whatever pools others  *)
(* create: an event has the pools of its mints from the first to the last  *)
(* moment, and until the result they hold what it records.                 *)
(***************************************************************************)
EXTENDS ClientFlow, EventProtocolInvariantProofs

----------------------------------------------------------------------------
(* Types: the two transactions that are no single instruction.             *)

LEMMA PoolsForAreVaults ==
    ASSUME TypeOK, NEW id \in Ids, NEW mint \in [Sides -> Assets]
    PROVE  PoolsFor(id, mint) \in [Sides -> TokenAccount \cup {None}]
BY DEF PoolsFor, HasVault, TokenAccount, Assets, TypeOK

LEMMA TypeClientDeploys ==
    ASSUME NEW u \in Users, NEW id \in Ids, NEW start \in Dates,
           NEW end \in Dates, NEW mint \in [Sides -> Assets],
           NEW burning \in BOOLEAN, TypeOK,
           ClientDeploys(u, id, start, end, mint, burning)
    PROVE  TypeOK' /\ NewEvent(u, start, end, mint, burning) \in PredictionEvent
<1>1. NewEvent(u, start, end, mint, burning) \in PredictionEvent
  BY MaxU64Assumption DEF PredictionEvent, NewEvent
<1>2. event' \in [Ids -> PredictionEvent \cup {None}]
  BY <1>1 DEF ClientDeploys, TypeOK
<1>3. vault' \in [Ids -> [Sides -> TokenAccount \cup {None}]]
  BY PoolsForAreVaults DEF ClientDeploys, TypeOK
<1> QED BY <1>1, <1>2, <1>3 DEF ClientDeploys, TypeOK

(* The event's record after a client has reported r, whatever the asset. *)
LEMMA ResultReported ==
    ASSUME TypeOK, NEW id \in Ids, NEW r \in Sides, Deployed(id),
           event' = [event EXCEPT ![id].result = r,
                                  ![id].pool[Other(r)] = @ - 2 * FeeOf(@)]
    PROVE  /\ event' \in [Ids -> PredictionEvent \cup {None}]
           /\ Deployed(id)' /\ IsResultSet(id)'
           /\ event'[id].mint = event[id].mint
           /\ \A i \in Ids \ {id} : event'[i] = event[i]
           /\ FeeOf(event[id].pool[Other(r)]) \in Nat
<1> DEFINE l == Other(r)
           e == [event[id] EXCEPT !.result = r, !.pool[l] = @ - 2 * FeeOf(@)]
<1>1. l \in Sides /\ event[id] \in PredictionEvent
  BY OtherIsSide DEF TypeOK, Deployed
<1>2. event[id].pool[l] \in 0..MaxU64 /\ event[id].pool[l] \in Nat
  BY <1>1, MaxU64Assumption DEF PredictionEvent
<1>3. /\ FeeOf(event[id].pool[l]) \in Nat
      /\ event[id].pool[l] - 2 * FeeOf(event[id].pool[l]) \in 0..MaxU64
  <2>1. /\ FeeOf(event[id].pool[l]) \in Nat
        /\ 2 * FeeOf(event[id].pool[l]) <= event[id].pool[l]
    BY <1>2, FeesFitThePool
  <2> QED BY <1>2, <2>1, MaxU64Assumption
<1>4. e \in PredictionEvent /\ e.result = r /\ e.mint = event[id].mint
  <2>1. e \in PredictionEvent
    BY <1>1, <1>3 DEF PredictionEvent
  <2>2. e.result = r /\ e.mint = event[id].mint
    BY <1>1 DEF PredictionEvent
  <2> QED BY <2>1, <2>2
<1>5. event' = [event EXCEPT ![id] = e]
  OBVIOUS
<1> HIDE DEF e
<1>6. event'[id] = e /\ \A i \in Ids \ {id} : event'[i] = event[i]
  BY <1>5 DEF TypeOK
<1> QED BY <1>3, <1>4, <1>5, <1>6, NotNone DEF TypeOK, Deployed, IsResultSet

(* A pool of the event's mint stays one, with what is left in it. *)
LEMMA FeesLeaveThePool ==
    ASSUME TypeOK, NEW u \in Users, NEW id \in Ids, NEW r \in Sides,
           ClientFinishesInTokens(u, id, r)
    PROVE  /\ vault' \in [Ids -> [Sides -> TokenAccount \cup {None}]]
           /\ vault'[id][Other(r)] # None
           /\ vault'[id][Other(r)].mint = event[id].mint[Other(r)]
           /\ vault'[id][r] = vault[id][r]
           /\ \A i \in Ids \ {id} : vault'[i] = vault[i]
           /\ event[id].mint[Other(r)] \in Mints
           /\ BurnedOf(id, Other(r)) \in Nat
<1> DEFINE l == Other(r)
           left == LeftAfterFees(id, l) - BurnedOf(id, l)
           pool == [vault[id][l] EXCEPT !.amount = left]
<1>1. /\ l \in Sides /\ l # r /\ VaultReady(id, l) /\ Deployed(id)
      /\ LeftAfterFees(id, l) >= 0
      /\ vault' = [vault EXCEPT ![id][l].amount = left]
  BY OtherIsSide DEF ClientFinishesInTokens, MayFinish
<1>2. vault[id][l] \in TokenAccount /\ vault[id][l].mint = event[id].mint[l]
  BY <1>1, AccountTypes DEF VaultReady
<1>3. LeftAfterFees(id, l) \in Int
  <2>1. event[id].pool[l] \in Nat
    BY <1>1, PoolsAreNat
  <2>2. FeeOf(event[id].pool[l]) \in Nat
    BY <2>1, FeesFitThePool
  <2> QED BY <1>2, <2>2 DEF LeftAfterFees, TokenAccount
<1>4. BurnedOf(id, l) \in Nat /\ left \in Nat
  BY <1>1, <1>3 DEF BurnedOf
<1>5. pool \in TokenAccount /\ pool.mint = event[id].mint[l]
  BY <1>2, <1>4 DEF TokenAccount
<1>6. /\ vault' = [vault EXCEPT ![id][l] = pool]
      /\ vault'[id][l] = pool /\ vault'[id][r] = vault[id][r]
      /\ \A i \in Ids \ {id} : vault'[i] = vault[i]
  BY <1>1 DEF TypeOK
<1>7. event[id].mint[l] \in Mints /\ pool # None
  BY <1>2, <1>5, NotNone DEF TokenAccount
<1>8. vault' \in [Ids -> [Sides -> TokenAccount \cup {None}]]
  BY <1>1, <1>5 DEF TypeOK
<1> HIDE DEF pool, left
<1> QED BY <1>4, <1>5, <1>6, <1>7, <1>8

LEMMA TypeClientFinishesInTokens ==
    ASSUME TypeOK, NEW u \in Users, NEW id \in Ids, NEW r \in Sides,
           ClientFinishesInTokens(u, id, r)
    PROVE  TypeOK'
<1> DEFINE l == Other(r)
           m == event[id].mint[l]
           amount == FeeOf(event[id].pool[l])
           burned == BurnedOf(id, l)
<1>1. /\ Deployed(id) /\ supply[m] >= burned
      /\ wallet' = [wallet EXCEPT ![u][m] = @ + amount]
      /\ fee' = [WithFeeAccount(m) EXCEPT ![m] = @ + amount]
      /\ supply' = [supply EXCEPT ![m] = @ - burned]
      /\ event' = [event EXCEPT ![id].result = r,
                                ![id].pool[l] = @ - 2 * FeeOf(@)]
      /\ UNCHANGED <<clock, ticket, lamports, solHeld>>
  BY DEF ClientFinishesInTokens, MayFinish
<1>2. amount \in Nat /\ event' \in [Ids -> PredictionEvent \cup {None}]
  BY <1>1, ResultReported
<1>3. /\ m \in Mints /\ m \in Assets /\ burned \in Nat
      /\ vault' \in [Ids -> [Sides -> TokenAccount \cup {None}]]
  BY FeesLeaveThePool DEF Assets
<1> HIDE DEF m, amount, burned
<1>4. wallet' \in [Users -> [Assets -> Nat]] /\ supply' \in [Mints -> Nat]
  BY <1>1, <1>2, <1>3 DEF TypeOK
<1>5. fee' \in [Assets -> Nat \cup {None}]
  <2>1. /\ WithFeeAccount(m) \in [Assets -> Nat \cup {None}]
        /\ WithFeeAccount(m)[m] \in Nat
    BY <1>3 DEF WithFeeAccount, TypeOK
  <2> QED BY <1>1, <1>2, <1>3, <2>1
<1> QED BY <1>1, <1>2, <1>3, <1>4, <1>5 DEF TypeOK

LEMMA TypeClientStep == TypeOK /\ [ClientNext]_vars => TypeOK'
<1> SUFFICES ASSUME TypeOK, [ClientNext]_vars PROVE TypeOK'
  OBVIOUS
<1>1. CASE Tick \/ Initialize
  BY <1>1, TypeTick, TypeInitialize
<1>2. ASSUME NEW u \in Users, NEW id \in Ids, NEW start \in Dates,
             NEW end \in Dates, NEW mint \in [Sides -> Assets],
             NEW burning \in BOOLEAN,
             ClientDeploys(u, id, start, end, mint, burning)
      PROVE  TypeOK'
  BY <1>2, TypeClientDeploys
<1>3. ASSUME NEW u \in Users, NEW id \in Ids, NEW s \in Sides,
             NEW n \in Amounts, ClientVotes(u, id, s, n)
      PROVE  TypeOK'
  <2>1. n \in Nat
    BY BoundsAssumption
  <2> QED BY <1>3, <2>1, TypeVoteWithTokens, TypeVoteWithLamports
          DEF ClientVotes
<1>4. ASSUME NEW u \in Users, NEW id \in Ids, NEW s \in Sides,
             \/ ClientFinishes(u, id, s)
             \/ ClaimRewards(u, id, s)
             \/ WithdrawDeposited(u, id, s)
      PROVE  TypeOK'
  BY <1>4, TypeClientFinishesInTokens, TypeFinishEvent, TypeClaimRewards,
     TypeWithdrawDeposited DEF ClientFinishes
<1>5. ASSUME NEW u \in Users, NEW id \in Ids, ClientCloses(u, id)
      PROVE  TypeOK'
  <2>1. SuppliedPools(id) \in SUBSET Sides
    BY DEF SuppliedPools
  <2> QED BY <1>5, <2>1, TypeCloseEvent DEF ClientCloses
<1>6. ASSUME NEW id \in Ids, NEW s \in Sides, NEW m \in Mints,
             CreateEventTokenAccount(id, s, m)
      PROVE  TypeOK'
  BY <1>6, TypeCreateEventTokenAccount
<1>7. CASE UNCHANGED vars
  BY <1>7 DEF vars, TypeOK
<1> QED BY <1>1, <1>2, <1>3, <1>4, <1>5, <1>6, <1>7 DEF ClientNext

----------------------------------------------------------------------------
(***************************************************************************)
(* The inductive invariant of the clients: an event has a pool for each    *)
(* side with a mint, of that mint, which holds what is recorded for the    *)
(* side until the result.  A pool beside a side in SOL, or one left behind,*)
(* is a stranger's and may be of any mint; it is empty, so that an event   *)
(* which takes it over under the same id starts with nothing in it.        *)
(***************************************************************************)
HasOwnPools(id) ==
    \A s \in Sides :
        IF event[id].mint[s] = Native
        THEN VaultAmount(id, s) = 0
        ELSE /\ VaultReady(id, s)
             /\ IsResultSet(id) \/ event[id].pool[s] = VaultAmount(id, s)

ClientEventInv(id) ==
    IF Deployed(id) THEN HasOwnPools(id)
    ELSE \A s \in Sides : VaultAmount(id, s) = 0

ClientInv == TypeOK /\ \A id \in Ids : ClientEventInv(id)

LEMMA ClientInvFrame ==
    ASSUME NEW id \in Ids, ClientEventInv(id),
           event'[id] = event[id], vault'[id] = vault[id]
    PROVE  ClientEventInv(id)'
BY DEF ClientEventInv, HasOwnPools, Deployed, HasVault, VaultReady,
   IsResultSet, VaultAmount

(* One transaction creates an event and all of its pools, so that nobody   *)
(* comes in between; only a pool that is there before can stand in its way.*)
LEMMA ClientInvDeploys ==
    ASSUME NEW u \in Users, NEW id \in Ids, NEW start \in Dates,
           NEW end \in Dates, NEW mint \in [Sides -> Assets],
           NEW burning \in BOOLEAN, TypeOK, ClientEventInv(id),
           ClientDeploys(u, id, start, end, mint, burning)
    PROVE  ClientEventInv(id)'
<1>1. /\ event'[id] = NewEvent(u, start, end, mint, burning)
      /\ vault'[id] = PoolsFor(id, mint)
      /\ \A s \in Sides : VaultAmount(id, s) = 0
      /\ \A s \in Sides : mint[s] # Native => PoolFits(id, s, mint[s])
  BY DEF ClientEventInv, ClientDeploys, TypeOK
<1>2. Deployed(id)' /\ ~IsResultSet(id)'
  BY <1>1, TypeClientDeploys, NotNone DEF Deployed, IsResultSet, NewEvent
<1>3. ASSUME NEW s \in Sides, mint[s] # Native
      PROVE  VaultReady(id, s)' /\ VaultAmount(id, s)' = 0
  <2> DEFINE new == [mint |-> mint[s], amount |-> 0]
  <2>1. /\ new \in TokenAccount /\ new # None
        /\ new.mint = mint[s] /\ new.amount = 0
    BY <1>3, NotNone DEF TokenAccount, Assets
  <2>2. vault'[id][s] = IF HasVault(id, s) THEN vault[id][s] ELSE new
    BY <1>1, <1>3 DEF PoolsFor
  <2>3. HasVault(id, s) => /\ vault[id][s].mint = mint[s]
                           /\ vault[id][s].amount = 0
    BY <1>1, <1>3 DEF PoolFits, VaultAmount, HasVault
  <2> HIDE DEF new
  <2>4. /\ vault'[id][s] # None /\ vault'[id][s].mint = mint[s]
        /\ vault'[id][s].amount = 0 /\ event'[id].mint = mint
    BY <1>1, <2>1, <2>2, <2>3 DEF NewEvent, HasVault
  <2> QED BY <2>4 DEF VaultReady, HasVault, VaultAmount
<1>4. \A s \in Sides : mint[s] = Native => VaultAmount(id, s)' = 0
  BY <1>1 DEF PoolsFor, VaultAmount
<1>5. event'[id].mint = mint /\ \A s \in Sides : event'[id].pool[s] = 0
  BY <1>1 DEF NewEvent
<1> QED BY <1>2, <1>3, <1>4, <1>5 DEF ClientEventInv, HasOwnPools

(* A stranger finds no room on a side with a mint, whose pool is there.    *)
LEMMA ClientInvStranger ==
    ASSUME TypeOK, NEW id \in Ids, NEW s \in Sides, NEW m \in Mints,
           ClientEventInv(id), CreateEventTokenAccount(id, s, m)
    PROVE  ClientEventInv(id)'
<1> DEFINE new == [mint |-> m, amount |-> 0]
<1>1. /\ Deployed(id) /\ HasOwnPools(id) /\ ~HasVault(id, s)
      /\ event' = event /\ event[id].mint[s] = Native
  BY DEF CreateEventTokenAccount, ClientEventInv, HasOwnPools, HasVault,
         VaultReady
<1>2. /\ vault'[id][s] = new /\ new.amount = 0
      /\ \A z \in Sides \ {s} : vault'[id][z] = vault[id][z]
  BY DEF CreateEventTokenAccount, TypeOK
<1>3. VaultAmount(id, s)' = 0
  BY <1>2 DEF VaultAmount
<1>4. \A z \in Sides \ {s} :
        /\ VaultReady(id, z)' <=> VaultReady(id, z)
        /\ VaultAmount(id, z)' = VaultAmount(id, z)
  BY <1>1, <1>2 DEF HasVault, VaultReady, VaultAmount
<1>5. Deployed(id)' /\ (IsResultSet(id)' <=> IsResultSet(id))
  BY <1>1 DEF Deployed, IsResultSet
<1>6. HasOwnPools(id)'
  <2> SUFFICES ASSUME NEW z \in Sides
               PROVE  IF event'[id].mint[z] = Native
                      THEN VaultAmount(id, z)' = 0
                      ELSE /\ VaultReady(id, z)'
                           /\ \/ IsResultSet(id)'
                              \/ event'[id].pool[z] = VaultAmount(id, z)'
    BY DEF HasOwnPools
  <2>1. CASE z = s
    BY <1>1, <1>3, <2>1
  <2>2. CASE z # s
    BY <1>1, <1>4, <1>5, <2>2 DEF HasOwnPools
  <2> QED BY <2>1, <2>2
<1> QED BY <1>5, <1>6 DEF ClientEventInv

(* Before the result a vote adds as much to the record as to the pool. *)
LEMMA ClientInvVotes ==
    ASSUME TypeOK, TypeOK', NEW u \in Users, NEW id \in Ids, NEW s \in Sides,
           NEW n \in Nat, ClientEventInv(id), ClientVotes(u, id, s, n)
    PROVE  ClientEventInv(id)'
<1> DEFINE t == Other(s)
<1>1. /\ Deployed(id) /\ ~IsResultSet(id) /\ RecordVote(u, id, s, n)
      /\ HasOwnPools(id)
  BY DEF ClientVotes, VoteWithTokens, VoteWithLamports, VoteOpen,
     ClientEventInv
<1>2. t \in Sides /\ t # s /\ \A z \in Sides : z = s \/ z = t
  BY DEF Sides, Other
<1>3. /\ Deployed(id)' /\ ~IsResultSet(id)'
      /\ event'[id].mint = event[id].mint
      /\ event'[id].pool[s] = event[id].pool[s] + n
      /\ event'[id].pool[t] = event[id].pool[t]
  BY <1>1, VoteRecorded DEF IsResultSet
<1>4. CASE event[id].mint[s] = Native
  <2>1. vault' = vault
    BY <1>4 DEF ClientVotes, VoteWithLamports, TakeLamports
  <2> QED BY <1>1, <1>2, <1>3, <1>4, <2>1
          DEF ClientEventInv, HasOwnPools, HasVault, VaultReady, VaultAmount
<1>5. CASE event[id].mint[s] # Native
  <2>1. /\ vault' = [vault EXCEPT ![id][s].amount = @ + n]
        /\ VaultReady(id, s)
    BY <1>5 DEF ClientVotes, VoteWithTokens, TakeTokens
  <2>2. vault[id][s] \in TokenAccount
    BY <2>1, AccountTypes DEF VaultReady
  <2>3. /\ vault'[id][s] = [vault[id][s] EXCEPT !.amount = @ + n]
        /\ vault'[id][t] = vault[id][t]
    BY <1>2, <2>1 DEF TypeOK
  <2>4. /\ vault'[id][s] # None
        /\ vault'[id][s].mint = vault[id][s].mint
        /\ vault'[id][s].amount = vault[id][s].amount + n
    <3>1. vault'[id][s] \in TokenAccount
      BY <2>2, <2>3 DEF TokenAccount
    <3> QED BY <2>2, <2>3, <3>1, NotNone DEF TokenAccount
  <2>5. VaultReady(id, s)' /\ VaultAmount(id, s)' = VaultAmount(id, s) + n
    BY <1>3, <2>1, <2>4 DEF VaultReady, HasVault, VaultAmount
  <2>6. /\ HasVault(id, t)' <=> HasVault(id, t)
        /\ VaultReady(id, t)' <=> VaultReady(id, t)
        /\ VaultAmount(id, t)' = VaultAmount(id, t)
    BY <1>3, <2>3 DEF HasVault, VaultReady, VaultAmount
  <2> QED BY <1>1, <1>2, <1>3, <1>5, <2>5, <2>6
          DEF ClientEventInv, HasOwnPools
<1> QED BY <1>4, <1>5

(***************************************************************************)
(* Once the result is set, what is left to show is that the pools stay,    *)
(* each of the event's mint: a step that leaves the event's mints alone    *)
(* and keeps every pool, whatever its amount, and takes nothing from and   *)
(* brings nothing to a stranger's.                                         *)
(***************************************************************************)
KeepsPools(id) ==
    \A s \in Sides :
        /\ HasVault(id, s)' <=> HasVault(id, s)
        /\ HasVault(id, s) => vault'[id][s].mint = vault[id][s].mint
        /\ event[id].mint[s] = Native =>
              VaultAmount(id, s)' = VaultAmount(id, s)

LEMMA ClientInvSettled ==
    ASSUME NEW id \in Ids, Deployed(id), ClientEventInv(id),
           Deployed(id)', IsResultSet(id)',
           event'[id].mint = event[id].mint, KeepsPools(id)
    PROVE  ClientEventInv(id)'
BY DEF ClientEventInv, HasOwnPools, VaultReady, KeepsPools

LEMMA ClientInvFinishes ==
    ASSUME TypeOK, NEW u \in Users, NEW id \in Ids, NEW r \in Sides,
           ClientEventInv(id), ClientFinishes(u, id, r)
    PROVE  ClientEventInv(id)'
<1> DEFINE l == Other(r)
<1>1. Deployed(id) /\ l \in Sides /\ \A z \in Sides : z = l \/ z = r
  BY DEF ClientFinishes, ClientFinishesInTokens, MayFinish, Sides, Other
<1>2. CASE ClientFinishesInTokens(u, id, r)
  <2>1. /\ Deployed(id)' /\ IsResultSet(id)'
        /\ event'[id].mint = event[id].mint
    BY <1>1, <1>2, ResultReported DEF ClientFinishesInTokens
  <2>2. /\ vault'[id][l] # None /\ vault'[id][r] = vault[id][r]
        /\ vault'[id][l].mint = event[id].mint[l]
    BY <1>2, FeesLeaveThePool
  <2>3. VaultReady(id, l) /\ event[id].mint[l] # Native
    BY <1>2 DEF ClientFinishesInTokens
  <2>4. KeepsPools(id)
    BY <1>1, <2>2, <2>3 DEF KeepsPools, HasVault, VaultReady, VaultAmount
  <2> QED BY <1>1, <2>1, <2>4, ClientInvSettled
<1>3. CASE FinishEvent(u, id, r) /\ event[id].mint[l] = Native
  <2>1. Deployed(id)' /\ event'[id].result = r /\ event'[id].mint = event[id].mint
    BY <1>3, ResultRecorded
  <2>2. vault' = vault
    BY <1>3 DEF FinishEvent, TakeFeesInTokens, TakeFeesInLamports
  <2>3. IsResultSet(id)'
    BY <2>1, NotNone DEF IsResultSet
  <2>4. KeepsPools(id)
    BY <2>2 DEF KeepsPools, HasVault, VaultAmount
  <2> QED BY <1>1, <2>1, <2>3, <2>4, ClientInvSettled
<1> QED BY <1>2, <1>3 DEF ClientFinishes

(* A payment takes from a pool, and leaves it there. *)
LEMMA PaymentKeepsPools ==
    ASSUME TypeOK, NEW u \in Users, NEW id \in Ids, NEW s \in Sides,
           NEW n \in Nat, PayFrom(u, id, s, n)
    PROVE  KeepsPools(id)
<1>1. CASE PayTokens(u, id, s, n)
  <2>1. vault[id][s] \in TokenAccount /\ HasVault(id, s)
    BY <1>1, AccountTypes DEF PayTokens, VaultReady
  <2>2. vault'[id][s] = [vault[id][s] EXCEPT !.amount = @ - n]
    BY <1>1 DEF PayTokens, TypeOK
  <2>3. vault'[id][s] \in TokenAccount /\ vault'[id][s].mint = vault[id][s].mint
    BY <1>1, <2>1, <2>2 DEF PayTokens, TokenAccount
  <2>4. \A z \in Sides \ {s} : vault'[id][z] = vault[id][z]
    BY <1>1 DEF PayTokens, TypeOK
  <2>5. event[id].mint[s] # Native
    BY <1>1, <2>1, SetsAssumption DEF PayTokens, VaultReady, TokenAccount
  <2> QED BY <2>1, <2>3, <2>4, <2>5, NotNone
          DEF KeepsPools, HasVault, VaultAmount
<1>2. CASE PayLamports(u, id, s, n)
  BY <1>2 DEF PayLamports, KeepsPools, HasVault, VaultAmount
<1> QED BY <1>1, <1>2 DEF PayFrom

LEMMA ClientInvPays ==
    ASSUME TypeOK, NEW u \in Users, NEW id \in Ids, NEW w \in Sides,
           ClientEventInv(id),
           ClaimRewards(u, id, w) \/ WithdrawDeposited(u, id, w)
    PROVE  ClientEventInv(id)'
<1>1. /\ Deployed(id) /\ event[id].result = w /\ HasTicket(id, w, u)
      /\ event' = event
  BY DEF ClaimRewards, MayClaim, WithdrawDeposited, MayWithdraw
<1>2. Deployed(id)' /\ IsResultSet(id)' /\ event'[id].mint = event[id].mint
  BY <1>1, NotNone DEF Deployed, IsResultSet
<1>3. KeepsPools(id)
  <2>1. CASE ClaimRewards(u, id, w)
    <3>1. PayFrom(u, id, Other(w), Reward(u, id, w)) /\ event[id].pool[w] > 0
      BY <2>1 DEF ClaimRewards, RewardFits
    <3>2. Reward(u, id, w) \in Nat /\ Other(w) \in Sides
      BY <1>1, <3>1, RewardOfTicketIsNat, OtherIsSide
    <3> QED BY <3>1, <3>2, PaymentKeepsPools
  <2>2. CASE WithdrawDeposited(u, id, w)
    <3>1. PayFrom(u, id, w, ticket[id][w][u].amount)
      BY <2>2 DEF WithdrawDeposited
    <3>2. ticket[id][w][u].amount \in Nat
      BY <1>1, BetIsNat
    <3> QED BY <3>1, <3>2, PaymentKeepsPools
  <2> QED BY <2>1, <2>2
<1> QED BY <1>1, <1>2, <1>3, ClientInvSettled

(***************************************************************************)
(* The client supplies the pool of every side with a mint, so that closing *)
(* leaves none of them behind; a stranger's it may leave, and that is      *)
(* empty.  That it always supplies the right pool only keeps some events   *)
(* from being closed.                                                      *)
(***************************************************************************)
LEMMA ClientInvCloses ==
    ASSUME TypeOK, NEW u \in Users, NEW id \in Ids, ClientEventInv(id),
           ClientCloses(u, id)
    PROVE  ClientEventInv(id)'
<1>1. Deployed(id) /\ CloseEvent(u, id, SuppliedPools(id))
  BY DEF ClientCloses
<1>2. /\ event'[id] = None
      /\ \A s \in Sides : vault'[id][s] = IF s \in SuppliedPools(id) THEN None
                                                           ELSE vault[id][s]
  BY <1>1 DEF CloseEvent, TypeOK
<1>3. \A s \in Sides : s \notin SuppliedPools(id) => VaultAmount(id, s) = 0
  BY <1>1 DEF SuppliedPools, ClientEventInv, HasOwnPools
<1> QED BY <1>2, <1>3 DEF ClientEventInv, Deployed, VaultAmount

(* A client's transaction touches the accounts of its own event only. *)
LEMMA OtherClientEventsUntouched ==
    ASSUME TypeOK, NEW id \in Ids, NEW i \in Ids \ {id}, NEW u \in Users
    PROVE  /\ \A start, end \in Dates, mint \in [Sides -> Assets],
                 burning \in BOOLEAN :
                ClientDeploys(u, id, start, end, mint, burning)
                    => event'[i] = event[i] /\ vault'[i] = vault[i]
           /\ \A s \in Sides, n \in Nat : ClientVotes(u, id, s, n)
                    => event'[i] = event[i] /\ vault'[i] = vault[i]
           /\ \A s \in Sides :
                (\/ ClientFinishes(u, id, s)
                 \/ ClaimRewards(u, id, s)
                 \/ WithdrawDeposited(u, id, s))
                    => event'[i] = event[i] /\ vault'[i] = vault[i]
           /\ ClientCloses(u, id)
                    => event'[i] = event[i] /\ vault'[i] = vault[i]
<1>1. \A start, end \in Dates, mint \in [Sides -> Assets],
         burning \in BOOLEAN :
        ClientDeploys(u, id, start, end, mint, burning)
            => event'[i] = event[i] /\ vault'[i] = vault[i]
  BY DEF ClientDeploys, TypeOK
<1>2. \A s \in Sides, n \in Nat : ClientVotes(u, id, s, n)
            => event'[i] = event[i] /\ vault'[i] = vault[i]
  BY OtherEventsUntouched DEF ClientVotes, SameAccounts
<1>3. ASSUME NEW s \in Sides, ClientFinishesInTokens(u, id, s)
      PROVE  event'[i] = event[i] /\ vault'[i] = vault[i]
  BY <1>3 DEF ClientFinishesInTokens, TypeOK
<1>4. ASSUME NEW s \in Sides,
             \/ FinishEvent(u, id, s)
             \/ ClaimRewards(u, id, s)
             \/ WithdrawDeposited(u, id, s)
      PROVE  event'[i] = event[i] /\ vault'[i] = vault[i]
  BY <1>4, OtherEventsUntouched DEF SameAccounts
<1>5. ASSUME ClientCloses(u, id)
      PROVE  event'[i] = event[i] /\ vault'[i] = vault[i]
  <2>1. SuppliedPools(id) \in SUBSET Sides
    BY DEF SuppliedPools
  <2> QED BY <1>5, <2>1, OtherEventsUntouched DEF ClientCloses, SameAccounts
<1> QED BY <1>1, <1>2, <1>3, <1>4, <1>5 DEF ClientFinishes

LEMMA ClientInvInit == Init => ClientInv
BY TypeInit DEF Init, ClientInv, ClientEventInv, Deployed, VaultAmount

LEMMA ClientInvStep == ClientInv /\ [ClientNext]_vars => ClientInv'
<1> SUFFICES ASSUME ClientInv, [ClientNext]_vars PROVE ClientInv'
  OBVIOUS
<1>1. TypeOK /\ TypeOK'
  BY TypeClientStep DEF ClientInv
<1>2. SUFFICES ASSUME NEW i \in Ids PROVE ClientEventInv(i)'
  BY <1>1 DEF ClientInv
<1>3. ClientEventInv(i)
  BY DEF ClientInv
<1>4. (event'[i] = event[i] /\ vault'[i] = vault[i]) => ClientEventInv(i)'
  BY <1>3, ClientInvFrame
<1>5. CASE Tick \/ Initialize \/ UNCHANGED vars
  BY <1>4, <1>5 DEF Tick, Initialize, vars
<1>6. ASSUME NEW u \in Users, NEW id \in Ids, NEW start \in Dates,
             NEW end \in Dates, NEW mint \in [Sides -> Assets],
             NEW burning \in BOOLEAN,
             ClientDeploys(u, id, start, end, mint, burning)
      PROVE  ClientEventInv(i)'
  <2>1. CASE i = id
    BY <1>1, <1>3, <1>6, <2>1, ClientInvDeploys
  <2>2. CASE i # id
    BY <1>1, <1>4, <1>6, <2>2, OtherClientEventsUntouched
  <2> QED BY <2>1, <2>2
<1>7. ASSUME NEW u \in Users, NEW id \in Ids, NEW s \in Sides,
             NEW n \in Amounts, ClientVotes(u, id, s, n)
      PROVE  ClientEventInv(i)'
  <2>1. n \in Nat
    BY BoundsAssumption
  <2>2. CASE i = id
    BY <1>1, <1>3, <1>7, <2>1, <2>2, ClientInvVotes
  <2>3. CASE i # id
    BY <1>1, <1>4, <1>7, <2>1, <2>3, OtherClientEventsUntouched
  <2> QED BY <2>2, <2>3
<1>8. ASSUME NEW u \in Users, NEW id \in Ids, NEW s \in Sides,
             \/ ClientFinishes(u, id, s)
             \/ ClaimRewards(u, id, s)
             \/ WithdrawDeposited(u, id, s)
      PROVE  ClientEventInv(i)'
  <2>1. CASE i = id
    BY <1>1, <1>3, <1>8, <2>1, ClientInvFinishes, ClientInvPays
  <2>2. CASE i # id
    BY <1>1, <1>4, <1>8, <2>2, OtherClientEventsUntouched
  <2> QED BY <2>1, <2>2
<1>9. ASSUME NEW u \in Users, NEW id \in Ids, ClientCloses(u, id)
      PROVE  ClientEventInv(i)'
  <2>1. CASE i = id
    BY <1>1, <1>3, <1>9, <2>1, ClientInvCloses
  <2>2. CASE i # id
    BY <1>1, <1>4, <1>9, <2>2, OtherClientEventsUntouched
  <2> QED BY <2>1, <2>2
<1>10. ASSUME NEW id \in Ids, NEW s \in Sides, NEW m \in Mints,
              CreateEventTokenAccount(id, s, m)
       PROVE  ClientEventInv(i)'
  <2>1. CASE i = id
    BY <1>1, <1>3, <1>10, <2>1, ClientInvStranger
  <2>2. CASE i # id
    BY <1>1, <1>4, <1>10, <2>2 DEF CreateEventTokenAccount, TypeOK
  <2> QED BY <2>1, <2>2
<1> QED BY <1>5, <1>6, <1>7, <1>8, <1>9, <1>10 DEF ClientNext

(* The pools of the clients' events, in every reachable state. *)
THEOREM ClientInvariant == ClientSpec => []ClientInv
<1> QED BY ClientInvInit, ClientInvStep, PTL DEF ClientSpec

(***************************************************************************)
(* Among the repository's clients, the recorded pool of a side with a mint *)
(* is what its token account holds, until fees are taken: the comment of   *)
(* prediction_event.rs on left_pool and right_pool is true of them.        *)
(***************************************************************************)
THEOREM PoolIsTheVaultsAmountAmongClients ==
    ClientSpec => []PoolIsTheVaultsAmount
<1>1. ClientInv => PoolIsTheVaultsAmount
  BY DEF ClientInv, ClientEventInv, HasOwnPools, PoolIsTheVaultsAmount
<1> QED BY <1>1, ClientInvariant, PTL

(***************************************************************************)
(* No side with a mint ever has a pool of another mint, although anybody   *)
(* may create pools of any mint, for any event, between any two of the     *)
(* clients' transactions, and a pool may outlive the event it was created  *)
(* for: the clients create their pools with the event.                     *)
(***************************************************************************)
THEOREM PoolsAreOfTheEventsMintAmongClients ==
    ClientSpec => []PoolsAreOfTheEventsMint
<1>1. ClientInv => PoolsAreOfTheEventsMint
  BY DEF ClientInv, ClientEventInv, HasOwnPools, PoolsAreOfTheEventsMint
<1> QED BY <1>1, ClientInvariant, PTL

(* Only a client's closing transaction takes an event away. *)
LEMMA OnlyClosingTakesAnEvent ==
    ASSUME TypeOK, TypeOK', [ClientNext]_vars, NEW id \in Ids,
           Deployed(id), ~Deployed(id)'
    PROVE  \E u \in Users : ClientCloses(u, id)
<1>1. event'[id] # event[id]
  BY DEF Deployed
<1>2. ~(Tick \/ Initialize \/ UNCHANGED vars)
  BY <1>1 DEF Tick, Initialize, vars
<1>3. ASSUME NEW u \in Users, NEW i \in Ids, NEW start \in Dates,
             NEW end \in Dates, NEW mint \in [Sides -> Assets],
             NEW burning \in BOOLEAN,
             ClientDeploys(u, i, start, end, mint, burning)
      PROVE  FALSE
  <2>1. i # id
    BY <1>3 DEF ClientDeploys
  <2> QED BY <1>1, <1>3, <2>1, OtherClientEventsUntouched
<1>4. ASSUME NEW u \in Users, NEW i \in Ids, NEW s \in Sides,
             NEW n \in Amounts, ClientVotes(u, i, s, n)
      PROVE  FALSE
  <2>1. n \in Nat
    BY BoundsAssumption
  <2>2. CASE i = id
    <3>1. Deployed(id)' /\ RecordVote(u, id, s, n)
      BY <1>4, <2>1, <2>2, VoteRecorded
         DEF ClientVotes, VoteWithTokens, VoteWithLamports
    <3> QED BY <3>1
  <2>3. CASE i # id
    BY <1>1, <1>4, <2>1, <2>3, OtherClientEventsUntouched
  <2> QED BY <2>2, <2>3
<1>5. ASSUME NEW u \in Users, NEW i \in Ids, NEW s \in Sides,
             ClientFinishes(u, i, s)
      PROVE  FALSE
  <2>1. CASE i = id
    BY <1>5, <2>1, ResultReported, ResultRecorded
       DEF ClientFinishes, ClientFinishesInTokens
  <2>2. CASE i # id
    BY <1>1, <1>5, <2>2, OtherClientEventsUntouched
  <2> QED BY <2>1, <2>2
<1>6. ASSUME NEW u \in Users, NEW i \in Ids, NEW s \in Sides,
             ClaimRewards(u, i, s) \/ WithdrawDeposited(u, i, s)
      PROVE  FALSE
  BY <1>1, <1>6 DEF ClaimRewards, WithdrawDeposited
<1>7. ASSUME NEW i \in Ids, NEW s \in Sides, NEW m \in Mints,
             CreateEventTokenAccount(i, s, m)
      PROVE  FALSE
  BY <1>1, <1>7 DEF CreateEventTokenAccount
<1>8. ASSUME NEW u \in Users, NEW i \in Ids, ClientCloses(u, i)
      PROVE  ClientCloses(u, id)
  <2>1. CASE i # id
    BY <1>1, <1>8, <2>1, OtherClientEventsUntouched
  <2> QED BY <1>8, <2>1
<1> QED BY <1>2, <1>3, <1>4, <1>5, <1>6, <1>7, <1>8 DEF ClientNext

(***************************************************************************)
(* When an event goes, so do the pools of its sides with a mint: the       *)
(* clients' closing transaction supplies them all, whatever it makes of    *)
(* the right pool.  (A pool beside a side in SOL is a stranger's.)         *)
(***************************************************************************)
THEOREM PoolsCloseWithTheEventAmongClients ==
    ClientSpec => PoolsCloseWithTheEvent
<1>1. ClientInv /\ ClientInv' /\ [ClientNext]_vars
        => [\A id \in Ids : TokenPoolsGoWith(id)]_vars
  <2>1. ASSUME ClientInv, ClientInv', [ClientNext]_vars, NEW id \in Ids,
               Deployed(id), ~Deployed(id)',
               NEW s \in Sides, event[id].mint[s] # Native
        PROVE  ~HasVault(id, s)'
    <3>1. PICK u \in Users : ClientCloses(u, id)
      BY <2>1, OnlyClosingTakesAnEvent DEF ClientInv
    <3>2. s \in SuppliedPools(id)
      BY <2>1 DEF SuppliedPools
    <3>3. vault'[id][s] = None
      BY <2>1, <3>1, <3>2 DEF ClientCloses, CloseEvent, ClientInv, TypeOK
    <3> QED BY <3>3 DEF HasVault
  <2> QED BY <2>1 DEF TokenPoolsGoWith
<1> QED BY <1>1, ClientInvariant, PTL DEF ClientSpec, PoolsCloseWithTheEvent
=============================================================================
