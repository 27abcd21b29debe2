-------------------- MODULE EventProtocolInvariantProofs --------------------
(***************************************************************************)
(* Type correctness and the inductive invariant of EventProtocol.  For the *)
(* type there is one lemma per action.  EventInv(id) speaks of the         *)
(* accounts of one event only, so a step is checked once for the event it  *)
(* acts on (one lemma per action) and once, by EventInvFrame, for all the  *)
(* others.                                                                 *)
(***************************************************************************)
EXTENDS EventProtocolProperties, PayoutsProofs

----------------------------------------------------------------------------
(* Type correctness.                                                       *)

LEMMA OtherIsSide == ASSUME NEW s \in Sides
                     PROVE  Other(s) \in Sides /\ Other(s) # s /\ Other(Other(s)) = s
BY DEF Sides, Other

LEMMA NewTicketIsTicket == NewTicket \in Ticket
BY MaxU64Assumption DEF NewTicket, Ticket

(* The parts of the type invariant that an action changes. *)
LEMMA TypeInit == Init => TypeOK
<1> SUFFICES ASSUME Init PROVE TypeOK
  OBVIOUS
<1>1. \A m \in Mints :
        SumFunctionOnSet([u \in Users |-> Endowment[u][m]], Users) \in Nat
  <2> SUFFICES ASSUME NEW m \in Mints
               PROVE  SumFunctionOnSet([u \in Users |-> Endowment[u][m]], Users) \in Nat
    OBVIOUS
  <2> DEFINE f == [u \in Users |-> Endowment[u][m]]
  <2>1. \A u \in Users : f[u] \in Nat
    BY BoundsAssumption DEF Assets
  <2> HIDE DEF f
  <2>2. SumFunctionOnSet(f, Users) \in Nat
    BY <2>1, SumIsNat, SetsAssumption
  <2> QED BY <2>2 DEF f
<1>2. supply \in [Mints -> Nat]
  BY <1>1 DEF Init
<1> QED BY <1>2, BoundsAssumption DEF Init, TypeOK

LEMMA TypeTick == TypeOK /\ Tick => TypeOK'
BY DEF TypeOK, Tick

LEMMA TypeInitialize == TypeOK /\ Initialize => TypeOK'
BY DEF TypeOK, Initialize, Assets

LEMMA TypeCreateSystemFeeTokenAccount ==
    ASSUME NEW m \in Mints, TypeOK, CreateSystemFeeTokenAccount(m)
    PROVE  TypeOK'
BY DEF TypeOK, CreateSystemFeeTokenAccount, Assets

LEMMA TypeDeployEvent ==
    ASSUME NEW u \in Users, NEW id \in Ids, NEW start \in Dates,
           NEW end \in Dates, NEW mint \in [Sides -> Assets],
           NEW burning \in BOOLEAN, TypeOK,
           DeployEvent(u, id, start, end, mint, burning)
    PROVE  TypeOK'
<1> DEFINE e == [creator |-> u, start_date |-> start, end_date |-> end,
                 pool |-> [s \in Sides |-> 0], mint |-> mint,
                 result |-> None, burning |-> burning]
<1>1. e \in PredictionEvent
  BY MaxU64Assumption DEF PredictionEvent
<1>2. event' = [event EXCEPT ![id] = e]
  BY DEF DeployEvent, NewEvent
<1> HIDE DEF e
<1>3. event' \in [Ids -> PredictionEvent \cup {None}]
  BY <1>1, <1>2 DEF TypeOK
<1> QED BY <1>3 DEF TypeOK, DeployEvent, NewEvent

LEMMA TypeCreateEventTokenAccount ==
    ASSUME NEW id \in Ids, NEW s \in Sides, NEW m \in Mints, TypeOK,
           CreateEventTokenAccount(id, s, m)
    PROVE  TypeOK'
<1>1. [mint |-> m, amount |-> 0] \in TokenAccount
  BY DEF TokenAccount
<1>2. vault' \in [Ids -> [Sides -> TokenAccount \cup {None}]]
  BY <1>1 DEF TypeOK, CreateEventTokenAccount
<1> QED BY <1>2 DEF TypeOK, CreateEventTokenAccount

(* Accounts that exist have the type of their struct. *)
LEMMA AccountTypes ==
    ASSUME TypeOK, NEW id \in Ids, NEW s \in Sides, NEW u \in Users
    PROVE  /\ Deployed(id) => event[id] \in PredictionEvent
           /\ HasTicket(id, s, u) => ticket[id][s][u] \in Ticket
           /\ HasVault(id, s) => vault[id][s] \in TokenAccount
BY DEF TypeOK, Deployed, HasTicket, HasVault

LEMMA TypeRecordVote ==
    ASSUME NEW u \in Users, NEW id \in Ids, NEW s \in Sides, NEW n \in Nat,
           TypeOK, Deployed(id), RecordVote(u, id, s, n)
    PROVE  /\ event' \in [Ids -> PredictionEvent \cup {None}]
           /\ ticket' \in [Ids -> [Sides -> [Users -> Ticket \cup {None}]]]
<1> DEFINE t == [TicketOrNew(id, s, u) EXCEPT !.amount = @ + n]
           e == [event[id] EXCEPT !.pool[s] = @ + n]
<1>1. TicketOrNew(id, s, u) \in Ticket
  BY AccountTypes, NewTicketIsTicket DEF TicketOrNew
<1>2. t \in Ticket
  BY <1>1 DEF Ticket, RecordVote
<1>3. e \in PredictionEvent
  <2>1. event[id] \in PredictionEvent
    BY AccountTypes
  <2> QED BY <2>1 DEF PredictionEvent, RecordVote
<1>4. ticket' = [ticket EXCEPT ![id][s][u] = t]
  BY DEF RecordVote
<1>5. event' = [event EXCEPT ![id] = e]
  BY DEF RecordVote
<1> HIDE DEF t, e
<1> QED BY <1>2, <1>3, <1>4, <1>5 DEF TypeOK

LEMMA TypeVoteWithTokens ==
    ASSUME NEW u \in Users, NEW id \in Ids, NEW s \in Sides, NEW n \in Nat,
           TypeOK, VoteWithTokens(u, id, s, n)
    PROVE  TypeOK'
<1> DEFINE m == event[id].mint[s]
<1>1. Deployed(id) /\ VaultReady(id, s) /\ HasVault(id, s) /\ RecordVote(u, id, s, n)
  BY DEF VoteWithTokens, TakeTokens, VoteOpen, VaultReady
<1>2. event[id] \in PredictionEvent /\ vault[id][s] \in TokenAccount
  BY <1>1, AccountTypes
<1>3. m \in Assets
  BY <1>2 DEF PredictionEvent
<1>4. wallet' \in [Users -> [Assets -> Nat]]
  <2>1. wallet[u] \in [Assets -> Nat] /\ wallet[u][m] - n \in Nat
    BY <1>3 DEF TypeOK, VoteWithTokens, TakeTokens
  <2>2. wallet' = [wallet EXCEPT ![u] = [wallet[u] EXCEPT ![m] = @ - n]]
    BY <2>1 DEF TypeOK, VoteWithTokens, TakeTokens
  <2> QED BY <1>3, <2>1, <2>2 DEF TypeOK
<1>5. vault' \in [Ids -> [Sides -> TokenAccount \cup {None}]]
  <2>1. [vault[id][s] EXCEPT !.amount = @ + n] \in TokenAccount
    BY <1>2 DEF TokenAccount
  <2> QED BY <2>1 DEF TypeOK, VoteWithTokens, TakeTokens
<1>6. /\ event' \in [Ids -> PredictionEvent \cup {None}]
      /\ ticket' \in [Ids -> [Sides -> [Users -> Ticket \cup {None}]]]
  BY <1>1, TypeRecordVote
<1> QED BY <1>4, <1>5, <1>6 DEF TypeOK, VoteWithTokens, TakeTokens

LEMMA NativeIsAsset == Native \in Assets
BY DEF Assets

LEMMA TypeVoteWithLamports ==
    ASSUME NEW u \in Users, NEW id \in Ids, NEW s \in Sides, NEW n \in Nat,
           TypeOK, VoteWithLamports(u, id, s, n)
    PROVE  TypeOK'
<1>1. Deployed(id) /\ RecordVote(u, id, s, n)
  BY DEF VoteWithLamports, TakeLamports, VoteOpen
<1>2. /\ event' \in [Ids -> PredictionEvent \cup {None}]
      /\ ticket' \in [Ids -> [Sides -> [Users -> Ticket \cup {None}]]]
  BY <1>1, TypeRecordVote
<1>3. wallet' \in [Users -> [Assets -> Nat]]
  BY NativeIsAsset DEF TypeOK, VoteWithLamports, TakeLamports
<1>4. lamports' \in [Ids -> Nat] /\ solHeld' \in [Ids -> [Sides -> Int]]
  BY DEF TypeOK, VoteWithLamports, TakeLamports
<1> QED BY <1>2, <1>3, <1>4 DEF TypeOK, VoteWithLamports, TakeLamports

LEMMA TypeFinishEvent ==
    ASSUME NEW u \in Users, NEW id \in Ids, NEW r \in Sides,
           TypeOK, FinishEvent(u, id, r)
    PROVE  TypeOK'
<1> DEFINE l == Other(r)
           m == event[id].mint[l]
           amount == FeeOf(event[id].pool[l])
<1>1. l \in Sides
  BY OtherIsSide
<1>2. event[id] \in PredictionEvent /\ fee[Native] # None
  BY AccountTypes DEF FinishEvent, MayFinish
<1>3. event[id].pool[l] \in 0..MaxU64 /\ m \in Assets
  BY <1>1, <1>2 DEF PredictionEvent
<1>4. amount \in Nat /\ 2 * amount <= event[id].pool[l]
  <2>1. event[id].pool[l] \in Nat
    BY <1>3, MaxU64Assumption
  <2> QED BY <2>1, FeesFitThePool
<1>5. event' \in [Ids -> PredictionEvent \cup {None}]
  <2> DEFINE e == [event[id] EXCEPT !.result = r,
                                    !.pool[l] = @ - 2 * FeeOf(@)]
  <2>1. event[id].pool[l] - 2 * FeeOf(event[id].pool[l]) \in 0..MaxU64
    BY <1>3, <1>4, MaxU64Assumption
  <2>2. e \in PredictionEvent
    BY <1>1, <1>2, <2>1 DEF PredictionEvent
  <2>3. event' = [event EXCEPT ![id] = e]
    BY DEF FinishEvent
  <2> HIDE DEF e
  <2> QED BY <2>2, <2>3 DEF TypeOK
<1>6. CASE TakeFeesInTokens(u, id, l)
  <2>1. /\ vault[id][l] \in TokenAccount
        /\ VaultReady(id, l) /\ m = vault[id][l].mint
        /\ fee[m] # None
    BY <1>1, <1>6, AccountTypes DEF TakeFeesInTokens, VaultReady
  <2>2. m \in Mints /\ m \in Assets
    BY <2>1 DEF TokenAccount, Assets
  <2>3. LeftAfterFees(id, l) \in Nat
    BY <1>4, <1>6, <2>1 DEF TakeFeesInTokens, LeftAfterFees, TokenAccount
  <2>4. BurnedOf(id, l) \in Nat /\ LeftAfterFees(id, l) - BurnedOf(id, l) \in Nat
    BY <2>3 DEF BurnedOf
  <2>5. wallet' \in [Users -> [Assets -> Nat]]
    BY <1>4, <1>6, <2>2 DEF TakeFeesInTokens, TypeOK
  <2>6. fee' \in [Assets -> Nat \cup {None}]
    BY <1>4, <1>6, <2>1, <2>2 DEF TakeFeesInTokens, TypeOK
  <2>7. vault' \in [Ids -> [Sides -> TokenAccount \cup {None}]]
    <3>1. [vault[id][l] EXCEPT !.amount =
             LeftAfterFees(id, l) - BurnedOf(id, l)] \in TokenAccount
      BY <2>1, <2>4 DEF TokenAccount
    <3> QED BY <1>6, <3>1 DEF TakeFeesInTokens, TypeOK
  <2>8. supply' \in [Mints -> Nat]
    BY <1>6, <2>2, <2>4 DEF TakeFeesInTokens, TypeOK
  <2> QED BY <1>5, <1>6, <2>5, <2>6, <2>7, <2>8
          DEF TypeOK, TakeFeesInTokens, FinishEvent
<1>7. CASE TakeFeesInLamports(u, id, l)
  <2>1. wallet' \in [Users -> [Assets -> Nat]]
    BY <1>4, <1>7, NativeIsAsset DEF TakeFeesInLamports, TypeOK
  <2>2. fee' \in [Assets -> Nat \cup {None}]
    BY <1>2, <1>4, <1>7, NativeIsAsset DEF TakeFeesInLamports, TypeOK
  <2>3. lamports' \in [Ids -> Nat]
    BY <1>4, <1>7 DEF TakeFeesInLamports, TypeOK
  <2>4. solHeld' \in [Ids -> [Sides -> Int]]
    BY <1>1, <1>4, <1>7 DEF TakeFeesInLamports, TypeOK
  <2> QED BY <1>5, <1>7, <2>1, <2>2, <2>3, <2>4
          DEF TypeOK, TakeFeesInLamports, FinishEvent
<1> QED BY <1>6, <1>7 DEF FinishEvent

LEMMA TypePayFrom ==
    ASSUME NEW u \in Users, NEW id \in Ids, NEW s \in Sides, NEW n \in Nat,
           TypeOK, Deployed(id), PayFrom(u, id, s, n)
    PROVE  /\ vault' \in [Ids -> [Sides -> TokenAccount \cup {None}]]
           /\ wallet' \in [Users -> [Assets -> Nat]]
           /\ lamports' \in [Ids -> Nat]
           /\ solHeld' \in [Ids -> [Sides -> Int]]
<1> DEFINE m == event[id].mint[s]
<1>1. event[id] \in PredictionEvent
  BY AccountTypes
<1>2. m \in Assets
  BY <1>1 DEF PredictionEvent
<1>3. CASE PayTokens(u, id, s, n)
  <2>1. vault[id][s] \in TokenAccount
    BY <1>3, AccountTypes DEF PayTokens, VaultReady
  <2>2. [vault[id][s] EXCEPT !.amount = @ - n] \in TokenAccount
    BY <1>3, <2>1 DEF TokenAccount, PayTokens
  <2>3. vault' \in [Ids -> [Sides -> TokenAccount \cup {None}]]
    BY <1>3, <2>2 DEF PayTokens, TypeOK
  <2>4. wallet' \in [Users -> [Assets -> Nat]]
    BY <1>2, <1>3 DEF PayTokens, TypeOK
  <2> QED BY <1>3, <2>3, <2>4 DEF PayTokens, TypeOK
<1>4. CASE PayLamports(u, id, s, n)
  <2>1. wallet' \in [Users -> [Assets -> Nat]]
    BY <1>4, NativeIsAsset DEF PayLamports, TypeOK
  <2>2. lamports' \in [Ids -> Nat] /\ solHeld' \in [Ids -> [Sides -> Int]]
    BY <1>4 DEF PayLamports, TypeOK
  <2> QED BY <1>4, <2>1, <2>2 DEF PayLamports, TypeOK
<1> QED BY <1>3, <1>4 DEF PayFrom

(* Marking an existing ticket leaves a ticket. *)
LEMMA TypeMarkTicket ==
    ASSUME TypeOK, NEW id \in Ids, NEW w \in Sides, NEW u \in Users,
           HasTicket(id, w, u),
           \/ ticket' = [ticket EXCEPT ![id][w][u].claimed = TRUE]
           \/ ticket' = [ticket EXCEPT ![id][w][u].withdrawn = TRUE]
    PROVE  ticket' \in [Ids -> [Sides -> [Users -> Ticket \cup {None}]]]
<1>1. ticket[id][w][u] \in Ticket
  BY AccountTypes
<1>2. /\ [ticket[id][w][u] EXCEPT !.claimed = TRUE] \in Ticket
      /\ [ticket[id][w][u] EXCEPT !.withdrawn = TRUE] \in Ticket
  BY <1>1 DEF Ticket
<1>3. CASE ticket' = [ticket EXCEPT ![id][w][u].claimed = TRUE]
  BY <1>2, <1>3 DEF TypeOK
<1>4. CASE ticket' = [ticket EXCEPT ![id][w][u].withdrawn = TRUE]
  BY <1>2, <1>4 DEF TypeOK
<1> QED BY <1>3, <1>4

LEMMA PoolsAreNat ==
    ASSUME TypeOK, NEW id \in Ids, Deployed(id), NEW s \in Sides
    PROVE  event[id].pool[s] \in Nat
BY AccountTypes, MaxU64Assumption DEF TypeOK, PredictionEvent, Deployed

LEMMA BetIsNat ==
    ASSUME TypeOK, NEW id \in Ids, NEW s \in Sides, NEW u \in Users,
           HasTicket(id, s, u)
    PROVE  ticket[id][s][u].amount \in Nat
<1>1. ticket[id][s][u] \in Ticket
  BY AccountTypes
<1> QED BY <1>1, MaxU64Assumption DEF Ticket

(* What claim_rewards computes for a ticket is a natural number. *)
LEMMA RewardOfTicketIsNat ==
    ASSUME TypeOK, NEW id \in Ids, NEW w \in Sides, NEW u \in Users,
           Deployed(id), HasTicket(id, w, u), event[id].pool[w] > 0
    PROVE  Reward(u, id, w) \in Nat
<1>1. /\ event[id].pool[w] \in Nat /\ event[id].pool[Other(w)] \in Nat
      /\ ticket[id][w][u].amount \in Nat
  BY PoolsAreNat, BetIsNat, OtherIsSide
<1> QED BY <1>1, RewardIsNat DEF Reward

LEMMA TypeClaimRewards ==
    ASSUME NEW u \in Users, NEW id \in Ids, NEW w \in Sides,
           TypeOK, ClaimRewards(u, id, w)
    PROVE  TypeOK'
<1>1. /\ Deployed(id) /\ HasTicket(id, w, u) /\ event[id].pool[w] > 0
      /\ Other(w) \in Sides
  BY OtherIsSide DEF ClaimRewards, MayClaim, RewardFits
<1>2. Reward(u, id, w) \in Nat
  BY <1>1, RewardOfTicketIsNat
<1>3. PayFrom(u, id, Other(w), Reward(u, id, w))
  BY DEF ClaimRewards
<1>4. ticket' \in [Ids -> [Sides -> [Users -> Ticket \cup {None}]]]
  BY <1>1, TypeMarkTicket DEF ClaimRewards
<1> QED BY <1>1, <1>2, <1>3, <1>4, TypePayFrom DEF TypeOK, ClaimRewards

LEMMA TypeWithdrawDeposited ==
    ASSUME NEW u \in Users, NEW id \in Ids, NEW w \in Sides,
           TypeOK, WithdrawDeposited(u, id, w)
    PROVE  TypeOK'
<1>1. Deployed(id) /\ HasTicket(id, w, u)
  BY DEF WithdrawDeposited, MayWithdraw
<1>2. ticket[id][w][u].amount \in Nat
  BY <1>1, BetIsNat
<1>3. PayFrom(u, id, w, ticket[id][w][u].amount)
  BY DEF WithdrawDeposited
<1>4. ticket' \in [Ids -> [Sides -> [Users -> Ticket \cup {None}]]]
  BY <1>1, TypeMarkTicket DEF WithdrawDeposited
<1> QED BY <1>1, <1>2, <1>3, <1>4, TypePayFrom DEF TypeOK, WithdrawDeposited

LEMMA TypeCloseEvent ==
    ASSUME NEW u \in Users, NEW id \in Ids, NEW pools \in SUBSET Sides,
           TypeOK, CloseEvent(u, id, pools)
    PROVE  TypeOK'
<1>1. event' \in [Ids -> PredictionEvent \cup {None}]
  BY DEF TypeOK, CloseEvent
<1>2. vault' \in [Ids -> [Sides -> TokenAccount \cup {None}]]
  BY DEF TypeOK, CloseEvent
<1>3. wallet' \in [Users -> [Assets -> Nat]]
  BY NativeIsAsset DEF TypeOK, CloseEvent
<1>4. lamports' \in [Ids -> Nat] /\ solHeld' \in [Ids -> [Sides -> Int]]
  BY DEF TypeOK, CloseEvent
<1> QED BY <1>1, <1>2, <1>3, <1>4 DEF TypeOK, CloseEvent

LEMMA TypeStep == TypeOK /\ [Next]_vars => TypeOK'
<1> SUFFICES ASSUME TypeOK, [Next]_vars PROVE TypeOK'
  OBVIOUS
<1>1. CASE Tick
  BY <1>1, TypeTick
<1>2. CASE SetUp
  BY <1>2, TypeInitialize, TypeCreateSystemFeeTokenAccount, TypeDeployEvent,
     TypeCreateEventTokenAccount DEF SetUp
<1>3. CASE Vote
  <2>1. Amounts \subseteq Nat
    BY BoundsAssumption
  <2> QED BY <1>3, <2>1, TypeVoteWithTokens, TypeVoteWithLamports DEF Vote
<1>4. CASE Settle
  BY <1>4, TypeFinishEvent, TypeClaimRewards, TypeWithdrawDeposited DEF Settle
<1>5. CASE Close
  BY <1>5, TypeCloseEvent DEF Close
<1>6. CASE UNCHANGED vars
  BY <1>6 DEF vars, TypeOK
<1> QED BY <1>1, <1>2, <1>3, <1>4, <1>5, <1>6 DEF Next

(***************************************************************************)
(* Type correctness: every account, balance and date keeps its type, in    *)
(* particular no pool or ticket exceeds a u64 and no balance is negative.  *)
(***************************************************************************)
THEOREM TypeCorrect == Spec => []TypeOK
<1>1. Init => TypeOK
  BY TypeInit
<1>2. TypeOK /\ [Next]_vars => TypeOK'
  BY TypeStep
<1> QED BY <1>1, <1>2, PTL DEF Spec

----------------------------------------------------------------------------
(* The totals over one side's tickets, before and after a step.            *)

TicketTermsInNat ==
    \A id \in Ids, s \in Sides, u \in Users :
        /\ Stake(id, s, u) \in Nat
        /\ Unwithdrawn(id, s, u) \in Nat
        /\ Deployed(id) => /\ RewardIf(id, s, u, TRUE) \in Nat
                           /\ RewardIf(id, s, u, FALSE) \in Nat

LEMMA TicketTermsAreNat == TypeOK => TicketTermsInNat
<1> SUFFICES ASSUME TypeOK, NEW id \in Ids, NEW s \in Sides, NEW u \in Users
             PROVE  /\ Stake(id, s, u) \in Nat
                    /\ Unwithdrawn(id, s, u) \in Nat
                    /\ Deployed(id) => /\ RewardIf(id, s, u, TRUE) \in Nat
                                       /\ RewardIf(id, s, u, FALSE) \in Nat
  BY DEF TicketTermsInNat
<1>1. Stake(id, s, u) \in Nat /\ Unwithdrawn(id, s, u) \in Nat
  BY BetIsNat DEF Stake, Unwithdrawn
<1>2. ASSUME Deployed(id), NEW c \in BOOLEAN
      PROVE  RewardIf(id, s, u, c) \in Nat
  BY <1>2, RewardOfTicketIsNat DEF RewardIf
<1> QED BY <1>1, <1>2

LEMMA TicketTermsAreNatNext == TypeOK' => TicketTermsInNat'
BY TicketTermsAreNat, PTL

LEMMA OverSame ==
    ASSUME NEW f, NEW g, \A u \in Users : f[u] \in Nat /\ g[u] = f[u]
    PROVE  Over(g) = Over(f)
BY SumSame, SetsAssumption DEF Over

LEMMA OverUpdate ==
    ASSUME NEW f, NEW g, NEW u \in Users,
           \A v \in Users : f[v] \in Nat /\ g[v] \in Nat,
           \A v \in Users \ {u} : g[v] = f[v]
    PROVE  Over(g) = Over(f) + (g[u] - f[u])
BY SumUpdate, SetsAssumption DEF Over

LEMMA OverIsNat ==
    ASSUME NEW f, \A u \in Users : f[u] \in Nat
    PROVE  Over(f) \in Nat
BY SumIsNat, SetsAssumption DEF Over

LEMMA TotalsAreNat ==
    ASSUME TypeOK, NEW id \in Ids, NEW s \in Sides
    PROVE  /\ Staked(id, s) \in Nat
           /\ StillToWithdraw(id, s) \in Nat
           /\ Deployed(id) => /\ ClaimedBy(id, s) \in Nat
                              /\ StillToClaim(id, s) \in Nat
<1>1. Staked(id, s) \in Nat
  BY TicketTermsAreNat, OverIsNat DEF TicketTermsInNat, Staked
<1>2. StillToWithdraw(id, s) \in Nat
  BY TicketTermsAreNat, OverIsNat DEF TicketTermsInNat, StillToWithdraw
<1>3. ASSUME Deployed(id) PROVE ClaimedBy(id, s) \in Nat
  BY <1>3, TicketTermsAreNat, OverIsNat DEF TicketTermsInNat, ClaimedBy
<1>4. ASSUME Deployed(id) PROVE StillToClaim(id, s) \in Nat
  BY <1>4, TicketTermsAreNat, OverIsNat DEF TicketTermsInNat, StillToClaim
<1> QED BY <1>1, <1>2, <1>3, <1>4

(* A step that changes at most one ticket's term changes the total as much. *)
LEMMA StakedUpdate ==
    ASSUME TypeOK, TypeOK', NEW id \in Ids, NEW s \in Sides, NEW u \in Users,
           \A v \in Users \ {u} : Stake(id, s, v)' = Stake(id, s, v)
    PROVE  Staked(id, s)' = Staked(id, s) + (Stake(id, s, u)' - Stake(id, s, u))
<1> DEFINE f == [v \in Users |-> Stake(id, s, v)]
           g == [v \in Users |-> Stake(id, s, v)']
<1>1. \A v \in Users : f[v] \in Nat /\ g[v] \in Nat
  BY TicketTermsAreNat, TicketTermsAreNatNext DEF TicketTermsInNat
<1>2. \A v \in Users \ {u} : g[v] = f[v]
  OBVIOUS
<1>3. Staked(id, s) = Over(f) /\ Staked(id, s)' = Over(g)
  BY DEF Staked, Over
<1>4. f[u] = Stake(id, s, u) /\ g[u] = Stake(id, s, u)'
  OBVIOUS
<1> HIDE DEF f, g
<1>5. Over(g) = Over(f) + (g[u] - f[u])
  BY <1>1, <1>2, OverUpdate
<1> QED BY <1>3, <1>4, <1>5

LEMMA StillToWithdrawUpdate ==
    ASSUME TypeOK, TypeOK', NEW id \in Ids, NEW s \in Sides, NEW u \in Users,
           \A v \in Users \ {u} : Unwithdrawn(id, s, v)' = Unwithdrawn(id, s, v)
    PROVE  StillToWithdraw(id, s)' = StillToWithdraw(id, s)
             + (Unwithdrawn(id, s, u)' - Unwithdrawn(id, s, u))
<1> DEFINE f == [v \in Users |-> Unwithdrawn(id, s, v)]
           g == [v \in Users |-> Unwithdrawn(id, s, v)']
<1>1. \A v \in Users : f[v] \in Nat /\ g[v] \in Nat
  BY TicketTermsAreNat, TicketTermsAreNatNext DEF TicketTermsInNat
<1>2. \A v \in Users \ {u} : g[v] = f[v]
  OBVIOUS
<1>3. StillToWithdraw(id, s) = Over(f) /\ StillToWithdraw(id, s)' = Over(g)
  BY DEF StillToWithdraw, Over
<1>4. f[u] = Unwithdrawn(id, s, u) /\ g[u] = Unwithdrawn(id, s, u)'
  OBVIOUS
<1> HIDE DEF f, g
<1>5. Over(g) = Over(f) + (g[u] - f[u])
  BY <1>1, <1>2, OverUpdate
<1> QED BY <1>3, <1>4, <1>5

LEMMA ClaimedByUpdate ==
    ASSUME TypeOK, TypeOK', NEW id \in Ids, Deployed(id), Deployed(id)',
           NEW s \in Sides, NEW u \in Users,
           \A v \in Users \ {u} :
              RewardIf(id, s, v, TRUE)' = RewardIf(id, s, v, TRUE)
    PROVE  ClaimedBy(id, s)' = ClaimedBy(id, s)
             + (RewardIf(id, s, u, TRUE)' - RewardIf(id, s, u, TRUE))
<1> DEFINE f == [v \in Users |-> RewardIf(id, s, v, TRUE)]
           g == [v \in Users |-> RewardIf(id, s, v, TRUE)']
<1>1. \A v \in Users : f[v] \in Nat /\ g[v] \in Nat
  BY TicketTermsAreNat, TicketTermsAreNatNext DEF TicketTermsInNat
<1>2. \A v \in Users \ {u} : g[v] = f[v]
  OBVIOUS
<1>3. ClaimedBy(id, s) = Over(f) /\ ClaimedBy(id, s)' = Over(g)
  BY DEF ClaimedBy, Over
<1>4. f[u] = RewardIf(id, s, u, TRUE) /\ g[u] = RewardIf(id, s, u, TRUE)'
  OBVIOUS
<1> HIDE DEF f, g
<1>5. Over(g) = Over(f) + (g[u] - f[u])
  BY <1>1, <1>2, OverUpdate
<1> QED BY <1>3, <1>4, <1>5

LEMMA TotalsFrame ==
    ASSUME TypeOK, NEW id \in Ids, NEW s \in Sides,
           event'[id] = event[id], ticket'[id] = ticket[id]
    PROVE  /\ Staked(id, s)' = Staked(id, s)
           /\ StillToWithdraw(id, s)' = StillToWithdraw(id, s)
           /\ Deployed(id) => ClaimedBy(id, s)' = ClaimedBy(id, s)
<1>1. Staked(id, s)' = Staked(id, s)
  <2> DEFINE f == [v \in Users |-> Stake(id, s, v)]
             g == [v \in Users |-> Stake(id, s, v)']
  <2>1. \A v \in Users : f[v] \in Nat /\ g[v] = f[v]
    BY TicketTermsAreNat DEF TicketTermsInNat, Stake, HasTicket
  <2>2. Staked(id, s) = Over(f) /\ Staked(id, s)' = Over(g)
    BY DEF Staked, Over
  <2> HIDE DEF f, g
  <2> QED BY <2>1, <2>2, OverSame
<1>2. StillToWithdraw(id, s)' = StillToWithdraw(id, s)
  <2> DEFINE f == [v \in Users |-> Unwithdrawn(id, s, v)]
             g == [v \in Users |-> Unwithdrawn(id, s, v)']
  <2>1. \A v \in Users : f[v] \in Nat /\ g[v] = f[v]
    BY TicketTermsAreNat DEF TicketTermsInNat, Unwithdrawn, HasTicket
  <2>2. StillToWithdraw(id, s) = Over(f) /\ StillToWithdraw(id, s)' = Over(g)
    BY DEF StillToWithdraw, Over
  <2> HIDE DEF f, g
  <2> QED BY <2>1, <2>2, OverSame
<1>3. ASSUME Deployed(id) PROVE ClaimedBy(id, s)' = ClaimedBy(id, s)
  <2> DEFINE f == [v \in Users |-> RewardIf(id, s, v, TRUE)]
             g == [v \in Users |-> RewardIf(id, s, v, TRUE)']
  <2>1. \A v \in Users : f[v] \in Nat /\ g[v] = f[v]
    BY <1>3, TicketTermsAreNat
       DEF TicketTermsInNat, RewardIf, Reward, HasTicket
  <2>2. ClaimedBy(id, s) = Over(f) /\ ClaimedBy(id, s)' = Over(g)
    BY DEF ClaimedBy, Over
  <2> HIDE DEF f, g
  <2> QED BY <2>1, <2>2, OverSame
<1> QED BY <1>1, <1>2, <1>3

(***************************************************************************)
(* EventInv(id) depends on the accounts of that event only, and the passing*)
(* of time does not falsify it.                                            *)
(***************************************************************************)
LEMMA EventInvFrame ==
    ASSUME TypeOK, TypeOK', NEW id \in Ids, EventInv(id),
           clock' >= clock,
           event'[id] = event[id], ticket'[id] = ticket[id],
           vault'[id] = vault[id], lamports'[id] = lamports[id],
           solHeld'[id] = solHeld[id]
    PROVE  EventInv(id)'
<1>1. /\ Deployed(id)' <=> Deployed(id)
      /\ IsResultSet(id)' <=> IsResultSet(id)
  BY DEF Deployed, IsResultSet
<1>2. \A s \in Sides : /\ HasWon(id, s)' <=> HasWon(id, s)
                       /\ HasLost(id, s)' <=> HasLost(id, s)
                       /\ VaultReady(id, s)' <=> VaultReady(id, s)
                       /\ VaultAmount(id, s)' = VaultAmount(id, s)
                       /\ Held(id, s)' = Held(id, s)
  BY DEF HasWon, HasLost, VaultReady, HasVault, VaultAmount, Held
<1>3. /\ Deployed(id) /\ IsStarted(id) => IsStarted(id)'
      /\ Deployed(id) /\ IsFinished(id) => IsFinished(id)'
  <2>1. ASSUME Deployed(id)
        PROVE  event[id].start_date \in Nat /\ event[id].end_date \in Nat
    BY <2>1, BoundsAssumption DEF TypeOK, PredictionEvent, Deployed
  <2> QED BY <2>1 DEF TypeOK, IsStarted, IsFinished
<1>4. \A s \in Sides, u \in Users : HasTicket(id, s, u)' <=> HasTicket(id, s, u)
  BY DEF HasTicket
<1>5. DatesInOrder(id)'
  BY <1>1, <1>3 DEF EventInv, DatesInOrder
<1>6. MarkedOnlyIfWon(id)'
  BY <1>1, <1>2, <1>4 DEF EventInv, MarkedOnlyIfWon
<1>7. SolAddsUp(id)'
  BY DEF EventInv, SolAddsUp
<1>8. TokensInOwnVault(id)'
  BY <1>1, <1>2 DEF EventInv, TokensInOwnVault
<1>9. ((Deployed(id) => ~IsStarted(id)) => NothingHeld(id))'
  BY <1>1, <1>2, <1>3, <1>4 DEF EventInv, NothingHeld
<1>10. ASSUME Deployed(id), NEW s \in Sides
       PROVE  PoolIsTicketSum(id, s)' /\ SideHoldsItsStakes(id, s)'
  <2>1. PoolIsTicketSum(id, s) /\ SideHoldsItsStakes(id, s) /\ Other(s) \in Sides
    BY <1>10, OtherIsSide DEF EventInv
  <2>2. /\ Staked(id, s)' = Staked(id, s)
        /\ StillToWithdraw(id, s)' = StillToWithdraw(id, s)
        /\ ClaimedBy(id, Other(s))' = ClaimedBy(id, Other(s))
    BY <1>10, <2>1, TotalsFrame
  <2>3. PoolIsTicketSum(id, s)'
    BY <1>2, <2>1, <2>2 DEF PoolIsTicketSum
  <2>4. SideHoldsItsStakes(id, s)'
    BY <1>1, <1>2, <2>1, <2>2 DEF SideHoldsItsStakes
  <2> QED BY <2>3, <2>4
<1> QED BY <1>1, <1>5, <1>6, <1>7, <1>8, <1>9, <1>10 DEF EventInv

----------------------------------------------------------------------------
(* Each action preserves the invariant of the event it acts on.            *)

LEMMA NotNone ==
    /\ \A e \in PredictionEvent : e # None
    /\ \A t \in Ticket : t # None
    /\ \A v \in TokenAccount : v # None
    /\ \A s \in Sides : s # None
BY NoneAssumption

(* What RecordVote does to the two accounts. *)
LEMMA VoteRecorded ==
    ASSUME TypeOK, TypeOK', NEW u \in Users, NEW id \in Ids, NEW s \in Sides,
           NEW n \in Nat, Deployed(id), RecordVote(u, id, s, n)
    PROVE  /\ Deployed(id)'
           /\ event'[id].start_date = event[id].start_date
           /\ event'[id].end_date = event[id].end_date
           /\ event'[id].mint = event[id].mint
           /\ event'[id].result = event[id].result
           /\ event'[id].burning = event[id].burning
           /\ event'[id].pool[s] = event[id].pool[s] + n
           /\ event'[id].pool[Other(s)] = event[id].pool[Other(s)]
           /\ Stake(id, s, u)' = Stake(id, s, u) + n
           /\ \A v \in Users \ {u} : Stake(id, s, v)' = Stake(id, s, v)
           /\ \A v \in Users : Stake(id, Other(s), v)' = Stake(id, Other(s), v)
<1> DEFINE e == [event[id] EXCEPT !.pool[s] = @ + n]
           t == [TicketOrNew(id, s, u) EXCEPT !.amount = @ + n]
<1>1. event[id] \in PredictionEvent /\ Other(s) \in Sides /\ Other(s) # s
  BY AccountTypes, OtherIsSide
<1>2. event'[id] = e
  BY DEF RecordVote, TypeOK
<1>3. e \in PredictionEvent
  BY <1>1 DEF RecordVote, PredictionEvent
<1>4. Deployed(id)'
  BY <1>2, <1>3, NotNone DEF Deployed
<1>5. TicketOrNew(id, s, u) \in Ticket
  BY AccountTypes, NewTicketIsTicket DEF TicketOrNew
<1>6. t \in Ticket
  BY <1>5 DEF Ticket, RecordVote
<1>7. ticket' = [ticket EXCEPT ![id][s][u] = t]
  BY DEF RecordVote
<1>8. Stake(id, s, u)' = Stake(id, s, u) + n
  <2>1. ticket'[id][s][u] = t
    BY <1>7 DEF TypeOK
  <2>2. Stake(id, s, u)' = t.amount
    BY <2>1, <1>6, NotNone DEF Stake, HasTicket
  <2>3. t.amount = TicketOrNew(id, s, u).amount + n
    BY <1>5 DEF Ticket
  <2>4. TicketOrNew(id, s, u).amount = Stake(id, s, u)
    BY DEF TicketOrNew, Stake, NewTicket
  <2> QED BY <2>2, <2>3, <2>4
<1>9. \A v \in Users \ {u} : Stake(id, s, v)' = Stake(id, s, v)
  <2>1. \A v \in Users \ {u} : ticket'[id][s][v] = ticket[id][s][v]
    BY <1>7 DEF TypeOK
  <2> QED BY <2>1 DEF Stake, HasTicket
<1>10. \A v \in Users : Stake(id, Other(s), v)' = Stake(id, Other(s), v)
  <2>1. \A v \in Users : ticket'[id][Other(s)][v] = ticket[id][Other(s)][v]
    BY <1>1, <1>7 DEF TypeOK
  <2> QED BY <2>1 DEF Stake, HasTicket
<1>11. /\ event'[id].start_date = event[id].start_date
       /\ event'[id].end_date = event[id].end_date
       /\ event'[id].mint = event[id].mint
       /\ event'[id].result = event[id].result
       /\ event'[id].burning = event[id].burning
       /\ event'[id].pool[s] = event[id].pool[s] + n
       /\ event'[id].pool[Other(s)] = event[id].pool[Other(s)]
  BY <1>1, <1>2 DEF PredictionEvent
<1> QED BY <1>4, <1>8, <1>9, <1>10, <1>11

(* The marks of a ticket are those it had before the vote. *)
LEMMA VoteKeepsMarks ==
    ASSUME TypeOK, NEW u \in Users, NEW id \in Ids, NEW s \in Sides,
           NEW n \in Nat, RecordVote(u, id, s, n),
           NEW z \in Sides, NEW v \in Users, HasTicket(id, z, v)'
    PROVE  /\ ticket'[id][z][v].claimed =>
                HasTicket(id, z, v) /\ ticket[id][z][v].claimed
           /\ ticket'[id][z][v].withdrawn =>
                HasTicket(id, z, v) /\ ticket[id][z][v].withdrawn
<1> DEFINE t == [TicketOrNew(id, s, u) EXCEPT !.amount = @ + n]
<1>1. TicketOrNew(id, s, u) \in Ticket
  BY AccountTypes, NewTicketIsTicket DEF TicketOrNew
<1>2. /\ t.claimed = TicketOrNew(id, s, u).claimed
      /\ t.withdrawn = TicketOrNew(id, s, u).withdrawn
  BY <1>1 DEF Ticket
<1>3. ticket' = [ticket EXCEPT ![id][s][u] = t]
  BY DEF RecordVote
<1> HIDE DEF t
<1>4. CASE z = s /\ v = u
  <2>1. ticket'[id][z][v] = t
    BY <1>3, <1>4 DEF TypeOK
  <2> QED BY <1>2, <1>4, <2>1 DEF TicketOrNew, NewTicket
<1>5. CASE ~(z = s /\ v = u)
  <2>1. ticket'[id][z][v] = ticket[id][z][v]
    BY <1>3, <1>5 DEF TypeOK
  <2> QED BY <2>1 DEF HasTicket
<1> QED BY <1>4, <1>5

(***************************************************************************)
(* A vote: the side holds n more, in tokens or in lamports, and one ticket *)
(* and the pool record n more.                                             *)
(***************************************************************************)
LEMMA EventInvVote ==
    ASSUME TypeOK, TypeOK', NEW u \in Users, NEW id \in Ids, NEW s \in Sides,
           NEW n \in Nat, EventInv(id),
           VoteWithTokens(u, id, s, n) \/ VoteWithLamports(u, id, s, n)
    PROVE  EventInv(id)'
<1> DEFINE t == Other(s)
<1>1. /\ VoteOpen(id) /\ Deployed(id) /\ IsStarted(id) /\ ~IsResultSet(id)
      /\ RecordVote(u, id, s, n) /\ clock' = clock
  BY DEF VoteWithTokens, TakeTokens, VoteWithLamports, TakeLamports, VoteOpen
<1>2. t \in Sides /\ t # s /\ \A z \in Sides : z = s \/ z = t
  BY DEF Sides, Other
<1>3. /\ Deployed(id)'
      /\ event'[id].start_date = event[id].start_date
      /\ event'[id].end_date = event[id].end_date
      /\ event'[id].mint = event[id].mint
      /\ event'[id].result = event[id].result
      /\ event'[id].burning = event[id].burning
      /\ event'[id].pool[s] = event[id].pool[s] + n
      /\ event'[id].pool[t] = event[id].pool[t]
      /\ Stake(id, s, u)' = Stake(id, s, u) + n
      /\ \A v \in Users \ {u} : Stake(id, s, v)' = Stake(id, s, v)
      /\ \A v \in Users : Stake(id, t, v)' = Stake(id, t, v)
  BY <1>1, VoteRecorded
<1>4. Staked(id, s)' = Staked(id, s) + n /\ Staked(id, t)' = Staked(id, t)
  <2>1. Staked(id, s) \in Nat /\ Staked(id, t) \in Nat
    BY <1>2, TotalsAreNat
  <2>2. Staked(id, s)' = Staked(id, s) + (Stake(id, s, u)' - Stake(id, s, u))
    BY <1>3, StakedUpdate
  <2>3. Staked(id, t)' = Staked(id, t) + (Stake(id, t, u)' - Stake(id, t, u))
    BY <1>2, <1>3, StakedUpdate
  <2>4. Stake(id, s, u) \in Nat /\ Stake(id, t, u) \in Nat
    BY <1>2, TicketTermsAreNat DEF TicketTermsInNat
  <2> QED BY <1>3, <2>1, <2>2, <2>3, <2>4
<1>5. ~IsResultSet(id)' /\ IsStarted(id)'
      /\ \A z \in Sides : ~HasLost(id, z)' /\ ~HasWon(id, z)'
                          /\ ~HasLost(id, z) /\ ~HasWon(id, z)
  BY <1>1, <1>3, OtherIsSide, NotNone
     DEF IsResultSet, IsStarted, HasLost, HasWon
<1>6. /\ Held(id, s)' = Held(id, s) + n /\ Held(id, t)' = Held(id, t)
      /\ SolAddsUp(id)'
      /\ TokensInOwnVault(id)'
  <2>1. /\ lamports[id] \in Nat
        /\ \A z \in Sides : solHeld[id][z] \in Int
        /\ \A z \in Sides : VaultAmount(id, z) \in Nat
    BY AccountTypes DEF TypeOK, VaultAmount, TokenAccount, HasVault
  <2>2. CASE VoteWithTokens(u, id, s, n)
    <3>1. /\ VaultReady(id, s)' /\ VaultAmount(id, s)' = VaultAmount(id, s) + n
      <4>1. vault[id][s] \in TokenAccount /\ VaultReady(id, s)
        BY <2>2, AccountTypes DEF VoteWithTokens, TakeTokens, VaultReady
      <4>2. vault'[id][s] = [vault[id][s] EXCEPT !.amount = @ + n]
        BY <2>2 DEF VoteWithTokens, TakeTokens, TypeOK
      <4>3. vault'[id][s] \in TokenAccount
        BY <4>1, <4>2 DEF TokenAccount
      <4> QED BY <1>3, <4>1, <4>2, <4>3, NotNone
              DEF VaultReady, HasVault, VaultAmount, TokenAccount
    <3>2. vault'[id][t] = vault[id][t]
      BY <1>2, <2>2 DEF VoteWithTokens, TakeTokens, TypeOK
    <3>3. /\ VaultAmount(id, t)' = VaultAmount(id, t)
          /\ VaultReady(id, t)' <=> VaultReady(id, t)
      BY <1>3, <3>2 DEF VaultAmount, VaultReady, HasVault
    <3>4. solHeld' = solHeld /\ lamports' = lamports
      BY <2>2 DEF VoteWithTokens, TakeTokens
    <3>5. Held(id, s)' = Held(id, s) + n /\ Held(id, t)' = Held(id, t)
      BY <1>2, <2>1, <3>1, <3>3, <3>4 DEF Held
    <3>6. SolAddsUp(id)'
      BY <3>4 DEF EventInv, SolAddsUp
    <3>7. TokensInOwnVault(id)'
      BY <1>1, <1>2, <1>3, <3>1, <3>3, <3>4 DEF EventInv, TokensInOwnVault
    <3> QED BY <3>5, <3>6, <3>7
  <2>3. CASE VoteWithLamports(u, id, s, n)
    <3>1. vault' = vault
      BY <2>3 DEF VoteWithLamports, TakeLamports
    <3>2. /\ solHeld'[id][s] = solHeld[id][s] + n
          /\ solHeld'[id][t] = solHeld[id][t]
          /\ lamports'[id] = lamports[id] + n
      BY <1>2, <2>3 DEF VoteWithLamports, TakeLamports, TypeOK
    <3>3. \A z \in Sides : /\ VaultAmount(id, z)' = VaultAmount(id, z)
                           /\ VaultReady(id, z)' <=> VaultReady(id, z)
      BY <1>3, <3>1 DEF VaultAmount, VaultReady, HasVault
    <3>4. Held(id, s)' = Held(id, s) + n /\ Held(id, t)' = Held(id, t)
      BY <1>2, <2>1, <3>2, <3>3 DEF Held
    <3>5. SolAddsUp(id)'
      BY <2>1, <3>2 DEF EventInv, SolAddsUp, Sides, Other
    <3>6. TokensInOwnVault(id)'
      BY <1>1, <1>2, <1>3, <2>1, <3>2, <3>3 DEF EventInv, TokensInOwnVault
    <3> QED BY <3>4, <3>5, <3>6
  <2> QED BY <2>2, <2>3
<1>7. DatesInOrder(id)'
  BY <1>1, <1>3, <1>5 DEF EventInv, DatesInOrder
<1>8. MarkedOnlyIfWon(id)'
  BY <1>1, <1>5, VoteKeepsMarks DEF EventInv, MarkedOnlyIfWon
<1>9. ASSUME NEW z \in Sides
      PROVE  PoolIsTicketSum(id, z)' /\ SideHoldsItsStakes(id, z)'
  <2>1. PoolIsTicketSum(id, z) /\ SideHoldsItsStakes(id, z)
    BY <1>1 DEF EventInv
  <2>2. event[id].pool[z] = Staked(id, z) /\ Held(id, z) = Staked(id, z)
    BY <1>1, <1>5, <2>1 DEF PoolIsTicketSum, SideHoldsItsStakes
  <2>3. event'[id].pool[z] = Staked(id, z)' /\ Held(id, z)' = Staked(id, z)'
    BY <1>2, <1>3, <1>4, <1>6, <2>2
  <2> QED BY <1>5, <2>3 DEF PoolIsTicketSum, SideHoldsItsStakes
<1> QED BY <1>3, <1>5, <1>6, <1>7, <1>8, <1>9 DEF EventInv

(***************************************************************************)
(* Deploying finds nothing held under the id, even after an earlier event  *)
(* with that id was closed and left pools behind.                          *)
(***************************************************************************)
LEMMA EventInvDeploy ==
    ASSUME TypeOK, TypeOK', NEW u \in Users, NEW id \in Ids,
           NEW start \in Dates, NEW end \in Dates,
           NEW mint \in [Sides -> Assets], NEW burning \in BOOLEAN,
           EventInv(id), DeployEvent(u, id, start, end, mint, burning)
    PROVE  EventInv(id)'
<1> DEFINE e == [creator |-> u, start_date |-> start, end_date |-> end,
                 pool |-> [s \in Sides |-> 0], mint |-> mint,
                 result |-> None, burning |-> burning]
<1>1. /\ ticket' = ticket /\ vault' = vault /\ lamports' = lamports
      /\ solHeld' = solHeld /\ event'[id] = e /\ start < end /\ ~Deployed(id)
  BY DEF DeployEvent, NewEvent, TypeOK
<1>2. NothingHeld(id)
  BY <1>1 DEF EventInv
<1>3. e \in PredictionEvent
  BY MaxU64Assumption DEF PredictionEvent
<1>4. Deployed(id)'
  BY <1>1, <1>3, NotNone DEF Deployed
<1>5. /\ ~IsResultSet(id)' /\ \A s \in Sides : ~HasLost(id, s)' /\ ~HasWon(id, s)'
      /\ \A s \in Sides : event'[id].pool[s] = 0
  BY <1>1, OtherIsSide, NotNone DEF IsResultSet, HasLost, HasWon
<1>6. \A s \in Sides : /\ VaultAmount(id, s)' = 0 /\ Held(id, s)' = 0
                       /\ solHeld'[id][s] = 0
                       /\ \A v \in Users : ~HasTicket(id, s, v)'
  BY <1>1, <1>2 DEF NothingHeld, VaultAmount, Held, HasTicket, TypeOK
<1>7. \A s \in Sides : Staked(id, s)' = 0
  <2> TAKE s \in Sides
  <2> DEFINE g == [v \in Users |-> Stake(id, s, v)']
  <2>1. \A v \in Users : g[v] = 0
    BY <1>6 DEF Stake
  <2>2. Staked(id, s)' = SumFunctionOnSet(g, Users)
    BY DEF Staked, Over
  <2> HIDE DEF g
  <2> QED BY <2>1, <2>2, SumOfZeros, SetsAssumption
<1>8. NothingHeld(id)'
  BY <1>1, <1>2, <1>6 DEF NothingHeld
<1>9. DatesInOrder(id)'
  BY <1>1, <1>5 DEF DatesInOrder
<1>10. MarkedOnlyIfWon(id)'
  BY <1>6 DEF MarkedOnlyIfWon
<1>11. SolAddsUp(id)'
  BY <1>1 DEF EventInv, SolAddsUp
<1>12. TokensInOwnVault(id)'
  BY <1>6 DEF TokensInOwnVault
<1>13. \A s \in Sides : PoolIsTicketSum(id, s)' /\ SideHoldsItsStakes(id, s)'
  BY <1>5, <1>6, <1>7 DEF PoolIsTicketSum, SideHoldsItsStakes
<1> QED BY <1>8, <1>9, <1>10, <1>11, <1>12, <1>13 DEF EventInv

(* A new pool is empty, so no amount changes. *)
LEMMA EventInvCreateEventTokenAccount ==
    ASSUME TypeOK, TypeOK', NEW id \in Ids, NEW s \in Sides, NEW m \in Mints,
           EventInv(id), CreateEventTokenAccount(id, s, m)
    PROVE  EventInv(id)'
<1>1. /\ event' = event /\ ticket' = ticket /\ lamports' = lamports
      /\ solHeld' = solHeld /\ clock' = clock /\ vault[id][s] = None
  BY DEF CreateEventTokenAccount
<1>2. vault'[id][s] = [mint |-> m, amount |-> 0]
  BY DEF CreateEventTokenAccount, TypeOK
<1>3. \A z \in Sides \ {s} : vault'[id][z] = vault[id][z]
  BY DEF CreateEventTokenAccount, TypeOK
<1>4. \A z \in Sides : /\ VaultAmount(id, z)' = VaultAmount(id, z)
                       /\ Held(id, z)' = Held(id, z)
                       /\ VaultAmount(id, z) > 0 =>
                            (VaultReady(id, z)' <=> VaultReady(id, z))
  BY <1>1, <1>2, <1>3 DEF VaultAmount, Held, VaultReady, HasVault
<1>5. \A z \in Sides : /\ Staked(id, z)' = Staked(id, z)
                       /\ StillToWithdraw(id, z)' = StillToWithdraw(id, z)
                       /\ Deployed(id) => ClaimedBy(id, z)' = ClaimedBy(id, z)
  BY <1>1, TotalsFrame
<1>6. DatesInOrder(id)' /\ MarkedOnlyIfWon(id)' /\ SolAddsUp(id)'
  BY <1>1 DEF EventInv, DatesInOrder, Deployed, IsResultSet, IsFinished,
     MarkedOnlyIfWon, HasTicket, HasWon, SolAddsUp
<1>7. TokensInOwnVault(id)'
  BY <1>1, <1>4 DEF EventInv, TokensInOwnVault, Deployed
<1>8. ((Deployed(id) => ~IsStarted(id)) => NothingHeld(id))'
  BY <1>1, <1>4 DEF EventInv, NothingHeld, Deployed, IsStarted, HasTicket
<1>9. ASSUME Deployed(id)', NEW z \in Sides
      PROVE  PoolIsTicketSum(id, z)' /\ SideHoldsItsStakes(id, z)'
  <2>1. Deployed(id) /\ Other(z) \in Sides
    BY <1>1, <1>9, OtherIsSide DEF Deployed
  <2>2. PoolIsTicketSum(id, z) /\ SideHoldsItsStakes(id, z)
    BY <2>1 DEF EventInv
  <2>3. PoolIsTicketSum(id, z)'
    BY <1>1, <1>5, <2>2 DEF PoolIsTicketSum, HasLost
  <2>4. SideHoldsItsStakes(id, z)'
    BY <1>1, <1>4, <1>5, <2>1, <2>2
       DEF SideHoldsItsStakes, HasLost, HasWon, IsResultSet
  <2> QED BY <2>3, <2>4
<1> QED BY <1>6, <1>7, <1>8, <1>9 DEF EventInv

(* An event that can be closed has not started, and holds nothing. *)
LEMMA EventInvClose ==
    ASSUME TypeOK, TypeOK', NEW u \in Users, NEW id \in Ids,
           NEW pools \in SUBSET Sides, EventInv(id), CloseEvent(u, id, pools)
    PROVE  EventInv(id)'
<1>1. NothingHeld(id)
  BY DEF CloseEvent, MayClose, EventInv
<1>2. /\ ticket' = ticket /\ lamports'[id] = 0 /\ event'[id] = None
      /\ \A s \in Sides : solHeld'[id][s] = 0
      /\ \A s \in Sides : vault'[id][s] = None \/ vault'[id][s] = vault[id][s]
  BY DEF CloseEvent, TypeOK
<1>3. ~Deployed(id)'
  BY <1>2 DEF Deployed
<1>4. \A s \in Sides : /\ VaultAmount(id, s)' = 0 /\ Held(id, s)' = 0
                       /\ \A v \in Users : ~HasTicket(id, s, v)'
  BY <1>1, <1>2 DEF NothingHeld, VaultAmount, Held, HasTicket
<1>5. NothingHeld(id)'
  BY <1>2, <1>4 DEF NothingHeld
<1>6. DatesInOrder(id)' /\ MarkedOnlyIfWon(id)' /\ TokensInOwnVault(id)'
  BY <1>3, <1>4 DEF DatesInOrder, MarkedOnlyIfWon, TokensInOwnVault
<1>7. SolAddsUp(id)'
  BY <1>2 DEF SolAddsUp, Sides
<1> QED BY <1>3, <1>5, <1>6, <1>7 DEF EventInv

(* Settled events are past their end, hence started. *)
LEMMA SettledIsStarted ==
    ASSUME TypeOK, NEW id \in Ids, Deployed(id), DatesInOrder(id), IsFinished(id)
    PROVE  IsStarted(id)
<1>1. /\ event[id].start_date \in Nat /\ event[id].end_date \in Nat
      /\ clock \in Nat
  BY BoundsAssumption DEF TypeOK, PredictionEvent, Deployed
<1> QED BY <1>1 DEF DatesInOrder, IsFinished, IsStarted

(* Before the result no ticket is marked: everything is still to withdraw. *)
LEMMA NothingPaidBeforeTheResult ==
    ASSUME TypeOK, NEW id \in Ids, NEW s \in Sides, Deployed(id),
           MarkedOnlyIfWon(id), ~IsResultSet(id)
    PROVE  /\ StillToWithdraw(id, s) = Staked(id, s)
           /\ \A u \in Users : HasTicket(id, s, u) =>
                ~ticket[id][s][u].claimed /\ ~ticket[id][s][u].withdrawn
<1>1. \A u \in Users : HasTicket(id, s, u) =>
        ~ticket[id][s][u].claimed /\ ~ticket[id][s][u].withdrawn
  BY NotNone DEF MarkedOnlyIfWon, HasWon, IsResultSet
<1>2. StillToWithdraw(id, s) = Staked(id, s)
  <2> DEFINE f == [u \in Users |-> Stake(id, s, u)]
             g == [u \in Users |-> Unwithdrawn(id, s, u)]
  <2>1. \A u \in Users : f[u] \in Nat /\ g[u] = f[u]
    BY <1>1, TicketTermsAreNat DEF TicketTermsInNat, Unwithdrawn, Stake
  <2>2. Staked(id, s) = Over(f) /\ StillToWithdraw(id, s) = Over(g)
    BY DEF Staked, StillToWithdraw
  <2> HIDE DEF f, g
  <2> QED BY <2>1, <2>2, OverSame
<1> QED BY <1>1, <1>2

(* What setting the result does to the event's record. *)
LEMMA ResultRecorded ==
    ASSUME TypeOK, NEW u \in Users, NEW id \in Ids, NEW r \in Sides,
           FinishEvent(u, id, r)
    PROVE  /\ Deployed(id)'
           /\ event'[id].start_date = event[id].start_date
           /\ event'[id].end_date = event[id].end_date
           /\ event'[id].mint = event[id].mint
           /\ event'[id].burning = event[id].burning
           /\ event'[id].result = r
           /\ event'[id].pool[r] = event[id].pool[r]
           /\ event'[id].pool[Other(r)]
                = event[id].pool[Other(r)] - 2 * FeeOf(event[id].pool[Other(r)])
<1> DEFINE l == Other(r)
           e == [event[id] EXCEPT !.result = r,
                                  !.pool[l] = @ - 2 * FeeOf(@)]
<1>1. l \in Sides /\ l # r /\ event[id] \in PredictionEvent
  BY OtherIsSide, AccountTypes DEF FinishEvent, MayFinish
<1>2. event'[id] = e
  BY DEF FinishEvent, TypeOK
<1>3. /\ e.start_date = event[id].start_date
      /\ e.end_date = event[id].end_date
      /\ e.mint = event[id].mint
      /\ e.burning = event[id].burning
      /\ e.result = r
      /\ e.pool[r] = event[id].pool[r]
      /\ e.pool[l] = event[id].pool[l] - 2 * FeeOf(event[id].pool[l])
  BY <1>1 DEF PredictionEvent
<1>4. Deployed(id)'
  <2>1. TypeOK'
    BY TypeFinishEvent
  <2>2. event[id].pool[l] \in 0..MaxU64 /\ event[id].pool[l] \in Nat
    BY <1>1, MaxU64Assumption DEF PredictionEvent
  <2>3. event[id].pool[l] - 2 * FeeOf(event[id].pool[l]) \in 0..MaxU64
    <3>1. /\ FeeOf(event[id].pool[l]) \in Nat
          /\ 2 * FeeOf(event[id].pool[l]) <= event[id].pool[l]
      BY <2>2, FeesFitThePool
    <3> QED BY <2>2, <3>1, MaxU64Assumption
  <2>4. e \in PredictionEvent
    BY <1>1, <2>3 DEF PredictionEvent
  <2> QED BY <1>2, <2>4, NotNone DEF Deployed
<1> QED BY <1>2, <1>3, <1>4

(* Fees leave only the losing side, and burning empties its vault. *)
LEMMA FeesTaken ==
    ASSUME TypeOK, NEW u \in Users, NEW id \in Ids, NEW r \in Sides,
           EventInv(id), FinishEvent(u, id, r)
    PROVE  LET l == Other(r)
               feeAmount == FeeOf(event[id].pool[l])
           IN  /\ Held(id, r)' = Held(id, r)
               /\ IF event[id].burning /\ event[id].mint[l] # Native
                  THEN VaultAmount(id, l)' = 0
                  ELSE Held(id, l)' = Held(id, l) - 2 * feeAmount
               /\ SolAddsUp(id)'
               /\ TokensInOwnVault(id)'
<1> DEFINE l == Other(r)
           feeAmount == FeeOf(event[id].pool[l])
<1>1. l \in Sides /\ l # r /\ Other(l) = r /\ \A z \in Sides : z = l \/ z = r
  BY DEF Sides, Other
<1>2. Deployed(id) /\ ~IsResultSet(id)
  BY DEF FinishEvent, MayFinish
<1>3. /\ Deployed(id)'
      /\ event'[id].mint = event[id].mint
      /\ event'[id].burning = event[id].burning
  BY ResultRecorded
<1>4. event[id].pool[l] \in Nat /\ feeAmount \in Nat
  <2>1. event[id].pool[l] \in Nat
    BY <1>1, <1>2, PoolsAreNat
  <2> QED BY <2>1, FeesFitThePool
<1>5. /\ \A z \in Sides : solHeld[id][z] \in Int
      /\ \A z \in Sides : VaultAmount(id, z) \in Nat
      /\ lamports[id] \in Nat
  BY AccountTypes DEF TypeOK, VaultAmount, TokenAccount, HasVault
<1>6. CASE TakeFeesInTokens(u, id, l)
  <2>1. vault[id][l] \in TokenAccount /\ VaultReady(id, l)
    BY <1>1, <1>6, AccountTypes DEF TakeFeesInTokens, VaultReady
  <2>2. vault'[id][l] = [vault[id][l] EXCEPT !.amount =
                           LeftAfterFees(id, l) - BurnedOf(id, l)]
    BY <1>1, <1>6 DEF TakeFeesInTokens, TypeOK
  <2>3. LeftAfterFees(id, l) = VaultAmount(id, l) - 2 * feeAmount
    BY <2>1, NotNone DEF LeftAfterFees, VaultAmount
  <2>4. vault'[id][l].amount = LeftAfterFees(id, l) - BurnedOf(id, l)
    BY <2>1, <2>2 DEF TokenAccount
  <2>5. vault'[id][l].mint = vault[id][l].mint
    BY <2>1, <2>2 DEF TokenAccount
  <2>6. vault'[id][l] # None
    <3>1. LeftAfterFees(id, l) \in Nat
      BY <1>1, <1>4, <1>5, <1>6, <2>3 DEF TakeFeesInTokens
    <3>2. LeftAfterFees(id, l) - BurnedOf(id, l) \in Nat
      BY <3>1 DEF BurnedOf
    <3>3. vault'[id][l] \in TokenAccount
      BY <2>1, <2>2, <3>2 DEF TokenAccount
    <3> QED BY <3>3, NotNone
  <2>7. /\ VaultReady(id, l)'
        /\ VaultAmount(id, l)' = LeftAfterFees(id, l) - BurnedOf(id, l)
    BY <1>3, <2>1, <2>4, <2>5, <2>6 DEF VaultReady, HasVault, VaultAmount
  <2>8. vault'[id][r] = vault[id][r]
    BY <1>1, <1>6 DEF TakeFeesInTokens, TypeOK
  <2>9. /\ VaultAmount(id, r)' = VaultAmount(id, r)
        /\ VaultReady(id, r)' <=> VaultReady(id, r)
    BY <1>3, <2>8 DEF VaultAmount, VaultReady, HasVault
  <2>10. solHeld' = solHeld /\ lamports' = lamports /\ event[id].mint[l] # Native
    BY <1>6 DEF TakeFeesInTokens
  <2>11. Held(id, r)' = Held(id, r)
    BY <2>9, <2>10 DEF Held
  <2>12. CASE event[id].burning
    <3>1. VaultAmount(id, l)' = 0
      BY <1>1, <1>4, <1>5, <2>3, <2>7, <2>12 DEF BurnedOf
    <3>2. SolAddsUp(id)'
      BY <2>10 DEF EventInv, SolAddsUp
    <3>3. TokensInOwnVault(id)'
      BY <1>1, <1>2, <1>3, <2>7, <2>9, <2>10 DEF EventInv, TokensInOwnVault
    <3> QED BY <2>10, <2>11, <2>12, <3>1, <3>2, <3>3
  <2>13. CASE ~event[id].burning
    <3>1. Held(id, l)' = Held(id, l) - 2 * feeAmount
      <4>1. VaultAmount(id, l)' = VaultAmount(id, l) - 2 * feeAmount
        BY <1>1, <1>4, <1>5, <2>3, <2>7, <2>13 DEF BurnedOf
      <4> QED BY <1>1, <1>4, <1>5, <2>10, <4>1 DEF Held
    <3>2. SolAddsUp(id)'
      BY <2>10 DEF EventInv, SolAddsUp
    <3>3. TokensInOwnVault(id)'
      BY <1>1, <1>2, <1>3, <2>7, <2>9, <2>10 DEF EventInv, TokensInOwnVault
    <3> QED BY <2>11, <2>13, <3>1, <3>2, <3>3
  <2> QED BY <2>12, <2>13
<1>7. CASE TakeFeesInLamports(u, id, l)
  <2>1. vault' = vault /\ event[id].mint[l] = Native
    BY <1>7 DEF TakeFeesInLamports
  <2>2. /\ solHeld'[id][l] = solHeld[id][l] - 2 * feeAmount
        /\ solHeld'[id][r] = solHeld[id][r]
        /\ lamports'[id] = lamports[id] - 2 * feeAmount
    BY <1>1, <1>7 DEF TakeFeesInLamports, TypeOK
  <2>3. \A z \in Sides : /\ VaultAmount(id, z)' = VaultAmount(id, z)
                         /\ VaultReady(id, z)' <=> VaultReady(id, z)
    BY <1>3, <2>1 DEF VaultAmount, VaultReady, HasVault
  <2>4. /\ Held(id, r)' = Held(id, r)
        /\ Held(id, l)' = Held(id, l) - 2 * feeAmount
    BY <1>1, <1>4, <1>5, <2>2, <2>3 DEF Held
  <2>5. SolAddsUp(id)'
    BY <1>4, <1>5, <2>2 DEF EventInv, SolAddsUp, Sides, Other
  <2>6. TokensInOwnVault(id)'
    BY <1>1, <1>2, <1>3, <2>1, <2>2, <2>3 DEF EventInv, TokensInOwnVault
  <2> QED BY <2>1, <2>4, <2>5, <2>6
<1> QED BY <1>6, <1>7 DEF FinishEvent

LEMMA EventInvFinish ==
    ASSUME TypeOK, TypeOK', NEW u \in Users, NEW id \in Ids, NEW r \in Sides,
           EventInv(id), FinishEvent(u, id, r)
    PROVE  EventInv(id)'
<1> DEFINE l == Other(r)
           feeAmount == FeeOf(event[id].pool[l])
<1>1. l \in Sides /\ l # r /\ Other(l) = r /\ \A z \in Sides : z = l \/ z = r
  BY DEF Sides, Other
<1>2. /\ Deployed(id) /\ IsFinished(id) /\ ~IsResultSet(id)
      /\ clock' = clock /\ ticket' = ticket
  BY DEF FinishEvent, MayFinish
<1>3. /\ Deployed(id)'
      /\ event'[id].start_date = event[id].start_date
      /\ event'[id].end_date = event[id].end_date
      /\ event'[id].mint = event[id].mint
      /\ event'[id].burning = event[id].burning
      /\ event'[id].result = r
      /\ event'[id].pool[r] = event[id].pool[r]
      /\ event'[id].pool[l] = event[id].pool[l] - 2 * feeAmount
  BY ResultRecorded
<1>4. event[id].pool[l] \in Nat /\ feeAmount \in Nat
  <2>1. event[id].pool[l] \in Nat
    BY <1>1, <1>2, PoolsAreNat
  <2> QED BY <2>1, FeesFitThePool
<1>5. /\ \A z \in Sides : ~HasLost(id, z) /\ ~HasWon(id, z)
      /\ HasWon(id, r)' /\ HasLost(id, l)' /\ ~HasLost(id, r)' /\ ~HasWon(id, l)'
      /\ IsResultSet(id)'
  BY <1>1, <1>2, <1>3, OtherIsSide, NotNone DEF HasLost, HasWon, IsResultSet
<1>6. \A z \in Sides : /\ event[id].pool[z] = Staked(id, z)
                       /\ Held(id, z) = Staked(id, z)
                       /\ Staked(id, z) \in Nat
  BY <1>2, <1>5, TotalsAreNat
     DEF EventInv, PoolIsTicketSum, SideHoldsItsStakes
<1>7. \A z \in Sides : /\ Staked(id, z)' = Staked(id, z)
                       /\ StillToWithdraw(id, z)' = Staked(id, z)
  <2>1. ASSUME NEW z \in Sides PROVE Staked(id, z)' = Staked(id, z)
    BY <1>2 DEF Staked, Stake, HasTicket
  <2>2. ASSUME NEW z \in Sides
        PROVE  StillToWithdraw(id, z)' = StillToWithdraw(id, z)
    BY <1>2 DEF StillToWithdraw, Unwithdrawn, HasTicket
  <2>3. \A z \in Sides : StillToWithdraw(id, z) = Staked(id, z)
    BY <1>2, NothingPaidBeforeTheResult DEF EventInv
  <2> QED BY <2>1, <2>2, <2>3
<1>8. ClaimedBy(id, r)' = 0
  <2> DEFINE g == [v \in Users |-> RewardIf(id, r, v, TRUE)']
  <2>1. \A v \in Users : HasTicket(id, r, v) => ~ticket[id][r][v].claimed
    BY <1>2, NothingPaidBeforeTheResult DEF EventInv
  <2>2. \A v \in Users : g[v] = 0
    BY <1>2, <2>1 DEF RewardIf, HasTicket
  <2>3. ClaimedBy(id, r)' = SumFunctionOnSet(g, Users)
    BY DEF ClaimedBy, Over
  <2> HIDE DEF g
  <2> QED BY <2>2, <2>3, SumOfZeros, SetsAssumption
<1>9. /\ Held(id, r)' = Held(id, r)
      /\ IF event[id].burning /\ event[id].mint[l] # Native
         THEN VaultAmount(id, l)' = 0
         ELSE Held(id, l)' = Held(id, l) - 2 * feeAmount
      /\ SolAddsUp(id)'
      /\ TokensInOwnVault(id)'
  BY FeesTaken
<1>10. DatesInOrder(id)' /\ IsStarted(id)'
  <2>1. IsStarted(id) /\ DatesInOrder(id)
    BY <1>2, SettledIsStarted DEF EventInv
  <2> QED BY <1>2, <1>3, <2>1 DEF DatesInOrder, IsFinished, IsStarted
<1>11. MarkedOnlyIfWon(id)'
  <2>1. \A z \in Sides, v \in Users : HasTicket(id, z, v) =>
          ~ticket[id][z][v].claimed /\ ~ticket[id][z][v].withdrawn
    BY <1>2, NothingPaidBeforeTheResult DEF EventInv
  <2> QED BY <1>2, <2>1 DEF MarkedOnlyIfWon, HasTicket
<1>12. PoolIsTicketSum(id, r)' /\ SideHoldsItsStakes(id, r)'
  BY <1>3, <1>5, <1>6, <1>7, <1>9 DEF PoolIsTicketSum, SideHoldsItsStakes
<1>13. PoolIsTicketSum(id, l)'
  BY <1>1, <1>3, <1>5, <1>6, <1>7 DEF PoolIsTicketSum
<1>14. SideHoldsItsStakes(id, l)'
  <2>1. CASE event[id].burning
    BY <1>1, <1>3, <1>5, <1>6, <1>9, <2>1 DEF SideHoldsItsStakes
  <2>2. CASE ~event[id].burning
    <3>1. Held(id, l)' = event'[id].pool[l]
      BY <1>1, <1>3, <1>6, <1>9, <2>2
    <3>2. event'[id].pool[l] - ClaimedBy(id, Other(l))' = event'[id].pool[l]
      BY <1>1, <1>3, <1>4, <1>8
    <3> QED BY <1>3, <1>5, <2>2, <3>1, <3>2 DEF SideHoldsItsStakes
  <2> QED BY <2>1, <2>2
<1> QED BY <1>1, <1>3, <1>9, <1>10, <1>11, <1>12, <1>13, <1>14 DEF EventInv

(* A payment of n out of side s takes n from what that side holds. *)
LEMMA PaidFromOneSide ==
    ASSUME TypeOK, NEW u \in Users, NEW id \in Ids, NEW s \in Sides,
           NEW n \in Nat, EventInv(id), Deployed(id), event' = event,
           PayFrom(u, id, s, n)
    PROVE  /\ Held(id, s)' = Held(id, s) - n
           /\ Held(id, Other(s))' = Held(id, Other(s))
           /\ VaultAmount(id, Other(s))' = VaultAmount(id, Other(s))
           /\ SolAddsUp(id)'
           /\ TokensInOwnVault(id)'
<1> DEFINE t == Other(s)
<1>1. t \in Sides /\ t # s /\ \A z \in Sides : z = s \/ z = t
  BY DEF Sides, Other
<1>2. /\ \A z \in Sides : solHeld[id][z] \in Int
      /\ \A z \in Sides : VaultAmount(id, z) \in Nat
      /\ lamports[id] \in Nat
  BY AccountTypes DEF TypeOK, VaultAmount, TokenAccount, HasVault
<1>3. CASE PayTokens(u, id, s, n)
  <2>1. vault[id][s] \in TokenAccount /\ VaultReady(id, s)
    BY <1>3, AccountTypes DEF PayTokens, VaultReady
  <2>2. vault'[id][s] = [vault[id][s] EXCEPT !.amount = @ - n]
    BY <1>3 DEF PayTokens, TypeOK
  <2>3. vault'[id][s] \in TokenAccount
    BY <1>3, <2>1, <2>2 DEF TokenAccount, PayTokens
  <2>4. VaultReady(id, s)' /\ VaultAmount(id, s)' = VaultAmount(id, s) - n
    BY <2>1, <2>2, <2>3, NotNone
       DEF VaultReady, HasVault, VaultAmount, TokenAccount
  <2>5. vault'[id][t] = vault[id][t]
    BY <1>1, <1>3 DEF PayTokens, TypeOK
  <2>6. /\ VaultAmount(id, t)' = VaultAmount(id, t)
        /\ VaultReady(id, t)' <=> VaultReady(id, t)
    BY <2>5 DEF VaultAmount, VaultReady, HasVault
  <2>7. solHeld' = solHeld /\ lamports' = lamports
    BY <1>3 DEF PayTokens
  <2>8. Held(id, s)' = Held(id, s) - n /\ Held(id, t)' = Held(id, t)
    BY <1>1, <1>2, <2>4, <2>6, <2>7 DEF Held
  <2>9. SolAddsUp(id)'
    BY <2>7 DEF EventInv, SolAddsUp
  <2>10. TokensInOwnVault(id)'
    BY <1>1, <2>4, <2>6, <2>7 DEF EventInv, TokensInOwnVault, Deployed
  <2> QED BY <2>6, <2>8, <2>9, <2>10
<1>4. CASE PayLamports(u, id, s, n)
  <2>1. vault' = vault /\ event[id].mint[s] = Native
    BY <1>4 DEF PayLamports
  <2>2. /\ solHeld'[id][s] = solHeld[id][s] - n
        /\ solHeld'[id][t] = solHeld[id][t]
        /\ lamports'[id] = lamports[id] - n
    BY <1>1, <1>4 DEF PayLamports, TypeOK
  <2>3. \A z \in Sides : /\ VaultAmount(id, z)' = VaultAmount(id, z)
                         /\ VaultReady(id, z)' <=> VaultReady(id, z)
    BY <2>1 DEF VaultAmount, VaultReady, HasVault
  <2>4. Held(id, s)' = Held(id, s) - n /\ Held(id, t)' = Held(id, t)
    BY <1>1, <1>2, <2>2, <2>3 DEF Held
  <2>5. SolAddsUp(id)'
    BY <1>2, <2>2 DEF EventInv, SolAddsUp, Sides, Other
  <2>6. TokensInOwnVault(id)'
    BY <1>1, <2>1, <2>2, <2>3 DEF EventInv, TokensInOwnVault, Deployed
  <2> QED BY <1>1, <2>3, <2>4, <2>5, <2>6
<1> QED BY <1>3, <1>4 DEF PayFrom

(* What marking u's winning ticket changes. *)
LEMMA TicketMarked ==
    ASSUME TypeOK, TypeOK', NEW id \in Ids, NEW w \in Sides, NEW u \in Users,
           Deployed(id), HasTicket(id, w, u), event' = event,
           ~ticket[id][w][u].claimed \/ ~ticket[id][w][u].withdrawn,
           \/ ticket' = [ticket EXCEPT ![id][w][u].claimed = TRUE]
           \/ ticket' = [ticket EXCEPT ![id][w][u].withdrawn = TRUE]
    PROVE  /\ HasTicket(id, w, u)'
           /\ ticket'[id][w][u].amount = ticket[id][w][u].amount
           /\ \A z \in Sides, v \in Users :
                 (z # w \/ v # u) => ticket'[id][z][v] = ticket[id][z][v]
           /\ \A z \in Sides : Staked(id, z)' = Staked(id, z)
<1>1. ticket[id][w][u] \in Ticket
  BY AccountTypes
<1>2. /\ ticket'[id][w][u] \in Ticket
      /\ ticket'[id][w][u].amount = ticket[id][w][u].amount
  <2>1. \/ ticket'[id][w][u] = [ticket[id][w][u] EXCEPT !.claimed = TRUE]
        \/ ticket'[id][w][u] = [ticket[id][w][u] EXCEPT !.withdrawn = TRUE]
    <3>1. CASE ticket' = [ticket EXCEPT ![id][w][u].claimed = TRUE]
      BY <3>1 DEF TypeOK
    <3>2. CASE ticket' = [ticket EXCEPT ![id][w][u].withdrawn = TRUE]
      BY <3>2 DEF TypeOK
    <3> QED BY <3>1, <3>2
  <2> QED BY <1>1, <2>1 DEF Ticket
<1>3. HasTicket(id, w, u)'
  BY <1>2, NotNone DEF HasTicket
<1>4. \A z \in Sides, v \in Users :
        (z # w \/ v # u) => ticket'[id][z][v] = ticket[id][z][v]
  BY DEF TypeOK
<1>5. \A z \in Sides, v \in Users : Stake(id, z, v)' = Stake(id, z, v)
  BY <1>2, <1>3, <1>4 DEF Stake, HasTicket
<1>6. ASSUME NEW z \in Sides PROVE Staked(id, z)' = Staked(id, z)
  <2>1. Staked(id, z)' = Staked(id, z) + (Stake(id, z, u)' - Stake(id, z, u))
    BY <1>5, StakedUpdate
  <2>2. Staked(id, z) \in Nat /\ Stake(id, z, u) \in Nat
    BY TotalsAreNat, TicketTermsAreNat DEF TicketTermsInNat
  <2> QED BY <1>5, <2>1, <2>2
<1> QED BY <1>2, <1>3, <1>4, <1>6

LEMMA EventInvClaim ==
    ASSUME TypeOK, TypeOK', NEW u \in Users, NEW id \in Ids, NEW w \in Sides,
           EventInv(id), ClaimRewards(u, id, w)
    PROVE  EventInv(id)'
<1> DEFINE l == Other(w)
           n == Reward(u, id, w)
<1>1. l \in Sides /\ l # w /\ Other(l) = w /\ \A z \in Sides : z = l \/ z = w
  BY DEF Sides, Other
<1>2. /\ Deployed(id) /\ ~event[id].burning /\ event[id].result = w
      /\ HasTicket(id, w, u) /\ ~ticket[id][w][u].claimed
      /\ event[id].pool[w] > 0 /\ PayFrom(u, id, l, n)
      /\ event' = event /\ clock' = clock
      /\ ticket' = [ticket EXCEPT ![id][w][u].claimed = TRUE]
  BY DEF ClaimRewards, MayClaim, RewardFits
<1>3. n \in Nat
  BY <1>2, RewardOfTicketIsNat
<1>4. /\ Held(id, l)' = Held(id, l) - n
      /\ Held(id, w)' = Held(id, w)
      /\ SolAddsUp(id)'
      /\ TokensInOwnVault(id)'
  BY <1>1, <1>2, <1>3, PaidFromOneSide
<1>5. /\ HasTicket(id, w, u)'
      /\ ticket'[id][w][u].amount = ticket[id][w][u].amount
      /\ \A z \in Sides, v \in Users :
            (z # w \/ v # u) => ticket'[id][z][v] = ticket[id][z][v]
      /\ \A z \in Sides : Staked(id, z)' = Staked(id, z)
  BY <1>2, TicketMarked
<1>6. /\ ticket'[id][w][u].claimed
      /\ ticket'[id][w][u].withdrawn = ticket[id][w][u].withdrawn
  <2>1. ticket[id][w][u] \in Ticket
    BY <1>2, AccountTypes
  <2> QED BY <1>2, <2>1 DEF TypeOK, Ticket
<1>7. /\ HasWon(id, w) /\ HasLost(id, l) /\ ~HasLost(id, w) /\ ~HasWon(id, l)
      /\ IsResultSet(id) /\ IsFinished(id) /\ IsStarted(id)
      /\ DatesInOrder(id)
  <2>1. HasWon(id, w) /\ HasLost(id, l) /\ ~HasLost(id, w) /\ ~HasWon(id, l)
        /\ IsResultSet(id)
    BY <1>1, <1>2, NotNone DEF HasWon, HasLost, IsResultSet
  <2>2. DatesInOrder(id) /\ IsFinished(id)
    BY <1>2, <2>1 DEF EventInv, DatesInOrder
  <2> QED BY <1>2, <2>1, <2>2, SettledIsStarted
<1>8. StillToWithdraw(id, w)' = StillToWithdraw(id, w)
  <2>1. \A v \in Users : Unwithdrawn(id, w, v)' = Unwithdrawn(id, w, v)
    BY <1>2, <1>5, <1>6 DEF Unwithdrawn, HasTicket
  <2>2. StillToWithdraw(id, w) \in Nat /\ Unwithdrawn(id, w, u) \in Nat
    BY TotalsAreNat, TicketTermsAreNat DEF TicketTermsInNat
  <2>3. StillToWithdraw(id, w)' = StillToWithdraw(id, w)
          + (Unwithdrawn(id, w, u)' - Unwithdrawn(id, w, u))
    BY <2>1, StillToWithdrawUpdate
  <2> QED BY <2>1, <2>2, <2>3
<1>9. ClaimedBy(id, w)' = ClaimedBy(id, w) + n
  <2>1. \A v \in Users \ {u} :
          RewardIf(id, w, v, TRUE)' = RewardIf(id, w, v, TRUE)
    BY <1>2, <1>5 DEF RewardIf, HasTicket, Reward
  <2>2. RewardIf(id, w, u, TRUE) = 0 /\ RewardIf(id, w, u, TRUE)' = n
    BY <1>2, <1>5, <1>6 DEF RewardIf, Reward
  <2>3. Deployed(id)' /\ ClaimedBy(id, w) \in Nat
    BY <1>2, TotalsAreNat DEF Deployed
  <2>4. ClaimedBy(id, w)' = ClaimedBy(id, w)
          + (RewardIf(id, w, u, TRUE)' - RewardIf(id, w, u, TRUE))
    BY <1>2, <2>1, <2>3, ClaimedByUpdate
  <2>5. ClaimedBy(id, w)' = ClaimedBy(id, w) + (n - 0)
    BY <2>2, <2>4
  <2> HIDE DEF n
  <2> QED BY <1>3, <2>3, <2>5
<1>10. DatesInOrder(id)' /\ IsStarted(id)' /\ Deployed(id)'
  BY <1>2, <1>7 DEF DatesInOrder, Deployed, IsStarted, IsFinished, IsResultSet
<1>11. MarkedOnlyIfWon(id)'
  BY <1>2, <1>5, <1>6, <1>7 DEF EventInv, MarkedOnlyIfWon, HasTicket, HasWon,
     Deployed
<1>12. PoolIsTicketSum(id, w)' /\ PoolIsTicketSum(id, l)'
  BY <1>1, <1>2, <1>5 DEF EventInv, PoolIsTicketSum, HasLost
<1>13. SideHoldsItsStakes(id, w)'
  <2>1. Held(id, w) = StillToWithdraw(id, w)
    BY <1>2, <1>7 DEF EventInv, SideHoldsItsStakes
  <2> QED BY <1>2, <1>4, <1>7, <1>8, <2>1 DEF SideHoldsItsStakes, HasWon
<1>14. SideHoldsItsStakes(id, l)'
  <2>1. Held(id, l) = event[id].pool[l] - ClaimedBy(id, w)
    BY <1>1, <1>2, <1>7 DEF EventInv, SideHoldsItsStakes
  <2>2. event[id].pool[l] \in Nat /\ ClaimedBy(id, w) \in Nat
    BY <1>1, <1>2, PoolsAreNat, TotalsAreNat
  <2>3. Held(id, l)' = event'[id].pool[l] - ClaimedBy(id, Other(l))'
    BY <1>1, <1>2, <1>3, <1>4, <1>9, <2>1, <2>2
  <2> QED BY <1>2, <1>7, <2>3 DEF SideHoldsItsStakes, HasLost
<1> QED BY <1>1, <1>4, <1>10, <1>11, <1>12, <1>13, <1>14 DEF EventInv

LEMMA EventInvWithdraw ==
    ASSUME TypeOK, TypeOK', NEW u \in Users, NEW id \in Ids, NEW w \in Sides,
           EventInv(id), WithdrawDeposited(u, id, w)
    PROVE  EventInv(id)'
<1> DEFINE l == Other(w)
           n == ticket[id][w][u].amount
<1>1. l \in Sides /\ l # w /\ Other(l) = w /\ \A z \in Sides : z = l \/ z = w
  BY DEF Sides, Other
<1>2. /\ Deployed(id) /\ event[id].result = w
      /\ HasTicket(id, w, u) /\ ~ticket[id][w][u].withdrawn
      /\ PayFrom(u, id, w, n)
      /\ event' = event /\ clock' = clock
      /\ ticket' = [ticket EXCEPT ![id][w][u].withdrawn = TRUE]
  BY DEF WithdrawDeposited, MayWithdraw
<1>3. n \in Nat
  BY <1>2, BetIsNat
<1>4. /\ Held(id, w)' = Held(id, w) - n
      /\ Held(id, l)' = Held(id, l)
      /\ VaultAmount(id, l)' = VaultAmount(id, l)
      /\ SolAddsUp(id)'
      /\ TokensInOwnVault(id)'
  BY <1>1, <1>2, <1>3, PaidFromOneSide
<1>5. /\ HasTicket(id, w, u)'
      /\ ticket'[id][w][u].amount = ticket[id][w][u].amount
      /\ \A z \in Sides, v \in Users :
            (z # w \/ v # u) => ticket'[id][z][v] = ticket[id][z][v]
      /\ \A z \in Sides : Staked(id, z)' = Staked(id, z)
  BY <1>2, TicketMarked
<1>6. /\ ticket'[id][w][u].withdrawn
      /\ ticket'[id][w][u].claimed = ticket[id][w][u].claimed
  <2>1. ticket[id][w][u] \in Ticket
    BY <1>2, AccountTypes
  <2> QED BY <1>2, <2>1 DEF TypeOK, Ticket
<1>7. /\ HasWon(id, w) /\ HasLost(id, l) /\ ~HasLost(id, w) /\ ~HasWon(id, l)
      /\ IsResultSet(id) /\ IsFinished(id) /\ IsStarted(id)
      /\ DatesInOrder(id)
  <2>1. HasWon(id, w) /\ HasLost(id, l) /\ ~HasLost(id, w) /\ ~HasWon(id, l)
        /\ IsResultSet(id)
    BY <1>1, <1>2, NotNone DEF HasWon, HasLost, IsResultSet
  <2>2. DatesInOrder(id) /\ IsFinished(id)
    BY <1>2, <2>1 DEF EventInv, DatesInOrder
  <2> QED BY <1>2, <2>1, <2>2, SettledIsStarted
<1>8. StillToWithdraw(id, w)' = StillToWithdraw(id, w) - n
  <2>1. \A v \in Users \ {u} :
          Unwithdrawn(id, w, v)' = Unwithdrawn(id, w, v)
    BY <1>5 DEF Unwithdrawn, HasTicket
  <2>2. Unwithdrawn(id, w, u) = n /\ Unwithdrawn(id, w, u)' = 0
    BY <1>2, <1>5, <1>6 DEF Unwithdrawn
  <2>3. StillToWithdraw(id, w) \in Nat
    BY TotalsAreNat
  <2>4. StillToWithdraw(id, w)' = StillToWithdraw(id, w)
          + (Unwithdrawn(id, w, u)' - Unwithdrawn(id, w, u))
    BY <2>1, StillToWithdrawUpdate
  <2> QED BY <1>3, <2>2, <2>3, <2>4
<1>9. ClaimedBy(id, w)' = ClaimedBy(id, w)
  <2>1. \A v \in Users : RewardIf(id, w, v, TRUE)' = RewardIf(id, w, v, TRUE)
    BY <1>2, <1>5, <1>6 DEF RewardIf, HasTicket, Reward
  <2>2. /\ Deployed(id)' /\ ClaimedBy(id, w) \in Nat
        /\ RewardIf(id, w, u, TRUE) \in Nat
    BY <1>2, TotalsAreNat, TicketTermsAreNat DEF Deployed, TicketTermsInNat
  <2>3. ClaimedBy(id, w)' = ClaimedBy(id, w)
          + (RewardIf(id, w, u, TRUE)' - RewardIf(id, w, u, TRUE))
    BY <1>2, <2>1, <2>2, ClaimedByUpdate
  <2> DEFINE r == RewardIf(id, w, u, TRUE)
  <2>4. ClaimedBy(id, w)' = ClaimedBy(id, w) + (r - r)
    BY <2>1, <2>3
  <2>5. r \in Nat
    BY <2>2
  <2> HIDE DEF r
  <2> QED BY <2>2, <2>4, <2>5
<1>10. DatesInOrder(id)' /\ IsStarted(id)' /\ Deployed(id)'
  BY <1>2, <1>7 DEF DatesInOrder, Deployed, IsStarted, IsFinished, IsResultSet
<1>11. MarkedOnlyIfWon(id)'
  BY <1>2, <1>5, <1>6, <1>7 DEF EventInv, MarkedOnlyIfWon, HasTicket, HasWon,
     Deployed
<1>12. PoolIsTicketSum(id, w)' /\ PoolIsTicketSum(id, l)'
  BY <1>1, <1>2, <1>5 DEF EventInv, PoolIsTicketSum, HasLost
<1>13. SideHoldsItsStakes(id, w)'
  <2>1. Held(id, w) = StillToWithdraw(id, w)
    BY <1>2, <1>7 DEF EventInv, SideHoldsItsStakes
  <2> QED BY <1>2, <1>4, <1>7, <1>8, <2>1 DEF SideHoldsItsStakes, HasWon
<1>14. SideHoldsItsStakes(id, l)'
  <2>1. SideHoldsItsStakes(id, l)
    BY <1>1, <1>2 DEF EventInv
  <2> QED BY <1>1, <1>2, <1>4, <1>7, <1>9, <2>1
          DEF SideHoldsItsStakes, HasLost, HasWon, IsResultSet
<1> QED BY <1>1, <1>4, <1>10, <1>11, <1>12, <1>13, <1>14 DEF EventInv

----------------------------------------------------------------------------
(* The accounts of an event, and a step that leaves them alone. *)
SameAccounts(id) ==
    /\ clock' = clock
    /\ event'[id] = event[id] /\ ticket'[id] = ticket[id]
    /\ vault'[id] = vault[id] /\ lamports'[id] = lamports[id]
    /\ solHeld'[id] = solHeld[id]

LEMMA EventInvSameAccounts ==
    ASSUME TypeOK, TypeOK', NEW id \in Ids, EventInv(id), SameAccounts(id)
    PROVE  EventInv(id)'
BY EventInvFrame DEF SameAccounts, TypeOK

(* No instruction touches the accounts of an event it does not name. *)
LEMMA OtherEventsUntouched ==
    ASSUME TypeOK, NEW id \in Ids, NEW i \in Ids \ {id}
    PROVE  /\ \A u \in Users, start, end \in Dates, mint \in [Sides -> Assets],
                 burning \in BOOLEAN :
                DeployEvent(u, id, start, end, mint, burning) => SameAccounts(i)
           /\ \A s \in Sides, m \in Mints :
                CreateEventTokenAccount(id, s, m) => SameAccounts(i)
           /\ \A u \in Users, s \in Sides, n \in Nat :
                /\ VoteWithTokens(u, id, s, n) => SameAccounts(i)
                /\ VoteWithLamports(u, id, s, n) => SameAccounts(i)
           /\ \A u \in Users, s \in Sides :
                /\ FinishEvent(u, id, s) => SameAccounts(i)
                /\ ClaimRewards(u, id, s) => SameAccounts(i)
                /\ WithdrawDeposited(u, id, s) => SameAccounts(i)
           /\ \A u \in Users, pools \in SUBSET Sides :
                CloseEvent(u, id, pools) => SameAccounts(i)
<1>1. \A u \in Users, start, end \in Dates, mint \in [Sides -> Assets],
         burning \in BOOLEAN :
        DeployEvent(u, id, start, end, mint, burning) => SameAccounts(i)
  BY DEF TypeOK, DeployEvent, NewEvent, SameAccounts
<1>2. \A s \in Sides, m \in Mints :
        CreateEventTokenAccount(id, s, m) => SameAccounts(i)
  BY DEF TypeOK, CreateEventTokenAccount, SameAccounts
<1>3. ASSUME NEW u \in Users, NEW s \in Sides, NEW n \in Nat,
             VoteWithTokens(u, id, s, n)
      PROVE  SameAccounts(i)
  BY <1>3 DEF TypeOK, VoteWithTokens, TakeTokens, RecordVote, SameAccounts
<1>4. ASSUME NEW u \in Users, NEW s \in Sides, NEW n \in Nat,
             VoteWithLamports(u, id, s, n)
      PROVE  SameAccounts(i)
  BY <1>4 DEF TypeOK, VoteWithLamports, TakeLamports, RecordVote, SameAccounts
<1>5. ASSUME NEW u \in Users, NEW s \in Sides, FinishEvent(u, id, s)
      PROVE  SameAccounts(i)
  <2>1. event'[i] = event[i] /\ ticket' = ticket /\ clock' = clock
    BY <1>5 DEF TypeOK, FinishEvent
  <2>2. CASE TakeFeesInTokens(u, id, Other(s))
    BY <2>1, <2>2 DEF TypeOK, TakeFeesInTokens, SameAccounts
  <2>3. CASE TakeFeesInLamports(u, id, Other(s))
    BY <2>1, <2>3 DEF TypeOK, TakeFeesInLamports, SameAccounts
  <2> QED BY <1>5, <2>2, <2>3 DEF FinishEvent
<1>6. ASSUME NEW u \in Users, NEW s \in Sides, NEW n, PayFrom(u, id, s, n)
      PROVE  /\ vault'[i] = vault[i] /\ lamports'[i] = lamports[i]
             /\ solHeld'[i] = solHeld[i]
  BY <1>6 DEF TypeOK, PayFrom, PayTokens, PayLamports
<1>7. ASSUME NEW u \in Users, NEW s \in Sides, ClaimRewards(u, id, s)
      PROVE  SameAccounts(i)
  <2>1. PayFrom(u, id, Other(s), Reward(u, id, s)) /\ Other(s) \in Sides
    BY <1>7, OtherIsSide DEF ClaimRewards
  <2> QED BY <1>6, <1>7, <2>1 DEF TypeOK, ClaimRewards, SameAccounts
<1>8. ASSUME NEW u \in Users, NEW s \in Sides, WithdrawDeposited(u, id, s)
      PROVE  SameAccounts(i)
  <2>1. PayFrom(u, id, s, ticket[id][s][u].amount)
    BY <1>8 DEF WithdrawDeposited
  <2> QED BY <1>6, <1>8, <2>1 DEF TypeOK, WithdrawDeposited, SameAccounts
<1>9. \A u \in Users, pools \in SUBSET Sides :
        CloseEvent(u, id, pools) => SameAccounts(i)
  BY DEF TypeOK, CloseEvent, SameAccounts
<1> QED BY <1>1, <1>2, <1>3, <1>4, <1>5, <1>7, <1>8, <1>9

LEMMA InvInit == Init => IInv
<1> SUFFICES ASSUME Init PROVE IInv
  OBVIOUS
<1>1. TypeOK
  BY TypeInit
<1>2. ASSUME NEW id \in Ids PROVE EventInv(id)
  <2>1. /\ ~Deployed(id) /\ lamports[id] = 0
        /\ \A s \in Sides : /\ vault[id][s] = None /\ solHeld[id][s] = 0
                            /\ \A u \in Users : ~HasTicket(id, s, u)
    BY DEF Init, Deployed, HasTicket
  <2>2. \A s \in Sides : VaultAmount(id, s) = 0 /\ Held(id, s) = 0
    BY <2>1 DEF VaultAmount, Held
  <2>3. NothingHeld(id) /\ SolAddsUp(id)
    BY <2>1, <2>2 DEF NothingHeld, SolAddsUp, Sides
  <2>4. DatesInOrder(id) /\ MarkedOnlyIfWon(id) /\ TokensInOwnVault(id)
    BY <2>1, <2>2 DEF DatesInOrder, MarkedOnlyIfWon, TokensInOwnVault
  <2> QED BY <2>1, <2>3, <2>4 DEF EventInv
<1> QED BY <1>1, <1>2 DEF IInv

LEMMA InvStep == IInv /\ [Next]_vars => IInv'
<1> SUFFICES ASSUME IInv, [Next]_vars PROVE IInv'
  OBVIOUS
<1>1. TypeOK /\ TypeOK'
  BY TypeStep DEF IInv
<1>2. SUFFICES ASSUME NEW i \in Ids PROVE EventInv(i)'
  BY <1>1 DEF IInv
<1>3. EventInv(i)
  BY DEF IInv
<1>4. SameAccounts(i) => EventInv(i)'
  BY <1>1, <1>3, EventInvSameAccounts
<1>5. CASE Tick
  BY <1>1, <1>3, <1>5, EventInvFrame DEF Tick, TypeOK
<1>6. CASE UNCHANGED vars
  BY <1>4, <1>6 DEF vars, SameAccounts
<1>7. CASE SetUp
  <2>1. CASE Initialize
    BY <1>4, <2>1 DEF Initialize, SameAccounts
  <2>2. ASSUME NEW m \in Mints, CreateSystemFeeTokenAccount(m)
        PROVE  EventInv(i)'
    BY <1>4, <2>2 DEF CreateSystemFeeTokenAccount, SameAccounts
  <2>3. ASSUME NEW u \in Users, NEW id \in Ids, NEW start \in Dates,
               NEW end \in Dates, NEW mint \in [Sides -> Assets],
               NEW burning \in BOOLEAN,
               DeployEvent(u, id, start, end, mint, burning)
        PROVE  EventInv(i)'
    BY <1>1, <1>3, <1>4, <2>3, OtherEventsUntouched, EventInvDeploy
  <2>4. ASSUME NEW id \in Ids, NEW s \in Sides, NEW m \in Mints,
               CreateEventTokenAccount(id, s, m)
        PROVE  EventInv(i)'
    BY <1>1, <1>3, <1>4, <2>4, OtherEventsUntouched,
       EventInvCreateEventTokenAccount
  <2> QED BY <1>7, <2>1, <2>2, <2>3, <2>4 DEF SetUp
<1>8. CASE Vote
  <2>1. PICK u \in Users, id \in Ids, s \in Sides, n \in Amounts :
          VoteWithTokens(u, id, s, n) \/ VoteWithLamports(u, id, s, n)
    BY <1>8 DEF Vote
  <2>2. n \in Nat
    BY BoundsAssumption
  <2> QED BY <1>1, <1>3, <1>4, <2>1, <2>2, OtherEventsUntouched, EventInvVote
<1>9. CASE Settle
  <2>1. PICK u \in Users, id \in Ids, s \in Sides :
          \/ FinishEvent(u, id, s)
          \/ ClaimRewards(u, id, s)
          \/ WithdrawDeposited(u, id, s)
    BY <1>9 DEF Settle
  <2> QED BY <1>1, <1>3, <1>4, <2>1, OtherEventsUntouched, EventInvFinish,
             EventInvClaim, EventInvWithdraw
<1>10. CASE Close
  BY <1>1, <1>3, <1>4, <1>10, OtherEventsUntouched, EventInvClose DEF Close
<1> QED BY <1>5, <1>6, <1>7, <1>8, <1>9, <1>10 DEF Next

(***************************************************************************)
(* The inductive invariant holds in every reachable state, for any number  *)
(* of users, events and mints, any dates and amounts, and a u64 of any     *)
(* width.                                                                  *)
(***************************************************************************)
THEOREM InductiveInvariant == Spec => []IInv
<1>1. Init => IInv
  BY InvInit
<1>2. IInv /\ [Next]_vars => IInv'
  BY InvStep
<1> QED BY <1>1, <1>2, PTL DEF Spec

(* Votes, claims and withdrawals never make the record of a pool differ    *)
(* from its tickets.                                                       *)
THEOREM PoolsAreTicketSumsAlways == Spec => []PoolsAreTicketSums
<1>1. IInv => PoolsAreTicketSums
  BY DEF IInv, EventInv, PoolsAreTicketSums
<1> QED BY <1>1, InductiveInvariant, PTL

(* What each side holds is, to the unit, what it has taken in and not paid *)
(* out.                                                                    *)
THEOREM SidesHoldTheirStakesAlways == Spec => []SidesHoldTheirStakes
<1>1. IInv => SidesHoldTheirStakes
  BY DEF IInv, EventInv, SidesHoldTheirStakes
<1> QED BY <1>1, InductiveInvariant, PTL

(* Closing an event, and deploying its id again, finds nothing held. *)
THEOREM NothingHeldBeforeTheStartAlways == Spec => []NothingHeldBeforeTheStart
<1>1. IInv => NothingHeldBeforeTheStart
  BY DEF IInv, EventInv, NothingHeldBeforeTheStart
<1> QED BY <1>1, InductiveInvariant, PTL
=============================================================================
