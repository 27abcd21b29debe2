----------------------- MODULE MarketRefinementProofs -----------------------
(***************************************************************************)
(* The event program implements PredictionMarket: the mapping of           *)
(* MarketRefinement takes the initial states to initial states and every   *)
(* step to a step of the market, or to none.                               *)
(***************************************************************************)
EXTENDS MarketRefinement, EventProtocolProofs

(* What the market sees of one event, and of the house. *)
SameMarket(i) == MarketOf(i)' = MarketOf(i)
SamePots(i) == \A z \in Sides : Held(i, z)' = Held(i, z)
SameRepaid(i) == \A v \in Users : HasWithdrawn(i, v)' <=> HasWithdrawn(i, v)
SameRewarded(i) == \A v \in Users : HasClaimed(i, v)' <=> HasClaimed(i, v)
SameTreasury == \A a \in Assets : FeeBalance(a)' = FeeBalance(a)

Repaid(i) == {u \in Users : HasWithdrawn(i, u)}
Rewarded(i) == {u \in Users : HasClaimed(i, u)}
Pots(i) == [s \in Sides |-> Held(i, s)]
Bets(i) == [s \in Sides |-> [u \in Users |-> Stake(i, s, u)]]

LEMMA NoChange ==
    ASSUME \A i \in Ids : /\ SameMarket(i) /\ SamePots(i) /\ StakesKept(i)
                          /\ SameRepaid(i) /\ SameRewarded(i),
           SameTreasury, wallet' = wallet
    PROVE  UNCHANGED Market!marketVars
<1>1. \A i \in Ids : Pots(i)' = Pots(i)
  BY DEF Pots, SamePots
<1>2. \A i \in Ids : Bets(i)' = Bets(i)
  BY DEF Bets, StakesKept
<1>3. \A i \in Ids : Repaid(i)' = Repaid(i)
  BY DEF Repaid, SameRepaid
<1>4. \A i \in Ids : Rewarded(i)' = Rewarded(i)
  BY DEF Rewarded, SameRewarded
<1>5. [i \in Ids |-> MarketOf(i)]' = [i \in Ids |-> MarketOf(i)]
  BY DEF SameMarket
<1>6. [i \in Ids |-> Bets(i)]' = [i \in Ids |-> Bets(i)]
  BY <1>2
<1>7. [i \in Ids |-> Pots(i)]' = [i \in Ids |-> Pots(i)]
  BY <1>1
<1>8. [i \in Ids |-> Repaid(i)]' = [i \in Ids |-> Repaid(i)]
  BY <1>3
<1>9. [i \in Ids |-> Rewarded(i)]' = [i \in Ids |-> Rewarded(i)]
  BY <1>4
<1>10. [a \in Assets |-> FeeBalance(a)]' = [a \in Assets |-> FeeBalance(a)]
  BY DEF SameTreasury
<1> QED BY <1>5, <1>6, <1>7, <1>8, <1>9, <1>10
        DEF Market!marketVars, Bets, Pots, Repaid, Rewarded

(* The market's variables, as functions of the event. *)
Markets == [i \in Ids |-> MarketOf(i)]
AllBets == [i \in Ids |-> Bets(i)]
AllPots == [i \in Ids |-> Pots(i)]
AllRepaid == [i \in Ids |-> Repaid(i)]
AllRewarded == [i \in Ids |-> Rewarded(i)]
Treasury == [a \in Assets |-> FeeBalance(a)]

(***************************************************************************)
(* How a change that concerns one event looks in them.                     *)
(***************************************************************************)
LEMMA MarketsUpdate ==
    ASSUME NEW id \in Ids, NEW m, MarketOf(id)' = m,
           \A i \in Ids \ {id} : SameMarket(i)
    PROVE  Markets' = [Markets EXCEPT ![id] = m]
BY DEF Markets, SameMarket

LEMMA BetsUpdate ==
    ASSUME NEW id \in Ids, NEW s \in Sides, NEW u \in Users, NEW n,
           Stake(id, s, u)' = n,
           \A z \in Sides, v \in Users :
              (z # s \/ v # u) => Stake(id, z, v)' = Stake(id, z, v),
           \A i \in Ids \ {id} : StakesKept(i)
    PROVE  AllBets' = [AllBets EXCEPT ![id][s][u] = n]
<1>1. \A i \in Ids \ {id} : Bets(i)' = Bets(i)
  BY DEF Bets, StakesKept
<1>2. Bets(id)' = [Bets(id) EXCEPT ![s][u] = n]
  BY DEF Bets
<1> QED BY <1>1, <1>2 DEF AllBets

LEMMA PotsUpdate ==
    ASSUME NEW id \in Ids, NEW s \in Sides, NEW n,
           Held(id, s)' = n, Held(id, Other(s))' = Held(id, Other(s)),
           \A i \in Ids \ {id} : SamePots(i)
    PROVE  AllPots' = [AllPots EXCEPT ![id][s] = n]
<1>1. \A i \in Ids \ {id} : Pots(i)' = Pots(i)
  BY DEF Pots, SamePots
<1>2. Pots(id)' = [Pots(id) EXCEPT ![s] = n]
  BY DEF Pots, Sides, Other
<1> QED BY <1>1, <1>2 DEF AllPots

LEMMA RepaidUpdate ==
    ASSUME NEW id \in Ids, NEW u \in Users, HasWithdrawn(id, u)',
           \A v \in Users \ {u} : HasWithdrawn(id, v)' <=> HasWithdrawn(id, v),
           \A i \in Ids \ {id} : SameRepaid(i)
    PROVE  AllRepaid' = [AllRepaid EXCEPT ![id] = @ \cup {u}]
<1>1. \A i \in Ids \ {id} : Repaid(i)' = Repaid(i)
  BY DEF Repaid, SameRepaid
<1>2. Repaid(id)' = Repaid(id) \cup {u}
  BY DEF Repaid
<1> QED BY <1>1, <1>2 DEF AllRepaid

LEMMA RewardedUpdate ==
    ASSUME NEW id \in Ids, NEW u \in Users, HasClaimed(id, u)',
           \A v \in Users \ {u} : HasClaimed(id, v)' <=> HasClaimed(id, v),
           \A i \in Ids \ {id} : SameRewarded(i)
    PROVE  AllRewarded' = [AllRewarded EXCEPT ![id] = @ \cup {u}]
<1>1. \A i \in Ids \ {id} : Rewarded(i)' = Rewarded(i)
  BY DEF Rewarded, SameRewarded
<1>2. Rewarded(id)' = Rewarded(id) \cup {u}
  BY DEF Rewarded
<1> QED BY <1>1, <1>2 DEF AllRewarded

LEMMA AllSame ==
    /\ (\A i \in Ids : SameMarket(i)) => Markets' = Markets
    /\ (\A i \in Ids : StakesKept(i)) => AllBets' = AllBets
    /\ (\A i \in Ids : SamePots(i)) => AllPots' = AllPots
    /\ (\A i \in Ids : SameRepaid(i)) => AllRepaid' = AllRepaid
    /\ (\A i \in Ids : SameRewarded(i)) => AllRewarded' = AllRewarded
    /\ SameTreasury => Treasury' = Treasury
<1>1. (\A i \in Ids : SameMarket(i)) => Markets' = Markets
  BY DEF Markets, SameMarket
<1>2. ASSUME \A i \in Ids : StakesKept(i) PROVE AllBets' = AllBets
  <2>1. \A i \in Ids : Bets(i)' = Bets(i)
    BY <1>2 DEF Bets, StakesKept
  <2> QED BY <2>1 DEF AllBets
<1>3. ASSUME \A i \in Ids : SamePots(i) PROVE AllPots' = AllPots
  <2>1. \A i \in Ids : Pots(i)' = Pots(i)
    BY <1>3 DEF Pots, SamePots
  <2> QED BY <2>1 DEF AllPots
<1>4. ASSUME \A i \in Ids : SameRepaid(i) PROVE AllRepaid' = AllRepaid
  <2>1. \A i \in Ids : Repaid(i)' = Repaid(i)
    BY <1>4 DEF Repaid, SameRepaid
  <2> QED BY <2>1 DEF AllRepaid
<1>5. ASSUME \A i \in Ids : SameRewarded(i) PROVE AllRewarded' = AllRewarded
  <2>1. \A i \in Ids : Rewarded(i)' = Rewarded(i)
    BY <1>5 DEF Rewarded, SameRewarded
  <2> QED BY <2>1 DEF AllRewarded
<1>6. SameTreasury => Treasury' = Treasury
  BY DEF Treasury, SameTreasury
<1> QED BY <1>1, <1>2, <1>3, <1>4, <1>5, <1>6

----------------------------------------------------------------------------
(* What the market sees of an event whose accounts a step leaves alone.    *)
Untouched(i) ==
    /\ SameMarket(i) /\ StakesKept(i) /\ SamePots(i)
    /\ SameRepaid(i) /\ SameRewarded(i)

LEMMA SameAccountsUntouched ==
    ASSUME NEW i \in Ids, SameAccounts(i)
    PROVE  Untouched(i)
<1>1. SameMarket(i)
  BY DEF SameAccounts, SameMarket, MarketOf, Deployed, PhaseOf, PrizeOf,
         IsStarted, IsFinished, IsResultSet
<1>2. SamePots(i)
  BY DEF SameAccounts, SamePots, Held, VaultAmount
<1>3. StakesKept(i)
  BY SameTicketsKeepStakes DEF SameAccounts
<1>4. SameRepaid(i) /\ SameRewarded(i)
  BY DEF SameAccounts, SameRepaid, SameRewarded, HasWithdrawn, HasClaimed,
         HasTicket
<1> QED BY <1>1, <1>2, <1>3, <1>4 DEF Untouched

(* A deployed event is a market. *)
LEMMA MarketIsNotNone ==
    ASSUME TypeOK, NEW i \in Ids, Deployed(i)
    PROVE  MarketOf(i) # None
<1>1. event[i] \in PredictionEvent
  BY DEF TypeOK, Deployed
<1>2. PrizeOf(i) \in Nat
  <2>1. \A s \in Sides : event[i].pool[s] \in Nat
    BY PoolsAreNat
  <2>2. IsResultSet(i) => Other(event[i].result) \in Sides
    BY <1>1, OtherIsSide DEF IsResultSet, PredictionEvent
  <2> QED BY <2>1, <2>2 DEF PrizeOf
<1>3. PhaseOf(i) \in {"announced", "open", "closed"}
  BY DEF PhaseOf
<1> QED BY <1>1, <1>2, <1>3, NoMarketAssumption DEF MarketOf, PredictionEvent

(* Nobody is paid before the result is set, and only then is there a prize. *)
LEMMA NobodyPaidYet ==
    ASSUME NEW i \in Ids, MarkedOnlyIfWon(i), Deployed(i) => ~IsResultSet(i)
    PROVE  \A v \in Users : ~HasWithdrawn(i, v) /\ ~HasClaimed(i, v)
BY NotNone DEF MarkedOnlyIfWon, HasWon, IsResultSet, HasWithdrawn, HasClaimed

LEMMA NobodyPaidYetNext ==
    ASSUME NEW i \in Ids, MarkedOnlyIfWon(i)', Deployed(i)' => ~IsResultSet(i)'
    PROVE  \A v \in Users : ~HasWithdrawn(i, v)' /\ ~HasClaimed(i, v)'
BY NotNone DEF MarkedOnlyIfWon, HasWon, IsResultSet, HasWithdrawn, HasClaimed

----------------------------------------------------------------------------
(***************************************************************************)
(* A vote is a bet: of the side's asset or, without a mint, of SOL.        *)
(***************************************************************************)
LEMMA VoteIsBet ==
    ASSUME IInv, IInv', NEW u \in Users, NEW id \in Ids, NEW s \in Sides,
           NEW n \in Amounts,
           VoteWithTokens(u, id, s, n) \/ VoteWithLamports(u, id, s, n)
    PROVE  \E a \in Assets : Market!Bet(u, id, s, n, a)
<1>1. /\ TypeOK /\ TypeOK' /\ EventInv(id) /\ EventInv(id)' /\ n \in Nat
      /\ Other(s) \in Sides /\ Other(s) # s
      /\ \A z \in Sides : z = s \/ z = Other(s)
  BY BoundsAssumption, OtherIsSide DEF IInv, Sides, Other
<1>2. /\ VoteOpen(id) /\ RecordVote(u, id, s, n) /\ Deployed(id)
      /\ IsStarted(id) /\ ~IsFinished(id) /\ ~IsResultSet(id)
      /\ clock' = clock /\ fee' = fee
  BY DEF VoteWithTokens, VoteWithLamports, VoteOpen
<1>3. /\ Deployed(id)' /\ ~IsResultSet(id)'
      /\ event'[id].start_date = event[id].start_date
      /\ event'[id].end_date = event[id].end_date
      /\ event'[id].mint = event[id].mint
      /\ event'[id].result = event[id].result
      /\ event'[id].burning = event[id].burning
      /\ Stake(id, s, u)' = Stake(id, s, u) + n
      /\ \A v \in Users \ {u} : Stake(id, s, v)' = Stake(id, s, v)
      /\ \A v \in Users : Stake(id, Other(s), v)' = Stake(id, Other(s), v)
  BY <1>1, <1>2, VoteRecorded DEF IsResultSet
<1>4. event'[id].creator = event[id].creator
  <2>1. event[id] \in PredictionEvent
    BY <1>1, <1>2 DEF TypeOK, Deployed
  <2>2. event'[id] = [event[id] EXCEPT !.pool[s] = @ + n]
    BY <1>1, <1>2 DEF RecordVote, TypeOK
  <2> QED BY <2>1, <2>2 DEF PredictionEvent
<1>5. \A i \in Ids \ {id} : Untouched(i)
  BY <1>1, OtherEventsUntouched, SameAccountsUntouched
<1>6. SameMarket(id)
  BY <1>2, <1>3, <1>4 DEF SameMarket, MarketOf, PhaseOf, PrizeOf, IsStarted,
                          IsFinished
<1>7. SameRepaid(id) /\ SameRewarded(id)
  BY <1>1, <1>2, <1>3, NobodyPaidYet, NobodyPaidYetNext
     DEF SameRepaid, SameRewarded, EventInv
<1>8. /\ Held(id, s)' = Held(id, s) + n
      /\ Held(id, Other(s))' = Held(id, Other(s))
  <2>1. \A z \in Sides : /\ Held(id, z) = Staked(id, z)
                         /\ Held(id, z)' = Staked(id, z)'
    BY <1>1, <1>2, <1>3, NotNone, OtherIsSide
       DEF EventInv, SideHoldsItsStakes, HasWon, HasLost, IsResultSet
  <2>2. /\ Staked(id, s)' = Staked(id, s)
                              + (Stake(id, s, u)' - Stake(id, s, u))
        /\ Staked(id, Other(s))' = Staked(id, Other(s))
    BY <1>1, <1>3, StakedUpdate, SameStakesSameTotal
  <2>3. Stake(id, s, u) \in Nat /\ Staked(id, s) \in Nat
    BY <1>1, TotalsAreNat, TicketTermsAreNat DEF TicketTermsInNat
  <2> QED BY <1>1, <1>3, <2>1, <2>2, <2>3
<1>9. PICK a \in {event[id].mint[s], Native} :
         /\ a \in Assets
         /\ wallet[u][a] >= n
         /\ wallet' = [wallet EXCEPT ![u][a] = @ - n]
  <2>1. event[id].mint[s] \in Assets /\ Native \in Assets
    BY <1>1, <1>2, AccountTypes, NativeIsAsset DEF PredictionEvent
  <2> QED BY <2>1 DEF VoteWithTokens, TakeTokens, VoteWithLamports, TakeLamports
<1>10. /\ Markets' = Markets /\ AllRepaid' = AllRepaid
       /\ AllRewarded' = AllRewarded /\ Treasury' = Treasury
  <2>1. SameTreasury
    BY <1>2 DEF SameTreasury, FeeBalance
  <2>2. \A i \in Ids : SameMarket(i) /\ SameRepaid(i) /\ SameRewarded(i)
    BY <1>5, <1>6, <1>7 DEF Untouched
  <2> QED BY <2>1, <2>2, AllSame
<1>11. AllBets' = [AllBets EXCEPT ![id][s][u] = @ + n]
  <2>1. AllBets' = [AllBets EXCEPT ![id][s][u] = Stake(id, s, u) + n]
    <3>1. \A z \in Sides, v \in Users :
             (z # s \/ v # u) => Stake(id, z, v)' = Stake(id, z, v)
      BY <1>1, <1>3
    <3>2. \A i \in Ids \ {id} : StakesKept(i)
      BY <1>5 DEF Untouched
    <3> QED BY <1>3, <3>1, <3>2, BetsUpdate
  <2>2. AllBets[id][s][u] = Stake(id, s, u)
    BY DEF AllBets, Bets
  <2> QED BY <2>1, <2>2
<1>12. AllPots' = [AllPots EXCEPT ![id][s] = @ + n]
  <2>1. AllPots' = [AllPots EXCEPT ![id][s] = Held(id, s) + n]
    BY <1>1, <1>8, <1>5, PotsUpdate DEF Untouched
  <2>2. AllPots[id][s] = Held(id, s)
    BY DEF AllPots, Pots
  <2> QED BY <2>1, <2>2
<1>13. /\ Markets[id] # None /\ Markets[id].phase = "open"
       /\ a \in {Markets[id].asset[s], Native}
  BY <1>2, <1>9, MarketIsNotNone, <1>1
     DEF Markets, MarketOf, PhaseOf
<1> QED BY <1>9, <1>10, <1>11, <1>12, <1>13
        DEF Market!Bet, Markets, AllBets, AllPots, AllRepaid, AllRewarded,
            Treasury, Bets, Pots, Repaid, Rewarded

(***************************************************************************)
(* Time moves a market from one phase to the next and cannot skip one,     *)
(* because the start of an event is before its end.                        *)
(***************************************************************************)
LEMMA TickIsPassTime ==
    ASSUME IInv, Tick
    PROVE  Market!PassTime
<1> DEFINE moved == {i \in Ids : Deployed(i) /\ PhaseOf(i)' # PhaseOf(i)}
<1>1. /\ TypeOK /\ clock \in Nat /\ clock' = clock + 1
      /\ event' = event /\ ticket' = ticket /\ vault' = vault
      /\ solHeld' = solHeld /\ fee' = fee /\ wallet' = wallet
  BY DEF IInv, TypeOK, Tick
<1>2. \A i \in Ids : StakesKept(i) /\ SamePots(i) /\ SameRepaid(i) /\ SameRewarded(i)
  BY <1>1, SameTicketsKeepStakes
     DEF SamePots, SameRepaid, SameRewarded, Held, VaultAmount, HasWithdrawn,
         HasClaimed, HasTicket
<1>3. SameTreasury
  BY <1>1 DEF SameTreasury, FeeBalance
<1>4. moved \in SUBSET {i \in Ids : Markets[i] # None}
  BY <1>1, MarketIsNotNone DEF Markets
<1>5. ASSUME NEW i \in Ids
      PROVE  MarketOf(i)' = IF i \in moved
                            THEN [MarketOf(i) EXCEPT !.phase = Market!After(@)]
                            ELSE MarketOf(i)
  <2>1. CASE ~Deployed(i)
    BY <1>1, <2>1 DEF MarketOf, Deployed
  <2>2. CASE Deployed(i)
    <3>1. /\ event[i].start_date \in Nat /\ event[i].end_date \in Nat
          /\ event[i].start_date < event[i].end_date
      BY <1>1, <2>2, BoundsAssumption
         DEF TypeOK, PredictionEvent, Deployed, IInv, EventInv, DatesInOrder
    <3>2. PhaseOf(i)' \in {PhaseOf(i), Market!After(PhaseOf(i))}
      BY <1>1, <3>1 DEF PhaseOf, Market!After, IsStarted, IsFinished
    <3>3. PrizeOf(i)' = PrizeOf(i) /\ Deployed(i)'
      BY <1>1, <2>2 DEF PrizeOf, IsResultSet, Deployed
    <3>4. MarketOf(i)' = [MarketOf(i) EXCEPT !.phase = PhaseOf(i)']
      BY <1>1, <2>2, <3>3 DEF MarketOf
    <3>5. MarketOf(i).phase = PhaseOf(i)
      BY <2>2 DEF MarketOf
    <3>6. CASE PhaseOf(i)' = PhaseOf(i)
      <4>1. MarketOf(i) = [MarketOf(i) EXCEPT !.phase = PhaseOf(i)]
        BY <2>2 DEF MarketOf
      <4> QED BY <2>2, <3>4, <3>6, <4>1
    <3>7. CASE PhaseOf(i)' # PhaseOf(i)
      BY <2>2, <3>2, <3>4, <3>5, <3>7
    <3> QED BY <3>6, <3>7
  <2> QED BY <2>1, <2>2
<1>6. Markets' = [i \in Ids |-> IF i \in moved
                     THEN [Markets[i] EXCEPT !.phase = Market!After(@)]
                     ELSE Markets[i]]
  <2> HIDE DEF moved
  <2> QED BY <1>5 DEF Markets
<1>7. /\ AllBets' = AllBets /\ AllPots' = AllPots /\ AllRepaid' = AllRepaid
      /\ AllRewarded' = AllRewarded /\ Treasury' = Treasury
  BY <1>2, <1>3, AllSame
<1> HIDE DEF moved
<1> QED BY <1>1, <1>4, <1>6, <1>7
        DEF Market!PassTime, Markets, AllBets, AllPots, AllRepaid, AllRewarded,
            Treasury, Bets, Pots, Repaid, Rewarded

----------------------------------------------------------------------------
(* Setting up and closing.                                                 *)

LEMMA DeployIsAnnounce ==
    ASSUME IInv, NEW u \in Users, NEW id \in Ids, NEW start \in Dates,
           NEW end \in Dates, NEW mint \in [Sides -> Assets],
           NEW burning \in BOOLEAN,
           DeployEvent(u, id, start, end, mint, burning)
    PROVE  Market!Announce(u, id)
<1>1. /\ ~Deployed(id) /\ ticket' = ticket /\ vault' = vault
      /\ solHeld' = solHeld /\ fee' = fee /\ wallet' = wallet /\ clock' = clock
      /\ event'[id] = NewEvent(u, start, end, mint, burning)
      /\ \A i \in Ids \ {id} : event'[i] = event[i]
  BY DEF DeployEvent, IInv, TypeOK
<1>2. \A i \in Ids : StakesKept(i) /\ SamePots(i) /\ SameRepaid(i) /\ SameRewarded(i)
  BY <1>1, SameTicketsKeepStakes
     DEF SamePots, SameRepaid, SameRewarded, Held, VaultAmount, HasWithdrawn,
         HasClaimed, HasTicket
<1>3. SameTreasury
  BY <1>1 DEF SameTreasury, FeeBalance
<1>4. \A i \in Ids \ {id} : SameMarket(i)
  BY <1>1 DEF SameMarket, MarketOf, Deployed, PhaseOf, PrizeOf, IsStarted,
              IsFinished, IsResultSet
<1>5. MarketOf(id)' = [owner |-> u, phase |-> PhaseOf(id)', asset |-> mint,
                       burning |-> burning, outcome |-> None, prize |-> 0]
  <2>1. NewEvent(u, start, end, mint, burning) \in PredictionEvent
    BY MaxU64Assumption DEF NewEvent, PredictionEvent
  <2>2. Deployed(id)'
    BY <1>1, <2>1, NotNone DEF Deployed
  <2>3. PrizeOf(id)' = 0
    BY <1>1 DEF PrizeOf, IsResultSet, NewEvent
  <2> QED BY <1>1, <2>2, <2>3 DEF MarketOf, NewEvent
<1>6. PhaseOf(id)' \in {"announced", "open", "closed"}
  BY DEF PhaseOf
<1>7. Markets[id] = None
  BY <1>1 DEF Markets, MarketOf
<1>8. Markets' = [Markets EXCEPT ![id] =
                    [owner |-> u, phase |-> PhaseOf(id)', asset |-> mint,
                     burning |-> burning, outcome |-> None, prize |-> 0]]
  BY <1>4, <1>5, MarketsUpdate
<1>9. /\ AllBets' = AllBets /\ AllPots' = AllPots /\ AllRepaid' = AllRepaid
      /\ AllRewarded' = AllRewarded /\ Treasury' = Treasury
  BY <1>2, <1>3, AllSame
<1>10. mint \in [Market!Sides -> Assets]
  BY DEF Market!Sides, Sides
<1>11. \E phase \in {"announced", "open", "closed"},
          asset \in [Market!Sides -> Assets], b \in BOOLEAN :
         Markets' = [Markets EXCEPT ![id] =
                       [owner |-> u, phase |-> phase, asset |-> asset,
                        burning |-> b, outcome |-> None, prize |-> 0]]
  <2> HIDE DEF Markets
  <2> WITNESS PhaseOf(id)' \in {"announced", "open", "closed"},
              mint \in [Market!Sides -> Assets], burning \in BOOLEAN
  <2> QED BY <1>8
<1> QED BY <1>1, <1>7, <1>9, <1>11
        DEF Market!Announce, Markets, AllBets, AllPots, AllRepaid, AllRewarded,
            Treasury, Bets, Pots, Repaid, Rewarded

(* Closing takes nothing from anybody, because nothing is held. *)
LEMMA CloseIsCallOff ==
    ASSUME IInv, NEW u \in Users, NEW id \in Ids, NEW pools \in SUBSET Sides,
           CloseEvent(u, id, pools)
    PROVE  Market!CallOff(id)
<1>1. TypeOK /\ EventInv(id)
  BY DEF IInv
<1>2. /\ Deployed(id) /\ ~IsStarted(id)
      /\ ticket' = ticket /\ fee' = fee /\ event'[id] = None
      /\ solHeld'[id] = [s \in Sides |-> 0]
      /\ \A s \in Sides : vault'[id][s] = None \/ vault'[id][s] = vault[id][s]
  BY <1>1 DEF CloseEvent, MayClose, TypeOK
<1>3. NothingHeld(id)
  BY <1>1, <1>2 DEF EventInv
<1>4. wallet' = wallet
  <2>1. wallet' = [wallet EXCEPT ![u][Native] = @ + 0]
    BY <1>3 DEF CloseEvent, NothingHeld
  <2>2. wallet[u][Native] \in Nat
    BY <1>1, NativeIsAsset DEF TypeOK
  <2> QED BY <1>1, <2>1, <2>2 DEF TypeOK
<1>5. \A i \in Ids \ {id} : Untouched(i)
  BY <1>1, OtherEventsUntouched, SameAccountsUntouched
<1>6. /\ MarketOf(id)' = None /\ MarketOf(id) # None
      /\ MarketOf(id).phase = "announced"
  BY <1>1, <1>2, MarketIsNotNone DEF MarketOf, Deployed, PhaseOf
<1>7. SamePots(id)
  <2>1. \A s \in Sides : VaultAmount(id, s)' = 0
    BY <1>2, <1>3 DEF NothingHeld, VaultAmount
  <2> QED BY <1>2, <1>3, <2>1 DEF SamePots, Held, NothingHeld
<1>8. StakesKept(id) /\ SameRepaid(id) /\ SameRewarded(id) /\ SameTreasury
  BY <1>2, SameTicketsKeepStakes
     DEF SameRepaid, SameRewarded, SameTreasury, FeeBalance, HasWithdrawn,
         HasClaimed, HasTicket
<1>9. Markets' = [Markets EXCEPT ![id] = None]
  BY <1>5, <1>6, MarketsUpdate DEF Untouched
<1>10. /\ AllBets' = AllBets /\ AllPots' = AllPots /\ AllRepaid' = AllRepaid
       /\ AllRewarded' = AllRewarded /\ Treasury' = Treasury
  <2>1. \A i \in Ids : /\ StakesKept(i) /\ SamePots(i)
                       /\ SameRepaid(i) /\ SameRewarded(i)
    BY <1>5, <1>7, <1>8 DEF Untouched
  <2> QED BY <1>8, <2>1, AllSame
<1>11. Markets[id] # None /\ Markets[id].phase = "announced"
  BY <1>6 DEF Markets
<1> QED BY <1>4, <1>9, <1>10, <1>11
        DEF Market!CallOff, Markets, AllBets, AllPots, AllRepaid, AllRewarded,
            Treasury, Bets, Pots, Repaid, Rewarded

(* Accounts are created empty; the market does not see it. *)
LEMMA CreatingAccountsIsSilent ==
    ASSUME IInv,
           \/ Initialize
           \/ \E m \in Mints : CreateSystemFeeTokenAccount(m)
           \/ \E id \in Ids, s \in Sides, m \in Mints :
                 CreateEventTokenAccount(id, s, m)
    PROVE  UNCHANGED Market!marketVars
<1>1. TypeOK
  BY DEF IInv
<1>2. /\ clock' = clock /\ event' = event /\ ticket' = ticket
      /\ solHeld' = solHeld /\ wallet' = wallet
  BY DEF Initialize, CreateSystemFeeTokenAccount, CreateEventTokenAccount
<1>3. \A i \in Ids : /\ SameMarket(i) /\ StakesKept(i)
                     /\ SameRepaid(i) /\ SameRewarded(i)
  BY <1>2, SameTicketsKeepStakes
     DEF SameMarket, MarketOf, Deployed, PhaseOf, PrizeOf, IsStarted,
         IsFinished, IsResultSet, SameRepaid, SameRewarded, HasWithdrawn,
         HasClaimed, HasTicket
<1>4. SameTreasury
  BY <1>1, NativeIsAsset, NoneAssumption
     DEF Initialize, CreateSystemFeeTokenAccount, CreateEventTokenAccount,
         SameTreasury, FeeBalance, TypeOK, Assets
<1>5. \A i \in Ids : SamePots(i)
  <2>1. CASE vault' = vault
    BY <1>2, <2>1 DEF SamePots, Held, VaultAmount
  <2>2. ASSUME NEW id \in Ids, NEW s \in Sides, NEW m \in Mints,
               CreateEventTokenAccount(id, s, m),
               NEW i \in Ids, NEW z \in Sides
        PROVE  VaultAmount(i, z)' = VaultAmount(i, z)
    <3>1. CASE i = id /\ z = s
      <4>1. /\ vault[i][z] = None
            /\ vault'[i][z] = [mint |-> m, amount |-> 0]
        BY <1>1, <2>2, <3>1 DEF CreateEventTokenAccount, TypeOK
      <4> QED BY <4>1 DEF VaultAmount
    <3>2. CASE ~(i = id /\ z = s)
      BY <1>1, <2>2, <3>2 DEF CreateEventTokenAccount, TypeOK, VaultAmount
    <3> QED BY <3>1, <3>2
  <2> QED BY <1>2, <2>1, <2>2
          DEF SamePots, Held, Initialize, CreateSystemFeeTokenAccount
<1> QED BY <1>2, <1>3, <1>4, <1>5, NoChange

----------------------------------------------------------------------------
(***************************************************************************)
(* Setting the result: the cut is the fee, at most a fortieth of the       *)
(* stakes; what burning leaves is what was staked in lamports on a side    *)
(* played in tokens.                                                       *)
(***************************************************************************)
LEMMA FeeIsAtMostAFortieth ==
    ASSUME NEW pool \in Nat
    PROVE  FeeOf(pool) \in 0..(pool \div 40)
<1> DEFINE q == pool \div 1000
<1>1. q \in Nat /\ 1000 * q <= pool
  BY DivisionBounds
<1>2. /\ pool \div 40 \in Nat
      /\ pool < 40 * (pool \div 40) + 40
  BY DivisionBounds
<1>3. FeeOf(pool) = q * 25
  BY DEF FeeOf
<1> HIDE DEF q
<1> QED BY <1>1, <1>2, <1>3

LEMMA MarketSum ==
    ASSUME NEW f, NEW S
    PROVE  Market!SumFunctionOnSet(f, S) = SumFunctionOnSet(f, S)
BY DEF SumFunctionOnSet, FoldFunctionOnSet, MapThenFoldSet,
       Market!SumFunctionOnSet, Market!FoldFunctionOnSet,
       Market!MapThenFoldSet

LEMMA MarketTotal ==
    ASSUME NEW id \in Ids, NEW s \in Sides
    PROVE  Market!Total(id, s) = Staked(id, s)
<1>1. Market!Total(id, s) = Market!SumFunctionOnSet(AllBets[id][s], Users)
  BY DEF Market!Total, AllBets, Bets
<1>2. Market!SumFunctionOnSet(AllBets[id][s], Users)
         = SumFunctionOnSet(AllBets[id][s], Users)
  BY MarketSum
<1>3. AllBets[id][s] = [v \in Users |-> Stake(id, s, v)]
  BY DEF AllBets, Bets
<1> QED BY <1>1, <1>2, <1>3 DEF Staked, Over

LEMMA FinishIsSettle ==
    ASSUME IInv, IInv', NEW u \in Users, NEW id \in Ids, NEW r \in Sides,
           FinishEvent(u, id, r)
    PROVE  Market!Settle(id, r)
<1> DEFINE l == Other(r)
           amount == FeeOf(event[id].pool[l])
           a == event[id].mint[l]
           rest == Staked(id, l) - 2 * amount
           prize == IF event[id].burning THEN 0 ELSE rest
<1>1. /\ TypeOK /\ TypeOK' /\ EventInv(id) /\ EventInv(id)'
      /\ l \in Sides /\ l # r /\ Other(l) = r
      /\ \A z \in Sides : z = l \/ z = r
  BY DEF IInv, Sides, Other
<1>2. /\ Deployed(id) /\ IsFinished(id) /\ ~IsResultSet(id)
      /\ u = event[id].creator
      /\ clock' = clock /\ ticket' = ticket
  BY DEF FinishEvent, MayFinish
<1>3. /\ Deployed(id)'
      /\ event'[id].start_date = event[id].start_date
      /\ event'[id].end_date = event[id].end_date
      /\ event'[id].mint = event[id].mint
      /\ event'[id].burning = event[id].burning
      /\ event'[id].result = r
      /\ event'[id].pool[l] = event[id].pool[l] - 2 * amount
  BY <1>1, ResultRecorded
<1>4. event'[id].creator = event[id].creator
  <2>1. event[id] \in PredictionEvent
    BY <1>1, <1>2 DEF TypeOK, Deployed
  <2>2. event'[id] = [event[id] EXCEPT !.result = r,
                                       !.pool[l] = @ - 2 * FeeOf(@)]
    BY <1>1 DEF FinishEvent, TypeOK
  <2> QED BY <2>1, <2>2 DEF PredictionEvent
<1>5. /\ event[id].pool[l] = Staked(id, l) /\ Held(id, l) = Staked(id, l)
      /\ Staked(id, l) \in Nat /\ amount \in Nat /\ rest \in Nat
  <2>1. event[id].pool[l] = Staked(id, l) /\ Held(id, l) = Staked(id, l)
    BY <1>1, <1>2, NotNone
       DEF EventInv, PoolIsTicketSum, SideHoldsItsStakes, HasLost, HasWon,
           IsResultSet
  <2>2. Staked(id, l) \in Nat
    BY <1>1, TotalsAreNat
  <2> QED BY <2>1, <2>2, FeesFitThePool
<1>6. amount \in 0..(Staked(id, l) \div 40)
  BY <1>5, FeeIsAtMostAFortieth
<1>7. \A i \in Ids \ {id} : Untouched(i)
  BY <1>1, OtherEventsUntouched, SameAccountsUntouched
<1>8. MarketOf(id)' = [MarketOf(id) EXCEPT !.outcome = r, !.prize = prize]
  <2>1. IsStarted(id) /\ PhaseOf(id)' = PhaseOf(id)
    BY <1>1, <1>2, <1>3, SettledIsStarted
       DEF EventInv, PhaseOf, IsStarted, IsFinished
  <2>2. PrizeOf(id)' = prize
    BY <1>1, <1>3, <1>5, NotNone DEF PrizeOf, IsResultSet
  <2> HIDE DEF prize
  <2>3. MarketOf(id)' = [owner |-> event[id].creator, phase |-> PhaseOf(id),
                         asset |-> event[id].mint,
                         burning |-> event[id].burning,
                         outcome |-> r, prize |-> prize]
    BY <1>3, <1>4, <2>1, <2>2 DEF MarketOf
  <2>4. MarketOf(id) = [owner |-> event[id].creator, phase |-> PhaseOf(id),
                        asset |-> event[id].mint,
                        burning |-> event[id].burning,
                        outcome |-> event[id].result, prize |-> PrizeOf(id)]
    BY <1>2 DEF MarketOf
  <2>5. [MarketOf(id) EXCEPT !.outcome = r, !.prize = prize]
          = [owner |-> event[id].creator, phase |-> PhaseOf(id),
             asset |-> event[id].mint, burning |-> event[id].burning,
             outcome |-> r, prize |-> prize]
    <3> DEFINE n == [MarketOf(id) EXCEPT !.outcome = r]
    <3>1. n = [owner |-> event[id].creator, phase |-> PhaseOf(id),
               asset |-> event[id].mint, burning |-> event[id].burning,
               outcome |-> r, prize |-> PrizeOf(id)]
      BY <2>4
    <3> HIDE DEF n
    <3>2. [n EXCEPT !.prize = prize]
            = [owner |-> event[id].creator, phase |-> PhaseOf(id),
               asset |-> event[id].mint, burning |-> event[id].burning,
               outcome |-> r, prize |-> prize]
      BY <3>1
    <3> QED BY <3>2, Zenon DEF n
  <2> QED BY <2>3, <2>5, Zenon
<1>9. StakesKept(id) /\ SameRepaid(id) /\ SameRewarded(id)
  BY <1>2, SameTicketsKeepStakes
     DEF SameRepaid, SameRewarded, HasWithdrawn, HasClaimed, HasTicket
<1>10. \E left \in 0..rest : /\ left = rest \/ event[id].burning
                             /\ Held(id, l)' = left
  <2>1. CASE event[id].burning /\ a # Native
    <3>1. VaultAmount(id, l)' = 0
      BY <1>1, <2>1, FeesTaken
    <3>2. solHeld' = solHeld /\ LeftAfterFees(id, l) >= 0 /\ VaultReady(id, l)
      BY <2>1 DEF FinishEvent, TakeFeesInTokens, TakeFeesInLamports
    <3>3. LeftAfterFees(id, l) = VaultAmount(id, l) - 2 * amount
      BY <3>2 DEF LeftAfterFees, VaultAmount, VaultReady, HasVault
    <3>4. solHeld[id][l] \in Int /\ solHeld[id][l] >= 0
      BY <1>1, <1>2, <2>1 DEF TypeOK, EventInv, TokensInOwnVault
    <3>5. VaultAmount(id, l) \in Nat
      BY <1>1, VaultAmountIsNat
    <3>6. Held(id, l)' = solHeld[id][l] /\ Held(id, l) = solHeld[id][l] + VaultAmount(id, l)
      BY <3>1, <3>2, <3>4 DEF Held
    <3>7. Held(id, l)' \in 0..rest
      BY <1>5, <3>2, <3>3, <3>4, <3>5, <3>6
    <3> QED BY <2>1, <3>7
  <2>2. CASE ~(event[id].burning /\ a # Native)
    <3>1. Held(id, l)' = Held(id, l) - 2 * amount
      BY <1>1, <2>2, FeesTaken
    <3> QED BY <1>5, <3>1
  <2> QED BY <2>1, <2>2
<1>11. Held(id, r)' = Held(id, r)
  BY <1>1, FeesTaken
<1>12. Treasury' = [Treasury EXCEPT ![a] = @ + amount]
  <2>1. \A x \in Assets : FeeBalance(x)' = FeeBalance(x)
                              + (IF a = x THEN amount ELSE 0)
    BY <1>1, FeeFromFinished
  <2>2. \A x \in Assets : FeeBalance(x) \in Nat
    BY <1>1, FeeBalanceIsNat
  <2>3. a \in Assets
    BY <1>1, <1>2, AccountTypes DEF PredictionEvent
  <2> HIDE DEF a, amount
  <2>4. \A x \in Assets : FeeBalance(x)' = IF x = a THEN Treasury[a] + amount
                                             ELSE FeeBalance(x)
    BY <2>1, <2>2, <2>3 DEF Treasury
  <2> QED BY <2>3, <2>4 DEF Treasury
<1>13. wallet' = [wallet EXCEPT ![u][a] = @ + amount]
  BY DEF FinishEvent, TakeFeesInTokens, TakeFeesInLamports
<1>14. Markets' = [Markets EXCEPT ![id].outcome = r, ![id].prize = prize]
  <2> HIDE DEF prize
  <2>1. Markets' = [Markets EXCEPT ![id] =
                      [MarketOf(id) EXCEPT !.outcome = r, !.prize = prize]]
    BY <1>7, <1>8, MarketsUpdate DEF Untouched
  <2>2. Markets[id] = MarketOf(id)
    BY DEF Markets
  <2> QED BY <2>1, <2>2
<1>15. /\ AllBets' = AllBets /\ AllRepaid' = AllRepaid
       /\ AllRewarded' = AllRewarded
  <2>1. \A i \in Ids : StakesKept(i) /\ SameRepaid(i) /\ SameRewarded(i)
    BY <1>7, <1>9 DEF Untouched
  <2> QED BY <2>1, AllSame
<1>16. PICK left \in 0..rest : /\ left = rest \/ event[id].burning
                               /\ AllPots' = [AllPots EXCEPT ![id][l] = left]
  BY <1>1, <1>7, <1>10, <1>11, PotsUpdate DEF Untouched
<1>17. /\ Markets[id] # None /\ Markets[id].phase = "closed"
       /\ Markets[id].outcome = None /\ Markets[id].owner = u
       /\ Markets[id].asset[l] = a
       /\ Markets[id].burning = event[id].burning
  <2>1. PhaseOf(id) = "closed"
    BY <1>1, <1>2, SettledIsStarted DEF EventInv, PhaseOf
  <2> QED BY <1>1, <1>2, <2>1, MarketIsNotNone
          DEF Markets, MarketOf, IsResultSet
<1>18. Market!Other(r) = l
  BY DEF Market!Other, Other
<1>19. Market!Total(id, l) = Staked(id, l)
  BY <1>1, MarketTotal
<1> HIDE DEF l, amount, a, prize, rest
<1> DEFINE Cuts(k, b, o) ==
       \E cut \in 0..(Market!Total(id, k) \div 40) :
         LET left_over == Market!Total(id, k) - 2 * cut
         IN  /\ Treasury' = [Treasury EXCEPT ![b] = @ + cut]
             /\ wallet' = [wallet EXCEPT ![o][b] = @ + cut]
             /\ Markets' = [Markets EXCEPT ![id].outcome = r,
                    ![id].prize = IF Markets[id].burning THEN 0 ELSE left_over]
             /\ \E rem \in 0..left_over :
                  /\ rem = left_over \/ Markets[id].burning
                  /\ AllPots' = [AllPots EXCEPT ![id][k] = rem]
<1>20. Cuts(l, a, u)
  <2>1. amount \in 0..(Market!Total(id, l) \div 40)
    BY <1>6, <1>19
  <2>2. Market!Total(id, l) - 2 * amount = rest
    BY <1>19 DEF rest
  <2>3. prize = IF Markets[id].burning THEN 0 ELSE rest
    BY <1>17 DEF prize
  <2>4. left \in 0..rest /\ (left = rest \/ Markets[id].burning)
    BY <1>16, <1>17
  <2> QED BY <1>12, <1>13, <1>14, <1>16, <2>1, <2>2, <2>3, <2>4, Zenon
<1>21. LET k == Market!Other(r)
       IN  /\ Markets[id] # None
           /\ Markets[id].phase = "closed"
           /\ Markets[id].outcome = None
           /\ UNCHANGED <<AllBets, AllRepaid, AllRewarded>>
           /\ Cuts(k, Markets[id].asset[k], Markets[id].owner)
  <2> HIDE DEF Cuts
  <2>1. Cuts(Market!Other(r), Markets[id].asset[Market!Other(r)],
             Markets[id].owner)
    BY <1>17, <1>18, <1>20
  <2> QED BY <1>15, <1>17, <2>1
<1> QED BY <1>21
        DEF Market!Settle, Markets, AllBets, AllPots, AllRepaid,
            AllRewarded, Treasury, Bets, Pots, Repaid, Rewarded

----------------------------------------------------------------------------
(***************************************************************************)
(* Paying a winner.  A user's mark on the event is the mark of the user's  *)
(* ticket on the winning side: no other ticket is ever marked.             *)
(***************************************************************************)
LEMMA MarksAreOnWinningTickets ==
    ASSUME NEW id \in Ids, Deployed(id), MarkedOnlyIfWon(id),
           NEW w \in Sides, event[id].result = w, NEW u \in Users
    PROVE  /\ HasWithdrawn(id, u)
                <=> HasTicket(id, w, u) /\ ticket[id][w][u].withdrawn
           /\ HasClaimed(id, u)
                <=> HasTicket(id, w, u) /\ ticket[id][w][u].claimed
BY DEF MarkedOnlyIfWon, HasWon, HasWithdrawn, HasClaimed

LEMMA MarksAreOnWinningTicketsNext ==
    ASSUME NEW id \in Ids, Deployed(id)', MarkedOnlyIfWon(id)',
           NEW w \in Sides, event'[id].result = w, NEW u \in Users
    PROVE  /\ HasWithdrawn(id, u)'
                <=> HasTicket(id, w, u)' /\ ticket'[id][w][u].withdrawn
           /\ HasClaimed(id, u)'
                <=> HasTicket(id, w, u)' /\ ticket'[id][w][u].claimed
BY DEF MarkedOnlyIfWon, HasWon, HasWithdrawn, HasClaimed

(* What every payment leaves as it was. *)
LEMMA PaymentFrame ==
    ASSUME IInv, IInv', NEW u \in Users, NEW id \in Ids, NEW w \in Sides,
           ClaimRewards(u, id, w) \/ WithdrawDeposited(u, id, w)
    PROVE  /\ Markets' = Markets /\ AllBets' = AllBets /\ Treasury' = Treasury
           /\ \A i \in Ids \ {id} : Untouched(i)
           /\ \A v \in Users \ {u} : HasWithdrawn(id, v)' <=> HasWithdrawn(id, v)
           /\ \A v \in Users \ {u} : HasClaimed(id, v)' <=> HasClaimed(id, v)
           /\ Markets[id] # None /\ Markets[id].outcome = w /\ w # None
           /\ Markets[id].asset = event[id].mint
           /\ Markets[id].burning = event[id].burning
           /\ Markets[id].prize = PrizeOf(id)
<1>1. TypeOK /\ TypeOK' /\ EventInv(id) /\ EventInv(id)'
  BY DEF IInv
<1>2. /\ Deployed(id) /\ event[id].result = w /\ event' = event
      /\ HasTicket(id, w, u) /\ clock' = clock /\ fee' = fee
      /\ ~ticket[id][w][u].claimed \/ ~ticket[id][w][u].withdrawn
      /\ \/ ticket' = [ticket EXCEPT ![id][w][u].claimed = TRUE]
         \/ ticket' = [ticket EXCEPT ![id][w][u].withdrawn = TRUE]
  BY DEF ClaimRewards, MayClaim, WithdrawDeposited, MayWithdraw
<1>3. StakesKept(id)
  BY <1>1, PayingKeepsStakes
<1>4. \A i \in Ids \ {id} : Untouched(i)
  BY <1>1, OtherEventsUntouched, SameAccountsUntouched
<1>5. \A i \in Ids : SameMarket(i)
  BY <1>2 DEF SameMarket, MarketOf, Deployed, PhaseOf, PrizeOf, IsStarted,
              IsFinished, IsResultSet
<1>6. \A i \in Ids : StakesKept(i)
  BY <1>3, <1>4 DEF Untouched
<1>7. SameTreasury
  BY <1>2 DEF SameTreasury, FeeBalance
<1>8. Markets' = Markets /\ AllBets' = AllBets /\ Treasury' = Treasury
  BY <1>5, <1>6, <1>7, AllSame
<1>9. \A v \in Users \ {u} : ticket'[id][w][v] = ticket[id][w][v]
  BY <1>1, <1>2, TicketMarked
<1>10. ASSUME NEW v \in Users \ {u}
       PROVE  /\ HasWithdrawn(id, v)' <=> HasWithdrawn(id, v)
              /\ HasClaimed(id, v)' <=> HasClaimed(id, v)
  <2>1. HasTicket(id, w, v)' <=> HasTicket(id, w, v)
    BY <1>9 DEF HasTicket
  <2>2. Deployed(id)' /\ event'[id].result = w
    BY <1>2 DEF Deployed
  <2>3. MarkedOnlyIfWon(id) /\ MarkedOnlyIfWon(id)'
    BY <1>1 DEF EventInv
  <2> QED BY <1>2, <1>9, <2>1, <2>2, <2>3, MarksAreOnWinningTickets,
             MarksAreOnWinningTicketsNext
<1>11. MarketOf(id) # None
  BY <1>1, <1>2, MarketIsNotNone
<1>12. /\ Markets[id] # None /\ Markets[id].outcome = w /\ w # None
       /\ Markets[id].asset = event[id].mint
       /\ Markets[id].burning = event[id].burning
       /\ Markets[id].prize = PrizeOf(id)
  BY <1>2, <1>11, NotNone DEF Markets, MarketOf
<1> QED BY <1>4, <1>8, <1>10, <1>12

LEMMA WithdrawIsRepay ==
    ASSUME IInv, IInv', NEW u \in Users, NEW id \in Ids, NEW w \in Sides,
           WithdrawDeposited(u, id, w)
    PROVE  Market!Repay(u, id)
<1> DEFINE n == Stake(id, w, u)
<1>1. /\ TypeOK /\ TypeOK' /\ EventInv(id) /\ EventInv(id)'
      /\ Other(w) \in Sides /\ Other(w) # w
  BY OtherIsSide DEF IInv
<1>2. /\ Deployed(id) /\ event[id].result = w /\ event' = event
      /\ HasTicket(id, w, u) /\ ~ticket[id][w][u].withdrawn
      /\ PayFrom(u, id, w, ticket[id][w][u].amount)
      /\ ticket' = [ticket EXCEPT ![id][w][u].withdrawn = TRUE]
  BY DEF WithdrawDeposited, MayWithdraw
<1>3. n = ticket[id][w][u].amount /\ n \in Nat
  BY <1>1, <1>2, BetIsNat DEF Stake
<1>4. /\ Markets' = Markets /\ AllBets' = AllBets /\ Treasury' = Treasury
      /\ \A i \in Ids \ {id} : Untouched(i)
      /\ \A v \in Users \ {u} : HasWithdrawn(id, v)' <=> HasWithdrawn(id, v)
      /\ \A v \in Users \ {u} : HasClaimed(id, v)' <=> HasClaimed(id, v)
      /\ Markets[id] # None /\ Markets[id].outcome = w /\ w # None
      /\ Markets[id].asset = event[id].mint
  BY PaymentFrame
<1>5. /\ HasTicket(id, w, u)' /\ ticket'[id][w][u].withdrawn
      /\ ticket'[id][w][u].claimed = ticket[id][w][u].claimed
  <2>1. ticket[id][w][u] \in Ticket
    BY <1>1, <1>2, AccountTypes
  <2>2. HasTicket(id, w, u)'
    BY <1>1, <1>2, TicketMarked
  <2> QED BY <1>1, <1>2, <2>1, <2>2 DEF TypeOK, Ticket
<1>6. /\ ~HasWithdrawn(id, u) /\ HasWithdrawn(id, u)'
      /\ HasClaimed(id, u)' <=> HasClaimed(id, u)
  <2>1. Deployed(id)' /\ event'[id].result = w
    BY <1>2 DEF Deployed
  <2>2. MarkedOnlyIfWon(id) /\ MarkedOnlyIfWon(id)'
    BY <1>1 DEF EventInv
  <2> QED BY <1>2, <1>5, <2>1, <2>2, MarksAreOnWinningTickets,
             MarksAreOnWinningTicketsNext
<1>7. /\ Held(id, w)' = Held(id, w) - n
      /\ Held(id, Other(w))' = Held(id, Other(w))
  BY <1>1, <1>2, <1>3, PaidFromOneSide
<1>8. Held(id, w) >= n
  <2> DEFINE f == [v \in Users |-> Unwithdrawn(id, w, v)]
  <2>1. Held(id, w) = StillToWithdraw(id, w)
    BY <1>1, <1>2, NotNone
       DEF EventInv, SideHoldsItsStakes, HasWon, HasLost, IsResultSet
  <2>2. \A v \in Users : f[v] \in Nat
    BY <1>1, TicketTermsAreNat DEF TicketTermsInNat
  <2>3. f[u] = n
    BY <1>2, <1>3 DEF Unwithdrawn
  <2>4. StillToWithdraw(id, w) = SumFunctionOnSet(f, Users)
    BY DEF StillToWithdraw, Over
  <2> HIDE DEF f, n
  <2>5. f[u] <= SumFunctionOnSet(f, Users)
    BY <2>2, SumBoundsElement, SetsAssumption
  <2>6. SumFunctionOnSet(f, Users) \in Nat
    BY <2>2, SumIsNat, SetsAssumption
  <2> QED BY <1>3, <2>1, <2>3, <2>4, <2>5, <2>6
<1>9. AllPots' = [AllPots EXCEPT ![id][w] = @ - n]
  <2>1. AllPots' = [AllPots EXCEPT ![id][w] = Held(id, w) - n]
    BY <1>1, <1>4, <1>7, PotsUpdate DEF Untouched
  <2>2. AllPots[id][w] = Held(id, w)
    BY DEF AllPots, Pots
  <2> QED BY <2>1, <2>2
<1>10. AllRepaid' = [AllRepaid EXCEPT ![id] = @ \cup {u}]
  BY <1>4, <1>6, RepaidUpdate DEF Untouched
<1>11. AllRewarded' = AllRewarded
  <2>1. \A i \in Ids : SameRewarded(i)
    BY <1>4, <1>6 DEF Untouched, SameRewarded
  <2> QED BY <2>1, AllSame
<1>12. wallet' = [wallet EXCEPT ![u][Markets[id].asset[w]] = @ + n]
  BY <1>2, <1>3, <1>4 DEF PayFrom, PayTokens, PayLamports
<1>13. AllBets[id][w][u] = n /\ u \notin AllRepaid[id] /\ AllPots[id][w] >= n
  BY <1>6, <1>8 DEF AllBets, Bets, AllRepaid, Repaid, AllPots, Pots
<1>14. LET k == Markets[id].outcome
           m == AllBets[id][k][u]
       IN  /\ Markets[id] # None
           /\ k # None
           /\ u \notin AllRepaid[id]
           /\ AllPots[id][k] >= m
           /\ AllPots' = [AllPots EXCEPT ![id][k] = @ - m]
           /\ wallet' = [wallet EXCEPT ![u][Markets[id].asset[k]] = @ + m]
           /\ AllRepaid' = [AllRepaid EXCEPT ![id] = @ \cup {u}]
           /\ UNCHANGED <<Markets, AllBets, AllRewarded, Treasury>>
  <2> HIDE DEF n
  <2> QED BY <1>4, <1>9, <1>10, <1>11, <1>12, <1>13, Zenon
<1> QED BY <1>14
        DEF Market!Repay, Markets, AllBets, AllPots, AllRepaid, AllRewarded,
            Treasury, Bets, Pots, Repaid, Rewarded

(* A rewarded ticket gets its fair share of the prize, and no more than all. *)
LEMMA RewardIsFair ==
    ASSUME NEW n \in Nat, NEW of \in Nat, of > 0, n <= of, NEW prize \in Nat
    PROVE  /\ RewardOf(n, of, prize) \in 0..prize
           /\ Market!FairShare(n, of, prize, RewardOf(n, of, prize))
<1> DEFINE s == ShareOf(n, of)
           x == RewardOf(n, of, prize)
           d == (of * prize) \div 100000
           np == n * prize
           op == of * prize
           ox == of * x
<1>1. s \in Nat /\ of * s <= 100000 * n /\ 100000 * n < of * s + of
  BY ShareBounds DEF ShareIsRounded
<1>2. /\ x \in Nat /\ 100000 * x <= prize * s
      /\ prize * s < 100000 * x + 100000
  BY RewardBounds DEF RewardIsRounded
<1>3. d \in Nat /\ op < 100000 * d + 100000 /\ op \in Nat
  <2>1. of * prize \in Nat
    OBVIOUS
  <2> QED BY <2>1, DivisionBounds
<1>4. np \in Nat /\ ox \in Nat
  BY <1>2
<1> HIDE DEF s, x, d
<1>5. of * (prize * s) = prize * (of * s) /\ prize * (of * s) \in Nat
  BY <1>1
<1>6. of * (100000 * x) = 100000 * ox /\ prize * (100000 * n) = 100000 * np
  BY <1>2
<1>7. ox <= np
  <2>1. of * (100000 * x) <= of * (prize * s)
    BY <1>1, <1>2
  <2>2. prize * (of * s) <= prize * (100000 * n)
    BY <1>1
  <2> HIDE DEF ox, np
  <2> QED BY <1>4, <1>5, <1>6, <2>1, <2>2
<1>8. np <= ox + of + d
  <2>1. prize * (100000 * n) <= prize * (of * s + of)
    BY <1>1
  <2>2. prize * (of * s + of) = of * (prize * s) + op
    BY <1>1
  <2>3. of * (prize * s) <= of * (100000 * x + 100000)
    BY <1>1, <1>2
  <2>4. of * (100000 * x + 100000) = 100000 * ox + 100000 * of
    BY <1>2
  <2> DEFINE c == of * (prize * s)
  <2>5. c \in Nat
    BY <1>1
  <2>6. 100000 * np <= c + op /\ c <= 100000 * ox + 100000 * of
    BY <1>6, <2>1, <2>2, <2>3, <2>4
  <2> HIDE DEF ox, np, op, c
  <2>7. 100000 * np < 100000 * (ox + of + d + 1)
    BY <1>3, <1>4, <2>5, <2>6
  <2> QED BY <1>3, <1>4, <2>7
<1>9. s <= 100000
  <2>1. SUFFICES ASSUME s >= 100001 PROVE FALSE
    BY <1>1
  <2>2. of * s >= of * 100001
    BY <1>1, <2>1
  <2> QED BY <1>1, <2>2
<1>10. x <= prize
  <2> DEFINE ps == prize * s
  <2>1. ps \in Nat /\ 100000 * x <= ps
    BY <1>1, <1>2
  <2>2. ps <= 100000 * prize
    <3>1. ps <= prize * 100000
      BY <1>1, <1>9
    <3> QED BY <3>1
  <2> HIDE DEF ps
  <2> QED BY <1>2, <2>1, <2>2
<1>11. of * (x + 1) = ox + of
  BY <1>2
<1>12. x \in 0..prize
  BY <1>2, <1>10
<1>13. Market!FairShare(n, of, prize, x)
  <2>1. of * x <= n * prize
    BY <1>7
  <2>2. n * prize <= of * (x + 1) + d
    BY <1>8, <1>11
  <2> QED BY <2>1, <2>2 DEF Market!FairShare, d
<1> QED BY <1>12, <1>13 DEF x

LEMMA ClaimIsReward ==
    ASSUME IInv, IInv', NEW u \in Users, NEW id \in Ids, NEW w \in Sides,
           ClaimRewards(u, id, w)
    PROVE  Market!Reward(u, id)
<1> DEFINE l == Other(w)
           x == Reward(u, id, w)
           prize == event[id].pool[l]
<1>1. /\ TypeOK /\ TypeOK' /\ EventInv(id) /\ EventInv(id)'
      /\ l \in Sides /\ l # w /\ Other(l) = w
  BY OtherIsSide DEF IInv
<1>2. /\ Deployed(id) /\ ~event[id].burning /\ event[id].result = w
      /\ HasTicket(id, w, u) /\ ~ticket[id][w][u].claimed
      /\ event[id].pool[w] > 0 /\ PayFrom(u, id, l, x) /\ event' = event
      /\ ticket' = [ticket EXCEPT ![id][w][u].claimed = TRUE]
      /\ IsResultSet(id)
  BY NotNone DEF ClaimRewards, MayClaim, RewardFits, IsResultSet
<1>3. /\ Markets' = Markets /\ AllBets' = AllBets /\ Treasury' = Treasury
      /\ \A i \in Ids \ {id} : Untouched(i)
      /\ \A v \in Users \ {u} : HasWithdrawn(id, v)' <=> HasWithdrawn(id, v)
      /\ \A v \in Users \ {u} : HasClaimed(id, v)' <=> HasClaimed(id, v)
      /\ Markets[id] # None /\ Markets[id].outcome = w /\ w # None
      /\ Markets[id].asset = event[id].mint
      /\ Markets[id].burning = event[id].burning
      /\ Markets[id].prize = PrizeOf(id)
  BY PaymentFrame
<1>4. /\ event[id].pool[w] = Staked(id, w)
      /\ Stake(id, w, u) = ticket[id][w][u].amount
      /\ Stake(id, w, u) \in Nat /\ Stake(id, w, u) <= Staked(id, w)
      /\ event[id].pool[w] \in Nat /\ prize \in Nat
  BY <1>1, <1>2, WinningPoolIsStaked, StakeWithinPool, PoolsAreNat DEF Stake
<1>5. Markets[id].prize = prize
  BY <1>2, <1>3 DEF PrizeOf
<1>6. /\ x \in 0..prize
      /\ Market!FairShare(Stake(id, w, u), Staked(id, w), prize, x)
  <2>1. x = RewardOf(Stake(id, w, u), Staked(id, w), prize)
    BY <1>4 DEF Reward
  <2> HIDE DEF x, prize
  <2> QED BY <1>2, <1>4, <2>1, RewardIsFair
<1>7. /\ HasTicket(id, w, u)' /\ ticket'[id][w][u].claimed
      /\ ticket'[id][w][u].withdrawn = ticket[id][w][u].withdrawn
  <2>1. ticket[id][w][u] \in Ticket
    BY <1>1, <1>2, AccountTypes
  <2>2. HasTicket(id, w, u)'
    BY <1>1, <1>2, TicketMarked
  <2> QED BY <1>1, <1>2, <2>1, <2>2 DEF TypeOK, Ticket
<1>8. /\ ~HasClaimed(id, u) /\ HasClaimed(id, u)'
      /\ HasWithdrawn(id, u)' <=> HasWithdrawn(id, u)
  <2>1. Deployed(id)' /\ event'[id].result = w
    BY <1>2 DEF Deployed
  <2>2. MarkedOnlyIfWon(id) /\ MarkedOnlyIfWon(id)'
    BY <1>1 DEF EventInv
  <2> QED BY <1>2, <1>7, <2>1, <2>2, MarksAreOnWinningTickets,
             MarksAreOnWinningTicketsNext
<1>9. x \in Nat
  <2> HIDE DEF x, prize
  <2> QED BY <1>4, <1>6
<1>10. /\ Held(id, l)' = Held(id, l) - x
       /\ Held(id, Other(l))' = Held(id, Other(l))
  BY <1>1, <1>2, <1>9, PaidFromOneSide
<1>11. Held(id, l) >= x
  <2> DEFINE f == [v \in Users |-> RewardIf(id, w, v, FALSE)]
             g == ClaimedBy(id, w)
  <2>1. Held(id, l) = prize - g
    BY <1>1, <1>2, WinningPoolIsStaked
       DEF EventInv, SideHoldsItsStakes
  <2>2. g + StillToClaim(id, w) <= prize /\ g \in Nat
    BY <1>1, <1>2, <1>4, RewardsFitTheLosingPool, TotalsAreNat
  <2>3. \A v \in Users : f[v] \in Nat
    BY <1>1, <1>2, TicketTermsAreNat DEF TicketTermsInNat
  <2>4. f[u] = x
    <3>1. ticket[id][w][u].claimed = FALSE
      BY <1>1, <1>2, AccountTypes DEF Ticket
    <3> QED BY <1>2, <3>1 DEF RewardIf
  <2>5. StillToClaim(id, w) = SumFunctionOnSet(f, Users)
    BY DEF StillToClaim, Over
  <2> HIDE DEF f, g, x, prize
  <2>6. f[u] <= SumFunctionOnSet(f, Users)
    BY <2>3, SumBoundsElement, SetsAssumption
  <2>7. SumFunctionOnSet(f, Users) \in Nat
    BY <2>3, SumIsNat, SetsAssumption
  <2> QED BY <1>4, <1>9, <2>1, <2>2, <2>4, <2>5, <2>6, <2>7
<1>12. AllPots' = [AllPots EXCEPT ![id][l] = @ - x]
  <2> HIDE DEF x
  <2>1. AllPots' = [AllPots EXCEPT ![id][l] = Held(id, l) - x]
    BY <1>1, <1>3, <1>10, PotsUpdate DEF Untouched
  <2>2. AllPots[id][l] = Held(id, l)
    BY <1>1 DEF AllPots, Pots
  <2> QED BY <2>1, <2>2
<1>13. AllRewarded' = [AllRewarded EXCEPT ![id] = @ \cup {u}]
  BY <1>3, <1>8, RewardedUpdate DEF Untouched
<1>14. AllRepaid' = AllRepaid
  <2>1. \A i \in Ids : SameRepaid(i)
    BY <1>3, <1>8 DEF Untouched, SameRepaid
  <2> QED BY <2>1, AllSame
<1>15. wallet' = [wallet EXCEPT ![u][Markets[id].asset[l]] = @ + x]
  BY <1>2, <1>3 DEF PayFrom, PayTokens, PayLamports
<1>16. /\ u \notin AllRewarded[id] /\ AllPots[id][l] >= x
       /\ ~Markets[id].burning
       /\ Market!FairShare(AllBets[id][w][u], Market!Total(id, w), prize, x)
  <2>1. u \notin AllRewarded[id] /\ ~Markets[id].burning
    BY <1>2, <1>3, <1>8 DEF AllRewarded, Rewarded
  <2>2. AllPots[id][l] = Held(id, l)
    BY <1>1 DEF AllPots, Pots
  <2>3. AllBets[id][w][u] = Stake(id, w, u)
    BY DEF AllBets, Bets
  <2> HIDE DEF x, prize, l
  <2> QED BY <1>6, <1>11, <2>1, <2>2, <2>3, MarketTotal
<1>17. LET k == Markets[id].outcome
           m == Market!Other(k)
       IN  /\ Markets[id] # None
           /\ k # None
           /\ ~Markets[id].burning
           /\ u \notin AllRewarded[id]
           /\ AllRewarded' = [AllRewarded EXCEPT ![id] = @ \cup {u}]
           /\ UNCHANGED <<Markets, AllBets, AllRepaid, Treasury>>
           /\ \E y \in 0..Markets[id].prize :
                /\ AllPots[id][m] >= y
                /\ wallet' = [wallet EXCEPT ![u][Markets[id].asset[m]] = @ + y]
                /\ AllPots' = [AllPots EXCEPT ![id][m] = @ - y]
                /\ Market!FairShare(AllBets[id][k][u], Market!Total(id, k),
                                    Markets[id].prize, y)
  <2> DEFINE k == Markets[id].outcome
             m == Market!Other(k)
  <2>1. k = w /\ m = l
    BY <1>3 DEF Market!Other, Other
  <2> HIDE DEF k, m, x, prize, l
  <2>2. \E y \in 0..Markets[id].prize :
           /\ AllPots[id][m] >= y
           /\ wallet' = [wallet EXCEPT ![u][Markets[id].asset[m]] = @ + y]
           /\ AllPots' = [AllPots EXCEPT ![id][m] = @ - y]
           /\ Market!FairShare(AllBets[id][k][u], Market!Total(id, k),
                               Markets[id].prize, y)
    BY <1>5, <1>6, <1>12, <1>15, <1>16, <2>1, Zenon
  <2> QED BY <1>3, <1>13, <1>14, <1>16, <2>1, <2>2, Zenon DEF k, m
<1> QED BY <1>17
        DEF Market!Reward, Markets, AllBets, AllPots, AllRepaid, AllRewarded,
            Treasury, Bets, Pots, Repaid, Rewarded

----------------------------------------------------------------------------
(* Every step of the program is a step of the market, or none. *)
LEMMA StepSimulates ==
    IInv /\ IInv' /\ [Next]_vars => [Market!Next]_(Market!marketVars)
<1> SUFFICES ASSUME IInv, IInv', [Next]_vars
             PROVE  Market!Next \/ UNCHANGED Market!marketVars
  OBVIOUS
<1>1. CASE Tick
  BY <1>1, TickIsPassTime DEF Market!Next
<1>2. CASE UNCHANGED vars
  <2>1. \A i \in Ids : SameAccounts(i)
    BY <1>2 DEF vars, SameAccounts
  <2>2. \A i \in Ids : Untouched(i)
    BY <2>1, SameAccountsUntouched
  <2>3. SameTreasury /\ wallet' = wallet
    BY <1>2 DEF vars, SameTreasury, FeeBalance
  <2> QED BY <2>2, <2>3, NoChange DEF Untouched
<1>3. CASE SetUp
  <2>1. ASSUME NEW u \in Users, NEW id \in Ids, NEW start \in Dates,
               NEW end \in Dates, NEW mint \in [Sides -> Assets],
               NEW burning \in BOOLEAN,
               DeployEvent(u, id, start, end, mint, burning)
        PROVE  Market!Next
    <3>1. Market!Announce(u, id)
      BY <2>1, DeployIsAnnounce
    <3> QED BY <3>1 DEF Market!Next
  <2>2. CASE ~\E u \in Users, id \in Ids, start \in Dates, end \in Dates,
                mint \in [Sides -> Assets], burning \in BOOLEAN :
               DeployEvent(u, id, start, end, mint, burning)
    <3>1. \/ Initialize
          \/ \E m \in Mints : CreateSystemFeeTokenAccount(m)
          \/ \E id \in Ids, s \in Sides, m \in Mints :
                CreateEventTokenAccount(id, s, m)
      BY <1>3, <2>2 DEF SetUp
    <3> QED BY <3>1, CreatingAccountsIsSilent
  <2> QED BY <2>1, <2>2
<1>4. CASE Vote
  <2>1. PICK u \in Users, id \in Ids, s \in Sides, n \in Amounts :
          VoteWithTokens(u, id, s, n) \/ VoteWithLamports(u, id, s, n)
    BY <1>4 DEF Vote
  <2>2. \E a \in Assets : Market!Bet(u, id, s, n, a)
    BY <2>1, VoteIsBet
  <2> QED BY <2>2 DEF Market!Next, Market!Sides, Sides
<1>5. CASE Settle
  <2>1. PICK u \in Users, id \in Ids, s \in Sides :
          \/ FinishEvent(u, id, s)
          \/ ClaimRewards(u, id, s)
          \/ WithdrawDeposited(u, id, s)
    BY <1>5 DEF Settle
  <2>2. \/ Market!Settle(id, s)
        \/ Market!Reward(u, id)
        \/ Market!Repay(u, id)
    BY <2>1, FinishIsSettle, ClaimIsReward, WithdrawIsRepay
  <2> QED BY <2>2 DEF Market!Next, Market!Sides, Sides
<1>6. CASE Close
  <2>1. PICK u \in Users, id \in Ids, pools \in SUBSET Sides :
          CloseEvent(u, id, pools)
    BY <1>6 DEF Close
  <2>2. Market!CallOff(id)
    BY <2>1, CloseIsCallOff
  <2> QED BY <2>2 DEF Market!Next
<1> QED BY <1>1, <1>2, <1>3, <1>4, <1>5, <1>6 DEF Next

(***************************************************************************)
(* For any users, events, mints, dates and amounts, every behaviour of the *)
(* program is one of the market: whatever the accounts, their creation and *)
(* the interleaving, bets, settlement and payments are those of            *)
(* PredictionMarket.                                                       *)
(***************************************************************************)
THEOREM ImplementsMarketAlways == Spec => ImplementsMarket
<1>1. Init => Market!Init
  <2> SUFFICES ASSUME Init PROVE Market!Init
    OBVIOUS
  <2>1. \A i \in Ids : MarketOf(i) = None
    BY DEF Init, MarketOf, Deployed
  <2>2. \A i \in Ids, s \in Sides, u \in Users :
           ~HasTicket(i, s, u) /\ Stake(i, s, u) = 0
    BY DEF Init, HasTicket, Stake
  <2>3. \A i \in Ids, s \in Sides : Held(i, s) = 0
    BY DEF Init, Held, VaultAmount
  <2>4. \A i \in Ids : Repaid(i) = {} /\ Rewarded(i) = {}
    BY <2>2 DEF Repaid, Rewarded, HasWithdrawn, HasClaimed
  <2>5. \A a \in Assets : FeeBalance(a) = 0
    BY DEF Init, FeeBalance
  <2>6. wallet \in [Users -> [Assets -> Nat]]
    BY BoundsAssumption DEF Init
  <2> QED BY <2>1, <2>2, <2>3, <2>4, <2>5, <2>6
          DEF Market!Init, Market!Sides, Sides, Repaid, Rewarded
<1> QED BY <1>1, StepSimulates, InductiveInvariant, PTL
        DEF Spec, ImplementsMarket, Market!Spec
=============================================================================
