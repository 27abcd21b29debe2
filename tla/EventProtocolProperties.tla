----------------------- MODULE EventProtocolProperties -----------------------
(***************************************************************************)
(* What the event program must keep true, and what its own comments claim. *)
(***************************************************************************)
EXTENDS EventProtocol

(* Every account holds a value the code could have stored in it. *)
TypeOK ==
    /\ clock \in Nat
    /\ event \in [Ids -> PredictionEvent \cup {None}]
    /\ ticket \in [Ids -> [Sides -> [Users -> Ticket \cup {None}]]]
    /\ vault \in [Ids -> [Sides -> TokenAccount \cup {None}]]
    /\ lamports \in [Ids -> Nat]
    /\ fee \in [Assets -> Nat \cup {None}]
    /\ wallet \in [Users -> [Assets -> Nat]]
    /\ supply \in [Mints -> Nat]
    /\ solHeld \in [Ids -> [Sides -> Int]]

----------------------------------------------------------------------------
(* Totals over the tickets of one side of an event.                        *)

Stake(id, s, u) == IF HasTicket(id, s, u) THEN ticket[id][s][u].amount ELSE 0

Unwithdrawn(id, s, u) ==
    IF HasTicket(id, s, u) /\ ~ticket[id][s][u].withdrawn
    THEN ticket[id][s][u].amount ELSE 0

RewardIf(id, w, u, claimed) ==
    IF HasTicket(id, w, u) /\ ticket[id][w][u].claimed = claimed
       /\ event[id].pool[w] > 0
    THEN Reward(u, id, w) ELSE 0

Over(f) == SumFunctionOnSet(f, Users)

Staked(id, s) == Over([u \in Users |-> Stake(id, s, u)])
StillToWithdraw(id, s) == Over([u \in Users |-> Unwithdrawn(id, s, u)])
ClaimedBy(id, w) == Over([u \in Users |-> RewardIf(id, w, u, TRUE)])
StillToClaim(id, w) == Over([u \in Users |-> RewardIf(id, w, u, FALSE)])

HasLost(id, s) == event[id].result = Other(s)
HasWon(id, s) == event[id].result = s

VaultAmount(id, s) == IF vault[id][s] = None THEN 0 ELSE vault[id][s].amount

(* Everything the program holds on behalf of one side. *)
Held(id, s) == solHeld[id][s] + VaultAmount(id, s)

(* Were all the stakes of the side made in the side's own asset? *)
StakedInKind(id, s) == event[id].mint[s] = Native \/ solHeld[id][s] = 0

(* What the side still owes, to its own winners or to the other side's. *)
Owes(id, s) ==
    IF HasWon(id, s) THEN StillToWithdraw(id, s)
    ELSE IF HasLost(id, s) /\ ~event[id].burning
         THEN StillToClaim(id, Other(s))
         ELSE 0

----------------------------------------------------------------------------
(* Safety.                                                                 *)

(***************************************************************************)
(* The recorded pool of a side is the sum of that side's tickets, for as   *)
(* long as the event exists and however votes, claims and withdrawals of   *)
(* different users interleave; once the side has lost it is that sum       *)
(* without the two fees.  vote_event updates the two accounts separately   *)
(* and claim_rewards divides one by the other.                             *)
(***************************************************************************)
PoolIsTicketSum(id, s) ==
    event[id].pool[s] = IF HasLost(id, s)
                        THEN Staked(id, s) - 2 * FeeOf(Staked(id, s))
                        ELSE Staked(id, s)

PoolsAreTicketSums ==
    \A id \in Ids : Deployed(id) => \A s \in Sides : PoolIsTicketSum(id, s)

(***************************************************************************)
(* To the unit, a side holds (as tokens or as lamports, both kinds of vote *)
(* counted) what was staked on it and has not been paid out: its stakes    *)
(* before the result, the stakes not yet withdrawn if it won, and if it    *)
(* lost its pool without the rewards already claimed.  On a burning event  *)
(* a losing side's vault is empty, and a losing side in SOL keeps its pool:*)
(* SOL is neither burned nor claimed.                                      *)
(***************************************************************************)
SideHoldsItsStakes(id, s) ==
    \/ ~IsResultSet(id) /\ Held(id, s) = Staked(id, s)
    \/ HasWon(id, s) /\ Held(id, s) = StillToWithdraw(id, s)
    \/ /\ HasLost(id, s) /\ ~event[id].burning
       /\ Held(id, s) = event[id].pool[s] - ClaimedBy(id, Other(s))
    \/ /\ HasLost(id, s) /\ event[id].burning
       /\ IF event[id].mint[s] = Native
          THEN Held(id, s) = event[id].pool[s]
          ELSE VaultAmount(id, s) = 0

SidesHoldTheirStakes ==
    \A id \in Ids : Deployed(id) => \A s \in Sides : SideHoldsItsStakes(id, s)

(***************************************************************************)
(* Once the result is set, what is there covers every withdrawal and every *)
(* claim that is still to come, in whatever order the winners send them:   *)
(* the event account's lamports cover its SOL sides together, and the pool *)
(* of a token side covers that side, provided that all of its stakes were  *)
(* made in tokens.                                                         *)
(***************************************************************************)
SolOwed(id, s) == IF event[id].mint[s] = Native THEN Owes(id, s) ELSE 0

EventCovers(id) ==
    /\ lamports[id] >= SolOwed(id, "Left") + SolOwed(id, "Right")
    /\ \A s \in Sides :
          (event[id].mint[s] # Native /\ StakedInKind(id, s)) =>
              /\ VaultAmount(id, s) >= Owes(id, s)
              /\ Owes(id, s) > 0 => VaultReady(id, s)

PayoutsCovered ==
    \A id \in Ids : (Deployed(id) /\ IsResultSet(id)) => EventCovers(id)

(***************************************************************************)
(* As long as the pools of a settled event, in units of 1/100000, fit a    *)
(* u64, no claim ever aborts on its arithmetic: neither bet_amount *       *)
(* 100_000 nor the share times the losing pool overflows, for any ticket.  *)
(***************************************************************************)
FitsScaled(pool) == pool <= MaxU64 \div 100000

BoundedPoolsCanBeClaimed ==
    \A id \in Ids :
        (/\ Deployed(id) /\ IsResultSet(id)
         /\ \A s \in Sides : FitsScaled(event[id].pool[s])) =>
            \A u \in Users :
                Stake(id, event[id].result, u) > 0 =>
                    RewardFits(Stake(id, event[id].result, u),
                               event[id].pool[event[id].result],
                               event[id].pool[Other(event[id].result)])

(***************************************************************************)
(* When the last winner has claimed, only the roundings of the rewards are *)
(* left of the losing pool: less than one unit and 1/100000 of the pool per*)
(* winner.  The rest has reached the winners, and nothing can take it back.*)
(***************************************************************************)
Winners(id) == {u \in Users : Stake(id, event[id].result, u) > 0}

OnlyDustIsLeft ==
    \A id \in Ids :
        (/\ Deployed(id) /\ IsResultSet(id) /\ ~event[id].burning
         /\ Winners(id) # {}
         /\ \A u \in Winners(id) : ticket[id][event[id].result][u].claimed) =>
            LET l == Other(event[id].result)
            IN  100000 * Held(id, l)
                    < Cardinality(Winners(id)) * (event[id].pool[l] + 100000)

(***************************************************************************)
(* Nothing is held for an event that does not exist or has not started: no *)
(* ticket, no lamports, no tokens in a pool.  This is what makes closing   *)
(* harmless, and deploying a closed id again, with pools left over from    *)
(* its first life.                                                         *)
(***************************************************************************)
NothingHeld(id) ==
    /\ lamports[id] = 0
    /\ \A s \in Sides : /\ Held(id, s) = 0
                        /\ VaultAmount(id, s) = 0
                        /\ \A u \in Users : ~HasTicket(id, s, u)

NothingHeldBeforeTheStart ==
    \A id \in Ids : (Deployed(id) => ~IsStarted(id)) => NothingHeld(id)

(***************************************************************************)
(* The system's fee accounts hold exactly the fees of the settled events:  *)
(* for each asset, one fee per event whose losing side is in that asset.   *)
(***************************************************************************)
FeeFrom(id, a) ==
    IF /\ Deployed(id)
       /\ IsResultSet(id)
       /\ event[id].mint[Other(event[id].result)] = a
    THEN FeeOf(Staked(id, Other(event[id].result)))
    ELSE 0

SystemFeesCollected ==
    \A a \in Assets :
        LET collected == SumFunctionOnSet([id \in Ids |-> FeeFrom(id, a)], Ids)
        IN  IF fee[a] = None THEN collected = 0 ELSE fee[a] = collected

(***************************************************************************)
(* Nothing is created and, except by burning, nothing is lost: the wallets,*)
(* the events and the system accounts together hold a mint's supply, and   *)
(* the SOL there was at first.                                             *)
(***************************************************************************)
FeeBalance(a) == IF fee[a] = None THEN 0 ELSE fee[a]

InVaults(m) ==
    SumFunctionOnSet([p \in Ids \X Sides |->
        IF vault[p[1]][p[2]] # None /\ vault[p[1]][p[2]].mint = m
        THEN vault[p[1]][p[2]].amount ELSE 0], Ids \X Sides)

Conservation ==
    /\ \A m \in Mints :
          Over([u \in Users |-> wallet[u][m]]) + InVaults(m) + FeeBalance(m)
              = supply[m]
    /\ Over([u \in Users |-> wallet[u][Native]])
         + SumFunctionOnSet(lamports, Ids) + FeeBalance(Native)
         = Over([u \in Users |-> Endowment[u][Native]])

----------------------------------------------------------------------------
(***************************************************************************)
(* The inductive invariant: the safety invariants above that are about one *)
(* event, and what they rest on.  A deployed event's dates are in order and*)
(* its result is set only after the end, a ticket is marked only on the    *)
(* winning side, an event account's lamports are those of its two sides,   *)
(* and tokens are only ever in a pool of the event's mint.                 *)
(***************************************************************************)
DatesInOrder(id) ==
    Deployed(id) => /\ event[id].start_date < event[id].end_date
                    /\ IsResultSet(id) => IsFinished(id)

MarkedOnlyIfWon(id) ==
    \A s \in Sides, u \in Users : HasTicket(id, s, u) =>
        /\ ticket[id][s][u].claimed =>
              Deployed(id) /\ HasWon(id, s) /\ ~event[id].burning
        /\ ticket[id][s][u].withdrawn => Deployed(id) /\ HasWon(id, s)

SolAddsUp(id) == lamports[id] = solHeld[id]["Left"] + solHeld[id]["Right"]

TokensInOwnVault(id) ==
    \A s \in Sides :
        /\ VaultAmount(id, s) > 0 => Deployed(id) /\ VaultReady(id, s)
        /\ (Deployed(id) /\ event[id].mint[s] # Native) => solHeld[id][s] >= 0

EventInv(id) ==
    /\ DatesInOrder(id)
    /\ MarkedOnlyIfWon(id)
    /\ SolAddsUp(id)
    /\ TokensInOwnVault(id)
    /\ (Deployed(id) => ~IsStarted(id)) => NothingHeld(id)
    /\ Deployed(id) => \A s \in Sides : /\ PoolIsTicketSum(id, s)
                                       /\ SideHoldsItsStakes(id, s)

IInv == TypeOK /\ \A id \in Ids : EventInv(id)

----------------------------------------------------------------------------
(* Action properties.                                                      *)

(***************************************************************************)
(* A result is final and settles the event: from then on no instruction    *)
(* changes the event's record, in particular the two pools that every      *)
(* later claim divides by, and none changes a stake.                       *)
(***************************************************************************)
SettledEventStays(id) ==
    (Deployed(id) /\ IsResultSet(id)) =>
        /\ event'[id] = event[id]
        /\ \A s \in Sides, u \in Users : Stake(id, s, u)' = Stake(id, s, u)

ResultIsFinal == [][\A id \in Ids : SettledEventStays(id)]_vars

(***************************************************************************)
(* A stake only ever grows, and only while the event is open: from its     *)
(* start date, the first second included, to its end date, excluded.       *)
(***************************************************************************)
StakesMayGrow(id) ==
    \A s \in Sides, u \in Users : Stake(id, s, u)' # Stake(id, s, u) =>
        /\ Stake(id, s, u)' > Stake(id, s, u)
        /\ Deployed(id)
        /\ event[id].start_date <= clock
        /\ clock < event[id].end_date

StakesGrowOnlyWhileOpen == [][\A id \in Ids : StakesMayGrow(id)]_vars

----------------------------------------------------------------------------
(***************************************************************************)
(* Liveness.  Time passes, the system's accounts get set up, the deploying *)
(* client creates the pools of the event's mints, the creator sets some    *)
(* result once that is possible, and every winner keeps sending a claim    *)
(* and a withdrawal until they succeed.  Nobody is made to vote, to close, *)
(* or to create a pool of another mint, and nobody is kept from it.        *)
(***************************************************************************)
CreateOwnPool(id, s) ==
    /\ Deployed(id)
    /\ event[id].mint[s] \in Mints
    /\ CreateEventTokenAccount(id, s, event[id].mint[s])

Fairness ==
    /\ WF_vars(Tick)
    /\ WF_vars(Initialize)
    /\ \A m \in Mints : WF_vars(CreateSystemFeeTokenAccount(m))
    /\ \A id \in Ids, s \in Sides : WF_vars(CreateOwnPool(id, s))
    /\ \A id \in Ids :
          WF_vars(\E u \in Users, r \in Sides : FinishEvent(u, id, r))
    /\ \A u \in Users, id \in Ids, s \in Sides :
          /\ WF_vars(ClaimRewards(u, id, s))
          /\ WF_vars(WithdrawDeposited(u, id, s))

FairSpec == Spec /\ Fairness

(* No fee can be taken from side s: its pool is of another mint, or holds  *)
(* too little because stakes of the side were made in lamports.            *)
CannotLose(id, s) ==
    /\ event[id].mint[s] # Native
    /\ HasVault(id, s)
    /\ ~(VaultReady(id, s) /\ LeftAfterFees(id, s) >= 0)

(***************************************************************************)
(* Every event is settled or closed in the end.  The only thing that can   *)
(* leave it open for ever is that neither side can pay the fees, which     *)
(* takes a pool of a wrong mint or stakes made in lamports on both sides.  *)
(***************************************************************************)
EventsSettle ==
    \A id \in Ids :
        Deployed(id) ~> \/ ~Deployed(id)
                        \/ IsResultSet(id)
                        \/ \A s \in Sides : CannotLose(id, s)

(***************************************************************************)
(* Every winner gets the stake back, if the stakes of the side were made   *)
(* in its own asset: neither another winner's withdrawal or claim nor the  *)
(* fees can leave too little for the last one.                             *)
(***************************************************************************)
WinnersAreRepaid ==
    \A id \in Ids, s \in Sides, u \in Users :
        (/\ Deployed(id) /\ HasWon(id, s) /\ StakedInKind(id, s)
         /\ Stake(id, s, u) > 0)
        ~> (HasTicket(id, s, u) /\ ticket[id][s][u].withdrawn)


----------------------------------------------------------------------------
(* What comments of the source say, and the program does not do.  Those    *)
(* about the pools hold among the repository's own clients (ClientFlow).   *)

(***************************************************************************)
(* prediction_event.rs: left_pool is "The left side vault's amount", and   *)
(* right_pool the right side's.  vote_event adds to them lamports that     *)
(* were never in the vault.                                                *)
(***************************************************************************)
PoolIsTheVaultsAmount ==
    \A id \in Ids : (Deployed(id) /\ ~IsResultSet(id)) =>
        \A s \in Sides : event[id].mint[s] # Native =>
            event[id].pool[s] = VaultAmount(id, s)

(***************************************************************************)
(* create_event_token_account.rs: the instruction "is a part of the        *)
(* deploy_event instruction" and creates the pool "to hold tokens from two *)
(* sides".  It creates it for any mint.                                    *)
(***************************************************************************)
PoolsAreOfTheEventsMint ==
    \A id \in Ids : Deployed(id) =>
        \A s \in Sides :
            (event[id].mint[s] # Native /\ HasVault(id, s)) =>
                VaultReady(id, s)

(***************************************************************************)
(* finish_event.rs: "Transfer 2.5% tokens from losing side to creator and  *)
(* 2.5% to the system", which leaves "95%".  The code divides by 1000      *)
(* before it multiplies.                                                   *)
(***************************************************************************)
FeesAreTwoAndAHalfPercent ==
    \A id \in Ids : (Deployed(id) /\ IsResultSet(id)) =>
        LET l == Other(event[id].result)
        IN  event[id].pool[l]
                = Staked(id, l) - 2 * ((Staked(id, l) * 25) \div 1000)

(***************************************************************************)
(* claim_rewards.rs: the instruction "allows the winning side to claim     *)
(* tokens from losing side".  A bet times 100000 that exceeds a u64 makes  *)
(* every claim of it panic.                                                *)
(***************************************************************************)
WinningSideCanClaim ==
    \A id \in Ids, s \in Sides, u \in Users :
        (MayClaim(u, id, s) /\ Stake(id, s, u) > 0) =>
            RewardFits(ticket[id][s][u].amount, event[id].pool[s],
                       event[id].pool[Other(s)])

(***************************************************************************)
(* close_event.rs: "Close the pools token account if either two sides were *)
(* set non native token": an event never goes without the pools of its     *)
(* sides with a mint.  The program closes those the transaction supplies.  *)
(***************************************************************************)
TokenPoolsGoWith(id) ==
    (Deployed(id) /\ ~Deployed(id)') =>
        \A s \in Sides : event[id].mint[s] # Native => ~HasVault(id, s)'

PoolsCloseWithTheEvent == [][\A id \in Ids : TokenPoolsGoWith(id)]_vars
=============================================================================
