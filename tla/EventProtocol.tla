--------------------------- MODULE EventProtocol ---------------------------
(***************************************************************************)
(* The event-protocol Solana program: prediction events with two sides,    *)
(* each played in a token or in SOL.  Users stake on a side while the event*)
(* is open, its creator sets the result, the losing side pays fees, and the*)
(* winners take back their stakes and share what is left of the losing     *)
(* side.                                                                   *)
(*                                                                         *)
(* A transaction runs one instruction and either commits or has no effect  *)
(* (account constraint, error, panic), so an instruction is one action and *)
(* its constraints are the action's guard.  Anyone may send any            *)
(* transaction at any time: the interleavings are those of the actions.    *)
(* An account that Anchor finds at a derived address is addressed here by  *)
(* the seeds of that address.                                              *)
(*                                                                         *)
(* Definitions named Wrong... are no part of the model: each is a plausible*)
(* mistake in the definition that follows it, and shows, put in its place, *)
(* that some property would notice.                                        *)
(***************************************************************************)
EXTENDS Payouts, FiniteSets, Functions

CONSTANTS
    Users,      \* the wallets that sign transactions
    Ids,        \* event ids, chosen by whoever deploys
    Mints,      \* the SPL token mints
    Native,     \* SOL: the asset of a side whose mint is Option::None
    None,       \* an account that does not exist, a result that is not set
    Dates,      \* bound: the dates an event may be deployed with
    Amounts,    \* bound: the amounts of one vote
    MaxClock,   \* bound: the last clock value that is explored
    Endowment   \* Endowment[u][a]: what u owns of asset a at first

Sides == {"Left", "Right"}
Other(s) == IF s = "Left" THEN "Right" ELSE "Left"
Assets == Mints \cup {Native}

ASSUME SetsAssumption ==
    /\ IsFiniteSet(Users)
    /\ IsFiniteSet(Ids)
    /\ Native \notin Mints

ASSUME BoundsAssumption ==
    /\ Dates \subseteq Nat
    /\ Amounts \subseteq Nat
    /\ MaxClock \in Nat
    /\ Endowment \in [Users -> [Assets -> Nat]]

VARIABLES
    clock,      \* Clock::get()?.unix_timestamp
    event,      \* event[id]: the PredictionEvent account
    ticket,     \* ticket[id][s][u]: the Ticket account of u on side s
    vault,      \* vault[id][s]: the pool token account of side s
    lamports,   \* lamports[id]: the event account's lamports above its rent
    fee,        \* fee[m]: system fee token account; fee[Native]: master PDA
    wallet,     \* wallet[u][a]: what u owns of asset a
    supply,     \* supply[m]: the mint's supply
    solHeld     \* auxiliary, never read by an action: the part of
                \* lamports[id] that came in, and not out, on behalf of a side

vars == <<clock, event, ticket, vault, lamports, fee, wallet, supply, solHeld>>

----------------------------------------------------------------------------
(* Accounts.                                                               *)

PredictionEvent ==
    [creator : Users, start_date : Dates, end_date : Dates,
     pool : [Sides -> 0..MaxU64], mint : [Sides -> Assets],
     result : Sides \cup {None}, burning : BOOLEAN]

Ticket == [amount : 0..MaxU64, claimed : BOOLEAN, withdrawn : BOOLEAN]

TokenAccount == [mint : Mints, amount : Nat]

ASSUME NoneAssumption ==
    None \notin PredictionEvent \cup Ticket \cup TokenAccount \cup Sides \cup Nat

(* What init_if_needed writes into a ticket account that is not there yet. *)
NewTicket == [amount |-> 0, claimed |-> FALSE, withdrawn |-> FALSE]

Deployed(id) == event[id] # None
HasTicket(id, s, u) == ticket[id][s][u] # None

IsStarted(id) == event[id].start_date <= clock

WrongIsFinished(id) == event[id].end_date < clock
IsFinished(id) == event[id].end_date <= clock

IsResultSet(id) == event[id].result # None

(***************************************************************************)
(* A pool can be passed to an instruction only together with its mint,     *)
(* which must be the event's mint for that side and the pool's own mint.   *)
(***************************************************************************)
HasVault(id, s) == vault[id][s] # None

WrongVaultReady(id, s) == HasVault(id, s)
VaultReady(id, s) ==
    /\ HasVault(id, s)
    /\ vault[id][s].mint = event[id].mint[s]

Init ==
    /\ clock = 0
    /\ event = [id \in Ids |-> None]
    /\ ticket = [id \in Ids |-> [s \in Sides |-> [u \in Users |-> None]]]
    /\ vault = [id \in Ids |-> [s \in Sides |-> None]]
    /\ lamports = [id \in Ids |-> 0]
    /\ fee = [a \in Assets |-> None]
    /\ wallet = Endowment
    /\ supply = [m \in Mints |->
                   SumFunctionOnSet([u \in Users |-> Endowment[u][m]], Users)]
    /\ solHeld = [id \in Ids |-> [s \in Sides |-> 0]]

(* The cluster's clock, bounded by MaxClock. *)
Tick ==
    /\ clock < MaxClock
    /\ clock' = clock + 1
    /\ UNCHANGED <<event, ticket, vault, lamports, fee, wallet, supply,
                   solHeld>>

----------------------------------------------------------------------------
(* Set-up.  An init_if_needed that finds its account changes nothing.      *)

(* initialize: the master account, once, by anyone. *)
Initialize ==
    /\ fee[Native] = None
    /\ fee' = [fee EXCEPT ![Native] = 0]
    /\ UNCHANGED <<clock, event, ticket, vault, lamports, wallet, supply,
                   solHeld>>

(* create_system_fee_token_account: one per mint, by anyone. *)
CreateSystemFeeTokenAccount(m) ==
    /\ fee[m] = None
    /\ fee' = [fee EXCEPT ![m] = 0]
    /\ UNCHANGED <<clock, event, ticket, vault, lamports, wallet, supply,
                   solHeld>>

NewEvent(u, start, end, mint, burning) ==
    [creator |-> u, start_date |-> start, end_date |-> end,
     pool |-> [s \in Sides |-> 0], mint |-> mint,
     result |-> None, burning |-> burning]

(* deploy_event: the dates are compared with each other, not with the clock. *)
DeployEvent(u, id, start, end, mint, burning) ==
    /\ ~Deployed(id)
    /\ start < end
    /\ event' = [event EXCEPT ![id] = NewEvent(u, start, end, mint, burning)]
    /\ UNCHANGED <<clock, ticket, vault, lamports, fee, wallet, supply,
                   solHeld>>

(***************************************************************************)
(* create_event_token_account: by anyone, for any mint.  The mint is not   *)
(* compared with the event's; if the pool is there already, init_if_needed *)
(* accepts it with the same mint and fails with another one.               *)
(***************************************************************************)
CreateEventTokenAccount(id, s, m) ==
    /\ Deployed(id)
    /\ vault[id][s] = None
    /\ vault' = [vault EXCEPT ![id][s] = [mint |-> m, amount |-> 0]]
    /\ UNCHANGED <<clock, event, ticket, lamports, fee, wallet, supply,
                   solHeld>>

----------------------------------------------------------------------------
(* Voting.                                                                 *)

VoteOpen(id) ==
    /\ Deployed(id)
    /\ IsStarted(id)
    /\ ~IsFinished(id)
    /\ ~IsResultSet(id)

WrongTicketOrNew(id, s, u) == NewTicket
TicketOrNew(id, s, u) == IF HasTicket(id, s, u) THEN ticket[id][s][u]
                                                ELSE NewTicket

(* `ticket.amount += amount` and `event.left_pool += amount`. *)
RecordVote(u, id, s, n) ==
    /\ TicketOrNew(id, s, u).amount + n <= MaxU64
    /\ event[id].pool[s] + n <= MaxU64
    /\ ticket' = [ticket EXCEPT ![id][s][u] =
                    [TicketOrNew(id, s, u) EXCEPT !.amount = @ + n]]
    /\ event' = [event EXCEPT ![id].pool[s] = @ + n]

TakeTokens(u, id, s, n) ==
    /\ VaultReady(id, s)
    /\ wallet[u][event[id].mint[s]] >= n
    /\ wallet' = [wallet EXCEPT ![u][event[id].mint[s]] = @ - n]
    /\ vault' = [vault EXCEPT ![id][s].amount = @ + n]
    /\ UNCHANGED <<lamports, solHeld>>

TakeLamports(u, id, s, n) ==
    /\ wallet[u][Native] >= n
    /\ wallet' = [wallet EXCEPT ![u][Native] = @ - n]
    /\ lamports' = [lamports EXCEPT ![id] = @ + n]
    /\ solHeld' = [solHeld EXCEPT ![id][s] = @ + n]
    /\ UNCHANGED vault

(***************************************************************************)
(* vote_event takes tokens when the transaction supplies the side's mint   *)
(* account, which must then be the event's.  It takes lamports when the    *)
(* transaction supplies none, whatever the event's mint is.                *)
(***************************************************************************)
VoteWithTokens(u, id, s, n) ==
    /\ VoteOpen(id)
    /\ TakeTokens(u, id, s, n)
    /\ RecordVote(u, id, s, n)
    /\ UNCHANGED <<clock, fee, supply>>

VoteWithLamports(u, id, s, n) ==
    /\ VoteOpen(id)
    /\ TakeLamports(u, id, s, n)
    /\ RecordVote(u, id, s, n)
    /\ UNCHANGED <<clock, fee, supply>>

----------------------------------------------------------------------------
(* Setting the result.                                                     *)

(***************************************************************************)
(* A losing side with a mint: the creator's token account and the system's *)
(* each get the fee out of the side's pool, and the rest of the pool is    *)
(* burned if the event is a burning one.                                   *)
(***************************************************************************)
LeftAfterFees(id, l) == vault[id][l].amount - 2 * FeeOf(event[id].pool[l])

WrongNothingBurned(id, l) == 0
WrongAlwaysBurned(id, l) == LeftAfterFees(id, l)
WrongPoolBurned(id, l) == IF event[id].burning THEN event[id].pool[l] ELSE 0
BurnedOf(id, l) == IF event[id].burning THEN LeftAfterFees(id, l) ELSE 0

TakeFeesInTokens(u, id, l) ==
    LET m == event[id].mint[l]
        amount == FeeOf(event[id].pool[l])
    IN  /\ m # Native
        /\ VaultReady(id, l)
        /\ fee[m] # None
        /\ LeftAfterFees(id, l) >= 0
        /\ supply[m] >= BurnedOf(id, l)
        /\ wallet' = [wallet EXCEPT ![u][m] = @ + amount]
        /\ fee' = [fee EXCEPT ![m] = @ + amount]
        /\ vault' = [vault EXCEPT ![id][l].amount =
                       LeftAfterFees(id, l) - BurnedOf(id, l)]
        /\ supply' = [supply EXCEPT ![m] = @ - BurnedOf(id, l)]
        /\ UNCHANGED <<lamports, solHeld>>

(* A losing side in SOL: the fees come out of the event account. *)
TakeFeesInLamports(u, id, l) ==
    LET amount == FeeOf(event[id].pool[l])
    IN  /\ event[id].mint[l] = Native
        /\ lamports[id] >= 2 * amount
        /\ lamports' = [lamports EXCEPT ![id] = @ - 2 * amount]
        /\ solHeld' = [solHeld EXCEPT ![id][l] = @ - 2 * amount]
        /\ wallet' = [wallet EXCEPT ![u][Native] = @ + amount]
        /\ fee' = [fee EXCEPT ![Native] = @ + amount]
        /\ UNCHANGED <<vault, supply>>

WrongFinishAgain(u, id) ==
    Deployed(id) /\ u = event[id].creator /\ fee[Native] # None /\ IsFinished(id)
WrongFinishIfPlayed(u, id) ==
    /\ WrongFinishAgain(u, id)
    /\ ~IsResultSet(id)
    /\ \A s \in Sides : event[id].pool[s] > 0
MayFinish(u, id) ==
    /\ Deployed(id)
    /\ u = event[id].creator
    /\ fee[Native] # None         \* the master account is required
    /\ IsFinished(id)
    /\ ~IsResultSet(id)

(* The pool's record loses the two fees; a burned pool stays recorded. *)
FinishEvent(u, id, r) ==
    LET l == Other(r)
    IN  /\ MayFinish(u, id)
        /\ \/ TakeFeesInTokens(u, id, l)
           \/ TakeFeesInLamports(u, id, l)
        /\ event' = [event EXCEPT ![id].result = r,
                                  ![id].pool[l] = @ - 2 * FeeOf(@)]
        /\ UNCHANGED <<clock, ticket>>

----------------------------------------------------------------------------
(* Paying out.                                                             *)

PayTokens(u, id, s, n) ==
    LET m == event[id].mint[s]
    IN  /\ m # Native
        /\ VaultReady(id, s)
        /\ vault[id][s].amount >= n
        /\ vault' = [vault EXCEPT ![id][s].amount = @ - n]
        /\ wallet' = [wallet EXCEPT ![u][m] = @ + n]
        /\ UNCHANGED <<lamports, solHeld>>

PayLamports(u, id, s, n) ==
    /\ event[id].mint[s] = Native
    /\ lamports[id] >= n
    /\ lamports' = [lamports EXCEPT ![id] = @ - n]
    /\ solHeld' = [solHeld EXCEPT ![id][s] = @ - n]
    /\ wallet' = [wallet EXCEPT ![u][Native] = @ + n]
    /\ UNCHANGED vault

PayFrom(u, id, s, n) == PayTokens(u, id, s, n) \/ PayLamports(u, id, s, n)

(* What claim_rewards computes for u's ticket on the winning side. *)
WrongReward(u, id, w) ==
    RewardOf(ticket[id][w][u].amount, event[id].pool[w], event[id].pool[w])
Reward(u, id, w) ==
    RewardOf(ticket[id][w][u].amount, event[id].pool[w],
             event[id].pool[Other(w)])

WrongClaimAgain(u, id, w) ==
    /\ Deployed(id)
    /\ ~event[id].burning
    /\ event[id].result = w
    /\ HasTicket(id, w, u)
WrongClaimIfBurning(u, id, w) ==
    /\ Deployed(id)
    /\ event[id].result = w
    /\ HasTicket(id, w, u)
    /\ ~ticket[id][w][u].claimed
MayClaim(u, id, w) ==
    /\ Deployed(id)
    /\ ~event[id].burning
    /\ event[id].result = w
    /\ HasTicket(id, w, u)
    /\ ~ticket[id][w][u].claimed

ClaimRewards(u, id, w) ==
    /\ MayClaim(u, id, w)
    /\ RewardFits(ticket[id][w][u].amount, event[id].pool[w],
                  event[id].pool[Other(w)])
    /\ PayFrom(u, id, Other(w), Reward(u, id, w))
    /\ ticket' = [ticket EXCEPT ![id][w][u].claimed = TRUE]
    /\ UNCHANGED <<clock, event, fee, supply>>

WrongWithdrawAgain(u, id, w) ==
    /\ Deployed(id)
    /\ event[id].result = w
    /\ HasTicket(id, w, u)
WrongWithdrawAfterClaim(u, id, w) ==
    /\ WrongWithdrawAgain(u, id, w)
    /\ ~ticket[id][w][u].withdrawn
    /\ ticket[id][w][u].claimed
MayWithdraw(u, id, w) ==
    /\ Deployed(id)
    /\ event[id].result = w
    /\ HasTicket(id, w, u)
    /\ ~ticket[id][w][u].withdrawn

WithdrawDeposited(u, id, w) ==
    /\ MayWithdraw(u, id, w)
    /\ PayFrom(u, id, w, ticket[id][w][u].amount)
    /\ ticket' = [ticket EXCEPT ![id][w][u].withdrawn = TRUE]
    /\ UNCHANGED <<clock, event, fee, supply>>

----------------------------------------------------------------------------
(***************************************************************************)
(* close_event: by the creator, before the start.  The pools that the      *)
(* transaction supplies are closed, which needs them empty; the others     *)
(* outlive the event.  The event account's lamports go to the creator.     *)
(***************************************************************************)
WrongMayClose(u, id) ==
    Deployed(id) /\ u = event[id].creator /\ ~IsFinished(id)
MayClose(u, id) ==
    Deployed(id) /\ u = event[id].creator /\ ~IsStarted(id)

CanClosePool(id, s) == VaultReady(id, s) /\ vault[id][s].amount = 0

CloseEvent(u, id, pools) ==
    /\ MayClose(u, id)
    /\ \A s \in pools : CanClosePool(id, s)
    /\ event' = [event EXCEPT ![id] = None]
    /\ vault' = [vault EXCEPT ![id] =
                   [s \in Sides |-> IF s \in pools THEN None ELSE @[s]]]
    /\ wallet' = [wallet EXCEPT ![u][Native] = @ + lamports[id]]
    /\ lamports' = [lamports EXCEPT ![id] = 0]
    /\ solHeld' = [solHeld EXCEPT ![id] = [s \in Sides |-> 0]]
    /\ UNCHANGED <<clock, ticket, fee, supply>>

----------------------------------------------------------------------------
SetUp ==
    \/ Initialize
    \/ \E m \in Mints : CreateSystemFeeTokenAccount(m)
    \/ \E u \in Users, id \in Ids, start \in Dates, end \in Dates,
          mint \in [Sides -> Assets], burning \in BOOLEAN :
         DeployEvent(u, id, start, end, mint, burning)
    \/ \E id \in Ids, s \in Sides, m \in Mints :
         CreateEventTokenAccount(id, s, m)

Vote ==
    \E u \in Users, id \in Ids, s \in Sides, n \in Amounts :
       \/ VoteWithTokens(u, id, s, n)
       \/ VoteWithLamports(u, id, s, n)

Settle ==
    \E u \in Users, id \in Ids, s \in Sides :
       \/ FinishEvent(u, id, s)
       \/ ClaimRewards(u, id, s)
       \/ WithdrawDeposited(u, id, s)

Close ==
    \E u \in Users, id \in Ids, pools \in SUBSET Sides :
       CloseEvent(u, id, pools)

Next == Tick \/ SetUp \/ Vote \/ Settle \/ Close

Spec == Init /\ [][Next]_vars
=============================================================================
