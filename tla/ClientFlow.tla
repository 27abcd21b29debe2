----------------------------- MODULE ClientFlow -----------------------------
(***************************************************************************)
(* The program as the clients of the repository use it (test-helper, and   *)
(* the same sequence in devnet.ts and in the tests).  A client puts several*)
(* instructions into one transaction and fills in the optional accounts    *)
(* from the event it has fetched, so that it takes fewer steps than the    *)
(* program allows: a client's step is the program's instructions, at once. *)
(* Strangers are about who send create_event_token_account on its own, for *)
(* any event, side and mint, between any two transactions of the clients.  *)
(***************************************************************************)
EXTENDS EventProtocolProperties

CONSTANT Outcome    \* the side that wins, for the creators to report

ASSUME OutcomeAssumption == Outcome \in Sides

(***************************************************************************)
(* createPredictionEvent: deploy_event, and create_event_token_account for *)
(* the mint of each side that has one, in one transaction.  A pool that is *)
(* there already (one left behind by an earlier event of the id) is taken  *)
(* over if it has the side's mint, and fails the transaction otherwise.    *)
(***************************************************************************)
PoolFits(id, s, m) == HasVault(id, s) => vault[id][s].mint = m

WrongPoolsFor(id, mint) == vault[id]    \* pools in a later transaction
PoolsFor(id, mint) ==
    [s \in Sides |-> IF mint[s] = Native \/ HasVault(id, s)
                     THEN vault[id][s]
                     ELSE [mint |-> mint[s], amount |-> 0]]

ClientDeploys(u, id, start, end, mint, burning) ==
    /\ ~Deployed(id)
    /\ start < end
    /\ \A s \in Sides : mint[s] # Native => PoolFits(id, s, mint[s])
    /\ event' = [event EXCEPT ![id] = NewEvent(u, start, end, mint, burning)]
    /\ vault' = [vault EXCEPT ![id] = PoolsFor(id, mint)]
    /\ UNCHANGED <<clock, ticket, lamports, fee, wallet, supply, solHeld>>

(* makeAVote: in tokens if the fetched event has a mint for the side.  No  *)
(* instruction changes a mint, so fetching it earlier makes no difference. *)
WrongClientVotes(u, id, s, n) ==
    Deployed(id) /\ (VoteWithTokens(u, id, s, n) \/ VoteWithLamports(u, id, s, n))
ClientVotes(u, id, s, n) ==
    /\ Deployed(id)
    /\ IF event[id].mint[s] = Native THEN VoteWithLamports(u, id, s, n)
                                     ELSE VoteWithTokens(u, id, s, n)

(***************************************************************************)
(* The tests and devnet.ts: create_system_fee_token_account for the losing *)
(* mint, which changes nothing if the account is there, and finish_event,  *)
(* in one transaction.                                                     *)
(***************************************************************************)
WithFeeAccount(m) == [fee EXCEPT ![m] = IF @ = None THEN 0 ELSE @]

ClientFinishesInTokens(u, id, r) ==
    LET l == Other(r)
        m == event[id].mint[l]
        amount == FeeOf(event[id].pool[l])
    IN  /\ MayFinish(u, id)
        /\ m # Native
        /\ VaultReady(id, l)
        /\ LeftAfterFees(id, l) >= 0
        /\ supply[m] >= BurnedOf(id, l)
        /\ wallet' = [wallet EXCEPT ![u][m] = @ + amount]
        /\ fee' = [WithFeeAccount(m) EXCEPT ![m] = @ + amount]
        /\ vault' = [vault EXCEPT ![id][l].amount =
                       LeftAfterFees(id, l) - BurnedOf(id, l)]
        /\ supply' = [supply EXCEPT ![m] = @ - BurnedOf(id, l)]
        /\ event' = [event EXCEPT ![id].result = r,
                                  ![id].pool[l] = @ - 2 * FeeOf(@)]
        /\ UNCHANGED <<clock, ticket, lamports, solHeld>>

ClientFinishes(u, id, r) ==
    \/ ClientFinishesInTokens(u, id, r)
    \/ Deployed(id) /\ event[id].mint[Other(r)] = Native /\ FinishEvent(u, id, r)

(***************************************************************************)
(* closePredictionEvent supplies the left pool if the event has a left     *)
(* mint, and the right pool if the event has a right_pool: that is the     *)
(* recorded amount, a number object even when it is zero, and not the mint.*)
(* With SOL on the right the pool it supplies does not exist, or is a      *)
(* stranger's and cannot be of the event's mint: the transaction fails.    *)
(***************************************************************************)
WrongSuppliedPools(id) == {}
SuppliedPools(id) == {s \in Sides : s = "Right" \/ event[id].mint[s] # Native}

ClientCloses(u, id) ==
    Deployed(id) /\ CloseEvent(u, id, SuppliedPools(id))

----------------------------------------------------------------------------
ClientNext ==
    \/ Tick
    \/ Initialize
    \/ \E u \in Users, id \in Ids :
         \/ \E start \in Dates, end \in Dates, mint \in [Sides -> Assets],
              burning \in BOOLEAN :
              ClientDeploys(u, id, start, end, mint, burning)
         \/ \E s \in Sides :
              \/ \E n \in Amounts : ClientVotes(u, id, s, n)
              \/ ClientFinishes(u, id, s)
              \/ ClaimRewards(u, id, s)
              \/ WithdrawDeposited(u, id, s)
         \/ ClientCloses(u, id)
    \/ \E id \in Ids, s \in Sides, m \in Mints :    \* strangers
         CreateEventTokenAccount(id, s, m)

(***************************************************************************)
(* Time passes, the master account gets initialised (_initialize.spec.ts), *)
(* creators report the outcome, and winners keep asking for their deposits.*)
(* Creators may report the other side, but only the reports of the outcome *)
(* are fair: it is not enough that some result can be set.                 *)
(***************************************************************************)
ClientFairness ==
    /\ WF_vars(Tick)
    /\ WF_vars(Initialize)
    /\ \A id \in Ids :
          WF_vars(\E u \in Users : ClientFinishes(u, id, Outcome))
    /\ \A u \in Users, id \in Ids, s \in Sides :
          WF_vars(WithdrawDeposited(u, id, s))

ClientSpec == Init /\ [][ClientNext]_vars /\ ClientFairness

(***************************************************************************)
(* Among such clients every event is settled or closed, without exception: *)
(* the side that lost can always pay its fees, because its pool is of its  *)
(* mint and holds its stakes, whatever pools strangers create.             *)
(* (EventsSettle has the exception.)                                       *)
(***************************************************************************)
ClientEventsSettle ==
    \A id \in Ids : Deployed(id) ~> (~Deployed(id) \/ IsResultSet(id))

(***************************************************************************)
(* From the vote to the end: whoever has staked gets the whole stake back, *)
(* or the side loses.  There is no third fate: no stake is stuck in an     *)
(* event that never settles, or behind a pool that cannot pay it.          *)
(***************************************************************************)
StakesAreRepaidOrLost ==
    \A id \in Ids, s \in Sides, u \in Users :
        (Deployed(id) /\ Stake(id, s, u) > 0)
        ~> (/\ Deployed(id) /\ HasTicket(id, s, u)
            /\ HasLost(id, s) \/ ticket[id][s][u].withdrawn)
=============================================================================
