------------------------------ MODULE EventLog ------------------------------
(***************************************************************************)
(* The records that instructions emit, and what they tell to a reader who  *)
(* sees nothing else.  Each step is a step of the program together with the*)
(* record that its handler emits; the reader applies the record at once.   *)
(* The records of an event's life must be enough to know its state: there  *)
(* is one for each instruction that changes it.                            *)
(***************************************************************************)
EXTENDS EventProtocolProperties

VARIABLE view    \* view[id]: what the records so far say of the event

(* The reader's knowledge of an event that is there. *)
EventView ==
    [creator : Users, start_date : Dates, end_date : Dates,
     mint : [Sides -> Assets], burning : BOOLEAN, result : Sides \cup {None},
     amount : [Sides -> [Users -> Nat]], paid : [Sides -> Nat]]

ASSUME NoneIsNoView == None \notin EventView

logVars == <<clock, event, ticket, vault, lamports, fee, wallet, supply,
             solHeld, view>>

----------------------------------------------------------------------------
(* The records, by the names of their fields.  A ticket_key is derived from*)
(* the side, the event and the user; event keys from the event's id.       *)

DeployEvtEvent(u, id, start, end, mint, burning) ==
    [key |-> id, creator |-> u, start_date |-> start, end_date |-> end,
     mint |-> mint, burning |-> burning]

(* current_amount is read after the vote has been added to the ticket. *)
WrongVoteEvtEvent(u, id, s, n) ==
    [event_key |-> id, creator |-> u, selection |-> s, current_amount |-> n]
VoteEvtEvent(u, id, s, n) ==
    [event_key |-> id, creator |-> u, selection |-> s,
     current_amount |-> TicketOrNew(id, s, u).amount + n]

FinishEvtEvent(id, r) == [key |-> id, result |-> r]

WrongClaimRewardsEvent(u, id, w) ==
    [event_key |-> id, signer |-> u, amount |-> ticket[id][w][u].amount]
ClaimRewardsEvent(u, id, w) ==
    [event_key |-> id, signer |-> u, amount |-> Reward(u, id, w)]

WithdrawEvent(u, id, w) ==
    [event_key |-> id, signer |-> u, amount |-> ticket[id][w][u].amount]

CloseEvtEvent(id) == [key |-> id]

----------------------------------------------------------------------------
(* The reader.                                                             *)

ShowDeployed(e) ==
    view' = [view EXCEPT ![e.key] =
               [creator |-> e.creator, start_date |-> e.start_date,
                end_date |-> e.end_date, mint |-> e.mint,
                burning |-> e.burning, result |-> None,
                amount |-> [s \in Sides |-> [u \in Users |-> 0]],
                paid |-> [s \in Sides |-> 0]]]

ShowVote(e) ==
    view' = [view EXCEPT ![e.event_key].amount[e.selection][e.creator] =
               e.current_amount]

ShowResult(e) == view' = [view EXCEPT ![e.key].result = e.result]

(* Rewards are paid by the losing side, deposits by the winning one. *)
ShowReward(e) ==
    view' = [view EXCEPT
        ![e.event_key].paid[Other(view[e.event_key].result)] = @ + e.amount]

ShowWithdrawal(e) ==
    view' = [view EXCEPT
        ![e.event_key].paid[view[e.event_key].result] = @ + e.amount]

ShowClosed(e) == view' = [view EXCEPT ![e.key] = None]

----------------------------------------------------------------------------
LogInit == Init /\ view = [id \in Ids |-> None]

(* initialize and the instructions that create accounts emit nothing. *)
EmitNothing ==
    /\ \/ Tick
       \/ Initialize
       \/ \E m \in Mints : CreateSystemFeeTokenAccount(m)
       \/ \E id \in Ids, s \in Sides, m \in Mints :
            CreateEventTokenAccount(id, s, m)
    /\ UNCHANGED view

EmitDeploy ==
    \E u \in Users, id \in Ids, start \in Dates, end \in Dates,
       mint \in [Sides -> Assets], burning \in BOOLEAN :
         /\ DeployEvent(u, id, start, end, mint, burning)
         /\ ShowDeployed(DeployEvtEvent(u, id, start, end, mint, burning))

EmitVote(u, id, s, n) ==
    /\ VoteWithTokens(u, id, s, n) \/ VoteWithLamports(u, id, s, n)
    /\ ShowVote(VoteEvtEvent(u, id, s, n))

EmitFinish(u, id, r) ==
    FinishEvent(u, id, r) /\ ShowResult(FinishEvtEvent(id, r))

EmitClaim(u, id, w) ==
    ClaimRewards(u, id, w) /\ ShowReward(ClaimRewardsEvent(u, id, w))

EmitWithdraw(u, id, w) ==
    WithdrawDeposited(u, id, w) /\ ShowWithdrawal(WithdrawEvent(u, id, w))

EmitClose(u, id, pools) ==
    CloseEvent(u, id, pools) /\ ShowClosed(CloseEvtEvent(id))

LogNext ==
    \/ EmitNothing
    \/ EmitDeploy
    \/ \E u \in Users, id \in Ids, s \in Sides :
         \/ \E n \in Amounts : EmitVote(u, id, s, n)
         \/ EmitFinish(u, id, s)
         \/ EmitClaim(u, id, s)
         \/ EmitWithdraw(u, id, s)
    \/ \E u \in Users, id \in Ids, pools \in SUBSET Sides :
         EmitClose(u, id, pools)

LogSpec == LogInit /\ [][LogNext]_logVars

----------------------------------------------------------------------------
(***************************************************************************)
(* The records tell the events, their terms and results, every stake, and  *)
(* even the recorded pools, which no record contains: a side's pool is the *)
(* sum of the current amounts, less the fees once the other side has won.  *)
(* A vote's record holds for votes of other users before and after it, and *)
(* nothing of a closed event is taken for its successor under the same id. *)
(***************************************************************************)
ShownPool(id, s) ==
    LET staked == Over(view[id].amount[s])
    IN  IF view[id].result = Other(s) THEN staked - 2 * FeeOf(staked)
                                      ELSE staked

LogShowsTheEvents ==
    \A id \in Ids :
        /\ Deployed(id) <=> view[id] # None
        /\ Deployed(id) =>
             event[id] =
               [creator |-> view[id].creator,
                start_date |-> view[id].start_date,
                end_date |-> view[id].end_date,
                pool |-> [s \in Sides |-> ShownPool(id, s)],
                mint |-> view[id].mint, result |-> view[id].result,
                burning |-> view[id].burning]
        /\ Deployed(id) =>
             \A s \in Sides, u \in Users :
                Stake(id, s, u) = view[id].amount[s][u]

(***************************************************************************)
(* The records account for the money: what a side holds, as tokens or as   *)
(* lamports, is what the records say it took in, less what they say was    *)
(* paid out of it.  A burn is not recorded; it follows from the terms.     *)
(***************************************************************************)
Burns(id, s) ==
    view[id].burning /\ view[id].result = Other(s) /\ view[id].mint[s] # Native

LogShowsTheHoldings ==
    \A id \in Ids : Deployed(id) =>
        \A s \in Sides :
            IF Burns(id, s)
            THEN VaultAmount(id, s) = 0
            ELSE Held(id, s) = ShownPool(id, s) - view[id].paid[s]
=============================================================================
