-------------------------- MODULE MarketRefinement --------------------------
(***************************************************************************)
(* The event program implements PredictionMarket: what a side holds, as    *)
(* tokens or as lamports, is the side's pot, the clock and the dates are a *)
(* phase, and the marks of the tickets are the sets of winners who have    *)
(* been paid.  Creating accounts changes none of this.                     *)
(***************************************************************************)
EXTENDS EventProtocolProperties

PhaseOf(id) ==
    IF ~IsStarted(id) THEN "announced"
    ELSE IF ~IsFinished(id) THEN "open" ELSE "closed"

PrizeOf(id) ==
    IF IsResultSet(id) /\ ~event[id].burning
    THEN event[id].pool[Other(event[id].result)] ELSE 0

MarketOf(id) ==
    IF Deployed(id)
    THEN [owner |-> event[id].creator, phase |-> PhaseOf(id),
          asset |-> event[id].mint, burning |-> event[id].burning,
          outcome |-> event[id].result, prize |-> PrizeOf(id)]
    ELSE None

(* `None` is not a market either. *)
ASSUME NoMarketAssumption ==
    None \notin [owner : Users, phase : {"announced", "open", "closed"},
                 asset : [Sides -> Assets], burning : BOOLEAN,
                 outcome : Sides \cup {None}, prize : Nat]

HasWithdrawn(id, u) ==
    \E s \in Sides : HasTicket(id, s, u) /\ ticket[id][s][u].withdrawn

HasClaimed(id, u) ==
    \E s \in Sides : HasTicket(id, s, u) /\ ticket[id][s][u].claimed

Market == INSTANCE PredictionMarket WITH
    Precision <- 100000,
    market <- [id \in Ids |-> MarketOf(id)],
    bet <- [id \in Ids |-> [s \in Sides |-> [u \in Users |-> Stake(id, s, u)]]],
    pot <- [id \in Ids |-> [s \in Sides |-> Held(id, s)]],
    repaid <- [id \in Ids |-> {u \in Users : HasWithdrawn(id, u)}],
    rewarded <- [id \in Ids |-> {u \in Users : HasClaimed(id, u)}],
    purse <- wallet,
    treasury <- [a \in Assets |-> FeeBalance(a)]

(***************************************************************************)
(* Every step of the program is a step of the market, or one that the      *)
(* market does not see.  In particular each payment fits the pot of the    *)
(* side it is due from, although the lamports of both sides are one        *)
(* balance; a winner is paid back the bet, once, and rewarded the fair     *)
(* share, once; and closing an event takes nothing from anybody.           *)
(***************************************************************************)
ImplementsMarket == Market!Spec
=============================================================================
