--------------------------- MODULE DirectTransfers ---------------------------
(***************************************************************************)
(* The event program among transfers that do not go through it.  Whoever   *)
(* has tokens can send them to a pool, and whoever has lamports to an event*)
(* account, with the token program or the system program alone.  The       *)
(* program is told nothing: burn_tokens_from_pool and close_account act on *)
(* what the pool really holds, everything else on the recorded pools.      *)
(***************************************************************************)
EXTENDS EventProtocolProperties

(* spl_token transfer into a pool, of whatever mint the pool has. *)
SendTokens(u, id, s, n) ==
    /\ HasVault(id, s)
    /\ wallet[u][vault[id][s].mint] >= n
    /\ wallet' = [wallet EXCEPT ![u][vault[id][s].mint] = @ - n]
    /\ vault' = [vault EXCEPT ![id][s].amount = @ + n]
    /\ UNCHANGED <<clock, event, ticket, lamports, fee, supply, solHeld>>

(* system_program transfer to an event account, or to its address before a *)
(* deployment or after a close: what is above the rent stays there.        *)
SendLamports(u, id, n) ==
    /\ wallet[u][Native] >= n
    /\ wallet' = [wallet EXCEPT ![u][Native] = @ - n]
    /\ lamports' = [lamports EXCEPT ![id] = @ + n]
    /\ UNCHANGED <<clock, event, ticket, vault, fee, supply, solHeld>>

Transfer ==
    \E u \in Users, id \in Ids, n \in Amounts :
       \/ \E s \in Sides : SendTokens(u, id, s, n)
       \/ SendLamports(u, id, n)

NextAmongTransfers == Next \/ Transfer

SpecAmongTransfers == Init /\ [][NextAmongTransfers]_vars

----------------------------------------------------------------------------
(***************************************************************************)
(* With strangers' money about, a side is still backed by at least what was*)
(* staked on it and not paid out: no fee, burn, reward or withdrawal takes *)
(* a gift for a stake and pays it out of the stakes of somebody else.  A   *)
(* losing token side of a burning event keeps nothing but what came after. *)
(* A pool that is not of the side's mint, or that stands beside a side in  *)
(* SOL, backs nothing: no instruction pays out of it.                      *)
(***************************************************************************)
StillDue(id, s) ==
    IF HasWon(id, s) THEN StillToWithdraw(id, s)
    ELSE IF ~HasLost(id, s) THEN Staked(id, s)
    ELSE IF ~event[id].burning THEN event[id].pool[s] - ClaimedBy(id, Other(s))
    ELSE IF event[id].mint[s] = Native THEN event[id].pool[s] ELSE 0

Backing(id, s) == IF VaultReady(id, s) THEN Held(id, s) ELSE solHeld[id][s]

SidesHoldAtLeastTheirStakes ==
    \A id \in Ids : Deployed(id) =>
        /\ lamports[id] >= solHeld[id]["Left"] + solHeld[id]["Right"]
        /\ \A s \in Sides : Backing(id, s) >= StillDue(id, s)
=============================================================================
