-------------------------- MODULE PredictionMarket --------------------------
(***************************************************************************)
(* What the event program promises, without its accounts, clock and        *)
(* transactions: a market with two sides takes bets while it is open, is   *)
(* settled once after it has closed, and pays each winner back once and    *)
(* rewards each winner once.  Each side has a pot of its own, and a payment*)
(* is made only out of the pot it is due from.                             *)
(***************************************************************************)
EXTENDS Integers, Functions

CONSTANTS
    Users,      \* those who bet
    Ids,        \* the markets
    Assets,     \* what is bet with
    Native,     \* the asset that every side accepts besides its own
    None,       \* no market, no outcome
    Amounts,    \* what one bet may be
    Precision   \* rewards are shares in units of 1/Precision

VARIABLES
    market,     \* market[id]: None, or phase, terms and outcome
    bet,        \* bet[id][s][u]: what u has bet on side s
    pot,        \* pot[id][s]: what side s of the market holds
    repaid,     \* repaid[id]: the winners who have their bets back
    rewarded,   \* rewarded[id]: the winners who have their rewards
    purse,      \* purse[u][a]: what u owns
    treasury    \* treasury[a]: what the house owns

marketVars == <<market, bet, pot, repaid, rewarded, purse, treasury>>

Sides == {"Left", "Right"}
Other(s) == IF s = "Left" THEN "Right" ELSE "Left"

After(phase) == IF phase = "announced" THEN "open" ELSE "closed"

Total(id, s) == SumFunctionOnSet(bet[id][s], Users)

Init ==
    /\ market = [id \in Ids |-> None]
    /\ bet = [id \in Ids |-> [s \in Sides |-> [u \in Users |-> 0]]]
    /\ pot = [id \in Ids |-> [s \in Sides |-> 0]]
    /\ repaid = [id \in Ids |-> {}]
    /\ rewarded = [id \in Ids |-> {}]
    /\ purse \in [Users -> [Assets -> Nat]]
    /\ treasury = [a \in Assets |-> 0]

(* A market may be announced for any time, a past one included. *)
Announce(u, id) ==
    /\ market[id] = None
    /\ \E phase \in {"announced", "open", "closed"},
          asset \in [Sides -> Assets], burning \in BOOLEAN :
         market' = [market EXCEPT ![id] =
                      [owner |-> u, phase |-> phase, asset |-> asset,
                       burning |-> burning, outcome |-> None, prize |-> 0]]
    /\ UNCHANGED <<bet, pot, repaid, rewarded, purse, treasury>>

(* Time opens and closes markets, several at once, and skips no phase. *)
PassTime ==
    /\ \E moved \in SUBSET {id \in Ids : market[id] # None} :
         market' = [id \in Ids |->
                      IF id \in moved
                      THEN [market[id] EXCEPT !.phase = After(@)]
                      ELSE market[id]]
    /\ UNCHANGED <<bet, pot, repaid, rewarded, purse, treasury>>

(* A bet is made in the side's asset or, on any side, in the native one. *)
Bet(u, id, s, n, a) ==
    /\ market[id] # None
    /\ market[id].phase = "open"
    /\ a \in {market[id].asset[s], Native}
    /\ purse[u][a] >= n
    /\ purse' = [purse EXCEPT ![u][a] = @ - n]
    /\ bet' = [bet EXCEPT ![id][s][u] = @ + n]
    /\ pot' = [pot EXCEPT ![id][s] = @ + n]
    /\ UNCHANGED <<market, repaid, rewarded, treasury>>

(***************************************************************************)
(* The losing pot pays at most a fortieth to the owner and as much to the  *)
(* house.  The rest is the winners' prize, unless the market burns it; of  *)
(* what it burns some may be left over, which nobody gets.                 *)
(***************************************************************************)
Settle(id, w) ==
    LET l == Other(w)
        a == market[id].asset[l]
    IN  /\ market[id] # None
        /\ market[id].phase = "closed"
        /\ market[id].outcome = None
        /\ UNCHANGED <<bet, repaid, rewarded>>
        /\ \E cut \in 0..(Total(id, l) \div 40) :
             LET rest == Total(id, l) - 2 * cut
             IN  /\ treasury' = [treasury EXCEPT ![a] = @ + cut]
                 /\ purse' = [purse EXCEPT ![market[id].owner][a] = @ + cut]
                 /\ market' = [market EXCEPT ![id].outcome = w,
                        ![id].prize = IF market[id].burning THEN 0 ELSE rest]
                 /\ \E left \in 0..rest :
                      /\ left = rest \/ market[id].burning
                      /\ pot' = [pot EXCEPT ![id][l] = left]

Repay(u, id) ==
    LET w == market[id].outcome
        n == bet[id][w][u]
    IN  /\ market[id] # None
        /\ w # None
        /\ u \notin repaid[id]
        /\ pot[id][w] >= n
        /\ pot' = [pot EXCEPT ![id][w] = @ - n]
        /\ purse' = [purse EXCEPT ![u][market[id].asset[w]] = @ + n]
        /\ repaid' = [repaid EXCEPT ![id] = @ \cup {u}]
        /\ UNCHANGED <<market, bet, rewarded, treasury>>

(* The prize in proportion to the bet: never more, and less by roundings. *)
FairShare(n, of, prize, x) ==
    /\ of * x <= n * prize
    /\ n * prize <= of * (x + 1) + (of * prize) \div Precision

Reward(u, id) ==
    LET w == market[id].outcome
        l == Other(w)
    IN  /\ market[id] # None
        /\ w # None
        /\ ~market[id].burning
        /\ u \notin rewarded[id]
        /\ rewarded' = [rewarded EXCEPT ![id] = @ \cup {u}]
        /\ UNCHANGED <<market, bet, repaid, treasury>>
        /\ \E x \in 0..market[id].prize :
             /\ pot[id][l] >= x
             /\ purse' = [purse EXCEPT ![u][market[id].asset[l]] = @ + x]
             /\ pot' = [pot EXCEPT ![id][l] = @ - x]
             /\ FairShare(bet[id][w][u], Total(id, w), market[id].prize, x)

(* A market can be called off until it opens, and nobody has to be repaid. *)
CallOff(id) ==
    /\ market[id] # None
    /\ market[id].phase = "announced"
    /\ market' = [market EXCEPT ![id] = None]
    /\ UNCHANGED <<bet, pot, repaid, rewarded, purse, treasury>>

Next ==
    \/ PassTime
    \/ \E id \in Ids :
         \/ CallOff(id)
         \/ \E w \in Sides : Settle(id, w)
         \/ \E u \in Users :
              \/ Announce(u, id)
              \/ \E s \in Sides, n \in Amounts, a \in Assets :
                   Bet(u, id, s, n, a)
              \/ Repay(u, id)
              \/ Reward(u, id)

Spec == Init /\ [][Next]_marketVars
=============================================================================
