----------------------- MODULE DirectTransfersProofs -----------------------
(***************************************************************************)
(* The program among transfers that do not go through it.  The accounts    *)
(* balance: no token or lamport is created, or lost except by burning.     *)
(* And no gift makes an event pay anybody out of the stakes of another: an *)
(* invariant of its own, since what an event holds can be raised at will.  *)
(***************************************************************************)
EXTENDS DirectTransfers, EventProtocolProofs

----------------------------------------------------------------------------
(* The books of an asset: who holds it.                                    *)

Places == Ids \X Sides

InVault(id, s, m) ==
    IF vault[id][s] # None /\ vault[id][s].mint = m
    THEN vault[id][s].amount ELSE 0

InWallets(a) == Over([u \in Users |-> wallet[u][a]])
InEvents == SumFunctionOnSet(lamports, Ids)
InitialSol == Over([u \in Users |-> Endowment[u][Native]])

TokensBooked(m) == InWallets(m) + InVaults(m) + FeeBalance(m) = supply[m]
SolBooked == InWallets(Native) + InEvents + FeeBalance(Native) = InitialSol
Booked == SolBooked /\ \A m \in Mints : TokensBooked(m)

AmountsInNat ==
    /\ \A u \in Users, a \in Assets : wallet[u][a] \in Nat
    /\ \A id \in Ids, s \in Sides, m \in Mints : InVault(id, s, m) \in Nat
    /\ \A id \in Ids : lamports[id] \in Nat
    /\ \A a \in Assets : FeeBalance(a) \in Nat

LEMMA AmountsAreNat == TypeOK => AmountsInNat
<1> SUFFICES ASSUME TypeOK PROVE AmountsInNat
  OBVIOUS
<1>1. ASSUME NEW id \in Ids, NEW s \in Sides, NEW m \in Mints
      PROVE  InVault(id, s, m) \in Nat
  <2>1. vault[id][s] = None \/ vault[id][s] \in TokenAccount
    BY DEF TypeOK
  <2> QED BY <2>1 DEF InVault, TokenAccount
<1> QED BY <1>1, FeeBalanceIsNat DEF TypeOK, AmountsInNat

LEMMA AmountsAreNatNext == TypeOK' => AmountsInNat'
BY AmountsAreNat, PTL

LEMMA PlacesAreFinite == IsFiniteSet(Places)
<1>1. IsFiniteSet(Sides)
  <2>1. IsFiniteSet({"Left"} \cup {"Right"})
    BY FS_Singleton, FS_Union
  <2> QED BY <2>1, Zenon DEF Sides
<1> QED BY <1>1, SetsAssumption, FS_Product DEF Places

LEMMA InVaultsIsTheSum ==
    ASSUME NEW m \in Mints
    PROVE  /\ InVaults(m) = SumFunctionOnSet(
                               [p \in Places |-> InVault(p[1], p[2], m)], Places)
           /\ InVaults(m)' = SumFunctionOnSet(
                               [p \in Places |-> InVault(p[1], p[2], m)'], Places)
BY DEF InVaults, InVault, Places

(* What changes a total: one of its terms, or none. *)
LEMMA WalletsUpdate ==
    ASSUME TypeOK, TypeOK', NEW a \in Assets, NEW u \in Users,
           \A v \in Users \ {u} : wallet'[v][a] = wallet[v][a]
    PROVE  InWallets(a)' = InWallets(a) + (wallet'[u][a] - wallet[u][a])
<1> DEFINE f == [v \in Users |-> wallet[v][a]]
           g == [v \in Users |-> wallet'[v][a]]
<1>1. \A v \in Users : f[v] \in Nat /\ g[v] \in Nat
  BY DEF TypeOK
<1>2. \A v \in Users \ {u} : g[v] = f[v]
  OBVIOUS
<1>3. InWallets(a) = Over(f) /\ InWallets(a)' = Over(g)
  BY DEF InWallets, Over
<1>4. f[u] = wallet[u][a] /\ g[u] = wallet'[u][a]
  OBVIOUS
<1> HIDE DEF f, g
<1> QED BY <1>1, <1>2, <1>3, <1>4, OverUpdate

LEMMA VaultsUpdate ==
    ASSUME TypeOK, TypeOK', NEW m \in Mints, NEW id \in Ids, NEW s \in Sides,
           \A i \in Ids, z \in Sides : (i # id \/ z # s) =>
               InVault(i, z, m)' = InVault(i, z, m)
    PROVE  InVaults(m)' = InVaults(m)
             + (InVault(id, s, m)' - InVault(id, s, m))
<1> DEFINE f == [p \in Places |-> InVault(p[1], p[2], m)]
           g == [p \in Places |-> InVault(p[1], p[2], m)']
           here == <<id, s>>
<1>1. \A p \in Places : p[1] \in Ids /\ p[2] \in Sides /\ p = <<p[1], p[2]>>
  BY DEF Places
<1>2. \A p \in Places : f[p] \in Nat /\ g[p] \in Nat
  BY <1>1, AmountsAreNat, AmountsAreNatNext DEF AmountsInNat
<1>3. \A p \in Places \ {here} : g[p] = f[p]
  <2>1. TAKE p \in Places \ {here}
  <2>2. p[1] # id \/ p[2] # s
    BY <1>1
  <2> QED BY <1>1, <2>2
<1>4. here \in Places
  BY DEF Places
<1>5. f[here] = InVault(id, s, m) /\ g[here] = InVault(id, s, m)'
  BY <1>4
<1>6. /\ InVaults(m) = SumFunctionOnSet(f, Places)
      /\ InVaults(m)' = SumFunctionOnSet(g, Places)
  BY InVaultsIsTheSum
<1> HIDE DEF f, g, here
<1> QED BY <1>2, <1>3, <1>4, <1>5, <1>6, PlacesAreFinite, SumUpdate

LEMMA VaultsSame ==
    ASSUME TypeOK, NEW m \in Mints,
           \A i \in Ids, z \in Sides : InVault(i, z, m)' = InVault(i, z, m)
    PROVE  InVaults(m)' = InVaults(m)
<1> DEFINE f == [p \in Places |-> InVault(p[1], p[2], m)]
           g == [p \in Places |-> InVault(p[1], p[2], m)']
<1>1. \A p \in Places : p[1] \in Ids /\ p[2] \in Sides
  BY DEF Places
<1>2. \A p \in Places : f[p] \in Nat /\ g[p] = f[p]
  BY <1>1, AmountsAreNat DEF AmountsInNat
<1>3. /\ InVaults(m) = SumFunctionOnSet(f, Places)
      /\ InVaults(m)' = SumFunctionOnSet(g, Places)
  BY InVaultsIsTheSum
<1> HIDE DEF f, g
<1> QED BY <1>2, <1>3, PlacesAreFinite, SumSame

LEMMA TotalAmountsAreNat ==
    ASSUME TypeOK
    PROVE  /\ \A a \in Assets : InWallets(a) \in Nat
           /\ \A m \in Mints : InVaults(m) \in Nat
           /\ InEvents \in Nat
<1>1. ASSUME NEW a \in Assets PROVE InWallets(a) \in Nat
  <2> DEFINE f == [u \in Users |-> wallet[u][a]]
  <2>1. \A u \in Users : f[u] \in Nat
    BY DEF TypeOK
  <2>2. InWallets(a) = Over(f)
    BY DEF InWallets
  <2> HIDE DEF f
  <2> QED BY <2>1, <2>2, OverIsNat
<1>2. ASSUME NEW m \in Mints PROVE InVaults(m) \in Nat
  <2> DEFINE f == [p \in Places |-> InVault(p[1], p[2], m)]
  <2>1. \A p \in Places : p[1] \in Ids /\ p[2] \in Sides
    BY DEF Places
  <2>2. \A p \in Places : f[p] \in Nat
    BY <2>1, AmountsAreNat DEF AmountsInNat
  <2>3. InVaults(m) = SumFunctionOnSet(f, Places)
    BY InVaultsIsTheSum
  <2> HIDE DEF f
  <2> QED BY <2>2, <2>3, PlacesAreFinite, SumIsNat
<1>3. InEvents \in Nat
  BY SumIsNat, SetsAssumption DEF TypeOK, InEvents
<1> QED BY <1>1, <1>2, <1>3

----------------------------------------------------------------------------
(* A movement of a mint's tokens or of lamports between one user, one      *)
(* place and the system's account keeps the books, if it adds up.          *)

LEMMA TokenMovementIsBooked ==
    ASSUME TypeOK, TypeOK', NEW m \in Mints, TokensBooked(m),
           NEW u \in Users, NEW id \in Ids, NEW s \in Sides,
           \A v \in Users \ {u} : wallet'[v][m] = wallet[v][m],
           \A i \in Ids, z \in Sides : (i # id \/ z # s) =>
               InVault(i, z, m)' = InVault(i, z, m),
           (wallet'[u][m] - wallet[u][m])
             + (InVault(id, s, m)' - InVault(id, s, m))
             + (FeeBalance(m)' - FeeBalance(m)) = supply'[m] - supply[m]
    PROVE  TokensBooked(m)'
<1>1. m \in Assets
  BY DEF Assets
<1>2. InWallets(m)' = InWallets(m) + (wallet'[u][m] - wallet[u][m])
  BY <1>1, WalletsUpdate
<1>3. InVaults(m)' = InVaults(m) + (InVault(id, s, m)' - InVault(id, s, m))
  BY VaultsUpdate
<1>4. /\ InWallets(m) \in Nat /\ InVaults(m) \in Nat
      /\ FeeBalance(m) \in Nat /\ FeeBalance(m)' \in Nat
      /\ wallet[u][m] \in Nat /\ wallet'[u][m] \in Nat
      /\ InVault(id, s, m) \in Nat /\ InVault(id, s, m)' \in Nat
      /\ supply[m] \in Nat /\ supply'[m] \in Nat
  BY <1>1, AmountsAreNat, AmountsAreNatNext, TotalAmountsAreNat
     DEF AmountsInNat, TypeOK
<1>5. InWallets(m) + InVaults(m) + FeeBalance(m) = supply[m]
  BY DEF TokensBooked
<1> DEFINE toWallet == wallet'[u][m] - wallet[u][m]
           toVault == InVault(id, s, m)' - InVault(id, s, m)
           toSystem == FeeBalance(m)' - FeeBalance(m)
           toSupply == supply'[m] - supply[m]
<1>6. /\ toWallet \in Int /\ toVault \in Int /\ toSystem \in Int
      /\ toSupply \in Int /\ toWallet + toVault + toSystem = toSupply
  BY <1>4
<1>7. /\ FeeBalance(m)' = FeeBalance(m) + toSystem
      /\ supply'[m] = supply[m] + toSupply
  BY <1>4
<1>8. InWallets(m)' + InVaults(m)' + FeeBalance(m)' = supply'[m]
  <2> HIDE DEF toWallet, toVault, toSystem, toSupply
  <2>1. /\ InWallets(m)' = InWallets(m) + toWallet
        /\ InVaults(m)' = InVaults(m) + toVault
    BY <1>2, <1>3 DEF toWallet, toVault
  <2> QED BY <1>4, <1>5, <1>6, <1>7, <2>1, SMT
<1> QED BY <1>8 DEF TokensBooked

LEMMA SolMovementIsBooked ==
    ASSUME TypeOK, TypeOK', SolBooked, NEW u \in Users, NEW id \in Ids,
           \A v \in Users \ {u} : wallet'[v][Native] = wallet[v][Native],
           \A i \in Ids \ {id} : lamports'[i] = lamports[i],
           (wallet'[u][Native] - wallet[u][Native])
             + (lamports'[id] - lamports[id])
             + (FeeBalance(Native)' - FeeBalance(Native)) = 0
    PROVE  SolBooked'
<1>1. Native \in Assets
  BY DEF Assets
<1>2. InWallets(Native)' = InWallets(Native)
                             + (wallet'[u][Native] - wallet[u][Native])
  BY <1>1, WalletsUpdate
<1>3. InEvents' = InEvents + (lamports'[id] - lamports[id])
  <2>1. \A i \in Ids : lamports[i] \in Nat /\ lamports'[i] \in Nat
    BY DEF TypeOK
  <2> QED BY <2>1, SumUpdate, SetsAssumption DEF InEvents
<1>4. /\ InWallets(Native) \in Nat /\ InEvents \in Nat
      /\ FeeBalance(Native) \in Nat /\ FeeBalance(Native)' \in Nat
      /\ wallet[u][Native] \in Nat /\ wallet'[u][Native] \in Nat
      /\ lamports[id] \in Nat /\ lamports'[id] \in Nat
  BY <1>1, AmountsAreNat, AmountsAreNatNext, TotalAmountsAreNat
     DEF AmountsInNat, TypeOK
<1>5. InWallets(Native) + InEvents + FeeBalance(Native) = InitialSol
  BY DEF SolBooked
<1>6. InWallets(Native)' + InEvents' + FeeBalance(Native)' = InitialSol
  BY <1>2, <1>3, <1>4, <1>5, SMT
<1>7. InitialSol' = InitialSol
  BY DEF InitialSol, Over
<1> QED BY <1>6, <1>7 DEF SolBooked

VaultsKept ==
    \A m \in Mints, i \in Ids, z \in Sides :
        InVault(i, z, m)' = InVault(i, z, m)
FeesKept == \A a \in Assets : FeeBalance(a)' = FeeBalance(a)

(* A step that moves no tokens, and one that moves no lamports. *)
LEMMA NoTokenMovement ==
    ASSUME TypeOK, NEW m \in Mints, TokensBooked(m),
           \A v \in Users : wallet'[v][m] = wallet[v][m],
           \A i \in Ids, z \in Sides : InVault(i, z, m)' = InVault(i, z, m),
           FeeBalance(m)' = FeeBalance(m), supply'[m] = supply[m]
    PROVE  TokensBooked(m)'
<1> DEFINE f == [v \in Users |-> wallet[v][m]]
           g == [v \in Users |-> wallet'[v][m]]
<1>1. InVaults(m)' = InVaults(m)
  BY VaultsSame
<1>2. \A v \in Users : f[v] \in Nat /\ g[v] = f[v]
  BY DEF TypeOK, Assets
<1>3. InWallets(m) = Over(f) /\ InWallets(m)' = Over(g)
  BY DEF InWallets, Over
<1> HIDE DEF f, g
<1>4. InWallets(m)' = InWallets(m)
  BY <1>2, <1>3, OverSame
<1> QED BY <1>1, <1>4 DEF TokensBooked

LEMMA NoSolMovement ==
    ASSUME TypeOK, SolBooked,
           \A v \in Users : wallet'[v][Native] = wallet[v][Native],
           lamports' = lamports, FeeBalance(Native)' = FeeBalance(Native)
    PROVE  SolBooked'
<1> DEFINE f == [v \in Users |-> wallet[v][Native]]
           g == [v \in Users |-> wallet'[v][Native]]
<1>1. \A v \in Users : f[v] \in Nat /\ g[v] = f[v]
  BY DEF TypeOK, Assets
<1>2. InWallets(Native) = Over(f) /\ InWallets(Native)' = Over(g)
  BY DEF InWallets, Over
<1> HIDE DEF f, g
<1>3. InWallets(Native)' = InWallets(Native)
  BY <1>1, <1>2, OverSame
<1> QED BY <1>3 DEF SolBooked, InitialSol, InEvents

LEMMA NothingMoves ==
    ASSUME TypeOK, Booked, wallet' = wallet, lamports' = lamports,
           supply' = supply, VaultsKept, FeesKept
    PROVE  Booked'
<1>1. SolBooked'
  BY NoSolMovement DEF Booked, FeesKept, Assets
<1>2. ASSUME NEW m \in Mints PROVE TokensBooked(m)'
  BY NoTokenMovement DEF Booked, FeesKept, VaultsKept, Assets
<1> QED BY <1>1, <1>2 DEF Booked

LEMMA SameVaultsAreKept == vault' = vault => VaultsKept
BY DEF VaultsKept, InVault

LEMMA SameFeesAreKept == fee' = fee => FeesKept
BY DEF FeesKept, FeeBalance

(***************************************************************************)
(* Tokens that move between a user's wallet and a pool: n into the pool,   *)
(* where n is negative if the pool pays.                                   *)
(***************************************************************************)
LEMMA TokensMoved ==
    ASSUME TypeOK, TypeOK', Booked, NEW u \in Users, NEW id \in Ids,
           NEW s \in Sides, NEW n \in Int, HasVault(id, s),
           wallet' = [wallet EXCEPT ![u][vault[id][s].mint] = @ - n],
           vault' = [vault EXCEPT ![id][s].amount = @ + n],
           vault[id][s].amount + n \in Nat,
           lamports' = lamports, fee' = fee, supply' = supply
    PROVE  Booked'
<1> DEFINE k == vault[id][s].mint
<1>1. k \in Mints /\ k # Native /\ Native \notin Mints
  BY AccountTypes, SetsAssumption DEF TokenAccount
<1>2. vault[id][s] \in TokenAccount /\ vault[id][s].mint = k
  BY AccountTypes
<1>3. FeesKept
  BY SameFeesAreKept
<1>4. /\ vault'[id][s].mint = k
      /\ vault'[id][s].amount = vault[id][s].amount + n
      /\ vault'[id][s] # None
      /\ \A i \in Ids, z \in Sides : (i # id \/ z # s) =>
             vault'[i][z] = vault[i][z]
  <2>1. vault'[id][s] = [vault[id][s] EXCEPT !.amount = @ + n]
    BY DEF TypeOK
  <2>2. vault'[id][s] # None
    <3>1. [vault[id][s] EXCEPT !.amount = @ + n] \in TokenAccount
      BY <1>2 DEF TokenAccount
    <3> QED BY <2>1, <3>1, NoneAssumption
  <2>3. \A i \in Ids, z \in Sides : (i # id \/ z # s) =>
             vault'[i][z] = vault[i][z]
    BY DEF TypeOK
  <2> QED BY <1>2, <2>1, <2>2, <2>3 DEF TokenAccount
<1>5. /\ wallet'[u][k] = wallet[u][k] - n
      /\ \A v \in Users, a \in Assets : (v # u \/ a # k) =>
             wallet'[v][a] = wallet[v][a]
  BY <1>1 DEF TypeOK, Assets
<1>6. SolBooked'
  <2>1. \A v \in Users : wallet'[v][Native] = wallet[v][Native]
    BY <1>1, <1>5 DEF Assets
  <2> QED BY <1>3, <2>1, NoSolMovement DEF Booked, FeesKept, Assets
<1>7. ASSUME NEW m \in Mints PROVE TokensBooked(m)'
  <2>1. TokensBooked(m) /\ m \in Assets /\ FeeBalance(m)' = FeeBalance(m)
    BY <1>3 DEF Booked, FeesKept, Assets
  <2>2. \A i \in Ids, z \in Sides : (i # id \/ z # s) =>
            InVault(i, z, m)' = InVault(i, z, m)
    BY <1>4 DEF InVault
  <2>3. CASE m = k
    <3>1. /\ InVault(id, s, m) = vault[id][s].amount
          /\ InVault(id, s, m)' = vault[id][s].amount + n
      BY <1>2, <1>4, <2>3 DEF InVault, HasVault
    <3>2. /\ vault[id][s].amount \in Nat /\ wallet[u][m] \in Nat
          /\ FeeBalance(m) \in Nat /\ supply[m] \in Nat
      BY <1>2, <2>1, FeeBalanceIsNat DEF TypeOK, TokenAccount
    <3>3. wallet'[u][m] = wallet[u][m] - n
      BY <1>5, <2>3
    <3>4. \A v \in Users \ {u} : wallet'[v][m] = wallet[v][m]
      BY <1>5, <2>1
    <3>5. (wallet'[u][m] - wallet[u][m])
            + (InVault(id, s, m)' - InVault(id, s, m))
            + (FeeBalance(m)' - FeeBalance(m)) = supply'[m] - supply[m]
      <4>1. /\ wallet'[u][m] - wallet[u][m] = -n
            /\ InVault(id, s, m)' - InVault(id, s, m) = n
        <5> DEFINE a == vault[id][s].amount
                   b == wallet[u][m]
        <5>1. a \in Nat /\ b \in Nat
          BY <3>2
        <5>2. /\ wallet'[u][m] = b - n
              /\ InVault(id, s, m) = a /\ InVault(id, s, m)' = a + n
          BY <3>1, <3>3
        <5> HIDE DEF a, b
        <5>3. (b - n) - b = -n /\ (a + n) - a = n
          BY <5>1
        <5> QED BY <5>2, <5>3 DEF b
      <4>2. FeeBalance(m)' - FeeBalance(m) = 0 /\ supply'[m] - supply[m] = 0
        BY <2>1, <3>2
      <4> QED BY <4>1, <4>2
    <3> HIDE DEF k
    <3> QED BY <2>1, <2>2, <3>4, <3>5, TokenMovementIsBooked
  <2>4. CASE m # k
    <3>1. \A v \in Users : wallet'[v][m] = wallet[v][m]
      BY <1>5, <2>1, <2>4
    <3>2. \A i \in Ids, z \in Sides : InVault(i, z, m)' = InVault(i, z, m)
      BY <1>2, <1>4, <2>2, <2>4 DEF InVault
    <3> QED BY <2>1, <3>1, <3>2, NoTokenMovement
  <2> QED BY <2>3, <2>4
<1> QED BY <1>6, <1>7 DEF Booked

(* Lamports that move between a user's wallet and an event account. *)
LEMMA LamportsMoved ==
    ASSUME TypeOK, TypeOK', Booked, NEW u \in Users, NEW id \in Ids,
           NEW n \in Int,
           wallet' = [wallet EXCEPT ![u][Native] = @ - n],
           lamports' = [lamports EXCEPT ![id] = @ + n],
           VaultsKept, fee' = fee, supply' = supply
    PROVE  Booked'
<1>1. Native \in Assets /\ Native \notin Mints
  BY SetsAssumption DEF Assets
<1>2. FeesKept
  BY SameFeesAreKept
<1>3. /\ wallet'[u][Native] = wallet[u][Native] - n
      /\ \A v \in Users, a \in Assets : (v # u \/ a # Native) =>
             wallet'[v][a] = wallet[v][a]
  BY <1>1 DEF TypeOK
<1>4. /\ lamports'[id] = lamports[id] + n
      /\ \A i \in Ids \ {id} : lamports'[i] = lamports[i]
  BY DEF TypeOK
<1>5. SolBooked'
  <2>1. /\ wallet[u][Native] \in Nat /\ lamports[id] \in Nat
        /\ FeeBalance(Native) \in Nat
        /\ FeeBalance(Native)' = FeeBalance(Native)
    BY <1>1, <1>2, FeeBalanceIsNat DEF TypeOK, FeesKept
  <2>2. (wallet'[u][Native] - wallet[u][Native])
          + (lamports'[id] - lamports[id])
          + (FeeBalance(Native)' - FeeBalance(Native)) = 0
    BY <1>3, <1>4, <2>1
  <2>3. \A v \in Users \ {u} : wallet'[v][Native] = wallet[v][Native]
    BY <1>1, <1>3
  <2> QED BY <1>4, <2>2, <2>3, SolMovementIsBooked DEF Booked
<1>6. ASSUME NEW m \in Mints PROVE TokensBooked(m)'
  <2>1. \A v \in Users : wallet'[v][m] = wallet[v][m]
    BY <1>1, <1>3 DEF Assets
  <2> QED BY <1>2, <2>1, NoTokenMovement
          DEF Booked, FeesKept, VaultsKept, Assets
<1> QED BY <1>5, <1>6 DEF Booked

----------------------------------------------------------------------------
(* Setting the result: the fees, and what is burned.                       *)

LEMMA FeesInTokensAreBooked ==
    ASSUME TypeOK, TypeOK', Booked, NEW u \in Users, NEW id \in Ids,
           NEW r \in Sides, FinishEvent(u, id, r),
           TakeFeesInTokens(u, id, Other(r))
    PROVE  Booked'
<1> DEFINE l == Other(r)
           k == event[id].mint[l]
           amount == FeeOf(event[id].pool[l])
           burned == BurnedOf(id, l)
<1>1. l \in Sides /\ Deployed(id) /\ VaultReady(id, l)
  BY OtherIsSide DEF FinishEvent, MayFinish, TakeFeesInTokens
<1>2. k \in Mints /\ k # Native /\ Native \notin Mints
  BY <1>1, SetsAssumption
     DEF TypeOK, Deployed, PredictionEvent, Assets, TakeFeesInTokens
<1>3. vault[id][l] \in TokenAccount /\ vault[id][l].mint = k
  BY <1>1, AccountTypes DEF VaultReady
<1>4. /\ wallet' = [wallet EXCEPT ![u][k] = @ + amount]
      /\ vault' = [vault EXCEPT ![id][l].amount = LeftAfterFees(id, l) - burned]
      /\ supply' = [supply EXCEPT ![k] = @ - burned]
      /\ lamports' = lamports
      /\ LeftAfterFees(id, l) = vault[id][l].amount - 2 * amount
      /\ LeftAfterFees(id, l) >= 0
  BY DEF TakeFeesInTokens, LeftAfterFees
<1>5. amount \in Nat /\ vault[id][l].amount \in Nat
  <2>1. event[id].pool[l] \in Nat
    BY <1>1, PoolsAreNat
  <2> QED BY <1>3, <2>1, FeesFitThePool DEF TokenAccount
<1>6. burned \in Nat /\ LeftAfterFees(id, l) - burned \in Nat
  BY <1>4, <1>5 DEF BurnedOf
<1>7. \A a \in Assets :
          FeeBalance(a)' = FeeBalance(a) + (IF k = a THEN amount ELSE 0)
  BY FeePaidToTheSystem
<1> HIDE DEF amount, burned
<1>8. /\ wallet'[u][k] = wallet[u][k] + amount
      /\ \A v \in Users, a \in Assets : (v # u \/ a # k) =>
             wallet'[v][a] = wallet[v][a]
  BY <1>2, <1>4 DEF TypeOK, Assets
<1>9. /\ vault'[id][l].mint = k
      /\ vault'[id][l].amount = LeftAfterFees(id, l) - burned
      /\ vault'[id][l] # None
      /\ \A i \in Ids, z \in Sides : (i # id \/ z # l) =>
             vault'[i][z] = vault[i][z]
  <2>1. vault'[id][l] =
          [vault[id][l] EXCEPT !.amount = LeftAfterFees(id, l) - burned]
    BY <1>1, <1>4 DEF TypeOK
  <2>2. [vault[id][l] EXCEPT !.amount = LeftAfterFees(id, l) - burned]
          \in TokenAccount
    BY <1>3, <1>6 DEF TokenAccount
  <2>3. \A i \in Ids, z \in Sides : (i # id \/ z # l) =>
             vault'[i][z] = vault[i][z]
    BY <1>1, <1>4 DEF TypeOK
  <2> QED BY <1>3, <2>1, <2>2, <2>3, NoneAssumption DEF TokenAccount
<1>10. SolBooked'
  <2>1. \A v \in Users : wallet'[v][Native] = wallet[v][Native]
    BY <1>2, <1>8 DEF Assets
  <2>2. FeeBalance(Native)' = FeeBalance(Native)
    <3>1. Native \in Assets /\ k # Native
      BY <1>2 DEF Assets
    <3>2. FeeBalance(Native) \in Nat
      BY <3>1, FeeBalanceIsNat
    <3> QED BY <1>7, <3>1, <3>2
  <2> QED BY <1>4, <2>1, <2>2, NoSolMovement DEF Booked
<1>11. ASSUME NEW m \in Mints PROVE TokensBooked(m)'
  <2>1. /\ TokensBooked(m) /\ m \in Assets /\ FeeBalance(m) \in Nat
        /\ supply[m] \in Nat /\ wallet[u][m] \in Nat
    BY FeeBalanceIsNat DEF Booked, Assets, TypeOK
  <2>2. \A i \in Ids, z \in Sides : (i # id \/ z # l) =>
            InVault(i, z, m)' = InVault(i, z, m)
    BY <1>9 DEF InVault
  <2>3. CASE m = k
    <3>1. /\ InVault(id, l, m) = vault[id][l].amount
          /\ InVault(id, l, m)' = LeftAfterFees(id, l) - burned
      BY <1>1, <1>3, <1>9, <2>3 DEF InVault, VaultReady, HasVault
    <3>2. wallet'[u][m] - wallet[u][m] = amount
      BY <1>5, <1>8, <2>1, <2>3
    <3>3. InVault(id, l, m)' - InVault(id, l, m) = -(2 * amount) - burned
      BY <1>4, <1>5, <1>6, <3>1
    <3>4. FeeBalance(m)' - FeeBalance(m) = amount
      BY <1>5, <1>7, <2>1, <2>3
    <3>5. supply'[m] - supply[m] = -burned
      <4>1. supply'[m] = supply[m] - burned
        BY <1>4, <2>3 DEF TypeOK
      <4> QED BY <1>6, <2>1, <4>1
    <3>6. (wallet'[u][m] - wallet[u][m])
            + (InVault(id, l, m)' - InVault(id, l, m))
            + (FeeBalance(m)' - FeeBalance(m)) = supply'[m] - supply[m]
      BY <1>5, <1>6, <3>2, <3>3, <3>4, <3>5
    <3>7. \A v \in Users \ {u} : wallet'[v][m] = wallet[v][m]
      BY <1>8, <2>1
    <3> HIDE DEF k, l
    <3> QED BY <1>1, <2>1, <2>2, <3>6, <3>7, TokenMovementIsBooked
  <2>4. CASE m # k
    <3>1. \A v \in Users : wallet'[v][m] = wallet[v][m]
      BY <1>8, <2>1, <2>4
    <3>2. \A i \in Ids, z \in Sides : InVault(i, z, m)' = InVault(i, z, m)
      BY <1>3, <1>9, <2>2, <2>4 DEF InVault
    <3>3. FeeBalance(m)' = FeeBalance(m)
      BY <1>7, <2>1, <2>4
    <3>4. supply'[m] = supply[m]
      BY <1>4, <2>4 DEF TypeOK
    <3> HIDE DEF k, l
    <3> QED BY <2>1, <3>1, <3>2, <3>3, <3>4, NoTokenMovement
  <2> QED BY <2>3, <2>4
<1> QED BY <1>10, <1>11 DEF Booked

LEMMA FeesInLamportsAreBooked ==
    ASSUME TypeOK, TypeOK', Booked, NEW u \in Users, NEW id \in Ids,
           NEW r \in Sides, FinishEvent(u, id, r),
           TakeFeesInLamports(u, id, Other(r))
    PROVE  Booked'
<1> DEFINE l == Other(r)
           amount == FeeOf(event[id].pool[l])
<1>1. l \in Sides /\ Deployed(id) /\ event[id].mint[l] = Native
  BY OtherIsSide DEF FinishEvent, MayFinish, TakeFeesInLamports
<1>2. Native \in Assets /\ Native \notin Mints
  BY SetsAssumption DEF Assets
<1>3. /\ wallet' = [wallet EXCEPT ![u][Native] = @ + amount]
      /\ lamports' = [lamports EXCEPT ![id] = @ - 2 * amount]
      /\ vault' = vault /\ supply' = supply
  BY DEF TakeFeesInLamports
<1>4. amount \in Nat
  <2>1. event[id].pool[l] \in Nat
    BY <1>1, PoolsAreNat
  <2> QED BY <2>1, FeesFitThePool
<1>5. \A a \in Assets :
          FeeBalance(a)' = FeeBalance(a) + (IF Native = a THEN amount ELSE 0)
  BY <1>1, FeePaidToTheSystem
<1> HIDE DEF amount
<1>6. /\ wallet'[u][Native] = wallet[u][Native] + amount
      /\ \A v \in Users, a \in Assets : (v # u \/ a # Native) =>
             wallet'[v][a] = wallet[v][a]
  BY <1>2, <1>3 DEF TypeOK
<1>7. /\ lamports'[id] = lamports[id] - 2 * amount
      /\ \A i \in Ids \ {id} : lamports'[i] = lamports[i]
  BY <1>3 DEF TypeOK
<1>8. SolBooked'
  <2>1. /\ wallet[u][Native] \in Nat /\ lamports[id] \in Nat
        /\ FeeBalance(Native) \in Nat
        /\ FeeBalance(Native)' = FeeBalance(Native) + amount
    BY <1>2, <1>5, FeeBalanceIsNat DEF TypeOK
  <2>2. (wallet'[u][Native] - wallet[u][Native])
          + (lamports'[id] - lamports[id])
          + (FeeBalance(Native)' - FeeBalance(Native)) = 0
    <3>1. wallet'[u][Native] - wallet[u][Native] = amount
      BY <1>4, <1>6, <2>1
    <3>2. lamports'[id] - lamports[id] = -(2 * amount)
      BY <1>4, <1>7, <2>1
    <3>3. FeeBalance(Native)' - FeeBalance(Native) = amount
      BY <1>4, <2>1
    <3> QED BY <1>4, <3>1, <3>2, <3>3
  <2>3. \A v \in Users \ {u} : wallet'[v][Native] = wallet[v][Native]
    BY <1>2, <1>6
  <2> QED BY <1>7, <2>2, <2>3, SolMovementIsBooked DEF Booked
<1>9. ASSUME NEW m \in Mints PROVE TokensBooked(m)'
  <2>1. m \in Assets /\ m # Native /\ FeeBalance(m) \in Nat
    BY <1>2, FeeBalanceIsNat DEF Assets
  <2>2. \A v \in Users : wallet'[v][m] = wallet[v][m]
    BY <1>6, <2>1
  <2>3. FeeBalance(m)' = FeeBalance(m)
    BY <1>5, <2>1
  <2>4. VaultsKept
    BY <1>3, SameVaultsAreKept
  <2> QED BY <1>3, <2>2, <2>3, <2>4, NoTokenMovement DEF Booked, VaultsKept
<1> QED BY <1>8, <1>9 DEF Booked

----------------------------------------------------------------------------
(* Votes, payouts and closing.                                             *)

LEMMA VoteIsBooked ==
    ASSUME TypeOK, TypeOK', Booked, NEW u \in Users, NEW id \in Ids,
           NEW s \in Sides, NEW n \in Amounts,
           VoteWithTokens(u, id, s, n) \/ VoteWithLamports(u, id, s, n)
    PROVE  Booked'
<1>1. n \in Nat /\ n \in Int
  BY BoundsAssumption
<1>2. CASE VoteWithTokens(u, id, s, n)
  <2>1. /\ Deployed(id) /\ TakeTokens(u, id, s, n)
        /\ fee' = fee /\ supply' = supply
    BY <1>2 DEF VoteWithTokens, VoteOpen
  <2>2. vault[id][s] \in TokenAccount /\ vault[id][s].mint = event[id].mint[s]
    BY <2>1, AccountTypes DEF TakeTokens, VaultReady
  <2>3. HasVault(id, s) /\ vault[id][s].amount + n \in Nat
    BY <1>1, <2>1, <2>2 DEF TokenAccount, TakeTokens, VaultReady
  <2> QED BY <1>1, <2>1, <2>2, <2>3, TokensMoved DEF TakeTokens
<1>3. CASE VoteWithLamports(u, id, s, n)
  <2>1. /\ TakeLamports(u, id, s, n) /\ fee' = fee /\ supply' = supply
    BY <1>3 DEF VoteWithLamports
  <2> QED BY <1>1, <2>1, LamportsMoved, SameVaultsAreKept DEF TakeLamports
<1> QED BY <1>2, <1>3

LEMMA PaymentIsBooked ==
    ASSUME TypeOK, TypeOK', Booked, NEW u \in Users, NEW id \in Ids,
           NEW s \in Sides, NEW n \in Nat, Deployed(id),
           PayFrom(u, id, s, n), fee' = fee, supply' = supply
    PROVE  Booked'
<1> DEFINE d == -n
<1>1. d \in Int /\ \A x \in Nat : x - d = x + n /\ x + d = x - n
  OBVIOUS
<1> HIDE DEF d
<1>2. CASE PayTokens(u, id, s, n)
  <2> DEFINE k == event[id].mint[s]
  <2>1. /\ k # Native /\ VaultReady(id, s) /\ vault[id][s].amount >= n
        /\ vault' = [vault EXCEPT ![id][s].amount = @ - n]
        /\ wallet' = [wallet EXCEPT ![u][k] = @ + n]
        /\ lamports' = lamports
    BY <1>2 DEF PayTokens
  <2>2. vault[id][s] \in TokenAccount /\ k \in Assets
    BY <2>1, AccountTypes DEF VaultReady, TypeOK, Deployed, PredictionEvent
  <2>3. vault[id][s].amount \in Nat /\ wallet[u][k] \in Nat
    BY <2>2 DEF TokenAccount, TypeOK
  <2>4. /\ vault[id][s].amount + d = vault[id][s].amount - n
        /\ vault[id][s].amount + d \in Nat
        /\ wallet[u][k] - d = wallet[u][k] + n
    BY <1>1, <2>1, <2>3
  <2>5. /\ vault' = [vault EXCEPT ![id][s].amount = @ + d]
        /\ wallet' = [wallet EXCEPT ![u][k] = @ - d]
    BY <2>1, <2>4
  <2>6. HasVault(id, s) /\ vault[id][s].mint = k
    BY <2>1 DEF VaultReady
  <2> QED BY <1>1, <2>1, <2>4, <2>5, <2>6, TokensMoved
<1>3. CASE PayLamports(u, id, s, n)
  <2>1. /\ lamports' = [lamports EXCEPT ![id] = @ - n]
        /\ wallet' = [wallet EXCEPT ![u][Native] = @ + n]
        /\ vault' = vault
    BY <1>3 DEF PayLamports
  <2>2. lamports[id] \in Nat /\ wallet[u][Native] \in Nat
    BY DEF TypeOK, Assets
  <2>3. /\ lamports[id] + d = lamports[id] - n
        /\ wallet[u][Native] - d = wallet[u][Native] + n
    BY <1>1, <2>2
  <2>4. /\ lamports' = [lamports EXCEPT ![id] = @ + d]
        /\ wallet' = [wallet EXCEPT ![u][Native] = @ - d]
    BY <2>1, <2>3
  <2>5. VaultsKept /\ d \in Int
    BY <1>1, <2>1, SameVaultsAreKept
  <2> QED BY <2>4, <2>5, LamportsMoved
<1> QED BY <1>2, <1>3 DEF PayFrom

LEMMA PayoutIsBooked ==
    ASSUME TypeOK, TypeOK', Booked, NEW u \in Users, NEW id \in Ids,
           NEW w \in Sides,
           ClaimRewards(u, id, w) \/ WithdrawDeposited(u, id, w)
    PROVE  Booked'
<1>1. CASE ClaimRewards(u, id, w)
  <2>1. /\ Deployed(id) /\ HasTicket(id, w, u) /\ Other(w) \in Sides
        /\ event[id].pool[w] > 0 /\ PayFrom(u, id, Other(w), Reward(u, id, w))
        /\ fee' = fee /\ supply' = supply
    BY <1>1, OtherIsSide DEF ClaimRewards, MayClaim, RewardFits
  <2>2. Reward(u, id, w) \in Nat
    <3>1. /\ ticket[id][w][u].amount \in Nat /\ event[id].pool[w] \in Nat
          /\ event[id].pool[Other(w)] \in Nat
      BY <2>1, BetIsNat, PoolsAreNat
    <3> QED BY <2>1, <3>1, RewardIsNat DEF Reward
  <2> QED BY <2>1, <2>2, PaymentIsBooked
<1>2. CASE WithdrawDeposited(u, id, w)
  <2>1. /\ Deployed(id) /\ HasTicket(id, w, u)
        /\ PayFrom(u, id, w, ticket[id][w][u].amount)
        /\ fee' = fee /\ supply' = supply
    BY <1>2 DEF WithdrawDeposited, MayWithdraw
  <2>2. ticket[id][w][u].amount \in Nat
    BY <2>1, BetIsNat
  <2> QED BY <2>1, <2>2, PaymentIsBooked
<1> QED BY <1>1, <1>2

(* Only empty pools are closed, and the lamports go to the creator. *)
LEMMA ClosingIsBooked ==
    ASSUME TypeOK, TypeOK', Booked, NEW u \in Users, NEW id \in Ids,
           NEW pools \in SUBSET Sides, CloseEvent(u, id, pools)
    PROVE  Booked'
<1> DEFINE d == -lamports[id]
<1>1. /\ lamports[id] \in Nat /\ wallet[u][Native] \in Nat /\ d \in Int
      /\ lamports[id] + d = 0
      /\ wallet[u][Native] - d = wallet[u][Native] + lamports[id]
  BY DEF TypeOK, Assets
<1> HIDE DEF d
<1>2. /\ lamports' = [lamports EXCEPT ![id] = @ + d]
      /\ wallet' = [wallet EXCEPT ![u][Native] = @ - d]
      /\ fee' = fee /\ supply' = supply
  BY <1>1 DEF CloseEvent
<1>3. VaultsKept
  <2> SUFFICES ASSUME NEW m \in Mints, NEW i \in Ids, NEW z \in Sides
               PROVE  InVault(i, z, m)' = InVault(i, z, m)
    BY DEF VaultsKept
  <2>1. /\ vault'[id] = [s \in Sides |-> IF s \in pools THEN None
                                                        ELSE vault[id][s]]
        /\ i # id => vault'[i] = vault[i]
    BY DEF CloseEvent, TypeOK
  <2>2. z \in pools => vault[id][z].amount = 0
    BY DEF CloseEvent, CanClosePool
  <2> QED BY <2>1, <2>2 DEF InVault
<1> QED BY <1>1, <1>2, <1>3, LamportsMoved

----------------------------------------------------------------------------
LEMMA BookedInit == Init => Booked
<1> SUFFICES ASSUME Init PROVE Booked
  OBVIOUS
<1>1. TypeOK
  BY TypeInit
<1>2. SolBooked
  <2>1. InWallets(Native) = InitialSol
    BY DEF Init, InWallets, InitialSol
  <2>2. InEvents = 0
    BY SumOfZeros, SetsAssumption DEF Init, InEvents
  <2>3. FeeBalance(Native) = 0
    BY DEF Init, FeeBalance, Assets
  <2>4. InWallets(Native) \in Nat
    BY <1>1, TotalAmountsAreNat DEF Assets
  <2> QED BY <2>1, <2>2, <2>3, <2>4 DEF SolBooked
<1>3. ASSUME NEW m \in Mints PROVE TokensBooked(m)
  <2>1. InWallets(m) = supply[m]
    BY DEF Init, InWallets, Over
  <2>2. InVaults(m) = 0
    <3> DEFINE f == [p \in Places |-> InVault(p[1], p[2], m)]
    <3>1. \A p \in Places : f[p] = 0
      BY DEF Init, InVault, Places
    <3>2. InVaults(m) = SumFunctionOnSet(f, Places)
      BY InVaultsIsTheSum
    <3> HIDE DEF f
    <3> QED BY <3>1, <3>2, PlacesAreFinite, SumOfZeros
  <2>3. FeeBalance(m) = 0
    BY DEF Init, FeeBalance, Assets
  <2>4. InWallets(m) \in Nat
    BY <1>1, TotalAmountsAreNat DEF Assets
  <2> QED BY <2>1, <2>2, <2>3, <2>4 DEF TokensBooked
<1> QED BY <1>2, <1>3 DEF Booked

LEMMA BookedStep == TypeOK /\ Booked /\ [Next]_vars => Booked'
<1> SUFFICES ASSUME TypeOK, Booked, [Next]_vars PROVE Booked'
  OBVIOUS
<1>1. TypeOK /\ TypeOK'
  BY TypeStep
<1>2. CASE Tick \/ UNCHANGED vars
  <2>1. /\ wallet' = wallet /\ lamports' = lamports /\ supply' = supply
        /\ vault' = vault /\ fee' = fee
    BY <1>2 DEF Tick, vars
  <2> QED BY <1>1, <2>1, NothingMoves, SameVaultsAreKept, SameFeesAreKept
<1>3. CASE SetUp
  <2>1. CASE Initialize \/ \E m \in Mints : CreateSystemFeeTokenAccount(m)
    <3>1. PICK b \in Assets : /\ fee[b] = None
                              /\ fee' = [fee EXCEPT ![b] = 0]
                              /\ wallet' = wallet /\ lamports' = lamports
                              /\ supply' = supply /\ vault' = vault
      BY <2>1 DEF Initialize, CreateSystemFeeTokenAccount, Assets
    <3>2. FeesKept
      <4>1. fee'[b] = 0 /\ \A a \in Assets : a # b => fee'[a] = fee[a]
        BY <1>1, <3>1 DEF TypeOK
      <4> QED BY <3>1, <4>1 DEF FeesKept, FeeBalance
    <3> QED BY <1>1, <3>1, <3>2, NothingMoves, SameVaultsAreKept
  <2>2. ASSUME NEW u \in Users, NEW id \in Ids, NEW start \in Dates,
               NEW end \in Dates, NEW mint \in [Sides -> Assets],
               NEW burning \in BOOLEAN,
               DeployEvent(u, id, start, end, mint, burning)
        PROVE  Booked'
    <3>1. /\ wallet' = wallet /\ lamports' = lamports /\ supply' = supply
          /\ vault' = vault /\ fee' = fee
      BY <2>2 DEF DeployEvent
    <3> QED BY <1>1, <3>1, NothingMoves, SameVaultsAreKept, SameFeesAreKept
  <2>3. ASSUME NEW id \in Ids, NEW s \in Sides, NEW m \in Mints,
               CreateEventTokenAccount(id, s, m)
        PROVE  Booked'
    <3>1. /\ wallet' = wallet /\ lamports' = lamports /\ supply' = supply
          /\ fee' = fee /\ vault[id][s] = None
          /\ vault' = [vault EXCEPT ![id][s] = [mint |-> m, amount |-> 0]]
      BY <2>3 DEF CreateEventTokenAccount
    <3>2. /\ vault'[id][s] = [mint |-> m, amount |-> 0]
          /\ \A i \in Ids, z \in Sides : (i # id \/ z # s) =>
                 vault'[i][z] = vault[i][z]
      BY <1>1, <3>1 DEF TypeOK
    <3>3. VaultsKept
      BY <3>1, <3>2 DEF VaultsKept, InVault
    <3> QED BY <1>1, <3>1, <3>3, NothingMoves, SameFeesAreKept
  <2> QED BY <1>3, <2>1, <2>2, <2>3 DEF SetUp
<1>4. CASE Vote
  BY <1>1, <1>4, VoteIsBooked DEF Vote
<1>5. CASE Settle
  <2>1. ASSUME NEW u \in Users, NEW id \in Ids, NEW r \in Sides,
               FinishEvent(u, id, r)
        PROVE  Booked'
    <3>1. \/ TakeFeesInTokens(u, id, Other(r))
          \/ TakeFeesInLamports(u, id, Other(r))
      BY <2>1 DEF FinishEvent
    <3> QED BY <1>1, <2>1, <3>1, FeesInTokensAreBooked, FeesInLamportsAreBooked
  <2> QED BY <1>1, <1>5, <2>1, PayoutIsBooked DEF Settle
<1>6. CASE Close
  BY <1>1, <1>6, ClosingIsBooked DEF Close
<1> QED BY <1>2, <1>3, <1>4, <1>5, <1>6 DEF Next

----------------------------------------------------------------------------
(* Transfers from outside the program.                                     *)

LEMMA TypeSendTokens ==
    ASSUME TypeOK, NEW u \in Users, NEW id \in Ids, NEW s \in Sides,
           NEW n \in Nat, SendTokens(u, id, s, n)
    PROVE  TypeOK'
<1> DEFINE m == vault[id][s].mint
<1>1. vault[id][s] \in TokenAccount
  BY AccountTypes DEF SendTokens
<1>2. m \in Assets /\ wallet[u][m] - n \in Nat
  BY <1>1 DEF SendTokens, TokenAccount, Assets, TypeOK
<1>3. wallet' \in [Users -> [Assets -> Nat]]
  BY <1>2 DEF SendTokens, TypeOK
<1>4. vault' \in [Ids -> [Sides -> TokenAccount \cup {None}]]
  <2>1. [vault[id][s] EXCEPT !.amount = @ + n] \in TokenAccount
    BY <1>1 DEF TokenAccount
  <2> QED BY <2>1 DEF SendTokens, TypeOK
<1> QED BY <1>3, <1>4 DEF SendTokens, TypeOK

LEMMA TypeSendLamports ==
    ASSUME TypeOK, NEW u \in Users, NEW id \in Ids, NEW n \in Nat,
           SendLamports(u, id, n)
    PROVE  TypeOK'
<1>1. wallet' \in [Users -> [Assets -> Nat]] /\ lamports' \in [Ids -> Nat]
  BY NativeIsAsset DEF SendLamports, TypeOK
<1> QED BY <1>1 DEF SendLamports, TypeOK

LEMMA TypeAmongTransfers == TypeOK /\ [NextAmongTransfers]_vars => TypeOK'
<1>1. Amounts \subseteq Nat
  BY BoundsAssumption
<1> QED BY <1>1, TypeStep, TypeSendTokens, TypeSendLamports
        DEF NextAmongTransfers, Transfer

LEMMA TransferIsBooked ==
    ASSUME TypeOK, TypeOK', Booked, Transfer
    PROVE  Booked'
<1>1. Amounts \subseteq Nat
  BY BoundsAssumption
<1>2. ASSUME NEW u \in Users, NEW id \in Ids, NEW s \in Sides, NEW n \in Nat,
             SendTokens(u, id, s, n)
      PROVE  Booked'
  <2>1. vault[id][s] \in TokenAccount /\ HasVault(id, s)
    BY <1>2, AccountTypes DEF SendTokens
  <2>2. vault[id][s].amount + n \in Nat /\ n \in Int
    BY <2>1 DEF TokenAccount
  <2> QED BY <1>2, <2>1, <2>2, TokensMoved DEF SendTokens
<1>3. ASSUME NEW u \in Users, NEW id \in Ids, NEW n \in Nat,
             SendLamports(u, id, n)
      PROVE  Booked'
  <2>1. VaultsKept /\ n \in Int
    BY <1>3, SameVaultsAreKept DEF SendLamports
  <2> QED BY <1>3, <2>1, LamportsMoved DEF SendLamports
<1> QED BY <1>1, <1>2, <1>3 DEF Transfer

(***************************************************************************)
(* Whatever instructions and transfers are sent, in whatever order, every  *)
(* token of a mint that has not been burned and every lamport there was at *)
(* first is in a wallet, in an event or with the system.                   *)
(***************************************************************************)
THEOREM ConservationAmongTransfers == SpecAmongTransfers => []Conservation
<1>1. TypeOK /\ Booked /\ [NextAmongTransfers]_vars => TypeOK' /\ Booked'
  BY TypeAmongTransfers, BookedStep, TransferIsBooked DEF NextAmongTransfers
<1>2. Init => TypeOK /\ Booked
  BY TypeInit, BookedInit
<1>3. Booked => Conservation
  BY DEF Booked, SolBooked, TokensBooked, InWallets, InEvents, InitialSol,
         Conservation
<1> QED BY <1>1, <1>2, <1>3, PTL DEF SpecAmongTransfers

(* In particular if there are no transfers from outside the program. *)
THEOREM ConservationAlways == Spec => []Conservation
<1>1. [Next]_vars => [NextAmongTransfers]_vars
  BY DEF NextAmongTransfers
<1> QED BY <1>1, ConservationAmongTransfers, PTL DEF Spec, SpecAmongTransfers

----------------------------------------------------------------------------
(***************************************************************************)
(* What the program records of an event, whatever the event's accounts     *)
(* hold: its record, its tickets, and how they agree.                      *)
(***************************************************************************)
RecordsInv(id) ==
    /\ DatesInOrder(id)
    /\ MarkedOnlyIfWon(id)
    /\ (Deployed(id) => ~IsStarted(id)) =>
          \A s \in Sides, u \in Users : ~HasTicket(id, s, u)
    /\ Deployed(id) => \A s \in Sides : PoolIsTicketSum(id, s)

LEMMA RecordsFrame ==
    ASSUME TypeOK, TypeOK', NEW id \in Ids, RecordsInv(id), clock' >= clock,
           event'[id] = event[id], ticket'[id] = ticket[id]
    PROVE  RecordsInv(id)'
<1>1. /\ Deployed(id)' <=> Deployed(id)
      /\ IsResultSet(id)' <=> IsResultSet(id)
      /\ \A s \in Sides : /\ HasWon(id, s)' <=> HasWon(id, s)
                          /\ HasLost(id, s)' <=> HasLost(id, s)
      /\ \A s \in Sides, u \in Users :
            HasTicket(id, s, u)' <=> HasTicket(id, s, u)
  BY DEF Deployed, IsResultSet, HasWon, HasLost, HasTicket
<1>2. /\ Deployed(id) /\ IsStarted(id) => IsStarted(id)'
      /\ Deployed(id) /\ IsFinished(id) => IsFinished(id)'
  <2>1. ASSUME Deployed(id)
        PROVE  event[id].start_date \in Nat /\ event[id].end_date \in Nat
    BY <2>1, BoundsAssumption DEF TypeOK, PredictionEvent, Deployed
  <2> QED BY <2>1 DEF TypeOK, IsStarted, IsFinished
<1>3. DatesInOrder(id)' /\ MarkedOnlyIfWon(id)'
  BY <1>1, <1>2 DEF RecordsInv, DatesInOrder, MarkedOnlyIfWon
<1>4. ASSUME Deployed(id), NEW s \in Sides PROVE PoolIsTicketSum(id, s)'
  <2>1. Staked(id, s)' = Staked(id, s)
    BY TotalsFrame
  <2> QED BY <1>1, <1>4, <2>1 DEF RecordsInv, PoolIsTicketSum
<1> QED BY <1>1, <1>2, <1>3, <1>4 DEF RecordsInv

LEMMA RecordsDeploy ==
    ASSUME TypeOK, TypeOK', NEW u \in Users, NEW id \in Ids,
           NEW start \in Dates, NEW end \in Dates,
           NEW mint \in [Sides -> Assets], NEW burning \in BOOLEAN,
           RecordsInv(id), DeployEvent(u, id, start, end, mint, burning)
    PROVE  RecordsInv(id)'
<1>1. /\ ticket' = ticket /\ start < end /\ ~Deployed(id)
      /\ event'[id] = NewEvent(u, start, end, mint, burning)
  BY DEF DeployEvent, TypeOK
<1>2. \A s \in Sides, v \in Users : ~HasTicket(id, s, v)'
  BY <1>1 DEF RecordsInv, HasTicket
<1>3. /\ ~IsResultSet(id)' /\ \A s \in Sides : ~HasLost(id, s)'
      /\ \A s \in Sides : event'[id].pool[s] = 0
      /\ event'[id].start_date = start /\ event'[id].end_date = end
  BY <1>1, OtherIsSide, NotNone DEF IsResultSet, HasLost, NewEvent
<1>4. ASSUME NEW s \in Sides PROVE Staked(id, s)' = 0
  <2> DEFINE g == [v \in Users |-> Stake(id, s, v)']
  <2>1. \A v \in Users : g[v] = 0
    BY <1>2 DEF Stake
  <2>2. Staked(id, s)' = SumFunctionOnSet(g, Users)
    BY DEF Staked, Over
  <2> HIDE DEF g
  <2> QED BY <2>1, <2>2, SumOfZeros, SetsAssumption
<1> QED BY <1>1, <1>2, <1>3, <1>4
        DEF RecordsInv, DatesInOrder, MarkedOnlyIfWon, PoolIsTicketSum

LEMMA RecordsVote ==
    ASSUME TypeOK, TypeOK', NEW u \in Users, NEW id \in Ids, NEW s \in Sides,
           NEW n \in Nat, RecordsInv(id), VoteOpen(id),
           RecordVote(u, id, s, n), clock' = clock
    PROVE  RecordsInv(id)'
<1> DEFINE t == Other(s)
<1>1. t \in Sides /\ t # s /\ \A z \in Sides : z = s \/ z = t
  BY DEF Sides, Other
<1>2. /\ Deployed(id) /\ IsStarted(id) /\ ~IsResultSet(id)
      /\ DatesInOrder(id) /\ MarkedOnlyIfWon(id)
      /\ \A z \in Sides : PoolIsTicketSum(id, z)
  BY DEF VoteOpen, RecordsInv
<1>3. /\ Deployed(id)'
      /\ event'[id].start_date = event[id].start_date
      /\ event'[id].end_date = event[id].end_date
      /\ event'[id].result = event[id].result
      /\ event'[id].pool[s] = event[id].pool[s] + n
      /\ event'[id].pool[t] = event[id].pool[t]
  BY <1>2, VoteRecorded
<1>4. /\ Staked(id, s)' = Staked(id, s) + n
      /\ Staked(id, t)' = Staked(id, t)
      /\ ~IsResultSet(id)'
      /\ \A z \in Sides : /\ ~HasLost(id, z) /\ ~HasWon(id, z)
                          /\ ~HasLost(id, z)' /\ ~HasWon(id, z)'
  BY VoteAdds
<1>5. DatesInOrder(id)' /\ IsStarted(id)'
  BY <1>2, <1>3, <1>4 DEF DatesInOrder, IsStarted
<1>6. MarkedOnlyIfWon(id)'
  BY <1>2, <1>4, VoteKeepsMarks DEF MarkedOnlyIfWon
<1>7. ASSUME NEW z \in Sides PROVE PoolIsTicketSum(id, z)'
  BY <1>1, <1>2, <1>3, <1>4 DEF PoolIsTicketSum
<1> QED BY <1>3, <1>5, <1>6, <1>7 DEF RecordsInv

(* The result takes the fees off the record of the losing side. *)
LEMMA RecordsFinish ==
    ASSUME TypeOK, TypeOK', NEW u \in Users, NEW id \in Ids, NEW r \in Sides,
           RecordsInv(id), FinishEvent(u, id, r)
    PROVE  RecordsInv(id)'
<1> DEFINE l == Other(r)
<1>1. l \in Sides /\ l # r /\ Other(l) = r /\ \A z \in Sides : z = l \/ z = r
  BY DEF Sides, Other
<1>2. /\ Deployed(id) /\ IsFinished(id) /\ ~IsResultSet(id)
      /\ clock' = clock /\ ticket' = ticket
      /\ DatesInOrder(id) /\ MarkedOnlyIfWon(id)
      /\ \A z \in Sides : PoolIsTicketSum(id, z)
  BY DEF FinishEvent, MayFinish, RecordsInv
<1>3. /\ Deployed(id)'
      /\ event'[id].start_date = event[id].start_date
      /\ event'[id].end_date = event[id].end_date
      /\ event'[id].result = r
      /\ event'[id].pool[r] = event[id].pool[r]
      /\ event'[id].pool[l]
           = event[id].pool[l] - 2 * FeeOf(event[id].pool[l])
  BY ResultRecorded
<1>4. /\ \A z \in Sides : ~HasLost(id, z)
      /\ HasLost(id, l)' /\ ~HasLost(id, r)'
  BY <1>1, <1>2, <1>3, OtherIsSide, NotNone DEF HasLost, IsResultSet
<1>5. \A z \in Sides : Staked(id, z)' = Staked(id, z)
  BY <1>2 DEF Staked, Stake, HasTicket
<1>6. IsStarted(id) /\ IsStarted(id)' /\ DatesInOrder(id)'
  <2>1. IsStarted(id)
    BY <1>2, SettledIsStarted
  <2> QED BY <1>2, <1>3, <2>1 DEF DatesInOrder, IsFinished, IsStarted
<1>7. MarkedOnlyIfWon(id)'
  <2>1. \A z \in Sides, v \in Users : HasTicket(id, z, v) =>
          ~ticket[id][z][v].claimed /\ ~ticket[id][z][v].withdrawn
    BY <1>2, NothingPaidBeforeTheResult
  <2> QED BY <1>2, <2>1 DEF MarkedOnlyIfWon, HasTicket
<1>8. ASSUME NEW z \in Sides PROVE PoolIsTicketSum(id, z)'
  BY <1>1, <1>2, <1>3, <1>4, <1>5 DEF PoolIsTicketSum
<1> QED BY <1>3, <1>6, <1>7, <1>8 DEF RecordsInv

(* Paying a winner marks the winner's ticket. *)
LEMMA RecordsPay ==
    ASSUME TypeOK, TypeOK', NEW u \in Users, NEW id \in Ids, NEW w \in Sides,
           RecordsInv(id),
           ClaimRewards(u, id, w) \/ WithdrawDeposited(u, id, w)
    PROVE  RecordsInv(id)'
<1>1. /\ Deployed(id) /\ event[id].result = w /\ HasTicket(id, w, u)
      /\ event' = event /\ clock' = clock
      /\ ~ticket[id][w][u].claimed \/ ~ticket[id][w][u].withdrawn
      /\ \/ /\ ticket' = [ticket EXCEPT ![id][w][u].claimed = TRUE]
            /\ ~event[id].burning
         \/ ticket' = [ticket EXCEPT ![id][w][u].withdrawn = TRUE]
  BY DEF ClaimRewards, MayClaim, WithdrawDeposited, MayWithdraw
<1>2. /\ HasTicket(id, w, u)'
      /\ \A z \in Sides, v \in Users :
            (z # w \/ v # u) => ticket'[id][z][v] = ticket[id][z][v]
      /\ \A z \in Sides : Staked(id, z)' = Staked(id, z)
  BY <1>1, TicketMarked
<1>3. /\ Deployed(id)' /\ HasWon(id, w)' /\ IsResultSet(id)
      /\ DatesInOrder(id) /\ IsFinished(id) /\ IsStarted(id)
  <2>1. /\ Deployed(id)' /\ HasWon(id, w)' /\ IsResultSet(id)
        /\ DatesInOrder(id)
    BY <1>1, NotNone DEF Deployed, HasWon, IsResultSet, RecordsInv
  <2>2. IsFinished(id)
    BY <1>1, <2>1 DEF DatesInOrder
  <2> QED BY <1>1, <2>1, <2>2, SettledIsStarted
<1>4. DatesInOrder(id)' /\ IsStarted(id)'
  BY <1>1, <1>3 DEF DatesInOrder, Deployed, IsStarted, IsFinished, IsResultSet
<1>5. MarkedOnlyIfWon(id)'
  <2>1. ticket'[id][w][u].claimed => ticket[id][w][u].claimed \/ ~event[id].burning
    <3>1. ticket[id][w][u] \in Ticket
      BY <1>1, AccountTypes
    <3>2. CASE ticket' = [ticket EXCEPT ![id][w][u].withdrawn = TRUE]
      <4>1. ticket'[id][w][u] = [ticket[id][w][u] EXCEPT !.withdrawn = TRUE]
        BY <3>2 DEF TypeOK
      <4>2. ticket'[id][w][u].claimed = ticket[id][w][u].claimed
        BY <3>1, <4>1 DEF Ticket
      <4> QED BY <4>2
    <3> QED BY <1>1, <3>2
  <2>2. MarkedOnlyIfWon(id)
    BY DEF RecordsInv
  <2>3. ticket'[id][w][u].claimed => ~event'[id].burning
    BY <1>1, <2>1, <2>2 DEF MarkedOnlyIfWon
  <2>4. ASSUME NEW z \in Sides, NEW v \in Users, z # w \/ v # u,
               HasTicket(id, z, v)'
        PROVE  /\ HasTicket(id, z, v)
               /\ ticket'[id][z][v] = ticket[id][z][v]
               /\ HasWon(id, z)' <=> HasWon(id, z)
    BY <1>1, <1>2, <2>4 DEF HasTicket, HasWon
  <2> QED BY <1>1, <1>3, <2>2, <2>3, <2>4 DEF MarkedOnlyIfWon
<1>6. \A z \in Sides : PoolIsTicketSum(id, z)'
  BY <1>1, <1>2 DEF RecordsInv, PoolIsTicketSum, HasLost
<1> QED BY <1>3, <1>4, <1>5, <1>6 DEF RecordsInv

LEMMA RecordsClose ==
    ASSUME TypeOK, NEW u \in Users, NEW id \in Ids, NEW pools \in SUBSET Sides,
           RecordsInv(id), CloseEvent(u, id, pools)
    PROVE  RecordsInv(id)'
<1>1. event'[id] = None /\ ticket' = ticket
      /\ \A s \in Sides, v \in Users : ~HasTicket(id, s, v)
  BY DEF CloseEvent, MayClose, RecordsInv, TypeOK
<1> QED BY <1>1 DEF RecordsInv, DatesInOrder, MarkedOnlyIfWon, Deployed,
                    HasTicket

----------------------------------------------------------------------------
(***************************************************************************)
(* What an event holds.  What backs a side never falls below what is due to*)
(* its players, and a vote, a fee, a burn or a payout changes both by the  *)
(* same amount.                                                            *)
(***************************************************************************)
MoneyInv(id) ==
    /\ lamports[id] >= solHeld[id]["Left"] + solHeld[id]["Right"]
    /\ (Deployed(id) => ~IsStarted(id)) => \A s \in Sides : solHeld[id][s] = 0
    /\ Deployed(id) => \A s \in Sides :
          /\ event[id].mint[s] # Native => solHeld[id][s] >= 0
          /\ Backing(id, s) >= StillDue(id, s)

LEMMA MoneyIsInt ==
    ASSUME TypeOK, NEW id \in Ids, NEW s \in Sides
    PROVE  /\ solHeld[id][s] \in Int /\ VaultAmount(id, s) \in Nat
           /\ Held(id, s) \in Int /\ Backing(id, s) \in Int
           /\ lamports[id] \in Nat
           /\ Held(id, s) >= Backing(id, s)
           /\ Deployed(id) => StillDue(id, s) \in Int
<1>1. /\ solHeld[id][s] \in Int /\ VaultAmount(id, s) \in Nat
      /\ lamports[id] \in Nat
  BY VaultAmountIsNat DEF TypeOK
<1>2. /\ Held(id, s) \in Int /\ Backing(id, s) \in Int
      /\ Held(id, s) >= Backing(id, s)
  BY <1>1 DEF Held, Backing
<1>3. ASSUME Deployed(id) PROVE StillDue(id, s) \in Int
  <2>1. /\ event[id].pool[s] \in Nat /\ Staked(id, s) \in Nat
        /\ StillToWithdraw(id, s) \in Nat /\ ClaimedBy(id, Other(s)) \in Nat
    BY <1>3, PoolsAreNat, TotalsAreNat, OtherIsSide
  <2> QED BY <2>1 DEF StillDue
<1> QED BY <1>1, <1>2, <1>3

MoneyInInt ==
    \A id \in Ids, s \in Sides :
        /\ solHeld[id][s] \in Int /\ VaultAmount(id, s) \in Nat
        /\ Held(id, s) \in Int /\ Backing(id, s) \in Int

LEMMA MoneyIsIntNext == TypeOK' => MoneyInInt'
<1>1. TypeOK => MoneyInInt
  BY MoneyIsInt DEF MoneyInInt
<1> QED BY <1>1, PTL

(* StillDue is a matter of the records alone. *)
LEMMA DueFrame ==
    ASSUME TypeOK, NEW id \in Ids, Deployed(id), NEW s \in Sides,
           event'[id] = event[id], ticket'[id] = ticket[id]
    PROVE  StillDue(id, s)' = StillDue(id, s)
<1>1. /\ Staked(id, s)' = Staked(id, s)
      /\ StillToWithdraw(id, s)' = StillToWithdraw(id, s)
      /\ ClaimedBy(id, Other(s))' = ClaimedBy(id, Other(s))
  BY TotalsFrame, OtherIsSide
<1> QED BY <1>1 DEF StillDue, HasWon, HasLost

(* If nobody's stake is recorded, nothing is due. *)
LEMMA NothingDueWithoutTickets ==
    ASSUME TypeOK, NEW id \in Ids, NEW s \in Sides,
           \A v \in Users : ~HasTicket(id, s, v)
    PROVE  Staked(id, s) = 0
<1> DEFINE f == [v \in Users |-> Stake(id, s, v)]
<1>1. \A v \in Users : f[v] = 0
  BY DEF Stake
<1>2. Staked(id, s) = SumFunctionOnSet(f, Users)
  BY DEF Staked, Over
<1> HIDE DEF f
<1> QED BY <1>1, <1>2, SumOfZeros, SetsAssumption

(***************************************************************************)
(* A step that leaves the records alone and takes nothing away: time       *)
(* passes, a pool is created, a gift arrives, another event is changed.    *)
(***************************************************************************)
LEMMA MoneyFrame ==
    ASSUME TypeOK, TypeOK', NEW id \in Ids, MoneyInv(id), clock' >= clock,
           event'[id] = event[id], ticket'[id] = ticket[id],
           solHeld'[id] = solHeld[id], lamports'[id] >= lamports[id],
           \A s \in Sides : Backing(id, s)' >= Backing(id, s)
    PROVE  MoneyInv(id)'
<1>1. Deployed(id)' <=> Deployed(id)
  BY DEF Deployed
<1>2. Deployed(id) /\ IsStarted(id) => IsStarted(id)'
  <2>1. ASSUME Deployed(id) PROVE event[id].start_date \in Nat
    BY <2>1, BoundsAssumption DEF TypeOK, PredictionEvent, Deployed
  <2> QED BY <2>1 DEF TypeOK, IsStarted
<1>3. lamports'[id] >= solHeld'[id]["Left"] + solHeld'[id]["Right"]
  <2>1. /\ solHeld[id]["Left"] \in Int /\ solHeld[id]["Right"] \in Int
        /\ lamports[id] \in Int /\ lamports'[id] \in Int
    BY DEF TypeOK, Sides
  <2> QED BY <2>1 DEF MoneyInv
<1>4. ASSUME Deployed(id), NEW s \in Sides
      PROVE  Backing(id, s)' >= StillDue(id, s)'
  <2>1. StillDue(id, s)' = StillDue(id, s) /\ StillDue(id, s) \in Int
    BY <1>4, DueFrame, MoneyIsInt
  <2>2. Backing(id, s) \in Int /\ Backing(id, s)' \in Int
    BY MoneyIsInt, MoneyIsIntNext DEF MoneyInInt
  <2> QED BY <1>4, <2>1, <2>2 DEF MoneyInv
<1> QED BY <1>1, <1>2, <1>3, <1>4 DEF MoneyInv

LEMMA SolHasNoPool ==
    ASSUME TypeOK, NEW id \in Ids, NEW s \in Sides, event[id].mint[s] = Native
    PROVE  ~VaultReady(id, s)
BY SetsAssumption DEF VaultReady, HasVault, TypeOK, TokenAccount

(* The lamports of the event account beyond those of its two sides. *)
SolLeft(id) == lamports[id] - (solHeld[id]["Left"] + solHeld[id]["Right"])

(* A vote of n backs its side with n more, in tokens or in lamports. *)
LEMMA VoteBacks ==
    ASSUME TypeOK, TypeOK', NEW u \in Users, NEW id \in Ids, NEW s \in Sides,
           NEW n \in Nat, Deployed(id), event'[id].mint = event[id].mint,
           TakeTokens(u, id, s, n) \/ TakeLamports(u, id, s, n)
    PROVE  /\ Backing(id, s)' = Backing(id, s) + n
           /\ Backing(id, Other(s))' = Backing(id, Other(s))
           /\ \A z \in Sides : solHeld'[id][z] >= solHeld[id][z]
           /\ SolLeft(id)' = SolLeft(id)
<1> DEFINE t == Other(s)
<1>1. t \in Sides /\ t # s /\ \A z \in Sides : z = s \/ z = t
  BY DEF Sides, Other
<1>2. \A z \in Sides : /\ solHeld[id][z] \in Int /\ VaultAmount(id, z) \in Nat
                       /\ lamports[id] \in Nat
  BY MoneyIsInt
<1>3. CASE TakeTokens(u, id, s, n)
  <2>1. vault[id][s] \in TokenAccount /\ VaultReady(id, s)
    BY <1>3, AccountTypes DEF TakeTokens, VaultReady
  <2>2. vault'[id][s] = [vault[id][s] EXCEPT !.amount = @ + n]
    BY <1>3 DEF TakeTokens, TypeOK
  <2>3. vault'[id][s] \in TokenAccount
    BY <2>1, <2>2 DEF TokenAccount
  <2>4. VaultReady(id, s)' /\ VaultAmount(id, s)' = VaultAmount(id, s) + n
    BY <2>1, <2>2, <2>3, NotNone
       DEF VaultReady, HasVault, VaultAmount, TokenAccount
  <2>5. vault'[id][t] = vault[id][t]
    BY <1>1, <1>3 DEF TakeTokens, TypeOK
  <2>6. /\ VaultAmount(id, t)' = VaultAmount(id, t)
        /\ VaultReady(id, t)' <=> VaultReady(id, t)
    BY <2>5 DEF VaultAmount, VaultReady, HasVault
  <2>7. solHeld' = solHeld /\ lamports' = lamports
    BY <1>3 DEF TakeTokens
  <2>8. Backing(id, s)' = Backing(id, s) + n
    BY <1>2, <2>1, <2>4, <2>7 DEF Backing, Held
  <2>9. Backing(id, t)' = Backing(id, t)
    BY <2>6, <2>7 DEF Backing, Held
  <2> QED BY <1>2, <2>7, <2>8, <2>9 DEF SolLeft
<1>4. CASE TakeLamports(u, id, s, n)
  <2>1. vault' = vault
    BY <1>4 DEF TakeLamports
  <2>2. /\ solHeld'[id][s] = solHeld[id][s] + n
        /\ solHeld'[id][t] = solHeld[id][t]
        /\ lamports'[id] = lamports[id] + n
    BY <1>1, <1>4 DEF TakeLamports, TypeOK
  <2>3. \A z \in Sides : /\ VaultAmount(id, z)' = VaultAmount(id, z)
                         /\ VaultReady(id, z)' <=> VaultReady(id, z)
    BY <2>1 DEF VaultAmount, VaultReady, HasVault
  <2>4. Backing(id, s)' = Backing(id, s) + n
    BY <1>2, <2>2, <2>3 DEF Backing, Held
  <2>5. Backing(id, t)' = Backing(id, t)
    BY <1>1, <2>2, <2>3 DEF Backing, Held
  <2>6. \A z \in Sides : solHeld'[id][z] >= solHeld[id][z]
    BY <1>1, <1>2, <2>2
  <2>7. SolLeft(id)' = SolLeft(id)
    BY <1>2, <2>2 DEF SolLeft, Sides, Other
  <2> QED BY <2>4, <2>5, <2>6, <2>7
<1> QED BY <1>3, <1>4

(* A payment of n out of a side takes n from what backs that side. *)
LEMMA PaymentTakesBacking ==
    ASSUME TypeOK, NEW u \in Users, NEW id \in Ids, NEW s \in Sides,
           NEW n \in Nat, Deployed(id), event' = event, PayFrom(u, id, s, n)
    PROVE  /\ Backing(id, s)' = Backing(id, s) - n
           /\ Backing(id, Other(s))' = Backing(id, Other(s))
           /\ \A z \in Sides : event[id].mint[z] # Native =>
                 solHeld'[id][z] = solHeld[id][z]
           /\ SolLeft(id)' = SolLeft(id)
<1> DEFINE t == Other(s)
<1>1. t \in Sides /\ t # s /\ \A z \in Sides : z = s \/ z = t
  BY DEF Sides, Other
<1>2. \A z \in Sides : /\ solHeld[id][z] \in Int /\ VaultAmount(id, z) \in Nat
                       /\ lamports[id] \in Nat
  BY MoneyIsInt
<1>3. CASE PayTokens(u, id, s, n)
  <2>1. vault[id][s] \in TokenAccount /\ VaultReady(id, s)
    BY <1>3, AccountTypes DEF PayTokens, VaultReady
  <2>2. vault'[id][s] = [vault[id][s] EXCEPT !.amount = @ - n]
    BY <1>3 DEF PayTokens, TypeOK
  <2>3. vault'[id][s] \in TokenAccount
    BY <1>3, <2>1, <2>2 DEF TokenAccount, PayTokens
  <2>4. VaultReady(id, s)' /\ VaultAmount(id, s)' = VaultAmount(id, s) - n
    BY <2>1, <2>2, <2>3, NotNone
       DEF VaultReady, HasVault, VaultAmount, TokenAccount
  <2>5. vault'[id][t] = vault[id][t]
    BY <1>1, <1>3 DEF PayTokens, TypeOK
  <2>6. /\ VaultAmount(id, t)' = VaultAmount(id, t)
        /\ VaultReady(id, t)' <=> VaultReady(id, t)
    BY <2>5 DEF VaultAmount, VaultReady, HasVault
  <2>7. solHeld' = solHeld /\ lamports' = lamports
    BY <1>3 DEF PayTokens
  <2>8. Backing(id, s)' = Backing(id, s) - n
    BY <1>2, <2>1, <2>4, <2>7 DEF Backing, Held
  <2>9. Backing(id, t)' = Backing(id, t)
    BY <2>6, <2>7 DEF Backing, Held
  <2> QED BY <2>7, <2>8, <2>9 DEF SolLeft
<1>4. CASE PayLamports(u, id, s, n)
  <2>1. vault' = vault /\ event[id].mint[s] = Native
    BY <1>4 DEF PayLamports
  <2>2. /\ solHeld'[id][s] = solHeld[id][s] - n
        /\ solHeld'[id][t] = solHeld[id][t]
        /\ lamports'[id] = lamports[id] - n
    BY <1>1, <1>4 DEF PayLamports, TypeOK
  <2>3. \A z \in Sides : /\ VaultAmount(id, z)' = VaultAmount(id, z)
                         /\ VaultReady(id, z)' <=> VaultReady(id, z)
    BY <2>1 DEF VaultAmount, VaultReady, HasVault
  <2>4. Backing(id, s)' = Backing(id, s) - n
    BY <2>1, <2>2, <2>3, SolHasNoPool DEF Backing
  <2>5. Backing(id, t)' = Backing(id, t)
    BY <1>1, <2>2, <2>3 DEF Backing, Held
  <2>6. SolLeft(id)' = SolLeft(id)
    BY <1>2, <2>2 DEF SolLeft, Sides, Other
  <2> QED BY <1>1, <2>1, <2>2, <2>4, <2>5, <2>6
<1> QED BY <1>3, <1>4 DEF PayFrom

(***************************************************************************)
(* The fees are taken from what backs the losing side.  If its tokens are  *)
(* burned, then gifts and all; only lamports can be left.                  *)
(***************************************************************************)
LEMMA FeesTakeBacking ==
    ASSUME TypeOK, NEW u \in Users, NEW id \in Ids, NEW r \in Sides,
           FinishEvent(u, id, r)
    PROVE  LET l == Other(r)
               feeAmount == FeeOf(event[id].pool[l])
           IN  /\ Backing(id, r)' = Backing(id, r)
               /\ Backing(id, l)' =
                    IF event[id].burning /\ event[id].mint[l] # Native
                    THEN solHeld[id][l]
                    ELSE Backing(id, l) - 2 * feeAmount
               /\ \A z \in Sides : event[id].mint[z] # Native =>
                     solHeld'[id][z] = solHeld[id][z]
               /\ SolLeft(id)' = SolLeft(id)
<1> DEFINE l == Other(r)
           feeAmount == FeeOf(event[id].pool[l])
<1>1. l \in Sides /\ l # r /\ Other(l) = r /\ \A z \in Sides : z = l \/ z = r
  BY DEF Sides, Other
<1>2. Deployed(id) /\ event'[id].mint = event[id].mint
  BY ResultRecorded DEF FinishEvent, MayFinish
<1>3. feeAmount \in Nat
  <2>1. event[id].pool[l] \in Nat
    BY <1>1, <1>2, PoolsAreNat
  <2> QED BY <2>1, FeesFitThePool
<1>4. \A z \in Sides : /\ solHeld[id][z] \in Int /\ VaultAmount(id, z) \in Nat
                       /\ lamports[id] \in Nat
  BY MoneyIsInt
<1>5. CASE TakeFeesInTokens(u, id, l)
  <2> DEFINE left == LeftAfterFees(id, l) - BurnedOf(id, l)
  <2>1. /\ vault[id][l] \in TokenAccount /\ VaultReady(id, l)
        /\ event[id].mint[l] # Native /\ LeftAfterFees(id, l) >= 0
        /\ solHeld' = solHeld /\ lamports' = lamports
    BY <1>1, <1>5, AccountTypes DEF TakeFeesInTokens, VaultReady
  <2>2. LeftAfterFees(id, l) = VaultAmount(id, l) - 2 * feeAmount
    BY <2>1, NotNone DEF LeftAfterFees, VaultAmount
  <2>3. left = IF event[id].burning THEN 0 ELSE VaultAmount(id, l) - 2 * feeAmount
    BY <1>1, <1>3, <1>4, <2>2 DEF BurnedOf
  <2>4. left \in Nat
    BY <1>1, <1>3, <1>4, <2>1, <2>2, <2>3
  <2>5. vault'[id][l] = [vault[id][l] EXCEPT !.amount = left]
    BY <1>1, <1>5 DEF TakeFeesInTokens, TypeOK
  <2> HIDE DEF left
  <2>6. /\ vault'[id][l] # None /\ vault'[id][l].mint = vault[id][l].mint
        /\ vault'[id][l].amount = left
    <3>1. vault'[id][l] \in TokenAccount
      BY <2>1, <2>4, <2>5 DEF TokenAccount
    <3> QED BY <2>1, <2>5, <3>1, NotNone DEF TokenAccount
  <2>7. VaultReady(id, l)' /\ VaultAmount(id, l)' = left
    BY <1>2, <2>1, <2>6 DEF VaultReady, HasVault, VaultAmount
  <2>8. vault'[id][r] = vault[id][r]
    BY <1>1, <1>5 DEF TakeFeesInTokens, TypeOK
  <2>9. Backing(id, r)' = Backing(id, r)
    BY <1>2, <2>1, <2>8
       DEF Backing, Held, VaultAmount, VaultReady, HasVault
  <2>10. Backing(id, l)' =
           IF event[id].burning THEN solHeld[id][l]
                                ELSE Backing(id, l) - 2 * feeAmount
    <3>1. Backing(id, l)' = solHeld[id][l] + left
      BY <2>1, <2>7 DEF Backing, Held
    <3>2. Backing(id, l) = solHeld[id][l] + VaultAmount(id, l)
      BY <2>1 DEF Backing, Held
    <3> HIDE DEF feeAmount, l
    <3> QED BY <1>1, <1>3, <1>4, <2>3, <3>1, <3>2
  <2> QED BY <2>1, <2>9, <2>10 DEF SolLeft
<1>6. CASE TakeFeesInLamports(u, id, l)
  <2>1. vault' = vault /\ event[id].mint[l] = Native
    BY <1>6 DEF TakeFeesInLamports
  <2>2. /\ solHeld'[id][l] = solHeld[id][l] - 2 * feeAmount
        /\ solHeld'[id][r] = solHeld[id][r]
        /\ lamports'[id] = lamports[id] - 2 * feeAmount
    BY <1>1, <1>6 DEF TakeFeesInLamports, TypeOK
  <2>3. \A z \in Sides : /\ VaultAmount(id, z)' = VaultAmount(id, z)
                         /\ VaultReady(id, z)' <=> VaultReady(id, z)
    BY <1>2, <2>1 DEF VaultAmount, VaultReady, HasVault
  <2>4. Backing(id, l)' = Backing(id, l) - 2 * feeAmount
    BY <1>1, <2>1, <2>2, <2>3, SolHasNoPool DEF Backing
  <2>5. Backing(id, r)' = Backing(id, r)
    BY <2>2, <2>3 DEF Backing, Held
  <2>6. SolLeft(id)' = SolLeft(id)
    BY <1>3, <1>4, <2>2 DEF SolLeft, Sides, Other
  <2> QED BY <1>1, <2>1, <2>2, <2>4, <2>5, <2>6
<1> QED BY <1>5, <1>6 DEF FinishEvent

----------------------------------------------------------------------------
(* How each action changes what is due.                                    *)

(* The result takes the fees off what is due to the winners of the other   *)
(* side; on a burning event a losing side in tokens owes nothing more.     *)
LEMMA DueAfterResult ==
    ASSUME TypeOK, TypeOK', NEW u \in Users, NEW id \in Ids, NEW r \in Sides,
           RecordsInv(id), FinishEvent(u, id, r)
    PROVE  LET l == Other(r)
               feeAmount == FeeOf(event[id].pool[l])
           IN  /\ StillDue(id, r)' = StillDue(id, r)
               /\ StillDue(id, l)' =
                    IF event[id].burning /\ event[id].mint[l] # Native
                    THEN 0 ELSE StillDue(id, l) - 2 * feeAmount
<1> DEFINE l == Other(r)
           feeAmount == FeeOf(event[id].pool[l])
<1>1. l \in Sides /\ l # r /\ Other(l) = r
  BY DEF Sides, Other
<1>2. /\ Deployed(id) /\ ~IsResultSet(id) /\ ticket' = ticket
      /\ MarkedOnlyIfWon(id) /\ PoolIsTicketSum(id, l)
  BY <1>1 DEF FinishEvent, MayFinish, RecordsInv
<1>3. /\ event'[id].mint = event[id].mint
      /\ event'[id].burning = event[id].burning
      /\ event'[id].result = r
      /\ event'[id].pool[l] = event[id].pool[l] - 2 * feeAmount
  BY ResultRecorded
<1>4. /\ \A z \in Sides : ~HasLost(id, z) /\ ~HasWon(id, z)
      /\ HasWon(id, r)' /\ HasLost(id, l)' /\ ~HasWon(id, l)'
  BY <1>1, <1>2, <1>3, OtherIsSide, NotNone DEF HasLost, HasWon, IsResultSet
<1>5. /\ StillDue(id, r) = Staked(id, r)
      /\ StillDue(id, l) = event[id].pool[l]
  BY <1>1, <1>2, <1>4 DEF StillDue, PoolIsTicketSum
<1>6. StillToWithdraw(id, r)' = Staked(id, r)
  <2>1. StillToWithdraw(id, r)' = StillToWithdraw(id, r)
    BY <1>2 DEF StillToWithdraw, Unwithdrawn, HasTicket
  <2> QED BY <1>2, <2>1, NothingPaidBeforeTheResult
<1>7. ClaimedBy(id, r)' = 0
  <2>1. \A v \in Users : HasTicket(id, r, v) => ~ticket[id][r][v].claimed
    BY <1>2, NothingPaidBeforeTheResult
  <2>2. \A v \in Users : HasTicket(id, r, v)' => ~ticket'[id][r][v].claimed
    BY <1>2, <2>1 DEF HasTicket
  <2> QED BY <2>2, NothingClaimedNext DEF UnclaimedIsZero
<1>8. event'[id].pool[l] - 0 = event'[id].pool[l]
  <2>1. event[id].pool[l] \in Nat
    BY <1>1, <1>2, PoolsAreNat
  <2>2. feeAmount \in Nat
    BY <2>1, FeesFitThePool
  <2> QED BY <1>3, <2>1, <2>2
<1>9. StillDue(id, l)' = IF event[id].burning /\ event[id].mint[l] # Native
                         THEN 0 ELSE event'[id].pool[l]
  BY <1>1, <1>3, <1>4, <1>7, <1>8 DEF StillDue
<1>10. StillDue(id, r)' = StillDue(id, r)
  BY <1>4, <1>5, <1>6 DEF StillDue
<1> QED BY <1>3, <1>5, <1>9, <1>10

(* A claim takes the reward off what the losing side owes. *)
LEMMA DueAfterClaim ==
    ASSUME TypeOK, TypeOK', NEW u \in Users, NEW id \in Ids, NEW w \in Sides,
           ClaimRewards(u, id, w)
    PROVE  /\ StillDue(id, w)' = StillDue(id, w)
           /\ StillDue(id, Other(w))' = StillDue(id, Other(w)) - Reward(u, id, w)
<1> DEFINE l == Other(w)
           n == Reward(u, id, w)
<1>1. l \in Sides /\ l # w /\ Other(l) = w
  BY DEF Sides, Other
<1>2. /\ Deployed(id) /\ ~event[id].burning /\ event[id].result = w
      /\ event' = event
  BY DEF ClaimRewards, MayClaim
<1>3. /\ n \in Nat /\ ClaimedBy(id, w)' = ClaimedBy(id, w) + n
      /\ StillToWithdraw(id, w)' = StillToWithdraw(id, w)
  BY ClaimMarks
<1>4. event[id].pool[l] \in Nat /\ ClaimedBy(id, w) \in Nat
  BY <1>1, <1>2, PoolsAreNat, TotalsAreNat
<1>5. StillDue(id, w)' = StillDue(id, w)
  BY <1>2, <1>3 DEF StillDue, HasWon
<1>6. /\ StillDue(id, l) = event[id].pool[l] - ClaimedBy(id, w)
      /\ StillDue(id, l)' = event[id].pool[l] - ClaimedBy(id, w)'
  BY <1>1, <1>2 DEF StillDue, HasWon, HasLost
<1> HIDE DEF n
<1>7. StillDue(id, l)' = StillDue(id, l) - n
  BY <1>3, <1>4, <1>6
<1> QED BY <1>5, <1>7 DEF n

(* A withdrawal takes the deposit off what the winning side owes. *)
LEMMA DueAfterWithdrawal ==
    ASSUME TypeOK, TypeOK', NEW u \in Users, NEW id \in Ids, NEW w \in Sides,
           WithdrawDeposited(u, id, w)
    PROVE  /\ StillDue(id, w)' = StillDue(id, w) - ticket[id][w][u].amount
           /\ StillDue(id, Other(w))' = StillDue(id, Other(w))
<1> DEFINE l == Other(w)
           n == ticket[id][w][u].amount
<1>1. l \in Sides /\ l # w /\ Other(l) = w
  BY DEF Sides, Other
<1>2. Deployed(id) /\ event[id].result = w /\ event' = event
  BY DEF WithdrawDeposited, MayWithdraw
<1>3. /\ StillToWithdraw(id, w)' = StillToWithdraw(id, w) - n
      /\ ClaimedBy(id, w)' = ClaimedBy(id, w)
  BY WithdrawalMarks
<1>4. StillDue(id, w)' = StillDue(id, w) - n
  BY <1>2, <1>3 DEF StillDue, HasWon
<1>5. StillDue(id, l)' = StillDue(id, l)
  BY <1>1, <1>2, <1>3 DEF StillDue, HasWon, HasLost
<1> QED BY <1>4, <1>5

----------------------------------------------------------------------------
(* Each action keeps what backs a side up to what is due.                  *)

LEMMA MoneyAfter ==
    ASSUME TypeOK, TypeOK', NEW id \in Ids, MoneyInv(id),
           Deployed(id), Deployed(id)', IsStarted(id)',
           event'[id].mint = event[id].mint,
           SolLeft(id)' = SolLeft(id),
           \A s \in Sides : event[id].mint[s] # Native => solHeld'[id][s] >= 0,
           \A s \in Sides : Backing(id, s)' >= StillDue(id, s)'
    PROVE  MoneyInv(id)'
<1>1. lamports'[id] >= solHeld'[id]["Left"] + solHeld'[id]["Right"]
  <2>1. /\ \A s \in {"Left", "Right"} : solHeld[id][s] \in Int
                                        /\ solHeld'[id][s] \in Int
        /\ lamports[id] \in Int /\ lamports'[id] \in Int
    BY DEF TypeOK, Sides
  <2>2. lamports[id] >= solHeld[id]["Left"] + solHeld[id]["Right"]
    BY DEF MoneyInv
  <2> QED BY <2>1, <2>2 DEF SolLeft
<1> QED BY <1>1 DEF MoneyInv

LEMMA MoneyDeploy ==
    ASSUME TypeOK, TypeOK', NEW u \in Users, NEW id \in Ids,
           NEW start \in Dates, NEW end \in Dates,
           NEW mint \in [Sides -> Assets], NEW burning \in BOOLEAN,
           RecordsInv(id), MoneyInv(id),
           DeployEvent(u, id, start, end, mint, burning)
    PROVE  MoneyInv(id)'
<1>1. /\ ~Deployed(id) /\ ticket' = ticket /\ vault' = vault
      /\ solHeld' = solHeld /\ lamports' = lamports
      /\ event'[id] = NewEvent(u, start, end, mint, burning)
  BY DEF DeployEvent, TypeOK
<1>2. /\ \A s \in Sides : solHeld[id][s] = 0
      /\ \A s \in Sides, v \in Users : ~HasTicket(id, s, v)
  BY <1>1 DEF RecordsInv, MoneyInv
<1>3. ASSUME NEW s \in Sides
      PROVE  Backing(id, s)' >= 0 /\ StillDue(id, s)' = 0
  <2>1. VaultAmount(id, s)' \in Nat /\ solHeld'[id][s] = 0
    BY <1>1, <1>2, MoneyIsIntNext DEF MoneyInInt
  <2>2. Backing(id, s)' >= 0
    BY <2>1 DEF Backing, Held
  <2>3. ~HasLost(id, s)' /\ ~HasWon(id, s)'
    BY <1>1, OtherIsSide, NotNone DEF HasLost, HasWon, NewEvent
  <2>4. Staked(id, s)' = Staked(id, s)
    BY <1>1 DEF Staked, Stake, HasTicket
  <2>5. Staked(id, s) = 0
    BY <1>2, NothingDueWithoutTickets
  <2> QED BY <2>2, <2>3, <2>4, <2>5 DEF StillDue
<1> QED BY <1>1, <1>2, <1>3 DEF MoneyInv

LEMMA MoneyCreateEventTokenAccount ==
    ASSUME TypeOK, TypeOK', NEW id \in Ids, NEW s \in Sides, NEW m \in Mints,
           MoneyInv(id), CreateEventTokenAccount(id, s, m)
    PROVE  MoneyInv(id)'
<1>1. /\ clock' = clock /\ event' = event /\ ticket' = ticket
      /\ solHeld' = solHeld /\ lamports' = lamports /\ vault[id][s] = None
      /\ vault'[id][s] = [mint |-> m, amount |-> 0]
      /\ \A z \in Sides : z # s => vault'[id][z] = vault[id][z]
  BY DEF CreateEventTokenAccount, TypeOK
<1>2. \A z \in Sides : /\ solHeld[id][z] \in Int /\ VaultAmount(id, z) \in Nat
                       /\ lamports[id] \in Nat
  BY MoneyIsInt
<1>3. ASSUME NEW z \in Sides PROVE Backing(id, z)' = Backing(id, z)
  <2>1. CASE z = s
    <3>1. vault'[id][s] \in TokenAccount
      BY <1>1 DEF TokenAccount
    <3>2. VaultAmount(id, s)' = 0 /\ ~VaultReady(id, s)
      BY <1>1, <3>1, NotNone DEF VaultAmount, VaultReady, HasVault
    <3> QED BY <1>1, <1>2, <2>1, <3>2 DEF Backing, Held
  <2>2. CASE z # s
    BY <1>1, <2>2 DEF Backing, Held, VaultAmount, VaultReady, HasVault
  <2> QED BY <2>1, <2>2
<1>4. \A z \in Sides : Backing(id, z)' >= Backing(id, z)
  BY <1>3, MoneyIsInt
<1>5. clock' >= clock /\ lamports'[id] >= lamports[id]
  BY <1>1 DEF TypeOK
<1> QED BY <1>1, <1>4, <1>5, MoneyFrame

LEMMA MoneyVote ==
    ASSUME TypeOK, TypeOK', NEW u \in Users, NEW id \in Ids, NEW s \in Sides,
           NEW n \in Nat, MoneyInv(id), VoteOpen(id), RecordVote(u, id, s, n),
           TakeTokens(u, id, s, n) \/ TakeLamports(u, id, s, n), clock' = clock
    PROVE  MoneyInv(id)'
<1> DEFINE t == Other(s)
<1>1. t \in Sides /\ t # s /\ \A z \in Sides : z = s \/ z = t
  BY DEF Sides, Other
<1>2. Deployed(id) /\ IsStarted(id)
  BY DEF VoteOpen
<1>3. /\ Staked(id, s)' = Staked(id, s) + n /\ Staked(id, t)' = Staked(id, t)
      /\ Deployed(id)' /\ IsStarted(id)' /\ event'[id].mint = event[id].mint
      /\ \A z \in Sides : /\ ~HasLost(id, z) /\ ~HasWon(id, z)
                          /\ ~HasLost(id, z)' /\ ~HasWon(id, z)'
  BY <1>2, VoteAdds DEF IsStarted
<1>4. /\ Backing(id, s)' = Backing(id, s) + n
      /\ Backing(id, t)' = Backing(id, t)
      /\ \A z \in Sides : solHeld'[id][z] >= solHeld[id][z]
      /\ SolLeft(id)' = SolLeft(id)
  BY <1>2, <1>3, VoteBacks
<1>5. ASSUME NEW z \in Sides, event[id].mint[z] # Native
      PROVE  solHeld'[id][z] >= 0
  <2>1. /\ solHeld[id][z] \in Int /\ solHeld'[id][z] \in Int
        /\ solHeld[id][z] >= 0 /\ solHeld'[id][z] >= solHeld[id][z]
    BY <1>2, <1>4, <1>5 DEF MoneyInv, TypeOK
  <2> QED BY <2>1
<1>6. ASSUME NEW z \in Sides PROVE Backing(id, z)' >= StillDue(id, z)'
  <2>1. StillDue(id, z) = Staked(id, z) /\ StillDue(id, z)' = Staked(id, z)'
    BY <1>3 DEF StillDue
  <2>2. /\ Backing(id, z) >= Staked(id, z) /\ Backing(id, z) \in Int
        /\ Staked(id, z) \in Nat
    BY <1>2, <2>1, MoneyIsInt, TotalsAreNat DEF MoneyInv
  <2> QED BY <1>1, <1>3, <1>4, <2>1, <2>2
<1> QED BY <1>2, <1>3, <1>4, <1>5, <1>6, MoneyAfter

LEMMA MoneyFinish ==
    ASSUME TypeOK, TypeOK', NEW u \in Users, NEW id \in Ids, NEW r \in Sides,
           RecordsInv(id), MoneyInv(id), FinishEvent(u, id, r)
    PROVE  MoneyInv(id)'
<1> DEFINE l == Other(r)
           feeAmount == FeeOf(event[id].pool[l])
           burned == event[id].burning /\ event[id].mint[l] # Native
<1>1. l \in Sides /\ l # r /\ \A z \in Sides : z = l \/ z = r
  BY DEF Sides, Other
<1>2. Deployed(id) /\ IsFinished(id) /\ clock' = clock
  BY DEF FinishEvent, MayFinish
<1>3. /\ Deployed(id)' /\ event'[id].start_date = event[id].start_date
      /\ event'[id].mint = event[id].mint
  BY ResultRecorded
<1>4. IsStarted(id)'
  <2>1. IsStarted(id)
    BY <1>2, SettledIsStarted DEF RecordsInv
  <2> QED BY <1>2, <1>3, <2>1 DEF IsStarted
<1>5. /\ Backing(id, r)' = Backing(id, r)
      /\ Backing(id, l)' = IF burned THEN solHeld[id][l]
                                     ELSE Backing(id, l) - 2 * feeAmount
      /\ \A z \in Sides : event[id].mint[z] # Native =>
            solHeld'[id][z] = solHeld[id][z]
      /\ SolLeft(id)' = SolLeft(id)
  BY FeesTakeBacking
<1>6. /\ StillDue(id, r)' = StillDue(id, r)
      /\ StillDue(id, l)' = IF burned THEN 0
                                      ELSE StillDue(id, l) - 2 * feeAmount
  BY DueAfterResult
<1>7. feeAmount \in Nat
  <2>1. event[id].pool[l] \in Nat
    BY <1>1, <1>2, PoolsAreNat
  <2> QED BY <2>1, FeesFitThePool
<1>8. \A z \in Sides : /\ Backing(id, z) >= StillDue(id, z)
                       /\ Backing(id, z) \in Int /\ StillDue(id, z) \in Int
  BY <1>2, MoneyIsInt DEF MoneyInv
<1>9. \A z \in Sides : event[id].mint[z] # Native => solHeld[id][z] >= 0
  BY <1>2 DEF MoneyInv
<1>10. Backing(id, l)' >= StillDue(id, l)'
  <2>1. burned => solHeld[id][l] >= 0
    BY <1>1, <1>9
  <2>2. Backing(id, l) >= StillDue(id, l)
        /\ Backing(id, l) \in Int /\ StillDue(id, l) \in Int
    BY <1>1, <1>8
  <2> HIDE DEF burned, feeAmount
  <2> QED BY <1>5, <1>6, <1>7, <2>1, <2>2
<1>11. Backing(id, r)' >= StillDue(id, r)'
  BY <1>5, <1>6, <1>8
<1>12. \A z \in Sides : Backing(id, z)' >= StillDue(id, z)'
  BY <1>1, <1>10, <1>11
<1>13. \A z \in Sides : event[id].mint[z] # Native => solHeld'[id][z] >= 0
  BY <1>5, <1>9
<1> QED BY <1>2, <1>3, <1>4, <1>5, <1>12, <1>13, MoneyAfter

LEMMA MoneyPay ==
    ASSUME TypeOK, TypeOK', NEW u \in Users, NEW id \in Ids, NEW w \in Sides,
           RecordsInv(id), MoneyInv(id),
           ClaimRewards(u, id, w) \/ WithdrawDeposited(u, id, w)
    PROVE  MoneyInv(id)'
<1> DEFINE l == Other(w)
<1>1. l \in Sides /\ l # w /\ Other(l) = w /\ \A z \in Sides : z = l \/ z = w
  BY DEF Sides, Other
<1>2. /\ Deployed(id) /\ event' = event /\ clock' = clock
      /\ event[id].result = w /\ HasTicket(id, w, u)
  BY DEF ClaimRewards, MayClaim, WithdrawDeposited, MayWithdraw
<1>3. Deployed(id)' /\ IsStarted(id)'
  <2>1. IsResultSet(id)
    BY <1>2, NotNone DEF IsResultSet
  <2>2. IsStarted(id)
    BY <1>2, <2>1, SettledIsStarted DEF RecordsInv, DatesInOrder
  <2> QED BY <1>2, <2>2 DEF IsStarted, Deployed
<1>4. PICK s \in Sides, n \in Nat :
        /\ Backing(id, s)' = Backing(id, s) - n
        /\ Backing(id, Other(s))' = Backing(id, Other(s))
        /\ \A z \in Sides : event[id].mint[z] # Native =>
              solHeld'[id][z] = solHeld[id][z]
        /\ SolLeft(id)' = SolLeft(id)
        /\ StillDue(id, s)' = StillDue(id, s) - n
        /\ StillDue(id, Other(s))' = StillDue(id, Other(s))
  <2>1. CASE ClaimRewards(u, id, w)
    <3> DEFINE n == Reward(u, id, w)
    <3>1. n \in Nat /\ PayFrom(u, id, l, n)
      BY <1>2, <2>1, RewardOfTicketIsNat DEF ClaimRewards, RewardFits
    <3>2. /\ StillDue(id, w)' = StillDue(id, w)
          /\ StillDue(id, l)' = StillDue(id, l) - n
      BY <2>1, DueAfterClaim
    <3> HIDE DEF n
    <3> QED BY <1>1, <1>2, <3>1, <3>2, PaymentTakesBacking
  <2>2. CASE WithdrawDeposited(u, id, w)
    <3> DEFINE n == ticket[id][w][u].amount
    <3>1. n \in Nat /\ PayFrom(u, id, w, n)
      BY <1>2, <2>2, BetIsNat DEF WithdrawDeposited
    <3>2. /\ StillDue(id, w)' = StillDue(id, w) - n
          /\ StillDue(id, l)' = StillDue(id, l)
      BY <2>2, DueAfterWithdrawal
    <3> HIDE DEF n
    <3> QED BY <1>1, <1>2, <3>1, <3>2, PaymentTakesBacking
  <2> QED BY <2>1, <2>2
<1>5. \A z \in Sides : /\ Backing(id, z) >= StillDue(id, z)
                       /\ Backing(id, z) \in Int /\ StillDue(id, z) \in Int
  BY <1>2, MoneyIsInt DEF MoneyInv
<1>6. \A z \in Sides : z = s \/ z = Other(s)
  BY DEF Sides, Other
<1>7. \A z \in Sides : Backing(id, z)' >= StillDue(id, z)'
  BY <1>4, <1>5, <1>6
<1>8. \A z \in Sides : event[id].mint[z] # Native => solHeld'[id][z] >= 0
  BY <1>2, <1>4 DEF MoneyInv
<1> QED BY <1>2, <1>3, <1>4, <1>7, <1>8, MoneyAfter

(* A closed event holds nothing for its sides; gifts go to the creator.    *)
LEMMA MoneyClose ==
    ASSUME TypeOK, NEW u \in Users, NEW id \in Ids, NEW pools \in SUBSET Sides,
           CloseEvent(u, id, pools)
    PROVE  MoneyInv(id)'
<1>1. /\ event'[id] = None /\ lamports'[id] = 0
      /\ \A s \in Sides : solHeld'[id][s] = 0
  BY DEF CloseEvent, TypeOK
<1> QED BY <1>1 DEF MoneyInv, Deployed, Sides

----------------------------------------------------------------------------
(***************************************************************************)
(* The inductive invariant among transfers.  Unlike IInv it does not say   *)
(* how much an event holds, which anybody can raise, only how much it holds*)
(* at least.                                                               *)
(***************************************************************************)
GuardedInv(id) == RecordsInv(id) /\ MoneyInv(id)
TransfersInv == TypeOK /\ \A id \in Ids : GuardedInv(id)

LEMMA GuardedSameAccounts ==
    ASSUME TypeOK, TypeOK', NEW id \in Ids, GuardedInv(id), SameAccounts(id)
    PROVE  GuardedInv(id)'
<1>1. clock' >= clock /\ lamports'[id] >= lamports[id]
  BY DEF SameAccounts, TypeOK
<1>2. ASSUME NEW s \in Sides PROVE Backing(id, s)' >= Backing(id, s)
  <2>1. Backing(id, s)' = Backing(id, s)
    BY DEF SameAccounts, Backing, Held, VaultAmount, VaultReady, HasVault
  <2> QED BY <2>1, MoneyIsInt
<1> QED BY <1>1, <1>2, RecordsFrame, MoneyFrame DEF SameAccounts, GuardedInv

LEMMA GuardedTick ==
    ASSUME TypeOK, TypeOK', NEW id \in Ids, GuardedInv(id), Tick
    PROVE  GuardedInv(id)'
<1>1. clock' >= clock /\ lamports'[id] >= lamports[id]
  BY DEF Tick, TypeOK
<1>2. ASSUME NEW s \in Sides PROVE Backing(id, s)' >= Backing(id, s)
  <2>1. Backing(id, s)' = Backing(id, s)
    BY DEF Tick, Backing, Held, VaultAmount, VaultReady, HasVault
  <2> QED BY <2>1, MoneyIsInt
<1> QED BY <1>1, <1>2, RecordsFrame, MoneyFrame DEF Tick, GuardedInv

(* A gift to an event, or to another one, only adds to what it holds.      *)
LEMMA GuardedTransfer ==
    ASSUME TypeOK, TypeOK', NEW i \in Ids, GuardedInv(i), Transfer
    PROVE  GuardedInv(i)'
<1>1. PICK u \in Users, id \in Ids, n \in Amounts :
        \/ \E s \in Sides : SendTokens(u, id, s, n)
        \/ SendLamports(u, id, n)
  BY DEF Transfer
<1>2. n \in Nat
  BY BoundsAssumption
<1>3. /\ clock' = clock /\ event' = event /\ ticket' = ticket
      /\ solHeld' = solHeld
  BY <1>1 DEF SendTokens, SendLamports
<1>4. clock' >= clock /\ lamports'[i] >= lamports[i]
  <2>1. lamports' = lamports \/ lamports' = [lamports EXCEPT ![id] = @ + n]
    BY <1>1 DEF SendTokens, SendLamports
  <2>2. lamports'[i] = lamports[i] \/ lamports'[i] = lamports[i] + n
    BY <2>1 DEF TypeOK
  <2>3. lamports[i] \in Nat /\ clock \in Nat
    BY DEF TypeOK
  <2> QED BY <1>2, <1>3, <2>2, <2>3
<1>5. ASSUME NEW z \in Sides PROVE Backing(i, z)' >= Backing(i, z)
  <2>1. solHeld[i][z] \in Int /\ VaultAmount(i, z) \in Nat
    BY MoneyIsInt
  <2>2. CASE vault'[i][z] = vault[i][z]
    <3>1. Backing(i, z)' = Backing(i, z)
      BY <1>3, <2>2 DEF Backing, Held, VaultAmount, VaultReady, HasVault
    <3> QED BY <3>1, MoneyIsInt
  <2>3. CASE vault'[i][z] # vault[i][z]
    <3>1. /\ HasVault(i, z)
          /\ vault'[i][z] = [vault[i][z] EXCEPT !.amount = @ + n]
      <4>1. PICK s \in Sides : SendTokens(u, id, s, n)
        BY <1>1, <2>3 DEF SendLamports
      <4>2. /\ HasVault(id, s)
            /\ vault' = [vault EXCEPT ![id][s].amount = @ + n]
        BY <4>1 DEF SendTokens
      <4> QED BY <2>3, <4>2 DEF TypeOK
    <3>2. vault[i][z] \in TokenAccount
      BY <3>1, AccountTypes
    <3>3. vault'[i][z] \in TokenAccount
      BY <1>2, <3>1, <3>2 DEF TokenAccount
    <3>4. /\ VaultReady(i, z)' <=> VaultReady(i, z)
          /\ VaultAmount(i, z)' = VaultAmount(i, z) + n
      BY <1>3, <3>1, <3>2, <3>3, NotNone
         DEF VaultReady, HasVault, VaultAmount, TokenAccount
    <3> QED BY <1>2, <1>3, <2>1, <3>4 DEF Backing, Held
  <2> QED BY <2>2, <2>3
<1> QED BY <1>3, <1>4, <1>5, RecordsFrame, MoneyFrame DEF GuardedInv

LEMMA GuardedVote ==
    ASSUME TypeOK, TypeOK', NEW u \in Users, NEW id \in Ids, NEW s \in Sides,
           NEW n \in Nat, GuardedInv(id),
           VoteWithTokens(u, id, s, n) \/ VoteWithLamports(u, id, s, n)
    PROVE  GuardedInv(id)'
<1>1. /\ VoteOpen(id) /\ RecordVote(u, id, s, n) /\ clock' = clock
      /\ TakeTokens(u, id, s, n) \/ TakeLamports(u, id, s, n)
  BY DEF VoteWithTokens, VoteWithLamports
<1> QED BY <1>1, RecordsVote, MoneyVote DEF GuardedInv

LEMMA GuardedStep ==
    ASSUME TypeOK, TypeOK', NEW i \in Ids, GuardedInv(i), [Next]_vars
    PROVE  GuardedInv(i)'
<1>1. SameAccounts(i) => GuardedInv(i)'
  BY GuardedSameAccounts
<1>2. CASE Tick
  BY <1>2, GuardedTick
<1>3. CASE UNCHANGED vars
  BY <1>1, <1>3 DEF vars, SameAccounts
<1>4. CASE SetUp
  <2>1. CASE Initialize
    BY <1>1, <2>1 DEF Initialize, SameAccounts
  <2>2. ASSUME NEW m \in Mints, CreateSystemFeeTokenAccount(m)
        PROVE  GuardedInv(i)'
    BY <1>1, <2>2 DEF CreateSystemFeeTokenAccount, SameAccounts
  <2>3. ASSUME NEW u \in Users, NEW id \in Ids, NEW start \in Dates,
               NEW end \in Dates, NEW mint \in [Sides -> Assets],
               NEW burning \in BOOLEAN,
               DeployEvent(u, id, start, end, mint, burning)
        PROVE  GuardedInv(i)'
    BY <1>1, <2>3, OtherEventsUntouched, RecordsDeploy, MoneyDeploy
       DEF GuardedInv
  <2>4. ASSUME NEW id \in Ids, NEW s \in Sides, NEW m \in Mints,
               CreateEventTokenAccount(id, s, m)
        PROVE  GuardedInv(i)'
    <3>1. /\ clock' = clock /\ event' = event /\ ticket' = ticket
          /\ clock' >= clock
      BY <2>4 DEF CreateEventTokenAccount, TypeOK
    <3>2. RecordsInv(i)'
      BY <3>1, RecordsFrame DEF GuardedInv
    <3> QED BY <1>1, <2>4, <3>2, OtherEventsUntouched,
               MoneyCreateEventTokenAccount DEF GuardedInv
  <2> QED BY <1>4, <2>1, <2>2, <2>3, <2>4 DEF SetUp
<1>5. CASE Vote
  <2>1. PICK u \in Users, id \in Ids, s \in Sides, n \in Amounts :
          VoteWithTokens(u, id, s, n) \/ VoteWithLamports(u, id, s, n)
    BY <1>5 DEF Vote
  <2>2. n \in Nat
    BY BoundsAssumption
  <2> QED BY <1>1, <2>1, <2>2, OtherEventsUntouched, GuardedVote
<1>6. CASE Settle
  <2>1. PICK u \in Users, id \in Ids, s \in Sides :
          \/ FinishEvent(u, id, s)
          \/ ClaimRewards(u, id, s)
          \/ WithdrawDeposited(u, id, s)
    BY <1>6 DEF Settle
  <2> QED BY <1>1, <2>1, OtherEventsUntouched, RecordsFinish, MoneyFinish,
             RecordsPay, MoneyPay DEF GuardedInv
<1>7. CASE Close
  BY <1>1, <1>7, OtherEventsUntouched, RecordsClose, MoneyClose
     DEF Close, GuardedInv
<1> QED BY <1>2, <1>3, <1>4, <1>5, <1>6, <1>7 DEF Next

LEMMA TransfersInvInit == Init => TransfersInv
<1> SUFFICES ASSUME Init PROVE TransfersInv
  OBVIOUS
<1>1. TypeOK
  BY TypeInit
<1>2. ASSUME NEW id \in Ids PROVE GuardedInv(id)
  <2>1. /\ ~Deployed(id) /\ lamports[id] = 0
        /\ \A s \in Sides : /\ solHeld[id][s] = 0
                            /\ \A u \in Users : ~HasTicket(id, s, u)
    BY <1>2 DEF Init, Deployed, HasTicket
  <2>2. RecordsInv(id)
    BY <2>1 DEF RecordsInv, DatesInOrder, MarkedOnlyIfWon
  <2>3. MoneyInv(id)
    BY <2>1 DEF MoneyInv, Sides
  <2> QED BY <2>2, <2>3 DEF GuardedInv
<1> QED BY <1>1, <1>2 DEF TransfersInv

(***************************************************************************)
(* Whatever instructions and transfers are sent, in whatever order: an     *)
(* event's record and its tickets agree as they do without transfers, and  *)
(* what backs a side is at least what is due to its players.               *)
(***************************************************************************)
THEOREM TransfersInvariant == SpecAmongTransfers => []TransfersInv
<1>1. Init => TransfersInv
  BY TransfersInvInit
<1>2. TransfersInv /\ [NextAmongTransfers]_vars => TransfersInv'
  BY TypeAmongTransfers, GuardedStep, GuardedTransfer
     DEF TransfersInv, NextAmongTransfers
<1> QED BY <1>1, <1>2, PTL DEF SpecAmongTransfers

(***************************************************************************)
(* A side is backed by at least what was staked on it and not paid out:    *)
(* gifts are never taken for stakes and paid out of the stakes of somebody *)
(* else.                                                                   *)
(***************************************************************************)
THEOREM SidesHoldAtLeastTheirStakesAlways ==
    SpecAmongTransfers => []SidesHoldAtLeastTheirStakes
<1>1. TransfersInv => SidesHoldAtLeastTheirStakes
  BY DEF TransfersInv, GuardedInv, MoneyInv, SidesHoldAtLeastTheirStakes
<1> QED BY <1>1, TransfersInvariant, PTL

(***************************************************************************)
(* The recorded pools are the sums of the tickets among transfers as well. *)
(***************************************************************************)
THEOREM PoolsAreTicketSumsAmongTransfers ==
    SpecAmongTransfers => []PoolsAreTicketSums
<1>1. TransfersInv => PoolsAreTicketSums
  BY DEF TransfersInv, GuardedInv, RecordsInv, PoolsAreTicketSums
<1> QED BY <1>1, TransfersInvariant, PTL

(* What is due to a side's players covers every payment still to come.     *)
LEMMA DueCoversWhatIsOwed ==
    ASSUME TypeOK, NEW id \in Ids, NEW s \in Sides, Deployed(id),
           IsResultSet(id), RecordsInv(id)
    PROVE  /\ Owes(id, s) \in Nat /\ StillDue(id, s) \in Int
           /\ StillDue(id, s) >= Owes(id, s)
<1> DEFINE w == Other(s)
<1>1. w \in Sides /\ w # s /\ Other(w) = s
  BY OtherIsSide
<1>2. HasWon(id, s) \/ HasLost(id, s)
  <2>1. event[id].result \in Sides
    <3>1. event[id] \in PredictionEvent
      BY DEF TypeOK, Deployed
    <3> QED BY <3>1 DEF PredictionEvent, IsResultSet
  <2> QED BY <2>1 DEF HasWon, HasLost, Sides, Other
<1>3. ~(HasWon(id, s) /\ HasLost(id, s))
  BY <1>1 DEF HasWon, HasLost
<1>4. /\ StillToWithdraw(id, s) \in Nat /\ ClaimedBy(id, w) \in Nat
      /\ StillToClaim(id, w) \in Nat /\ event[id].pool[s] \in Nat
  BY <1>1, TotalsAreNat, PoolsAreNat
<1>5. CASE HasWon(id, s)
  BY <1>4, <1>5 DEF StillDue, Owes
<1>6. CASE HasLost(id, s) /\ event[id].burning
  BY <1>3, <1>4, <1>6 DEF StillDue, Owes
<1>7. CASE HasLost(id, s) /\ ~event[id].burning
  <2>1. event[id].pool[w] = Staked(id, w)
    <3>1. PoolIsTicketSum(id, w) /\ ~HasLost(id, w)
      BY <1>1, <1>3, <1>7 DEF RecordsInv, HasLost
    <3> QED BY <3>1 DEF PoolIsTicketSum
  <2>2. ClaimedBy(id, w) + StillToClaim(id, w) <= event[id].pool[s]
    BY <1>1, <2>1, RewardsFitTheLosingPool
  <2>3. /\ StillDue(id, s) = event[id].pool[s] - ClaimedBy(id, w)
        /\ Owes(id, s) = StillToClaim(id, w)
    BY <1>3, <1>7 DEF StillDue, Owes
  <2> QED BY <1>4, <2>2, <2>3
<1> QED BY <1>2, <1>5, <1>6, <1>7

LEMMA EventIsCoveredAmongTransfers ==
    ASSUME TypeOK, NEW id \in Ids, Deployed(id), IsResultSet(id),
           GuardedInv(id)
    PROVE  EventCovers(id)
<1>1. ASSUME NEW s \in Sides
      PROVE  /\ VaultAmount(id, s) \in Nat /\ solHeld[id][s] \in Int
             /\ Owes(id, s) \in Nat /\ Backing(id, s) \in Int
             /\ Backing(id, s) >= Owes(id, s)
  <2>1. /\ Owes(id, s) \in Nat /\ StillDue(id, s) \in Int
        /\ StillDue(id, s) >= Owes(id, s)
    BY DueCoversWhatIsOwed DEF GuardedInv
  <2>2. /\ VaultAmount(id, s) \in Nat /\ solHeld[id][s] \in Int
        /\ Backing(id, s) \in Int
    BY MoneyIsInt
  <2>3. Backing(id, s) >= StillDue(id, s)
    BY DEF GuardedInv, MoneyInv
  <2> QED BY <2>1, <2>2, <2>3
<1>2. ASSUME NEW s \in Sides
      PROVE  SolOwed(id, s) \in Nat /\ solHeld[id][s] >= SolOwed(id, s)
  <2>1. CASE event[id].mint[s] = Native
    <3>1. SolOwed(id, s) = Owes(id, s) /\ Backing(id, s) = solHeld[id][s]
      BY <2>1, SolHasNoPool DEF SolOwed, Backing
    <3> QED BY <1>1, <3>1
  <2>2. CASE event[id].mint[s] # Native
    BY <2>2 DEF SolOwed, GuardedInv, MoneyInv
  <2> QED BY <2>1, <2>2
<1>3. lamports[id] >= SolOwed(id, "Left") + SolOwed(id, "Right")
  <2>1. "Left" \in Sides /\ "Right" \in Sides /\ lamports[id] \in Nat
    BY DEF Sides, TypeOK
  <2>2. lamports[id] >= solHeld[id]["Left"] + solHeld[id]["Right"]
    BY DEF GuardedInv, MoneyInv
  <2> QED BY <1>1, <1>2, <2>1, <2>2
<1>4. ASSUME NEW s \in Sides, event[id].mint[s] # Native, StakedInKind(id, s)
      PROVE  /\ VaultAmount(id, s) >= Owes(id, s)
             /\ Owes(id, s) > 0 => VaultReady(id, s)
  <2>1. solHeld[id][s] = 0
    BY <1>4 DEF StakedInKind
  <2>2. CASE VaultReady(id, s)
    <3>1. Backing(id, s) = VaultAmount(id, s)
      BY <1>1, <2>1, <2>2 DEF Backing, Held
    <3> QED BY <1>1, <2>2, <3>1
  <2>3. CASE ~VaultReady(id, s)
    <3>1. Backing(id, s) = 0
      BY <2>1, <2>3 DEF Backing
    <3>2. Owes(id, s) = 0
      BY <1>1, <3>1
    <3> QED BY <1>1, <3>2
  <2> QED BY <2>2, <2>3
<1> QED BY <1>3, <1>4 DEF EventCovers

(***************************************************************************)
(* Gifts to pools and event accounts, whatever their mint and whenever they*)
(* come, leave no settled event short: every reward and every deposit still*)
(* to be paid is covered, as it is without them.                           *)
(***************************************************************************)
THEOREM PayoutsCoveredAmongTransfers == SpecAmongTransfers => []PayoutsCovered
<1>1. TransfersInv => PayoutsCovered
  BY EventIsCoveredAmongTransfers DEF TransfersInv, PayoutsCovered
<1> QED BY <1>1, TransfersInvariant, PTL
=============================================================================
