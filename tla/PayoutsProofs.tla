--------------------------- MODULE PayoutsProofs ---------------------------
(***************************************************************************)
(* What the program's rounded arithmetic guarantees for every pool, bet    *)
(* and number of winners, and the sums it is about.                        *)
(***************************************************************************)
EXTENDS Payouts, FiniteSets, Functions, FiniteSetTheorems, TLAPS

(***************************************************************************)
(* Sums of natural numbers over a finite set, as SumFunctionOnSet of the   *)
(* community module Functions computes them. The fold is a recursive       *)
(* function; its value is established by counting: the sum of f over S is  *)
(* the number of pairs <<x, i>> with x in S and i in 1..f[x]. That such a  *)
(* recursive function exists, and is unique, is shown with minimal         *)
(* counterexamples among the subsets of S.                                 *)
(***************************************************************************)

Units(f, T) == {p \in T \X Nat : 1 <= p[2] /\ p[2] <= f[p[1]]}

(* A non-empty collection of subsets of a finite set has a minimal one. *)
LEMMA MinimalSubset ==
    ASSUME NEW S, IsFiniteSet(S), NEW B, B \subseteq SUBSET S, B # {}
    PROVE  \E T \in B : \A U \in B : U \subseteq T => U = T
<1>1. IsWellFoundedOn(StrictSubsetOrdering(S), SUBSET S)
  BY FS_StrictSubsetOrderingWellFounded, FS_FiniteSubsetsOfFinite
<1>2. PICK T \in B : \A U \in B : ~(<<U, T>> \in StrictSubsetOrdering(S))
  BY <1>1, WFMin
<1>3. \A U \in B : U \subseteq T => U = T
  BY <1>2 DEF StrictSubsetOrdering
<1> QED BY <1>3

(* Taking one element away takes away its units. *)
LEMMA UnitsStep ==
    ASSUME NEW T, NEW f, NEW x \in T, f[x] \in Nat,
           IsFiniteSet(Units(f, T \ {x}))
    PROVE  /\ IsFiniteSet(Units(f, T))
           /\ Cardinality(Units(f, T)) = f[x] + Cardinality(Units(f, T \ {x}))
<1> DEFINE Rest == Units(f, T \ {x})
           Own == {x} \X (1..f[x])
<1>1. Units(f, T) = Rest \cup Own
  BY DEF Units
<1>2. Rest \cap Own = {}
  BY DEF Units
<1>3. IsFiniteSet({x}) /\ Cardinality({x}) = 1
  BY FS_Singleton
<1>4. IsFiniteSet(1..f[x]) /\ Cardinality(1..f[x]) = f[x]
  BY FS_Interval
<1>5. IsFiniteSet(Own) /\ Cardinality(Own) = f[x]
  <2>1. /\ IsFiniteSet({x} \X (1..f[x]))
        /\ Cardinality({x} \X (1..f[x]))
             = Cardinality({x}) * Cardinality(1..f[x])
    BY <1>3, <1>4, FS_Product, Zenon
  <2>2. 1 * f[x] = f[x]
    OBVIOUS
  <2> QED BY <2>1, <2>2, <1>3, <1>4
<1>6. IsFiniteSet(Rest) /\ Cardinality(Rest) \in Nat
  BY FS_CardinalityType
<1>7. /\ IsFiniteSet(Rest \cup Own)
      /\ Cardinality(Rest \cup Own)
           = Cardinality(Rest) + Cardinality(Own) - Cardinality(Rest \cap Own)
  BY <1>5, <1>6, FS_Union
<1>8. Cardinality(Rest \cap Own) = 0
  BY <1>2, FS_EmptySet
<1> HIDE DEF Rest, Own
<1>9. Cardinality(Rest \cup Own) = f[x] + Cardinality(Rest)
  BY <1>5, <1>6, <1>7, <1>8
<1> QED BY <1>1, <1>7, <1>9 DEF Rest

LEMMA UnitsFinite ==
    ASSUME NEW S, IsFiniteSet(S), NEW f, \A x \in S : f[x] \in Nat,
           NEW T \in SUBSET S
    PROVE  IsFiniteSet(Units(f, T)) /\ Cardinality(Units(f, T)) \in Nat
<1> DEFINE Bad == {U \in SUBSET S : ~IsFiniteSet(Units(f, U))}
<1>1. SUFFICES ASSUME Bad # {} PROVE FALSE
  BY FS_CardinalityType
<1>2. PICK U \in Bad : \A V \in Bad : V \subseteq U => V = U
  <2>1. Bad \subseteq SUBSET S
    OBVIOUS
  <2> HIDE DEF Bad
  <2> QED BY <2>1, <1>1, MinimalSubset
<1>3. U # {}
  <2>1. SUFFICES ASSUME U = {} PROVE FALSE
    OBVIOUS
  <2>2. Units(f, U) = {}
    BY <2>1 DEF Units
  <2> QED BY <2>2, FS_EmptySet
<1>4. PICK x \in U : TRUE
  BY <1>3
<1>5. U \ {x} \notin Bad
  BY <1>2, <1>4
<1>6. IsFiniteSet(Units(f, U \ {x}))
  BY <1>5
<1>7. IsFiniteSet(Units(f, U))
  BY <1>4, <1>6, UnitsStep
<1> QED BY <1>7

(* The recursion by which SumFunctionOnSet is defined. *)
SumRecursion(f, S, sum) ==
    sum = [T \in SUBSET S |->
             IF T = {} THEN 0
             ELSE f[CHOOSE x \in T : TRUE] + sum[T \ {CHOOSE x \in T : TRUE}]]

LEMMA SumUnfolded ==
    ASSUME NEW S, NEW f
    PROVE  SumFunctionOnSet(f, S)
             = (CHOOSE sum : SumRecursion(f, S, sum))[S]
BY DEF SumFunctionOnSet, FoldFunctionOnSet, MapThenFoldSet, SumRecursion

LEMMA SumExists ==
    ASSUME NEW S, IsFiniteSet(S), NEW f, \A x \in S : f[x] \in Nat
    PROVE  SumRecursion(f, S, [T \in SUBSET S |-> Cardinality(Units(f, T))])
<1> DEFINE g == [T \in SUBSET S |-> Cardinality(Units(f, T))]
<1>1. SUFFICES ASSUME NEW T \in SUBSET S
               PROVE g[T] = IF T = {} THEN 0
                            ELSE f[CHOOSE x \in T : TRUE]
                                   + g[T \ {CHOOSE x \in T : TRUE}]
  BY DEF SumRecursion
<1>2. CASE T = {}
  <2>1. Units(f, T) = {}
    BY <1>2 DEF Units
  <2> QED BY <2>1, <1>2, FS_EmptySet
<1>3. CASE T # {}
  <2> DEFINE x == CHOOSE y \in T : TRUE
  <2>1. x \in T
    BY <1>3
  <2>2. IsFiniteSet(Units(f, T \ {x}))
    BY UnitsFinite
  <2> HIDE DEF x
  <2>3. Cardinality(Units(f, T)) = f[x] + Cardinality(Units(f, T \ {x}))
    BY <2>1, <2>2, UnitsStep
  <2>4. T \ {x} \in SUBSET S
    OBVIOUS
  <2>5. g[T] = f[x] + g[T \ {x}]
    BY <2>3, <2>4
  <2> QED BY <2>5, <1>3 DEF x
<1> QED BY <1>2, <1>3

LEMMA SumUnique ==
    ASSUME NEW S, IsFiniteSet(S), NEW f, \A x \in S : f[x] \in Nat,
           NEW g, NEW h, SumRecursion(f, S, g), SumRecursion(f, S, h)
    PROVE  g[S] = h[S]
<1> DEFINE Bad == {T \in SUBSET S : g[T] # h[T]}
<1>1. SUFFICES ASSUME Bad # {} PROVE FALSE
  OBVIOUS
<1>2. PICK T \in Bad : \A U \in Bad : U \subseteq T => U = T
  <2>1. Bad \subseteq SUBSET S
    OBVIOUS
  <2> HIDE DEF Bad
  <2> QED BY <2>1, <1>1, MinimalSubset
<1> DEFINE x == CHOOSE y \in T : TRUE
<1>3. CASE T = {}
  BY <1>2, <1>3 DEF SumRecursion
<1>4. CASE T # {}
  <2>1. x \in T
    BY <1>4
  <2>2. T \ {x} \in SUBSET S /\ T \ {x} # T
    BY <2>1
  <2>3. g[T \ {x}] = h[T \ {x}]
    BY <1>2, <2>2
  <2>4. g[T] = f[x] + g[T \ {x}] /\ h[T] = f[x] + h[T \ {x}]
    BY <1>4 DEF SumRecursion
  <2> QED BY <2>3, <2>4
<1> QED BY <1>3, <1>4

(* The sum counts the units. *)
LEMMA SumCountsUnits ==
    ASSUME NEW S, IsFiniteSet(S), NEW f, \A x \in S : f[x] \in Nat
    PROVE  /\ SumFunctionOnSet(f, S) = Cardinality(Units(f, S))
           /\ SumFunctionOnSet(f, S) \in Nat
<1> DEFINE g == [T \in SUBSET S |-> Cardinality(Units(f, T))]
           h == CHOOSE sum : SumRecursion(f, S, sum)
<1>1. SumRecursion(f, S, g)
  BY SumExists
<1>2. SumRecursion(f, S, h)
  BY <1>1
<1>3. g[S] = h[S]
  <2> HIDE DEF g, h
  <2> QED BY <1>1, <1>2, SumUnique
<1>4. g[S] = Cardinality(Units(f, S))
  OBVIOUS
<1> QED BY <1>3, <1>4, SumUnfolded, UnitsFinite

----------------------------------------------------------------------------
(* What the totals of the model need to know about sums.                   *)

LEMMA SumIsNat ==
    ASSUME NEW S, IsFiniteSet(S), NEW f, \A x \in S : f[x] \in Nat
    PROVE  SumFunctionOnSet(f, S) \in Nat
BY SumCountsUnits

(* Functions that agree on the set have the same sum. *)
LEMMA SumSame ==
    ASSUME NEW S, IsFiniteSet(S), NEW f, NEW g,
           \A x \in S : f[x] \in Nat /\ g[x] = f[x]
    PROVE  SumFunctionOnSet(g, S) = SumFunctionOnSet(f, S)
<1>1. Units(g, S) = Units(f, S)
  BY DEF Units
<1> QED BY <1>1, SumCountsUnits

LEMMA SumOfZeros ==
    ASSUME NEW S, IsFiniteSet(S), NEW f, \A x \in S : f[x] = 0
    PROVE  SumFunctionOnSet(f, S) = 0
<1>1. Units(f, S) = {}
  BY DEF Units
<1>2. SumFunctionOnSet(f, S) = Cardinality(Units(f, S))
  BY SumCountsUnits
<1> QED BY <1>1, <1>2, FS_EmptySet

(* One element can be taken out of the sum. *)
LEMMA SumSplit ==
    ASSUME NEW S, IsFiniteSet(S), NEW f, \A y \in S : f[y] \in Nat,
           NEW x \in S
    PROVE  /\ SumFunctionOnSet(f, S) = f[x] + SumFunctionOnSet(f, S \ {x})
           /\ SumFunctionOnSet(f, S) \in Nat
           /\ SumFunctionOnSet(f, S \ {x}) \in Nat
           /\ f[x] \in Nat
<1>1. IsFiniteSet(S \ {x})
  BY FS_RemoveElement
<1>2. IsFiniteSet(Units(f, S \ {x}))
  BY UnitsFinite
<1>3. Cardinality(Units(f, S)) = f[x] + Cardinality(Units(f, S \ {x}))
  BY <1>2, UnitsStep
<1>4. /\ SumFunctionOnSet(f, S) = Cardinality(Units(f, S))
      /\ SumFunctionOnSet(f, S) \in Nat
  BY SumCountsUnits
<1>5. /\ SumFunctionOnSet(f, S \ {x}) = Cardinality(Units(f, S \ {x}))
      /\ SumFunctionOnSet(f, S \ {x}) \in Nat
  BY <1>1, SumCountsUnits
<1> QED BY <1>3, <1>4, <1>5

(* Changing one element changes the sum by as much. *)
LEMMA SumUpdate ==
    ASSUME NEW S, IsFiniteSet(S), NEW f, NEW g, NEW x \in S,
           \A y \in S : f[y] \in Nat /\ g[y] \in Nat,
           \A y \in S \ {x} : g[y] = f[y]
    PROVE  SumFunctionOnSet(g, S) = SumFunctionOnSet(f, S) + (g[x] - f[x])
<1>1. /\ SumFunctionOnSet(f, S) = f[x] + SumFunctionOnSet(f, S \ {x})
      /\ SumFunctionOnSet(f, S) \in Nat
      /\ SumFunctionOnSet(f, S \ {x}) \in Nat
  BY SumSplit
<1>2. /\ SumFunctionOnSet(g, S) = g[x] + SumFunctionOnSet(g, S \ {x})
      /\ SumFunctionOnSet(g, S) \in Nat
      /\ SumFunctionOnSet(g, S \ {x}) \in Nat
  BY SumSplit
<1>3. IsFiniteSet(S \ {x})
  BY FS_RemoveElement
<1>4. SumFunctionOnSet(g, S \ {x}) = SumFunctionOnSet(f, S \ {x})
  BY <1>3, SumSame
<1>5. f[x] \in Nat /\ g[x] \in Nat
  OBVIOUS
<1> QED BY <1>1, <1>2, <1>4, <1>5

(* No element exceeds the sum. *)
LEMMA SumBoundsElement ==
    ASSUME NEW S, IsFiniteSet(S), NEW f, \A y \in S : f[y] \in Nat,
           NEW x \in S
    PROVE  f[x] <= SumFunctionOnSet(f, S)
<1>1. /\ SumFunctionOnSet(f, S) = f[x] + SumFunctionOnSet(f, S \ {x})
      /\ SumFunctionOnSet(f, S \ {x}) \in Nat
      /\ f[x] \in Nat
  BY SumSplit
<1> QED BY <1>1

LEMMA SumMonotone ==
    ASSUME NEW S, IsFiniteSet(S), NEW f, NEW g,
           \A x \in S : f[x] \in Nat /\ g[x] \in Nat /\ f[x] <= g[x]
    PROVE  SumFunctionOnSet(f, S) <= SumFunctionOnSet(g, S)
<1>1. Units(f, S) \subseteq Units(g, S)
  BY DEF Units
<1>2. IsFiniteSet(Units(g, S))
  BY UnitsFinite
<1>3. Cardinality(Units(f, S)) <= Cardinality(Units(g, S))
  BY <1>1, <1>2, FS_Subset
<1> QED BY <1>3, SumCountsUnits

(* Sums that bound each other element by element, up to a factor: if       *)
(* m * f[x] <= k * g[x] everywhere, then so do the sums.                   *)
LEMMA SumScaledBound ==
    ASSUME NEW S, IsFiniteSet(S), NEW f, NEW g, NEW m \in Nat, NEW k \in Nat,
           \A x \in S : f[x] \in Nat /\ g[x] \in Nat /\ m * f[x] <= k * g[x]
    PROVE  m * SumFunctionOnSet(f, S) <= k * SumFunctionOnSet(g, S)
<1> DEFINE Bad == {T \in SUBSET S : ~(m * SumFunctionOnSet(f, T)
                                        <= k * SumFunctionOnSet(g, T))}
<1>1. SUFFICES ASSUME Bad # {} PROVE FALSE
  OBVIOUS
<1>2. PICK T \in Bad : \A U \in Bad : U \subseteq T => U = T
  <2>1. Bad \subseteq SUBSET S
    OBVIOUS
  <2> HIDE DEF Bad
  <2> QED BY <2>1, <1>1, MinimalSubset
<1>3. IsFiniteSet(T)
  BY FS_Subset
<1>4. CASE T = {}
  <2>1. SumFunctionOnSet(f, T) = 0 /\ SumFunctionOnSet(g, T) = 0
    BY <1>3, <1>4, SumOfZeros
  <2> QED BY <2>1
<1>5. CASE T # {}
  <2>1. PICK x \in T : TRUE
    BY <1>5
  <2> DEFINE F == SumFunctionOnSet(f, T \ {x})
             G == SumFunctionOnSet(g, T \ {x})
  <2>2. m * F <= k * G
    BY <1>2, <2>1
  <2>3. SumFunctionOnSet(f, T) = f[x] + F /\ F \in Nat /\ f[x] \in Nat
    BY <1>3, <2>1, SumSplit
  <2>4. SumFunctionOnSet(g, T) = g[x] + G /\ G \in Nat /\ g[x] \in Nat
    BY <1>3, <2>1, SumSplit
  <2>5. m * f[x] <= k * g[x]
    BY <2>1
  <2>6. ~(m * SumFunctionOnSet(f, T) <= k * SumFunctionOnSet(g, T))
    BY <1>2
  <2> HIDE DEF F, G
  <2>7. m * (f[x] + F) = m * f[x] + m * F /\ k * (g[x] + G) = k * g[x] + k * G
    BY <2>3, <2>4
  <2>8. /\ m * f[x] \in Nat /\ m * F \in Nat
        /\ k * g[x] \in Nat /\ k * G \in Nat
    BY <2>3, <2>4
  <2> QED BY <2>2, <2>3, <2>4, <2>5, <2>6, <2>7, <2>8
<1> QED BY <1>4, <1>5

(* The sum of two functions is the sum of their sums. *)
LEMMA SumOfPairs ==
    ASSUME NEW S, IsFiniteSet(S), NEW f, NEW g, NEW h,
           \A x \in S : f[x] \in Nat /\ g[x] \in Nat /\ h[x] = f[x] + g[x]
    PROVE  SumFunctionOnSet(h, S)
             = SumFunctionOnSet(f, S) + SumFunctionOnSet(g, S)
<1> DEFINE Bad == {T \in SUBSET S : SumFunctionOnSet(h, T) #
                     SumFunctionOnSet(f, T) + SumFunctionOnSet(g, T)}
<1>1. SUFFICES ASSUME Bad # {} PROVE FALSE
  OBVIOUS
<1>2. PICK T \in Bad : \A U \in Bad : U \subseteq T => U = T
  <2>1. Bad \subseteq SUBSET S
    OBVIOUS
  <2> HIDE DEF Bad
  <2> QED BY <2>1, <1>1, MinimalSubset
<1>3. IsFiniteSet(T)
  BY FS_Subset
<1>4. CASE T = {}
  <2>1. /\ SumFunctionOnSet(f, T) = 0
        /\ SumFunctionOnSet(g, T) = 0
        /\ SumFunctionOnSet(h, T) = 0
    BY <1>3, <1>4, SumOfZeros
  <2> QED BY <2>1
<1>5. CASE T # {}
  <2>1. PICK x \in T : TRUE
    BY <1>5
  <2> DEFINE F == SumFunctionOnSet(f, T \ {x})
             G == SumFunctionOnSet(g, T \ {x})
             H == SumFunctionOnSet(h, T \ {x})
  <2>2. H = F + G
    BY <1>2, <2>1
  <2>3. SumFunctionOnSet(f, T) = f[x] + F /\ F \in Nat /\ f[x] \in Nat
    BY <1>3, <2>1, SumSplit
  <2>4. SumFunctionOnSet(g, T) = g[x] + G /\ G \in Nat /\ g[x] \in Nat
    BY <1>3, <2>1, SumSplit
  <2>5. SumFunctionOnSet(h, T) = h[x] + H
    BY <1>3, <2>1, SumSplit
  <2>6. h[x] = f[x] + g[x]
    BY <2>1
  <2> HIDE DEF F, G, H
  <2> QED BY <1>2, <2>2, <2>3, <2>4, <2>5, <2>6
<1> QED BY <1>4, <1>5

(* The sum of marks of 1 counts the marked elements. *)
LEMMA SumOfMarks ==
    ASSUME NEW S, IsFiniteSet(S), NEW f
    PROVE  LET one == [x \in S |-> IF f[x] > 0 THEN 1 ELSE 0]
           IN  /\ SumFunctionOnSet(one, S)
                    = Cardinality({x \in S : f[x] > 0})
               /\ SumFunctionOnSet(one, S) \in Nat
<1> DEFINE one == [x \in S |-> IF f[x] > 0 THEN 1 ELSE 0]
           marked == {x \in S : f[x] > 0}
<1>1. \A x \in S : one[x] \in Nat
  OBVIOUS
<1>2. /\ SumFunctionOnSet(one, S) = Cardinality(Units(one, S))
      /\ SumFunctionOnSet(one, S) \in Nat
  <2> HIDE DEF one
  <2> QED BY <1>1, SumCountsUnits
<1>3. Units(one, S) = marked \X {1}
  BY DEF Units
<1>4. IsFiniteSet(marked)
  BY FS_Subset
<1>5. Cardinality({1}) = 1 /\ IsFiniteSet({1})
  BY FS_Singleton
<1>6. Cardinality(marked \X {1}) = Cardinality(marked) * Cardinality({1})
  <2> HIDE DEF marked
  <2> QED BY <1>4, <1>5, FS_Product, Zenon
<1>7. Cardinality(marked) \in Nat
  BY <1>4, FS_CardinalityType
<1>8. Cardinality(marked) * 1 = Cardinality(marked)
  BY <1>7
<1> QED BY <1>2, <1>3, <1>5, <1>6, <1>8

----------------------------------------------------------------------------
(* The fees and the rewards.                                               *)

LEMMA DivisionBounds ==
    ASSUME NEW a \in Nat, NEW b \in Nat, b > 0
    PROVE  /\ a \div b \in Nat
           /\ b * (a \div b) <= a
           /\ a < b * (a \div b) + b
OBVIOUS

(* The two fees never exceed the pool they are taken from. *)
LEMMA FeesFitThePool ==
    ASSUME NEW pool \in Nat
    PROVE  /\ FeeOf(pool) \in Nat
           /\ 2 * FeeOf(pool) <= pool
           /\ pool - 2 * FeeOf(pool) \in Nat
BY DEF FeeOf

LEMMA RewardIsNat ==
    ASSUME NEW bet \in Nat, NEW winning \in Nat, winning > 0,
           NEW lost \in Nat
    PROVE  RewardOf(bet, winning, lost) \in Nat
<1>1. bet * 100000 \in Nat
  OBVIOUS
<1>2. ShareOf(bet, winning) \in Nat
  BY <1>1, DivisionBounds DEF ShareOf
<1>3. ShareOf(bet, winning) * lost \in Nat
  BY <1>2
<1> QED BY <1>3, DivisionBounds DEF RewardOf

(* A share of the winning pool, and a reward, with what rounding costs. *)
ShareIsRounded(bet, winning) ==
    /\ ShareOf(bet, winning) \in Nat
    /\ winning * ShareOf(bet, winning) <= 100000 * bet
    /\ 100000 * bet < winning * ShareOf(bet, winning) + winning

RewardIsRounded(bet, winning, lost) ==
    /\ RewardOf(bet, winning, lost) \in Nat
    /\ 100000 * RewardOf(bet, winning, lost) <= lost * ShareOf(bet, winning)
    /\ lost * ShareOf(bet, winning)
         < 100000 * RewardOf(bet, winning, lost) + 100000

LEMMA ShareBounds ==
    ASSUME NEW bet \in Nat, NEW winning \in Nat, winning > 0
    PROVE  ShareIsRounded(bet, winning)
<1>1. bet * 100000 \in Nat /\ bet * 100000 = 100000 * bet
  OBVIOUS
<1> QED BY <1>1, DivisionBounds DEF ShareOf, ShareIsRounded

LEMMA RewardBounds ==
    ASSUME NEW bet \in Nat, NEW winning \in Nat, winning > 0,
           NEW lost \in Nat
    PROVE  RewardIsRounded(bet, winning, lost)
<1> DEFINE share == ShareOf(bet, winning)
<1>1. share \in Nat
  BY ShareBounds DEF ShareIsRounded
<1>2. share * lost \in Nat /\ share * lost = lost * share
  BY <1>1
<1>3. RewardOf(bet, winning, lost) = (share * lost) \div 100000
  BY DEF RewardOf
<1> HIDE DEF share
<1>4. /\ (share * lost) \div 100000 \in Nat
      /\ 100000 * ((share * lost) \div 100000) <= share * lost
      /\ share * lost < 100000 * ((share * lost) \div 100000) + 100000
  BY <1>2, DivisionBounds
<1> QED BY <1>2, <1>3, <1>4 DEF share, RewardIsRounded

(***************************************************************************)
(* However many winners there are and whatever they bet, the rewards that  *)
(* claim_rewards computes for all of them together never exceed the losing *)
(* pool, provided that the winning pool is the sum of their bets.          *)
(***************************************************************************)
THEOREM RewardsNeverExceedThePool ==
    ASSUME NEW S, IsFiniteSet(S), NEW bet, \A x \in S : bet[x] \in Nat,
           NEW winning \in Nat, winning > 0,
           winning = SumFunctionOnSet(bet, S),
           NEW lost \in Nat
    PROVE  SumFunctionOnSet([x \in S |-> RewardOf(bet[x], winning, lost)], S)
             <= lost
<1> DEFINE share == [x \in S |-> ShareOf(bet[x], winning)]
           reward == [x \in S |-> RewardOf(bet[x], winning, lost)]
           shares == SumFunctionOnSet(share, S)
           rewards == SumFunctionOnSet(reward, S)
<1>1. \A x \in S : /\ share[x] \in Nat
                   /\ winning * share[x] <= 100000 * bet[x]
  <2>1. TAKE x \in S
  <2>2. bet[x] * 100000 \in Nat
    OBVIOUS
  <2>3. winning * ((bet[x] * 100000) \div winning) <= bet[x] * 100000
    BY <2>2, DivisionBounds
  <2>4. (bet[x] * 100000) \div winning \in Nat
    BY <2>2, DivisionBounds
  <2> QED BY <2>3, <2>4 DEF ShareOf
<1>2. \A x \in S : /\ reward[x] \in Nat
                   /\ 100000 * reward[x] <= lost * share[x]
  <2>1. TAKE x \in S
  <2>2. share[x] * lost \in Nat
    BY <1>1
  <2>3. /\ 100000 * ((share[x] * lost) \div 100000) <= share[x] * lost
        /\ (share[x] * lost) \div 100000 \in Nat
    BY <2>2, DivisionBounds
  <2>4. share[x] * lost = lost * share[x]
    BY <1>1
  <2>5. reward[x] = (share[x] * lost) \div 100000
    BY DEF RewardOf
  <2> QED BY <2>3, <2>4, <2>5
<1> HIDE DEF share, reward
<1>3. shares \in Nat /\ rewards \in Nat
  BY <1>1, <1>2, SumIsNat
<1>4. winning * shares <= 100000 * winning
  BY <1>1, SumScaledBound
<1>5. 100000 * rewards <= lost * shares
  BY <1>1, <1>2, SumScaledBound
<1> HIDE DEF shares, rewards
<1>6. shares <= 100000
  <2>1. SUFFICES ASSUME shares >= 100001 PROVE FALSE
    BY <1>3
  <2>2. winning * shares >= winning * 100001
    BY <1>3, <2>1
  <2> QED BY <1>3, <1>4, <2>2
<1>7. lost * shares <= lost * 100000
  BY <1>3, <1>6
<1>8. rewards <= lost
  BY <1>3, <1>5, <1>7
<1> QED BY <1>8 DEF rewards, reward

(* While the pools, in units of 1/100000, fit a u64, no product exceeds it.*)
LEMMA BoundedRewardFits ==
    ASSUME NEW bet \in Nat, NEW winning \in Nat, NEW lost \in Nat,
           0 < bet, bet <= winning,
           winning <= MaxU64 \div 100000, lost <= MaxU64 \div 100000
    PROVE  RewardFits(bet, winning, lost)
<1> DEFINE share == ShareOf(bet, winning)
           largest == MaxU64 \div 100000
<1>1. largest \in Nat /\ 100000 * largest <= MaxU64 /\ MaxU64 \in Nat
  BY MaxU64Assumption, DivisionBounds
<1>2. share \in Nat /\ winning * share <= 100000 * bet
  <2>1. winning > 0
    OBVIOUS
  <2>2. ShareIsRounded(bet, winning)
    BY <2>1, ShareBounds
  <2> QED BY <2>2 DEF ShareIsRounded
<1> HIDE DEF share, largest
<1>3. share <= 100000
  <2>1. SUFFICES ASSUME share >= 100001 PROVE FALSE
    BY <1>2
  <2>2. winning * share >= winning * 100001
    BY <1>2, <2>1
  <2> QED BY <1>2, <2>2
<1>4. bet * 100000 <= MaxU64
  <2>1. winning <= largest
    BY DEF largest
  <2> QED BY <1>1, <2>1
<1>5. share * lost <= MaxU64
  <2>1. lost <= largest
    BY DEF largest
  <2>2. share * lost <= 100000 * lost
    BY <1>2, <1>3
  <2> QED BY <1>1, <1>2, <2>1, <2>2
<1> QED BY <1>4, <1>5, SMT DEF RewardFits, share

LEMMA NoBetNoReward ==
    ASSUME NEW winning \in Nat, winning > 0, NEW lost \in Nat
    PROVE  RewardOf(0, winning, lost) = 0
<1> DEFINE share == ShareOf(0, winning)
           reward == RewardOf(0, winning, lost)
<1>1. share \in Nat /\ winning * share <= 100000 * 0
  BY ShareBounds DEF ShareIsRounded
<1>2. reward \in Nat /\ 100000 * reward <= lost * share
  BY RewardBounds DEF RewardIsRounded
<1> HIDE DEF share, reward
<1>3. share = 0
  <2>1. SUFFICES ASSUME share >= 1 PROVE FALSE
    BY <1>1
  <2>2. winning * share >= winning
    BY <1>1, <2>1, SMT
  <2> QED BY <1>1, <2>2, SMT
<1>4. reward = 0
  BY <1>2, <1>3, SMT
<1> QED BY <1>4 DEF reward

(***************************************************************************)
(* However many winners there are, the rewards of all of them together     *)
(* miss the losing pool by less than one unit and 1/100000 of that pool for*)
(* each of them.                                                           *)
(***************************************************************************)
THEOREM RewardsMissLittle ==
    ASSUME NEW S, IsFiniteSet(S), NEW bet, \A x \in S : bet[x] \in Nat,
           NEW winning \in Nat, winning > 0,
           winning = SumFunctionOnSet(bet, S),
           NEW lost \in Nat
    PROVE  100000 * lost
             < 100000 * SumFunctionOnSet(
                          [x \in S |-> RewardOf(bet[x], winning, lost)], S)
               + Cardinality({x \in S : bet[x] > 0}) * (lost + 100000)
<1> DEFINE share == [x \in S |-> ShareOf(bet[x], winning)]
           reward == [x \in S |-> RewardOf(bet[x], winning, lost)]
           one == [x \in S |-> IF bet[x] > 0 THEN 1 ELSE 0]
           upShare == [x \in S |-> share[x] + one[x]]
           upReward == [x \in S |-> reward[x] + one[x]]
           scaled == [x \in S |-> lost * share[x] + one[x]]
           lostShare == [x \in S |-> lost * share[x]]
           n == SumFunctionOnSet(one, S)
           shares == SumFunctionOnSet(share, S)
           rewards == SumFunctionOnSet(reward, S)
<1>0. \A x \in S : /\ ShareIsRounded(bet[x], winning)
                   /\ RewardIsRounded(bet[x], winning, lost)
  BY ShareBounds, RewardBounds
<1>1. \A x \in S : one[x] \in Nat
  OBVIOUS
<1>2. \A x \in S : /\ share[x] \in Nat
                   /\ 100000 * bet[x] <= winning * (share[x] + one[x])
  <2>1. TAKE x \in S
  <2>2. /\ ShareOf(bet[x], winning) \in Nat
        /\ winning * ShareOf(bet[x], winning) <= 100000 * bet[x]
        /\ 100000 * bet[x] < winning * ShareOf(bet[x], winning) + winning
    BY <1>0 DEF ShareIsRounded
  <2>3. share[x] = ShareOf(bet[x], winning)
    OBVIOUS
  <2> HIDE DEF share
  <2>4. CASE bet[x] > 0
    <3>1. one[x] = 1
      BY <2>4
    <3>2. winning * (share[x] + 1) = winning * share[x] + winning
      BY <2>2, <2>3
    <3> HIDE DEF one
    <3> QED BY <2>2, <2>3, <3>1, <3>2
  <2>5. CASE bet[x] = 0
    <3>1. one[x] = 0
      BY <2>5
    <3> HIDE DEF one
    <3>2. winning * (share[x] + 0) \in Nat
      BY <2>2, <2>3
    <3> QED BY <2>2, <2>3, <2>5, <3>1, <3>2
  <2> QED BY <2>4, <2>5
<1>3. \A x \in S : /\ reward[x] \in Nat
                   /\ lost * share[x] + one[x]
                        <= 100000 * (reward[x] + one[x])
  <2>1. TAKE x \in S
  <2>2. /\ RewardOf(bet[x], winning, lost) \in Nat
        /\ 100000 * RewardOf(bet[x], winning, lost)
             <= lost * ShareOf(bet[x], winning)
        /\ lost * ShareOf(bet[x], winning)
             < 100000 * RewardOf(bet[x], winning, lost) + 100000
    BY <1>0 DEF RewardIsRounded
  <2>3. /\ share[x] = ShareOf(bet[x], winning)
        /\ reward[x] = RewardOf(bet[x], winning, lost)
    OBVIOUS
  <2>4. share[x] \in Nat /\ lost * share[x] \in Nat
    BY <1>2
  <2> HIDE DEF share, reward
  <2>5. CASE bet[x] > 0
    <3>1. one[x] = 1
      BY <2>5
    <3> HIDE DEF one
    <3> QED BY <2>2, <2>3, <2>4, <3>1
  <2>6. CASE bet[x] = 0
    <3>1. one[x] = 0
      BY <2>6
    <3>2. winning * share[x] <= 100000 * bet[x]
      BY <1>0, <2>3 DEF ShareIsRounded
    <3>3. share[x] = 0
      <4>1. SUFFICES ASSUME share[x] >= 1 PROVE FALSE
        BY <2>4
      <4>2. winning * share[x] >= winning
        BY <2>4, <4>1, SMT
      <4>3. 100000 * bet[x] = 0
        BY <2>6, SMT
      <4>4. winning * share[x] \in Nat
        BY <2>4, SMT
      <4> QED BY <3>2, <4>2, <4>3, <4>4, SMT
    <3> HIDE DEF one
    <3> QED BY <2>2, <2>3, <3>1, <3>3
  <2> QED BY <2>5, <2>6
<1>4. n = Cardinality({x \in S : bet[x] > 0}) /\ n \in Nat
  BY SumOfMarks
<1> HIDE DEF share, reward, one
<1>5. shares \in Nat /\ rewards \in Nat
  BY <1>2, <1>3, SumIsNat
<1>6. SumFunctionOnSet(upShare, S) = shares + n
  BY <1>1, <1>2, SumOfPairs
<1>7. SumFunctionOnSet(upReward, S) = rewards + n
  BY <1>1, <1>3, SumOfPairs
<1>8. 100000 * winning <= winning * (shares + n)
  <2>1. \A x \in S : /\ bet[x] \in Nat /\ upShare[x] \in Nat
                     /\ 100000 * bet[x] <= winning * upShare[x]
    BY <1>1, <1>2
  <2> HIDE DEF upShare
  <2>2. 100000 * SumFunctionOnSet(bet, S)
          <= winning * SumFunctionOnSet(upShare, S)
    BY <2>1, SumScaledBound
  <2> QED BY <1>6, <2>2
<1>9. 100000 <= shares + n
  <2>1. SUFFICES ASSUME shares + n <= 99999 PROVE FALSE
    BY <1>4, <1>5
  <2>2. winning * (shares + n) <= winning * 99999
    BY <1>4, <1>5, <2>1
  <2> QED BY <1>4, <1>5, <1>8, <2>2
<1>10. lost * shares + n <= 100000 * (rewards + n)
  <2>1. \A x \in S : /\ lostShare[x] \in Nat
                     /\ scaled[x] = lostShare[x] + one[x]
    BY <1>1, <1>2
  <2>2. \A x \in S : /\ scaled[x] \in Nat /\ upReward[x] \in Nat
                     /\ 1 * scaled[x] <= 100000 * upReward[x]
    BY <1>1, <1>2, <1>3
  <2>3. \A x \in S : lost * share[x] <= 1 * lostShare[x]
                     /\ lostShare[x] \in Nat /\ share[x] \in Nat
    BY <1>2
  <2> HIDE DEF scaled, upReward, lostShare
  <2>4. SumFunctionOnSet(scaled, S) = SumFunctionOnSet(lostShare, S) + n
    BY <1>1, <2>1, SumOfPairs
  <2>5. 1 * SumFunctionOnSet(scaled, S)
          <= 100000 * SumFunctionOnSet(upReward, S)
    BY <2>2, SumScaledBound
  <2>6. lost * shares <= 1 * SumFunctionOnSet(lostShare, S)
    BY <2>3, SumScaledBound
  <2>7. SumFunctionOnSet(lostShare, S) \in Nat
    BY <2>3, SumIsNat
  <2>8. lost * shares \in Nat
    BY <1>5
  <2> QED BY <1>4, <1>5, <1>7, <2>4, <2>5, <2>6, <2>7, <2>8
<1> HIDE DEF n, shares, rewards
<1>11. n > 0
  <2>1. SUFFICES ASSUME n = 0 PROVE FALSE
    BY <1>4
  <2>2. SumFunctionOnSet(bet, S) = 0
    <3>1. ASSUME NEW x \in S, bet[x] > 0 PROVE FALSE
      <4>1. one[x] <= SumFunctionOnSet(one, S)
        BY <1>1, SumBoundsElement
      <4>2. one[x] = 1
        BY <3>1 DEF one
      <4> QED BY <2>1, <4>1, <4>2 DEF n
    <3>2. \A x \in S : bet[x] = 0
      BY <3>1
    <3> QED BY <3>2, SumOfZeros
  <2> QED BY <2>2
<1>12. lost * 100000 <= lost * (shares + n)
  BY <1>4, <1>5, <1>9
<1>13. lost * (shares + n) = lost * shares + lost * n
  BY <1>4, <1>5
<1>14. n * (lost + 100000) = lost * n + 100000 * n
  BY <1>4
<1>15. lost * shares \in Nat /\ lost * n \in Nat
  BY <1>4, <1>5
<1>16. 100000 * lost < 100000 * rewards + n * (lost + 100000)
  BY <1>4, <1>5, <1>10, <1>11, <1>12, <1>13, <1>14, <1>15
<1> QED BY <1>4, <1>16 DEF rewards, reward
=============================================================================
