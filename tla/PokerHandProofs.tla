--------------------------- MODULE PokerHandProofs ---------------------------
(***************************************************************************)
(* Proofs about PokerHand, for every number of seats, stacks and settings. *)
(*                                                                         *)
(* First the arithmetic of Pots: the largest element of a finite set of    *)
(* amounts exists, sums are natural numbers, the pots have the type of the *)
(* code's Pot, and they hold all that was paid in: each level of the pots  *)
(* takes a piece of every seat's chips, and the pieces of one seat cover   *)
(* what it paid without overlapping.  Then the hand.                       *)
(***************************************************************************)
EXTENDS PokerHand, TLAPS, FiniteSetTheorems

-----------------------------------------------------------------------------
(* Pots *)

(***************************************************************************)
(* The image of a finite set is finite.  The code only ever scans the list *)
(* of players, so every collection it computes is such an image.           *)
(***************************************************************************)
LEMMA ImageFinite ==
  ASSUME NEW S, IsFiniteSet(S), NEW f
  PROVE  IsFiniteSet({f[s] : s \in S})
<1> DEFINE T == {f[s] : s \in S}
           g == [s \in S |-> f[s]]
<1>1. g \in Surjection(S, T)
  BY DEF Surjection
<1> QED BY <1>1, FS_Surjection

(***************************************************************************)
(* A finite nonempty set of numbers has a largest element, and Max is it.  *)
(***************************************************************************)
LEMMA MaxOfFinite ==
  ASSUME NEW S, S \subseteq Int, IsFiniteSet(S), S # {}
  PROVE  Max(S) \in S /\ \A y \in S : y <= Max(S)
<1> DEFINE Above(x) == {y \in S : x < y}
           F == {Above(x) : x \in S}
<1>1. F \subseteq FiniteSubsetsOf(S) /\ F # {}
  <2>1. FiniteSubsetsOf(S) = SUBSET S
    BY FS_FiniteSubsetsOfFinite
  <2>2. F \subseteq SUBSET S
    OBVIOUS
  <2>3. PICK x \in S : TRUE
    OBVIOUS
  <2>4. Above(x) \in F
    OBVIOUS
  <2> HIDE DEF F
  <2> QED BY <2>1, <2>2, <2>4
<1>2. PICK A \in F : \A B \in F : <<B, A>> \notin StrictSubsetOrdering(S)
  <2>1. IsWellFoundedOn(StrictSubsetOrdering(S), FiniteSubsetsOf(S))
    BY FS_StrictSubsetOrderingWellFounded
  <2> HIDE DEF F
  <2> QED BY <1>1, <2>1, WFMin
<1>3. PICK x \in S : A = Above(x)
  OBVIOUS
<1>4. \A y \in S : y <= x
  <2>1. SUFFICES ASSUME NEW y \in S, x < y PROVE FALSE
    OBVIOUS
  <2>2. Above(y) \subseteq Above(x)
    <3>1. SUFFICES ASSUME NEW z \in S, y < z PROVE x < z
      OBVIOUS
    <3>2. x \in Int /\ y \in Int /\ z \in Int
      OBVIOUS
    <3> QED BY <2>1, <3>1, <3>2
  <2>3. y \in Above(x) /\ y \notin Above(y)
    BY <2>1
  <2>4. <<Above(y), A>> \in StrictSubsetOrdering(S)
    <3>1. Above(x) \in SUBSET S /\ Above(y) \in SUBSET S
      OBVIOUS
    <3> HIDE DEF Above
    <3> QED BY <1>3, <2>2, <2>3, <3>1 DEF StrictSubsetOrdering
  <2> QED BY <1>2, <2>4
<1>5. \E z \in S : \A y \in S : z >= y
  BY <1>4
<1> HIDE DEF Above, F
<1>6. Max(S) \in S /\ \A y \in S : Max(S) >= y
  BY <1>5 DEF Max
<1> QED BY <1>6

(***************************************************************************)
(* A sum of amounts is a natural number.                                   *)
(***************************************************************************)
LEMMA TotalType ==
  ASSUME NEW f, IsFiniteSet(DOMAIN f), \A s \in DOMAIN f : f[s] \in Int
  PROVE  Total(f) \in Nat
<1> DEFINE chips == [s \in DOMAIN f |-> {s} \X (1 .. f[s])]
           C == {chips[s] : s \in DOMAIN f}
<1>1. IsFiniteSet(C)
  <2> HIDE DEF chips
  <2> QED BY ImageFinite
<1>2. \A T \in C : IsFiniteSet(T)
  <2>1. SUFFICES ASSUME NEW s \in DOMAIN f
                 PROVE IsFiniteSet({s} \X (1 .. f[s]))
    OBVIOUS
  <2>2. IsFiniteSet({s})
    BY FS_Singleton, Zenon
  <2>3. IsFiniteSet(1 .. f[s])
    BY FS_Interval
  <2> QED BY <2>2, <2>3, FS_Product
<1>3. Chips(f) = UNION C
  BY DEF Chips
<1> QED BY <1>1, <1>2, <1>3, FS_UNION, FS_CardinalityType DEF Total

-----------------------------------------------------------------------------
(* A contribution table of finitely many seats *)

IsTable(P) == IsFiniteSet(DOMAIN P) /\ \A s \in DOMAIN P : P[s].total \in Nat

\* The largest of finitely many bets or totals, 0 if there is none.
LEMMA LargestAmount ==
  ASSUME NEW S, IsFiniteSet(S), NEW f, \A s \in S : f[s] \in Nat
  PROVE  LET M == Max({0} \cup {f[s] : s \in S})
         IN  M \in Nat /\ \A s \in S : f[s] <= M
<1> DEFINE F == {f[s] : s \in S}
           T == {0} \cup F
<1>1. F \subseteq Nat
  OBVIOUS
<1>2. IsFiniteSet(F)
  BY ImageFinite
<1>3. IsFiniteSet({0})
  BY FS_Singleton, Zenon
<1>4. \A s \in S : f[s] \in T
  OBVIOUS
<1> HIDE DEF F
<1>5. T \subseteq Nat /\ T \subseteq Int /\ T # {}
  BY <1>1
<1>6. IsFiniteSet(T)
  BY <1>2, <1>3, FS_Union
<1> HIDE DEF T
<1>7. Max(T) \in T /\ \A y \in T : y <= Max(T)
  BY <1>5, <1>6, MaxOfFinite
<1>8. Max(T) \in Nat /\ \A s \in S : f[s] <= Max(T)
  BY <1>4, <1>5, <1>7
<1> QED BY <1>8 DEF T, F

\* The levels of a table are finitely many amounts.
LEMMA LevelsType ==
  ASSUME NEW P, IsTable(P)
  PROVE  Levels(P) \subseteq Nat /\ IsFiniteSet(Levels(P))
<1> DEFINE f == [s \in DOMAIN P |-> P[s].total]
           A == {t \in LiveIn(P) : P[t].allIn /\ P[t].total > 0}
<1>1. IsFiniteSet(LiveIn(P)) /\ IsFiniteSet(A)
  <2>1. LiveIn(P) \in SUBSET DOMAIN P /\ A \in SUBSET DOMAIN P
    BY DEF LiveIn
  <2> QED BY <2>1, FS_Subset DEF IsTable
<1>2. \A s \in LiveIn(P) : f[s] = P[s].total /\ f[s] \in Nat
  BY DEF IsTable, LiveIn
<1>3. MaxLive(P) \in Nat
  <2>1. {P[s].total : s \in LiveIn(P)} = {f[s] : s \in LiveIn(P)}
    BY <1>2
  <2> HIDE DEF f
  <2> QED BY <1>1, <1>2, <2>1, LargestAmount DEF MaxLive
<1>4. IsFiniteSet({f[s] : s \in A})
  <2> HIDE DEF f, A
  <2> QED BY <1>1, ImageFinite
<1>5. {P[s].total : s \in A} = {f[s] : s \in A}
  BY DEF LiveIn
<1>6. {f[s] : s \in A} \subseteq Nat
  BY <1>2
<1>7. IsFiniteSet({MaxLive(P)})
  BY FS_Singleton, Zenon
<1>8. Levels(P) = {f[s] : s \in A} \cup {MaxLive(P)}
  BY <1>5 DEF Levels
<1> HIDE DEF f, A
<1> QED BY <1>3, <1>4, <1>6, <1>7, <1>8, FS_Union

\* The next level down is an amount.
LEMMA BelowType ==
  ASSUME NEW P, IsTable(P), NEW level
  PROVE  Below(P, level) \in Nat
<1> DEFINE S == {l \in Levels(P) : l < level}
           id == [l \in S |-> l]
<1>1. Levels(P) \subseteq Nat /\ IsFiniteSet(Levels(P))
  BY LevelsType
<1>2. S \in SUBSET Levels(P)
  OBVIOUS
<1>3. IsFiniteSet(S) /\ S \subseteq Nat
  BY <1>1, <1>2, FS_Subset
<1>4. S = {id[l] : l \in S} /\ \A l \in S : id[l] \in Nat
  BY <1>3
<1>5. Max({0} \cup {id[l] : l \in S}) \in Nat
  <2> HIDE DEF S, id
  <2> QED BY <1>3, <1>4, LargestAmount
<1> QED BY <1>4, <1>5 DEF Below

\* The chips of a level are an amount.
LEMMA SliceType ==
  ASSUME NEW P, IsTable(P), NEW level \in Nat
  PROVE  Slice(P, level) \in Nat
<1> DEFINE f == [s \in DOMAIN P |->
                   Min2(P[s].total, level) - Min2(P[s].total, Below(P, level))]
<1>1. Below(P, level) \in Nat
  BY BelowType
<1>2. \A s \in DOMAIN f : f[s] \in Int
  BY <1>1 DEF Min2, IsTable
<1>3. DOMAIN f = DOMAIN P /\ Slice(P, level) = Total(f)
  BY DEF Slice
<1> HIDE DEF f
<1> QED BY <1>2, <1>3, TotalType DEF IsTable

(***************************************************************************)
(* buildPots returns amounts and seats of the table it was given.          *)
(***************************************************************************)
IsPots(pots, seats) ==
  /\ DOMAIN pots \subseteq Nat /\ IsFiniteSet(DOMAIN pots)
  /\ \A l \in DOMAIN pots :
       pots[l].amount \in Int /\ pots[l].eligible \subseteq seats

\* The pots together are an amount.
LEMMA AmountsType ==
  ASSUME NEW pots, NEW seats, IsPots(pots, seats)
  PROVE  Total(AmountsOf(pots)) \in Nat
<1>1. DOMAIN AmountsOf(pots) = DOMAIN pots
  BY DEF AmountsOf
<1>2. \A l \in DOMAIN AmountsOf(pots) : AmountsOf(pots)[l] \in Int
  BY DEF AmountsOf, IsPots
<1> QED BY <1>1, <1>2, TotalType DEF IsPots

\* buildPots gives pots of the code's type.
LEMMA BuildPotsType ==
  ASSUME NEW P, IsTable(P)
  PROVE  IsPots(BuildPots(P), DOMAIN P)
<1> DEFINE sliced == Sliced(P)
           rest   == Contributed(P) - Total(AmountsOf(sliced))
<1>1. IsPots(sliced, DOMAIN P)
  <2>1. DOMAIN sliced \in SUBSET Levels(P)
    BY DEF Sliced
  <2>2. DOMAIN sliced \subseteq Nat /\ IsFiniteSet(DOMAIN sliced)
    BY <2>1, LevelsType, FS_Subset
  <2>3. ASSUME NEW l \in DOMAIN sliced
        PROVE  sliced[l].amount \in Int /\ sliced[l].eligible \subseteq DOMAIN P
    <3>1. sliced[l] = [amount |-> Slice(P, l), eligible |-> EligibleAt(P, l)]
      BY DEF Sliced
    <3>2. Slice(P, l) \in Nat
      BY <2>2, SliceType
    <3> QED BY <3>1, <3>2 DEF EligibleAt, LiveIn
  <2> QED BY <2>2, <2>3 DEF IsPots
<1>2. rest \in Int
  <2> DEFINE f == [s \in DOMAIN P |-> P[s].total]
  <2>1. DOMAIN f = DOMAIN P /\ \A s \in DOMAIN f : f[s] \in Int
    BY DEF IsTable
  <2>2. Contributed(P) = Total(f)
    BY DEF Contributed
  <2>3. Total(f) \in Nat
    <3> HIDE DEF f
    <3> QED BY <2>1, TotalType DEF IsTable
  <2>4. Total(AmountsOf(sliced)) \in Nat
    BY <1>1, AmountsType
  <2> QED BY <2>2, <2>3, <2>4
<1> HIDE DEF sliced, rest
<1>3. BuildPots(P) =
        IF rest = 0 THEN sliced
        ELSE IF DOMAIN sliced = {}
             THEN [l \in {0} |-> [amount |-> rest, eligible |-> LiveIn(P)]]
             ELSE [sliced EXCEPT ![Max(DOMAIN sliced)].amount = @ + rest]
  BY DEF BuildPots, sliced, rest
<1>4. CASE rest = 0
  BY <1>1, <1>3, <1>4
<1>5. CASE rest # 0 /\ DOMAIN sliced = {}
  <2> DEFINE one == [l \in {0} |-> [amount |-> rest, eligible |-> LiveIn(P)]]
  <2>1. BuildPots(P) = one
    BY <1>3, <1>5
  <2>2. DOMAIN one = {0} /\ IsFiniteSet({0})
    BY FS_Singleton, Zenon
  <2>3. one[0].amount = rest /\ one[0].eligible \subseteq DOMAIN P
    BY DEF LiveIn
  <2> HIDE DEF one
  <2>4. DOMAIN one \subseteq Nat
    BY <2>2
  <2> QED BY <1>2, <2>1, <2>2, <2>3, <2>4 DEF IsPots
<1>6. CASE rest # 0 /\ DOMAIN sliced # {}
  <2> DEFINE m == Max(DOMAIN sliced)
             topped == [sliced EXCEPT ![m].amount = @ + rest]
  <2>1. BuildPots(P) = topped
    BY <1>3, <1>6
  <2>2. m \in DOMAIN sliced
    BY <1>1, <1>6, MaxOfFinite DEF IsPots
  <2> HIDE DEF m
  <2>3. DOMAIN topped = DOMAIN sliced
    OBVIOUS
  <2>4. ASSUME NEW l \in DOMAIN sliced
        PROVE  topped[l].amount \in Int /\ topped[l].eligible \subseteq DOMAIN P
    <3>1. CASE l # m
      BY <1>1, <3>1 DEF IsPots
    <3>2. CASE l = m
      <4>1. topped[l] = [sliced[m] EXCEPT !.amount = @ + rest]
        BY <3>2, <2>2
      <4>2. sliced[m].amount \in Int /\ sliced[m].eligible \subseteq DOMAIN P
        BY <1>1, <2>2 DEF IsPots
      <4>3. sliced[m] = [amount |-> Slice(P, m), eligible |-> EligibleAt(P, m)]
        BY <2>2 DEF sliced, Sliced
      <4> QED BY <1>2, <4>1, <4>2, <4>3
    <3> QED BY <3>1, <3>2
  <2> HIDE DEF topped
  <2> QED BY <1>1, <2>1, <2>3, <2>4 DEF IsPots
<1> QED BY <1>4, <1>5, <1>6

-----------------------------------------------------------------------------
(* Sums over finite sets *)

(***************************************************************************)
(* Induction over the subsets of a finite set, with the property given as  *)
(* the set of subsets that have it.                                        *)
(***************************************************************************)
LEMMA SubsetInduction ==
  ASSUME NEW S, IsFiniteSet(S), NEW F, {} \in F,
         \A T \in SUBSET S : \A x \in S \ T : T \in F => T \cup {x} \in F
  PROVE  S \in F
<1> DEFINE G == {T \in SUBSET S : T \notin F}
<1>1. SUFFICES ASSUME S \notin F PROVE FALSE
  OBVIOUS
<1>2. G \subseteq FiniteSubsetsOf(S) /\ G # {}
  <2>1. FiniteSubsetsOf(S) = SUBSET S
    BY FS_FiniteSubsetsOfFinite
  <2> QED BY <1>1, <2>1
<1>3. PICK A \in G : \A B \in G : <<B, A>> \notin StrictSubsetOrdering(S)
  <2>1. IsWellFoundedOn(StrictSubsetOrdering(S), FiniteSubsetsOf(S))
    BY FS_StrictSubsetOrderingWellFounded
  <2> HIDE DEF G
  <2> QED BY <1>2, <2>1, WFMin
<1>4. PICK x \in A : TRUE
  BY <1>3
<1> DEFINE B == A \ {x}
<1>5. B \in SUBSET S /\ A \in SUBSET S /\ B \subseteq A /\ B # A
      /\ x \in S \ B /\ B \cup {x} = A
  BY <1>3, <1>4
<1> HIDE DEF B
<1>6. <<B, A>> \in StrictSubsetOrdering(S)
  BY <1>5 DEF StrictSubsetOrdering
<1>7. B \in F
  BY <1>3, <1>5, <1>6
<1> QED BY <1>3, <1>5, <1>7

\* f is a table of amounts on a finite set.
IsAmounts(f, S) ==
  /\ IsFiniteSet(S) /\ DOMAIN f = S /\ \A s \in S : f[s] \in Nat

\* Only the values count.
LEMMA TotalOfSame ==
  ASSUME NEW f, NEW k, DOMAIN f = DOMAIN k, \A s \in DOMAIN f : f[s] = k[s]
  PROVE  Total(f) = Total(k)
<1>1. {{s} \X (1 .. f[s]) : s \in DOMAIN f} = {{s} \X (1 .. k[s]) : s \in DOMAIN k}
  OBVIOUS
<1> QED BY <1>1 DEF Total, Chips

\* Nobody together has no chips.
LEMMA TotalOfNone ==
  ASSUME NEW f, DOMAIN f = {}
  PROVE  Total(f) = 0
<1>1. Chips(f) = {}
  BY DEF Chips
<1> QED BY <1>1, FS_EmptySet DEF Total

\* Finitely many seats have finitely many chips between them.
LEMMA ChipsFinite ==
  ASSUME NEW f, NEW S, IsAmounts(f, S)
  PROVE  IsFiniteSet(Chips(f)) /\ Total(f) \in Nat
<1> DEFINE chips == [s \in S |-> {s} \X (1 .. f[s])]
           C == {chips[s] : s \in S}
<1>1. IsFiniteSet(C)
  <2> HIDE DEF chips
  <2> QED BY ImageFinite DEF IsAmounts
<1>2. \A T \in C : IsFiniteSet(T)
  <2>1. SUFFICES ASSUME NEW s \in S PROVE IsFiniteSet({s} \X (1 .. f[s]))
    OBVIOUS
  <2>2. IsFiniteSet({s})
    BY FS_Singleton, Zenon
  <2>3. IsFiniteSet(1 .. f[s])
    <3>1. f[s] \in Int
      BY DEF IsAmounts
    <3> QED BY <3>1, FS_Interval
  <2> QED BY <2>2, <2>3, FS_Product
<1>3. Chips(f) = UNION C
  BY DEF Chips, IsAmounts
<1> QED BY <1>1, <1>2, <1>3, FS_UNION, FS_CardinalityType DEF Total

\* The sum without x, and x.
LEMMA TotalSplit ==
  ASSUME NEW f, NEW S, IsAmounts(f, S), NEW x \in S
  PROVE  /\ IsAmounts([s \in S \ {x} |-> f[s]], S \ {x})
         /\ Total(f) = f[x] + Total([s \in S \ {x} |-> f[s]])
<1> DEFINE r == [s \in S \ {x} |-> f[s]]
           X == {x} \X (1 .. f[x])
<1>1. IsAmounts(r, S \ {x})
  <2>1. IsFiniteSet(S \ {x})
    BY FS_RemoveElement DEF IsAmounts
  <2> QED BY <2>1 DEF IsAmounts
<1>2. f[x] \in Nat
  BY DEF IsAmounts
<1>3. IsFiniteSet(X) /\ Cardinality(X) = f[x]
  <2>1. IsFiniteSet({x}) /\ Cardinality({x}) = 1
    BY FS_Singleton, Zenon
  <2>2. IsFiniteSet(1 .. f[x]) /\ Cardinality(1 .. f[x]) = f[x]
    BY <1>2, FS_Interval
  <2>3. IsFiniteSet(X) /\ Cardinality(X) = Cardinality({x}) * Cardinality(1 .. f[x])
    BY <2>1, <2>2, FS_Product
  <2> QED BY <1>2, <2>1, <2>2, <2>3
<1>4. Chips(f) = X \cup Chips(r) /\ X \cap Chips(r) = {}
  BY DEF Chips, IsAmounts
<1> HIDE DEF X, r
<1>5. IsFiniteSet(Chips(r)) /\ Cardinality(Chips(r)) \in Nat
  BY <1>1, ChipsFinite DEF Total
<1>6. Cardinality(Chips(f)) = Cardinality(X) + Cardinality(Chips(r)) - Cardinality({})
  BY <1>3, <1>4, <1>5, FS_Union
<1>7. Cardinality({}) = 0
  BY FS_EmptySet
<1>8. Total(f) = f[x] + Total(r)
  BY <1>2, <1>3, <1>5, <1>6, <1>7 DEF Total
<1> QED BY <1>1, <1>8 DEF r

\* Places that hold nothing do not count.
LEMMA TotalOfSupport ==
  ASSUME NEW f, NEW T, T \subseteq DOMAIN f,
         \A s \in DOMAIN f \ T : f[s] = 0
  PROVE  Total(f) = Total([s \in T |-> f[s]])
<1>1. \A s \in DOMAIN f \ T : 1 .. f[s] = {}
  OBVIOUS
<1>2. Chips(f) = Chips([s \in T |-> f[s]])
  BY <1>1 DEF Chips
<1> QED BY <1>2 DEF Total

\* The same amount on every element of T and nothing elsewhere.
LEMMA TotalOfEqual ==
  ASSUME NEW f, NEW S, IsFiniteSet(S), DOMAIN f = S, NEW T \in SUBSET S,
         NEW n \in Nat, \A s \in S : f[s] = IF s \in T THEN n ELSE 0
  PROVE  Total(f) = Cardinality(T) * n
<1>1. \A s \in S : s \notin T => 1 .. f[s] = {}
  OBVIOUS
<1>2. Chips(f) = T \X (1 .. n)
  <2>1. Chips(f) \subseteq T \X (1 .. n)
    BY <1>1 DEF Chips
  <2>2. T \X (1 .. n) \subseteq Chips(f)
    BY DEF Chips
  <2> QED BY <2>1, <2>2
<1>3. IsFiniteSet(T)
  BY FS_Subset
<1>4. IsFiniteSet(1 .. n) /\ Cardinality(1 .. n) = n
  BY FS_Interval
<1> QED BY <1>2, <1>3, <1>4, FS_Product DEF Total

\* A property of sums carries from the sum without x to the sum with x.
LEMMA TotalWith ==
  ASSUME NEW f, NEW S, IsAmounts(f, S), NEW T \in SUBSET S, NEW x \in S \ T
  PROVE  /\ IsAmounts([s \in T |-> f[s]], T)
         /\ Total([s \in T \cup {x} |-> f[s]])
              = f[x] + Total([s \in T |-> f[s]])
<1> DEFINE k == [s \in T \cup {x} |-> f[s]]
           r == [s \in (T \cup {x}) \ {x} |-> k[s]]
<1>1. IsFiniteSet(T \cup {x}) /\ IsFiniteSet(T)
  BY FS_Subset DEF IsAmounts
<1>2. IsAmounts(k, T \cup {x}) /\ IsAmounts([s \in T |-> f[s]], T)
  BY <1>1 DEF IsAmounts
<1>3. Total(k) = k[x] + Total(r)
  <2> HIDE DEF k
  <2> QED BY <1>2, TotalSplit
<1>4. r = [s \in T |-> f[s]]
  OBVIOUS
<1>5. k[x] = f[x]
  OBVIOUS
<1> HIDE DEF k, r
<1>6. Total(k) = f[x] + Total([s \in T |-> f[s]])
  BY <1>3, <1>4, <1>5
<1> QED BY <1>2, <1>6 DEF k

\* The sum of the sums.
LEMMA TotalAdds ==
  ASSUME NEW S, NEW f, IsAmounts(f, S), NEW g, IsAmounts(g, S),
         NEW k, IsAmounts(k, S), \A s \in S : k[s] = f[s] + g[s]
  PROVE  Total(k) = Total(f) + Total(g)
<1> DEFINE On(u, T) == [s \in T |-> u[s]]
           F == {T \in SUBSET S : Total(On(k, T)) = Total(On(f, T)) + Total(On(g, T))}
<1>1. {} \in F
  <2>1. Total(On(k, {})) = 0 /\ Total(On(f, {})) = 0 /\ Total(On(g, {})) = 0
    BY TotalOfNone
  <2> HIDE DEF On
  <2> QED BY <2>1
<1>2. ASSUME NEW T \in SUBSET S, NEW x \in S \ T, T \in F
      PROVE  T \cup {x} \in F
  <2>1. /\ Total(On(k, T \cup {x})) = k[x] + Total(On(k, T))
        /\ Total(On(f, T \cup {x})) = f[x] + Total(On(f, T))
        /\ Total(On(g, T \cup {x})) = g[x] + Total(On(g, T))
        /\ IsAmounts(On(k, T), T) /\ IsAmounts(On(f, T), T) /\ IsAmounts(On(g, T), T)
    BY TotalWith
  <2> HIDE DEF On
  <2>2. Total(On(k, T)) \in Nat /\ Total(On(f, T)) \in Nat /\ Total(On(g, T)) \in Nat
    BY <2>1, ChipsFinite
  <2>3. Total(On(k, T)) = Total(On(f, T)) + Total(On(g, T))
    BY <1>2
  <2>4. k[x] = f[x] + g[x] /\ f[x] \in Nat /\ g[x] \in Nat
    BY DEF IsAmounts
  <2>5. T \cup {x} \in SUBSET S
    OBVIOUS
  <2>6. Total(On(k, T \cup {x})) = Total(On(f, T \cup {x})) + Total(On(g, T \cup {x}))
    BY <2>1, <2>2, <2>3, <2>4
  <2> QED BY <2>5, <2>6
<1>3. S \in F
  <2> HIDE DEF F
  <2>1. IsFiniteSet(S)
    BY DEF IsAmounts
  <2> QED BY <1>1, <1>2, <2>1, SubsetInduction
<1>4. /\ Total(On(k, S)) = Total(k) /\ Total(On(f, S)) = Total(f)
      /\ Total(On(g, S)) = Total(g)
  BY TotalOfSame DEF IsAmounts
<1> HIDE DEF On
<1> QED BY <1>3, <1>4

\* A smaller amount everywhere is a smaller sum.
LEMMA TotalAtMost ==
  ASSUME NEW S, NEW f, IsAmounts(f, S), NEW g, IsAmounts(g, S),
         \A s \in S : f[s] <= g[s]
  PROVE  Total(f) <= Total(g)
<1> DEFINE d == [s \in S |-> g[s] - f[s]]
<1>1. \A s \in S : d[s] \in Nat /\ g[s] = f[s] + d[s]
  BY DEF IsAmounts
<1>2. IsAmounts(d, S)
  BY <1>1 DEF IsAmounts
<1> HIDE DEF d
<1>3. Total(g) = Total(f) + Total(d)
  BY <1>1, <1>2, TotalAdds
<1>4. Total(f) \in Nat /\ Total(d) \in Nat /\ Total(g) \in Nat
  BY <1>2, ChipsFinite
<1> QED BY <1>3, <1>4

\* A table of amounts by row and column.
IsLedger(m, A, B) ==
  /\ IsFiniteSet(A) /\ IsFiniteSet(B)
  /\ \A a \in A, b \in B : m[a][b] \in Nat

RowSum(m, a, B) == Total([b \in B |-> m[a][b]])
ColumnSum(m, A, b) == Total([a \in A |-> m[a][b]])

\* The rows and columns of a ledger are amounts, and so are their sums.
LEMMA LedgerSums ==
  ASSUME NEW m, NEW A, NEW B, IsLedger(m, A, B)
  PROVE  /\ \A a \in A : IsAmounts([b \in B |-> m[a][b]], B) /\ RowSum(m, a, B) \in Nat
         /\ \A b \in B : IsAmounts([a \in A |-> m[a][b]], A) /\ ColumnSum(m, A, b) \in Nat
         /\ IsAmounts([a \in A |-> RowSum(m, a, B)], A)
         /\ IsAmounts([b \in B |-> ColumnSum(m, A, b)], B)
<1>1. ASSUME NEW a \in A
      PROVE  IsAmounts([b \in B |-> m[a][b]], B) /\ RowSum(m, a, B) \in Nat
  <2>1. IsAmounts([b \in B |-> m[a][b]], B)
    BY DEF IsAmounts, IsLedger
  <2> QED BY <2>1, ChipsFinite DEF RowSum
<1>2. ASSUME NEW b \in B
      PROVE  IsAmounts([a \in A |-> m[a][b]], A) /\ ColumnSum(m, A, b) \in Nat
  <2>1. IsAmounts([a \in A |-> m[a][b]], A)
    BY DEF IsAmounts, IsLedger
  <2> QED BY <2>1, ChipsFinite DEF ColumnSum
<1>3. IsAmounts([a \in A |-> RowSum(m, a, B)], A)
  BY <1>1 DEF IsAmounts, IsLedger
<1>4. IsAmounts([b \in B |-> ColumnSum(m, A, b)], B)
  BY <1>2 DEF IsAmounts, IsLedger
<1> QED BY <1>1, <1>2, <1>3, <1>4

\* Adding up the rows is adding up the columns.
LEMMA TotalOfTotals ==
  ASSUME NEW m, NEW A, NEW B, IsLedger(m, A, B)
  PROVE  Total([a \in A |-> RowSum(m, a, B)])
           = Total([b \in B |-> ColumnSum(m, A, b)])
<1> DEFINE rows == [a \in A |-> RowSum(m, a, B)]
           Rows(T) == [a \in T |-> rows[a]]
           Columns(T) == [b \in B |-> ColumnSum(m, T, b)]
           F == {T \in SUBSET A : Total(Rows(T)) = Total(Columns(T))}
<1>1. {} \in F
  <2>1. Total(Rows({})) = 0
    BY TotalOfNone
  <2>2. \A b \in B : ColumnSum(m, {}, b) = 0
    BY TotalOfNone DEF ColumnSum
  <2>3. Total(Columns({})) = Cardinality({}) * 0
    <3>1. \A b \in B : Columns({})[b] = IF b \in {} THEN 0 ELSE 0
      BY <2>2
    <3>2. DOMAIN Columns({}) = B /\ {} \in SUBSET B /\ IsFiniteSet(B) /\ 0 \in Nat
      BY DEF IsLedger
    <3> HIDE DEF Columns
    <3> QED BY <3>1, <3>2, TotalOfEqual
  <2>4. Cardinality({}) * 0 = 0
    BY FS_EmptySet
  <2> HIDE DEF Rows, Columns
  <2> QED BY <2>1, <2>3, <2>4
<1>2. ASSUME NEW T \in SUBSET A, NEW x \in A \ T, T \in F
      PROVE  T \cup {x} \in F
  <2>1. IsAmounts(rows, A) /\ rows[x] = RowSum(m, x, B)
    BY LedgerSums
  <2>2. /\ IsAmounts(Rows(T), T)
        /\ Total(Rows(T \cup {x})) = rows[x] + Total(Rows(T))
    <3> HIDE DEF rows
    <3> QED BY <2>1, TotalWith
  <2> DEFINE row == [b \in B |-> m[x][b]]
  <2>3. IsAmounts(row, B) /\ rows[x] = Total(row)
    BY <2>1, LedgerSums DEF RowSum
  <2>4. IsLedger(m, T, B) /\ IsLedger(m, T \cup {x}, B)
    <3>1. IsFiniteSet(T) /\ IsFiniteSet(T \cup {x})
      BY FS_Subset DEF IsLedger
    <3> QED BY <3>1 DEF IsLedger
  <2>5. IsAmounts(Columns(T), B) /\ IsAmounts(Columns(T \cup {x}), B)
    BY <2>4, LedgerSums
  <2>6. ASSUME NEW b \in B
        PROVE  Columns(T \cup {x})[b] = row[b] + Columns(T)[b]
    <3> DEFINE column == [a \in A |-> m[a][b]]
    <3>1. IsAmounts(column, A)
      BY LedgerSums
    <3>2. Total([a \in T \cup {x} |-> column[a]])
            = column[x] + Total([a \in T |-> column[a]])
      <4> HIDE DEF column
      <4> QED BY <3>1, TotalWith
    <3>3. /\ [a \in T \cup {x} |-> column[a]] = [a \in T \cup {x} |-> m[a][b]]
          /\ [a \in T |-> column[a]] = [a \in T |-> m[a][b]]
          /\ column[x] = m[x][b]
      OBVIOUS
    <3> HIDE DEF column
    <3>4. ColumnSum(m, T \cup {x}, b) = m[x][b] + ColumnSum(m, T, b)
      BY <3>2, <3>3 DEF ColumnSum
    <3> QED BY <3>4
  <2> HIDE DEF Rows, Columns, row, rows
  <2>7. Total(Columns(T \cup {x})) = Total(row) + Total(Columns(T))
    BY <2>3, <2>5, <2>6, TotalAdds
  <2>8. Total(Rows(T)) = Total(Columns(T))
    BY <1>2
  <2>9. T \cup {x} \in SUBSET A
    OBVIOUS
  <2> QED BY <2>2, <2>3, <2>7, <2>8, <2>9
<1>3. A \in F
  <2> HIDE DEF F
  <2>1. IsFiniteSet(A)
    BY DEF IsLedger
  <2> QED BY <1>1, <1>2, <2>1, SubsetInduction
<1>4. Rows(A) = rows
  OBVIOUS
<1>5. Total(Rows(A)) = Total(Columns(A))
  BY <1>3
<1> HIDE DEF Rows
<1> QED BY <1>4, <1>5

\* The same amounts under other names.
LEMMA TotalRenamed ==
  ASSUME NEW f, NEW S, IsAmounts(f, S), NEW T, NEW b \in Bijection(S, T),
         NEW k, DOMAIN k = T, \A s \in S : k[b[s]] = f[s]
  PROVE  IsAmounts(k, T) /\ Total(k) = Total(f)
<1> DEFINE move == [c \in Chips(f) |-> <<b[c[1]], c[2]>>]
<1>1. /\ b \in [S -> T] /\ \A s, u \in S : b[s] = b[u] => s = u
      /\ \A t \in T : \E s \in S : b[s] = t
  BY DEF Bijection, Injection, IsInjective, Surjection
<1>2. \A t \in T : k[t] \in Nat
  BY <1>1 DEF IsAmounts
<1>3. IsFiniteSet(T)
  BY FS_Bijection DEF ExistsBijection, IsAmounts
<1>4. IsAmounts(k, T)
  BY <1>2, <1>3 DEF IsAmounts
<1>5. \A c : c \in Chips(f) <=> \E s \in S : \E i \in 1 .. f[s] : c = <<s, i>>
  BY DEF Chips, IsAmounts
<1>6. \A c : c \in Chips(k) <=> \E t \in T : \E i \in 1 .. k[t] : c = <<t, i>>
  BY DEF Chips
<1>7. ASSUME NEW c \in Chips(f)
      PROVE  move[c] \in Chips(k) /\ c[1] \in S /\ c = <<c[1], c[2]>>
  <2>1. PICK s \in S : \E i \in 1 .. f[s] : c = <<s, i>>
    BY <1>5
  <2>2. PICK i \in 1 .. f[s] : c = <<s, i>>
    BY <2>1
  <2>3. b[s] \in T /\ k[b[s]] = f[s] /\ move[c] = <<b[s], i>>
    BY <1>1, <2>2
  <2> QED BY <1>6, <2>2, <2>3
<1>8. ASSUME NEW c \in Chips(f), NEW d \in Chips(f), move[c] = move[d]
      PROVE  c = d
  <2>1. b[c[1]] = b[d[1]] /\ c[2] = d[2]
    BY <1>8
  <2>2. c[1] = d[1]
    BY <1>1, <1>7, <2>1
  <2> QED BY <1>7, <2>1, <2>2
<1>9. ASSUME NEW e \in Chips(k) PROVE \E c \in Chips(f) : move[c] = e
  <2>1. PICK t \in T : \E i \in 1 .. k[t] : e = <<t, i>>
    BY <1>6
  <2>2. PICK i \in 1 .. k[t] : e = <<t, i>>
    BY <2>1
  <2>3. PICK s \in S : b[s] = t
    BY <1>1
  <2>4. <<s, i>> \in Chips(f)
    BY <1>5, <2>2, <2>3
  <2>5. move[<<s, i>>] = e
    BY <2>2, <2>3, <2>4
  <2> QED BY <2>4, <2>5
<1>10. move \in Bijection(Chips(f), Chips(k))
  <2>1. move \in [Chips(f) -> Chips(k)]
    BY <1>7
  <2> HIDE DEF move
  <2> QED BY <1>8, <1>9, <2>1 DEF Bijection, Injection, IsInjective, Surjection
<1>11. Cardinality(Chips(k)) = Cardinality(Chips(f))
  <2>1. IsFiniteSet(Chips(f))
    BY ChipsFinite
  <2> HIDE DEF move
  <2> QED BY <1>10, <2>1, FS_Bijection DEF ExistsBijection
<1> QED BY <1>4, <1>11 DEF Total

-----------------------------------------------------------------------------
(* The pots of a table hold what was paid into it *)

\* The next level down is below the level, and nothing is in between.
LEMMA BelowFacts ==
  ASSUME NEW P, IsTable(P), NEW level \in Nat
  PROVE  /\ Below(P, level) \in Nat /\ Below(P, level) <= level
         /\ \A l \in Levels(P) : l < level => l <= Below(P, level)
<1> DEFINE S == {l \in Levels(P) : l < level}
           T == {0} \cup S
<1>1. Levels(P) \subseteq Nat /\ IsFiniteSet(Levels(P))
  BY LevelsType
<1>2. S \in SUBSET Levels(P)
  OBVIOUS
<1>3. IsFiniteSet({0}) /\ IsFiniteSet(S)
  BY <1>1, <1>2, FS_Subset, FS_Singleton, Zenon
<1>4. IsFiniteSet(T)
  BY <1>3, FS_Union
<1>5. T \subseteq Nat /\ T \subseteq Int /\ T # {} /\ \A l \in T : l <= level
  BY <1>1
<1>6. Below(P, level) = Max(T)
  BY DEF Below
<1>7. \A l \in Levels(P) : l < level => l \in T
  OBVIOUS
<1> HIDE DEF T
<1>8. Max(T) \in T /\ \A y \in T : y <= Max(T)
  BY <1>4, <1>5, MaxOfFinite
<1> QED BY <1>5, <1>6, <1>7, <1>8

\* What seat s pays into the pot of a level.
Piece(P, level, s) ==
  Min2(P[s].total, level) - Min2(P[s].total, Below(P, level))

Cut(P) == [l \in Levels(P) |-> [s \in DOMAIN P |-> Piece(P, l, s)]]

\* A seat's piece of a level is a number of chips that lies between the next
\* level down and the seat's own total.
LEMMA PieceType ==
  ASSUME NEW P, IsTable(P), NEW l \in Levels(P), NEW s \in DOMAIN P
  PROVE  /\ Piece(P, l, s) \in Nat /\ l \in Nat
         /\ Piece(P, l, s) > 0 => Below(P, l) + Piece(P, l, s) <= l
         /\ Piece(P, l, s) > 0 => Below(P, l) + Piece(P, l, s) <= P[s].total
<1>1. l \in Nat
  BY LevelsType
<1>2. Below(P, l) \in Nat /\ Below(P, l) <= l
  BY <1>1, BelowFacts
<1>3. P[s].total \in Nat
  BY DEF IsTable
<1> QED BY <1>1, <1>2, <1>3 DEF Piece, Min2

\* The pieces form a ledger, levels against seats, whose rows are the slices.
LEMMA CutIsLedger ==
  ASSUME NEW P, IsTable(P)
  PROVE  /\ IsLedger(Cut(P), Levels(P), DOMAIN P)
         /\ \A l \in Levels(P) : RowSum(Cut(P), l, DOMAIN P) = Slice(P, l)
<1>1. \A l \in Levels(P), s \in DOMAIN P :
        Cut(P)[l][s] = Piece(P, l, s) /\ Piece(P, l, s) \in Nat
  BY PieceType DEF Cut
<1>2. IsLedger(Cut(P), Levels(P), DOMAIN P)
  BY <1>1, LevelsType DEF IsLedger, IsTable
<1>3. ASSUME NEW l \in Levels(P)
      PROVE  RowSum(Cut(P), l, DOMAIN P) = Slice(P, l)
  <2>1. [s \in DOMAIN P |-> Cut(P)[l][s]] = [s \in DOMAIN P |-> Piece(P, l, s)]
    BY <1>1
  <2> QED BY <2>1 DEF RowSum, Slice, Piece
<1> QED BY <1>2, <1>3

\* A seat pays at most its total into the pots: the levels cut its chips
\* into pieces that do not overlap.
LEMMA PiecesFit ==
  ASSUME NEW P, IsTable(P), NEW s \in DOMAIN P
  PROVE  ColumnSum(Cut(P), Levels(P), s) <= P[s].total
<1> DEFINE f == [l \in Levels(P) |-> Cut(P)[l][s]]
           place == [c \in Chips(f) |-> Below(P, c[1]) + c[2]]
           t == P[s].total
<1>1. IsAmounts(f, Levels(P)) /\ ColumnSum(Cut(P), Levels(P), s) = Total(f)
  BY CutIsLedger, LedgerSums DEF ColumnSum
<1>2. t \in Nat
  BY DEF IsTable
<1>3. \A l \in Levels(P) : f[l] = Piece(P, l, s)
  BY DEF Cut
<1> HIDE DEF t
<1>4. ASSUME NEW c \in Chips(f)
      PROVE  /\ c[1] \in Levels(P) /\ c[2] \in Nat /\ c = <<c[1], c[2]>>
             /\ c[1] \in Nat /\ Below(P, c[1]) \in Nat
             /\ c[2] > 0 /\ Below(P, c[1]) + c[2] <= c[1]
             /\ Below(P, c[1]) + c[2] <= t
  <2>1. PICK l \in Levels(P) : c \in {l} \X (1 .. f[l])
    BY DEF Chips
  <2>2. c[1] = l /\ c[2] \in 1 .. f[l] /\ c = <<c[1], c[2]>>
    BY <2>1
  <2>3. /\ f[l] = Piece(P, l, s) /\ f[l] \in Nat /\ l \in Nat
        /\ f[l] > 0 => /\ Below(P, l) + f[l] <= l /\ Below(P, l) + f[l] <= t
    BY <1>3, PieceType DEF t
  <2>4. Below(P, l) \in Nat
    BY BelowType
  <2> HIDE DEF f
  <2> QED BY <1>2, <2>1, <2>2, <2>3, <2>4
<1> HIDE DEF f
<1>5. place \in [Chips(f) -> 1 .. t]
  BY <1>2, <1>4
<1>6. ASSUME NEW c \in Chips(f), NEW d \in Chips(f), place[c] = place[d]
      PROVE  c = d
  <2>1. Below(P, c[1]) + c[2] = Below(P, d[1]) + d[2]
    BY <1>6
  <2>2. /\ c[1] \in Levels(P) /\ d[1] \in Levels(P) /\ c[1] \in Nat /\ d[1] \in Nat
        /\ c[1] < d[1] => c[1] <= Below(P, d[1])
        /\ d[1] < c[1] => d[1] <= Below(P, c[1])
    BY <1>4, BelowFacts
  <2>3. c[1] = d[1]
    BY <1>4, <2>1, <2>2
  <2>4. c[2] = d[2]
    BY <1>4, <2>1, <2>3
  <2>5. c = <<c[1], c[2]>> /\ d = <<d[1], d[2]>>
    BY <1>4
  <2> QED BY <2>3, <2>4, <2>5
<1> HIDE DEF place
<1>7. place \in Injection(Chips(f), 1 .. t)
  BY <1>5, <1>6 DEF Injection, IsInjective
<1>8. IsFiniteSet(1 .. t) /\ Cardinality(1 .. t) = t
  BY <1>2, FS_Interval
<1>9. Cardinality(Chips(f)) <= t
  BY <1>7, <1>8, FS_Injection
<1> QED BY <1>1, <1>9 DEF Total, t

\* The side pots without the rest hold at most what was paid.
LEMMA SlicedFacts ==
  ASSUME NEW P, IsTable(P)
  PROVE  /\ IsAmounts(AmountsOf(Sliced(P)), DOMAIN Sliced(P))
         /\ Contributed(P) \in Nat /\ Total(AmountsOf(Sliced(P))) \in Nat
         /\ Total(AmountsOf(Sliced(P))) <= Contributed(P)
         /\ DOMAIN Sliced(P) \subseteq Levels(P)
<1> DEFINE D == DOMAIN P
           L == Levels(P)
           rows == [l \in L |-> RowSum(Cut(P), l, D)]
           columns == [s \in D |-> ColumnSum(Cut(P), L, s)]
           totals == [s \in D |-> P[s].total]
           T == {k \in L : Slice(P, k) > 0}
           amounts == AmountsOf(Sliced(P))
<1>1. /\ IsAmounts(rows, L) /\ IsAmounts(columns, D) /\ Total(rows) = Total(columns)
      /\ \A l \in L : rows[l] = Slice(P, l)
  BY CutIsLedger, LedgerSums, TotalOfTotals
<1>2. IsAmounts(totals, D) /\ Contributed(P) = Total(totals)
  BY DEF IsAmounts, IsTable, Contributed
<1>3. \A s \in D : columns[s] <= totals[s]
  BY PiecesFit
<1>4. DOMAIN amounts = T /\ DOMAIN Sliced(P) = T /\ \A l \in T : amounts[l] = Slice(P, l)
  BY DEF AmountsOf, Sliced
<1> HIDE DEF rows, columns, totals
<1>5. Total(columns) <= Total(totals)
  BY <1>1, <1>2, <1>3, TotalAtMost
<1>6. Total(rows) = Total([l \in T |-> rows[l]])
  <2>1. DOMAIN rows = L /\ T \subseteq L
    BY <1>1 DEF IsAmounts
  <2>2. \A l \in L \ T : rows[l] = 0
    BY <1>1 DEF IsAmounts
  <2> HIDE DEF T
  <2> QED BY <2>1, <2>2, TotalOfSupport
<1>7. Total([l \in T |-> rows[l]]) = Total(amounts)
  BY <1>1, <1>4, TotalOfSame
<1>8. IsAmounts(amounts, T)
  <2>1. T \in SUBSET L /\ IsFiniteSet(L)
    BY LevelsType
  <2>2. IsFiniteSet(T)
    BY <2>1, FS_Subset
  <2> QED BY <1>1, <1>4, <2>2 DEF IsAmounts
<1>9. Total(rows) \in Nat /\ Total(columns) \in Nat /\ Total(totals) \in Nat
  BY <1>1, <1>2, ChipsFinite
<1>10. Total(amounts) <= Contributed(P) /\ Contributed(P) \in Nat
       /\ Total(amounts) \in Nat
  BY <1>1, <1>2, <1>5, <1>6, <1>7, <1>9
<1> QED BY <1>4, <1>8, <1>10

\* A seat still in the hand can win every pot it has paid into the level of.
LEMMA LevelHasContender ==
  ASSUME NEW P, IsTable(P), LiveIn(P) # {}, NEW l \in Levels(P)
  PROVE  EligibleAt(P, l) # {}
<1> DEFINE S == {P[s].total : s \in LiveIn(P)}
<1>1. PICK s \in LiveIn(P) : TRUE
  OBVIOUS
<1>2. \A t \in LiveIn(P) : t \in DOMAIN P /\ P[t].total \in Nat
  BY DEF LiveIn, IsTable
<1>3. CASE l = MaxLive(P)
  <2> DEFINE f == [t \in LiveIn(P) |-> P[t].total]
             T == {0} \cup S
  <2>1. IsFiniteSet(LiveIn(P))
    <3>1. LiveIn(P) \in SUBSET DOMAIN P
      BY DEF LiveIn
    <3> QED BY <3>1, FS_Subset DEF IsTable
  <2>2. S = {f[t] : t \in LiveIn(P)}
    OBVIOUS
  <2>3. IsFiniteSet(S)
    <3> HIDE DEF f
    <3> QED BY <2>1, <2>2, ImageFinite
  <2>4. IsFiniteSet({0})
    BY FS_Singleton, Zenon
  <2>5. T \subseteq Int /\ T # {}
    BY <1>2
  <2>6. MaxLive(P) = Max(T)
    BY DEF MaxLive
  <2> HIDE DEF S
  <2>7. IsFiniteSet(T)
    BY <2>3, <2>4, FS_Union
  <2> HIDE DEF T
  <2>8. Max(T) \in T
    BY <2>5, <2>7, MaxOfFinite
  <2>9. l = 0 \/ \E t \in LiveIn(P) : l = P[t].total
    BY <1>3, <2>6, <2>8 DEF T, S
  <2>10. \E t \in LiveIn(P) : P[t].total >= l
    BY <1>1, <1>2, <2>9
  <2> QED BY <2>10 DEF EligibleAt
<1>4. CASE l # MaxLive(P)
  <2>1. PICK t \in LiveIn(P) : l = P[t].total
    BY <1>4 DEF Levels
  <2>2. P[t].total >= l
    BY <1>2, <2>1
  <2> QED BY <2>1, <2>2 DEF EligibleAt
<1> QED BY <1>3, <1>4

(***************************************************************************)
(* buildPots: the pots hold every chip of the table and no other, each of  *)
(* them has a contender as long as anybody is in the hand, and a higher    *)
(* pot has no contender a lower one lacks.                                 *)
(***************************************************************************)
FullPots(P, pots) ==
  /\ IsAmounts(AmountsOf(pots), DOMAIN pots)
  /\ Total(AmountsOf(pots)) = Contributed(P)
  /\ \A l \in DOMAIN pots :
       /\ l \in Nat /\ pots[l].eligible \subseteq LiveIn(P)
       /\ LiveIn(P) # {} => pots[l].eligible # {}
       /\ \A k \in DOMAIN pots :
            k < l => pots[l].eligible \subseteq pots[k].eligible

\* buildPots loses no chip: the pots hold all that was put in.
LEMMA BuildPotsHoldsAll ==
  ASSUME NEW P, IsTable(P)
  PROVE  FullPots(P, BuildPots(P))
<1> DEFINE sliced == Sliced(P)
           rest   == Contributed(P) - Total(AmountsOf(sliced))
<1>1. /\ IsAmounts(AmountsOf(sliced), DOMAIN sliced)
      /\ Contributed(P) \in Nat /\ Total(AmountsOf(sliced)) \in Nat
      /\ rest \in Nat /\ Total(AmountsOf(sliced)) + rest = Contributed(P)
      /\ DOMAIN sliced \subseteq Levels(P)
  BY SlicedFacts
<1>2. DOMAIN sliced \subseteq Nat
  BY <1>1, LevelsType
<1>3. \A l \in DOMAIN sliced : /\ sliced[l].eligible = EligibleAt(P, l)
                               /\ sliced[l] = [amount |-> Slice(P, l),
                                               eligible |-> EligibleAt(P, l)]
  BY DEF Sliced
<1>4. \A l \in DOMAIN sliced :
        /\ EligibleAt(P, l) \subseteq LiveIn(P)
        /\ LiveIn(P) # {} => EligibleAt(P, l) # {}
        /\ \A k \in DOMAIN sliced :
             k < l => EligibleAt(P, l) \subseteq EligibleAt(P, k)
  <2>1. SUFFICES ASSUME NEW l \in DOMAIN sliced
                 PROVE  /\ EligibleAt(P, l) \subseteq LiveIn(P)
                        /\ LiveIn(P) # {} => EligibleAt(P, l) # {}
                        /\ \A k \in DOMAIN sliced :
                             k < l => EligibleAt(P, l) \subseteq EligibleAt(P, k)
    OBVIOUS
  <2>2. EligibleAt(P, l) \subseteq LiveIn(P)
    BY DEF EligibleAt
  <2>3. LiveIn(P) # {} => EligibleAt(P, l) # {}
    BY <1>1, LevelHasContender
  <2>4. ASSUME NEW k \in DOMAIN sliced, k < l
        PROVE  EligibleAt(P, l) \subseteq EligibleAt(P, k)
    <3>1. \A s \in LiveIn(P) : P[s].total \in Nat
      BY DEF LiveIn, IsTable
    <3>2. k \in Nat /\ l \in Nat
      BY <1>2
    <3> HIDE DEF sliced
    <3> QED BY <2>4, <3>1, <3>2 DEF EligibleAt
  <2> QED BY <2>2, <2>3, <2>4
<1> HIDE DEF sliced, rest
<1>5. BuildPots(P) =
        IF rest = 0 THEN sliced
        ELSE IF DOMAIN sliced = {}
             THEN [l \in {0} |-> [amount |-> rest, eligible |-> LiveIn(P)]]
             ELSE [sliced EXCEPT ![Max(DOMAIN sliced)].amount = @ + rest]
  BY DEF BuildPots, sliced, rest
<1>6. CASE rest = 0
  <2>1. Total(AmountsOf(sliced)) = Contributed(P)
    BY <1>1, <1>6
  <2> QED BY <1>1, <1>2, <1>3, <1>4, <1>5, <1>6, <2>1 DEF FullPots
<1>7. CASE rest # 0 /\ DOMAIN sliced = {}
  <2> DEFINE one == [l \in {0} |-> [amount |-> rest, eligible |-> LiveIn(P)]]
             a   == AmountsOf(one)
  <2>1. BuildPots(P) = one
    BY <1>5, <1>7
  <2>2. DOMAIN one = {0} /\ one[0].amount = rest /\ one[0].eligible = LiveIn(P)
    OBVIOUS
  <2> HIDE DEF one
  <2>3. DOMAIN a = {0} /\ a[0] = rest
    BY <2>2 DEF AmountsOf
  <2>4. IsFiniteSet({0}) /\ Cardinality({0}) = 1
    BY FS_Singleton, Zenon
  <2> HIDE DEF a
  <2>5. IsAmounts(a, {0})
    BY <1>1, <2>3, <2>4 DEF IsAmounts
  <2>6. Total(a) = Cardinality({0}) * rest
    BY <1>1, <2>3, <2>4, TotalOfEqual
  <2>7. Total(AmountsOf(sliced)) = 0
    <3>1. DOMAIN AmountsOf(sliced) = {}
      BY <1>7 DEF AmountsOf
    <3> QED BY <3>1, TotalOfNone
  <2>8. Total(a) = Contributed(P)
    BY <1>1, <2>4, <2>6, <2>7
  <2> QED BY <2>1, <2>2, <2>5, <2>8 DEF FullPots, a
<1>8. CASE rest # 0 /\ DOMAIN sliced # {}
  <2> DEFINE m == Max(DOMAIN sliced)
             topped == [sliced EXCEPT ![m].amount = @ + rest]
             a == AmountsOf(topped)
             b == AmountsOf(sliced)
             D == DOMAIN sliced
  <2>1. BuildPots(P) = topped
    BY <1>5, <1>8
  <2>2. m \in D
    <3>1. D \subseteq Int
      BY <1>2
    <3> QED BY <1>1, <1>8, <3>1, MaxOfFinite DEF IsAmounts
  <2> HIDE DEF m
  <2>3. /\ DOMAIN topped = D
        /\ \A l \in D \ {m} : topped[l] = sliced[l]
        /\ topped[m] = [sliced[m] EXCEPT !.amount = sliced[m].amount + rest]
    BY <2>2
  <2>4. topped[m].eligible = sliced[m].eligible
        /\ topped[m].amount = sliced[m].amount + rest
    <3>1. sliced[m] = [amount |-> Slice(P, m), eligible |-> EligibleAt(P, m)]
      BY <1>3, <2>2
    <3> HIDE DEF topped
    <3> QED BY <2>3, <3>1
  <2> HIDE DEF topped
  <2>5. /\ DOMAIN a = D /\ DOMAIN b = D /\ a[m] = b[m] + rest
        /\ \A l \in D \ {m} : a[l] = b[l]
    BY <2>2, <2>3, <2>4 DEF AmountsOf
  <2>6. IsAmounts(b, D)
    BY <1>1
  <2> HIDE DEF a, b
  <2>7. IsAmounts(a, D)
    <3>1. \A l \in D : b[l] \in Nat
      BY <2>6 DEF IsAmounts
    <3>2. \A l \in D : a[l] \in Nat
      BY <1>1, <2>2, <2>5, <3>1
    <3> QED BY <2>5, <2>6, <3>2 DEF IsAmounts
  <2> DEFINE ar == [l \in D \ {m} |-> a[l]]
             br == [l \in D \ {m} |-> b[l]]
  <2>8. Total(a) = a[m] + Total(ar) /\ Total(b) = b[m] + Total(br)
        /\ IsAmounts(ar, D \ {m}) /\ IsAmounts(br, D \ {m})
    BY <2>2, <2>6, <2>7, TotalSplit
  <2>9. ar = br
    BY <2>5
  <2>10. Total(br) \in Nat /\ b[m] \in Nat
    <3> HIDE DEF br
    <3> QED BY <2>2, <2>6, <2>8, ChipsFinite DEF IsAmounts
  <2> HIDE DEF ar, br
  <2>11. Total(a) = Contributed(P)
    <3>1. Total(b) + rest = Contributed(P)
      BY <1>1 DEF b
    <3> QED BY <1>1, <2>5, <2>8, <2>9, <2>10, <3>1
  <2>12. \A l \in D : topped[l].eligible = EligibleAt(P, l)
    BY <1>3, <2>3, <2>4
  <2> QED BY <1>2, <1>4, <2>1, <2>3, <2>7, <2>11, <2>12 DEF FullPots, a
<1> QED BY <1>6, <1>7, <1>8

-----------------------------------------------------------------------------
(* Seats *)

\* The seats are a finite set of at least two numbers, none of them NoSeat.
LEMMA SeatsFacts ==
  /\ Seats \subseteq Nat /\ NoSeat \notin Seats
  /\ \A S \in SUBSET Seats : IsFiniteSet(S) /\ Cardinality(S) \in Nat
  /\ Cardinality(Seats) >= 2
<1>1. Seats \in SUBSET (0 .. MaxSeats - 1)
  BY SeatsAssumption
<1>2. IsFiniteSet(Seats)
  <2>1. 0 \in Int /\ MaxSeats - 1 \in Int
    BY SeatsAssumption
  <2>2. IsFiniteSet(0 .. MaxSeats - 1)
    BY <2>1, FS_Interval
  <2> QED BY <1>1, <2>2, FS_Subset
<1>3. \A S \in SUBSET Seats : IsFiniteSet(S)
  BY <1>2, FS_Subset
<1>4. Seats \subseteq Nat
  BY SeatsAssumption
<1>5. -1 \notin Nat
  OBVIOUS
<1> QED BY <1>4, <1>5, <1>3, <1>4, FS_CardinalityType, SeatsAssumption DEF NoSeat

\* Some seat is first for any way of numbering the seats.
LEMMA SmallestExists ==
  ASSUME NEW S, IsFiniteSet(S), S # {}, NEW f, \A s \in S : f[s] \in Int
  PROVE  \E s \in S : \A t \in S : f[s] <= f[t]
<1> DEFINE g == [s \in S |-> 0 - f[s]]
           T == {g[s] : s \in S}
<1>1. T \subseteq Int /\ T # {}
  OBVIOUS
<1>2. IsFiniteSet(T)
  <2> HIDE DEF g
  <2> QED BY ImageFinite
<1>3. Max(T) \in T /\ \A y \in T : y <= Max(T)
  <2> HIDE DEF T
  <2> QED BY <1>1, <1>2, MaxOfFinite
<1>4. PICK s \in S : Max(T) = g[s]
  BY <1>3
<1>5. ASSUME NEW t \in S PROVE f[s] <= f[t]
  <2>1. g[t] <= g[s]
    BY <1>3, <1>4
  <2> QED BY <2>1
<1> QED BY <1>5

\* The first seat from a starting point is one of the seats asked about.
LEMMA FirstFromIn ==
  ASSUME NEW S \in SUBSET Seats, S # {}, NEW start \in Int
  PROVE  FirstFrom(start, S) \in S
<1> DEFINE f == [s \in S |-> Gap(start, s)]
<1>1. \A s \in S : f[s] = Gap(start, s) /\ f[s] \in Int
  BY SeatsFacts, SeatsAssumption DEF Gap
<1>2. IsFiniteSet(S)
  BY SeatsFacts
<1>3. \E s \in S : \A t \in S : f[s] <= f[t]
  <2> HIDE DEF f
  <2> QED BY <1>1, <1>2, SmallestExists
<1>4. \E s \in S : \A t \in S : Gap(start, s) <= Gap(start, t)
  BY <1>1, <1>3
<1> QED BY <1>4 DEF FirstFrom

-----------------------------------------------------------------------------
(* Players *)

\* A seat whose chips are all accounted for.
Sound ==
  {p \in Player : /\ p.stack + p.bet + p.committed = p.startStack
                  /\ p.won = 0
                  /\ p.allIn <=> p.stack = 0}

\* A seat dealt in: it had chips, and its cards are face down.
DealtIn(p) == p.startStack > 0 /\ p.revealed = FALSE /\ p.mucked = FALSE

\* The forced bets n that go into the pot are paid, as far as chips go.
AntedUp(p, n) == p.committed <= n /\ (p.stack + p.bet > 0 => p.committed = n)

\* Folding keeps a seat sound and its chips as they are.
LEMMA FoldedSound ==
  ASSUME NEW p \in Player
  PROVE  /\ Folded(p) \in Player
         /\ p \in Sound => Folded(p) \in Sound
         /\ Folded(p).folded = TRUE /\ Folded(p).allIn = p.allIn
         /\ Folded(p).bet = p.bet /\ Folded(p).hasActed = p.hasActed
         /\ Folded(p).actedAtFullLevel = p.actedAtFullLevel
  BY DEF Folded, Player, Sound

\* The updates of stack, bet and share that the engine makes keep the type.
LEMMA PlayerUpdate ==
  ASSUME NEW p \in Player, NEW a \in Nat, NEW b \in Nat, NEW f \in BOOLEAN
  PROVE  /\ [p EXCEPT !.committed = a, !.bet = b] \in Player
         /\ [p EXCEPT !.bet = a, !.stack = b, !.allIn = FALSE] \in Player
         /\ [p EXCEPT !.stack = a, !.won = b] \in Player
         /\ [p EXCEPT !.stack = a, !.bet = b, !.allIn = f] \in Player
         /\ [p EXCEPT !.stack = a, !.committed = b, !.allIn = f] \in Player
  BY DEF Player

\* Moving a seat's bet into its part of the pots keeps the seat sound.
LEMMA PooledSound ==
  ASSUME NEW p \in Player
  PROVE  /\ Pooled(p) \in Player
         /\ p \in Sound => Pooled(p) \in Sound
         /\ Pooled(p).folded = p.folded /\ Pooled(p).allIn = p.allIn
         /\ Pooled(p).bet = 0
<1>1. p.bet \in Nat /\ p.committed \in Nat /\ p.stack \in Nat
  BY DEF Player
<1>2. p.committed + p.bet \in Nat
  BY <1>1
<1>3. Pooled(p) \in Player
  BY <1>2, PlayerUpdate DEF Pooled
<1>4. /\ Pooled(p).folded = p.folded /\ Pooled(p).allIn = p.allIn
      /\ Pooled(p).bet = 0 /\ Pooled(p).committed = p.committed + p.bet
      /\ Pooled(p).stack = p.stack /\ Pooled(p).startStack = p.startStack
      /\ Pooled(p).won = p.won
  BY DEF Pooled, Player
<1> QED BY <1>1, <1>3, <1>4 DEF Sound

\* Turning the cards over keeps a seat sound.
LEMMA FacedSound ==
  ASSUME NEW p \in Player
  PROVE  /\ Faced(p) \in Player
         /\ p \in Sound => Faced(p) \in Sound
         /\ Faced(p).folded = p.folded /\ Faced(p).bet = p.bet
  BY DEF Faced, Player, Sound

\* Giving part of a bet back keeps a seat sound.
LEMMA ReturnedSound ==
  ASSUME NEW p \in Player, NEW n \in Nat, n <= p.bet
  PROVE  /\ Returned(p, n) \in Player
         /\ p \in Sound /\ n > 0 => Returned(p, n) \in Sound
         /\ Returned(p, n).folded = p.folded
<1>1. p.bet \in Nat /\ p.committed \in Nat /\ p.stack \in Nat
  BY DEF Player
<1>2. p.bet - n \in Nat /\ p.stack + n \in Nat
  BY <1>1
<1>3. Returned(p, n) \in Player
  BY <1>2, PlayerUpdate DEF Returned
<1>4. /\ Returned(p, n).bet = p.bet - n /\ Returned(p, n).stack = p.stack + n
      /\ Returned(p, n).allIn = FALSE
      /\ Returned(p, n).committed = p.committed
      /\ Returned(p, n).startStack = p.startStack
      /\ Returned(p, n).won = p.won /\ Returned(p, n).folded = p.folded
  BY DEF Returned, Player
<1> QED BY <1>1, <1>3, <1>4 DEF Sound

\* A paid seat has the type of a player.
LEMMA PrizedType ==
  ASSUME NEW p \in Player, NEW n \in Nat
  PROVE  Prized(p, n) \in Player
<1>1. p.stack + n \in Nat /\ p.won + n \in Nat
  BY DEF Player
<1> QED BY <1>1, PlayerUpdate DEF Prized

\* Putting up no more than the stack keeps a seat sound, all-in included.
LEMMA StakedSound ==
  ASSUME NEW p \in Player, NEW n \in Nat, n <= p.stack
  PROVE  /\ Staked(p, n) \in Player
         /\ p \in Sound => Staked(p, n) \in Sound
         /\ Staked(p, n).folded = p.folded
         /\ Staked(p, n).bet = p.bet + n
         /\ Staked(p, n).stack = p.stack - n
         /\ Staked(p, n).hasActed = p.hasActed
         /\ Staked(p, n).actedAtFullLevel = p.actedAtFullLevel
         /\ Staked(p, n).committed = p.committed
         /\ DealtIn(p) => DealtIn(Staked(p, n))
<1>1. p.stack - n \in Nat /\ p.bet + n \in Nat
  BY DEF Player
<1>2. (p.stack = n) \in BOOLEAN
  OBVIOUS
<1>3. Staked(p, n) \in Player
  BY <1>1, <1>2, PlayerUpdate, Zenon DEF Staked
<1>4. /\ Staked(p, n).stack = p.stack - n /\ Staked(p, n).bet = p.bet + n
      /\ Staked(p, n).allIn = (p.stack = n)
      /\ Staked(p, n).committed = p.committed
      /\ Staked(p, n).startStack = p.startStack /\ Staked(p, n).won = p.won
      /\ Staked(p, n).folded = p.folded /\ Staked(p, n).hasActed = p.hasActed
      /\ Staked(p, n).actedAtFullLevel = p.actedAtFullLevel
      /\ Staked(p, n).revealed = p.revealed /\ Staked(p, n).mucked = p.mucked
  BY DEF Staked, Player
<1>5. p \in Sound => Staked(p, n) \in Sound
  <2>1. p.stack \in Nat /\ p.bet \in Nat
    BY DEF Player
  <2> QED BY <1>3, <1>4, <2>1 DEF Sound, Player
<1> QED BY <1>3, <1>4, <1>5 DEF DealtIn

\* An ante or a dead blind, capped by the stack, keeps a seat sound.
LEMMA IntoPotSound ==
  ASSUME NEW p \in Player, NEW amount \in Nat
  PROVE  /\ IntoPot(p, amount) \in Player
         /\ p \in Sound => IntoPot(p, amount) \in Sound
         /\ IntoPot(p, amount).folded = p.folded
         /\ IntoPot(p, amount).bet = p.bet
         /\ IntoPot(p, amount).actedAtFullLevel = p.actedAtFullLevel
         /\ DealtIn(p) => DealtIn(IntoPot(p, amount))
         /\ \A due \in Nat :
              p.bet = 0 /\ AntedUp(p, due)
                => AntedUp(IntoPot(p, amount), due + amount)
<1> DEFINE n == Min2(amount, p.stack)
           q == IntoPot(p, amount)
<1>1. p.bet \in Nat /\ p.committed \in Nat /\ p.stack \in Nat
  BY DEF Player
<1>2. n \in Nat /\ n <= p.stack /\ n <= amount /\ (n < p.stack => n = amount)
  BY <1>1 DEF Min2
<1>3. q = [p EXCEPT !.stack = @ - n, !.committed = @ + n, !.allIn = (p.stack = n)]
  BY DEF IntoPot
<1> HIDE DEF n, q
<1>4. p.stack - n \in Nat /\ p.committed + n \in Nat /\ (p.stack = n) \in BOOLEAN
  BY <1>1, <1>2
<1>5. q \in Player
  BY <1>3, <1>4, PlayerUpdate, Zenon
<1>6. /\ q.stack = p.stack - n /\ q.committed = p.committed + n
      /\ q.allIn = (p.stack = n) /\ q.bet = p.bet
      /\ q.startStack = p.startStack /\ q.won = p.won
      /\ q.folded = p.folded /\ q.actedAtFullLevel = p.actedAtFullLevel
      /\ q.revealed = p.revealed /\ q.mucked = p.mucked
  BY <1>3 DEF Player
<1>7. p \in Sound => q \in Sound
  BY <1>1, <1>2, <1>5, <1>6 DEF Sound, Player
<1>8. ASSUME NEW due \in Nat, p.bet = 0, AntedUp(p, due)
      PROVE  AntedUp(q, due + amount)
  <2>1. /\ p.committed <= due /\ (p.stack + p.bet > 0 => p.committed = due)
        /\ q.stack + q.bet = p.stack - n /\ q.committed = p.committed + n
    BY <1>1, <1>2, <1>6, <1>8 DEF AntedUp
  <2>2. q.committed <= due + amount
    BY <1>1, <1>2, <2>1
  <2>3. ASSUME q.stack + q.bet > 0 PROVE q.committed = due + amount
    <3>1. n < p.stack /\ p.stack + p.bet > 0
      BY <1>1, <1>2, <1>8, <2>1, <2>3
    <3> QED BY <1>2, <2>1, <3>1
  <2> QED BY <2>2, <2>3 DEF AntedUp
<1> QED BY <1>5, <1>6, <1>7, <1>8 DEF q, DealtIn

\* A freshly dealt seat is sound.
LEMMA DealtSound ==
  ASSUME NEW stack \in Nat \ {0}
  PROVE  /\ Dealt(stack) \in Sound /\ Dealt(stack).folded = FALSE
         /\ Dealt(stack).bet = 0 /\ Dealt(stack).actedAtFullLevel = 0
         /\ DealtIn(Dealt(stack)) /\ AntedUp(Dealt(stack), 0)
  BY DEF Dealt, Sound, Player, DealtIn, AntedUp

-----------------------------------------------------------------------------
(* Hands *)

\* The fields of a hand have their types.
LEMMA HandFields ==
  ASSUME NEW g \in Hand
  PROVE  /\ g.pl \in [Seats -> Player]
         /\ \A s \in Seats : g.pl[s] \in Player
         /\ g.phase \in Phases /\ g.street \in Streets
         /\ g.toAct \in Seats \cup {NoSeat}
         /\ g.currentBet \in Nat /\ g.lastFullBetLevel \in Nat
         /\ g.lastRaiseSize \in Nat /\ g.showIdx \in Nat /\ g.deckPos \in Nat
         /\ g.runTwice \in BOOLEAN
         /\ g.strength \in [{1, 2} -> [Seats -> Ranks]]
  BY DEF Hand

\* A hand with other players is a hand, the same in everything else.
LEMMA PlayersReplaced ==
  ASSUME NEW g \in Hand, NEW pl \in [Seats -> Player]
  PROVE  LET c == [g EXCEPT !.pl = pl]
         IN  /\ c \in Hand /\ c.pl = pl
             /\ c.phase = g.phase /\ c.street = g.street /\ c.toAct = g.toAct
             /\ c.currentBet = g.currentBet
             /\ c.lastFullBetLevel = g.lastFullBetLevel
             /\ c.lastRaiseSize = g.lastRaiseSize
             /\ c.strength = g.strength /\ c.runTwice = g.runTwice
  BY DEF Hand

\* A hand with one other player is a hand, the same in everything else.
LEMMA SeatReplaced ==
  ASSUME NEW g \in Hand, NEW s \in Seats, NEW p \in Player
  PROVE  LET c == [g EXCEPT !.pl[s] = p]
         IN  /\ c \in Hand /\ c.pl = [g.pl EXCEPT ![s] = p]
             /\ c.pl[s] = p /\ \A t \in Seats \ {s} : c.pl[t] = g.pl[t]
             /\ c.phase = g.phase /\ c.street = g.street /\ c.toAct = g.toAct
             /\ c.currentBet = g.currentBet
             /\ c.lastFullBetLevel = g.lastFullBetLevel
             /\ c.lastRaiseSize = g.lastRaiseSize
             /\ c.strength = g.strength /\ c.runTwice = g.runTwice
  BY DEF Hand

\* The seats that owe an action can act, and those that can act are live.
LEMMA LiveFacts ==
  ASSUME NEW g
  PROVE  /\ Live(g) \subseteq Seats /\ Active(g) \subseteq Live(g)
         /\ Owing(g) \subseteq Active(g)
         /\ IsFiniteSet(Live(g)) /\ Cardinality(Live(g)) \in Nat
         /\ Cardinality(Live(g)) = 0 <=> Live(g) = {}
<1>1. Live(g) \in SUBSET Seats /\ Active(g) \subseteq Live(g)
      /\ Owing(g) \subseteq Active(g)
  BY DEF Live, Active, Owing
<1>2. IsFiniteSet(Live(g)) /\ Cardinality(Live(g)) \in Nat
  BY <1>1, SeatsFacts
<1> QED BY <1>1, <1>2, FS_EmptySet

\* The part of the bet that goes back is no more than the bet.
LEMMA UncalledFacts ==
  ASSUME NEW g \in Hand
  PROVE  /\ TopBettor(g) \in Seats
         /\ Uncalled(g) \in Int /\ Uncalled(g) <= g.pl[TopBettor(g)].bet
<1> DEFINE bet == [s \in Seats |-> g.pl[s].bet]
           down == [s \in Seats |-> 0 - bet[s]]
<1>1. \A s \in Seats : bet[s] = g.pl[s].bet /\ bet[s] \in Nat /\ down[s] \in Int
  BY HandFields DEF Player
<1>2. IsFiniteSet(Seats) /\ Seats # {}
  BY SeatsFacts, FS_EmptySet
<1>3. TopBettor(g) \in Seats
  <2>1. PICK m \in Seats : \A t \in Seats : down[m] <= down[t]
    <3> HIDE DEF down, bet
    <3> QED BY <1>1, <1>2, SmallestExists
  <2>2. \A t \in Seats : bet[t] <= bet[m]
    BY <1>1, <2>1
  <2> DEFINE S == {s \in Seats : bet[s] = bet[m]}
             id == [s \in S |-> s]
  <2>3. S \in SUBSET Seats /\ m \in S
    OBVIOUS
  <2>4. IsFiniteSet(S)
    BY <2>3, SeatsFacts
  <2>5. \A s \in S : id[s] \in Int
    BY SeatsFacts
  <2>6. PICK k \in S : \A t \in S : id[k] <= id[t]
    <3> HIDE DEF S, id
    <3> QED BY <2>3, <2>4, <2>5, SmallestExists
  <2>7. \A t \in Seats : bet[t] < bet[k] \/ (bet[t] = bet[k] /\ k <= t)
    BY <1>1, <2>2, <2>6
  <2>8. \E s \in Seats : \A t \in Seats :
          \/ g.pl[t].bet < g.pl[s].bet
          \/ g.pl[t].bet = g.pl[s].bet /\ s <= t
    BY <1>1, <2>3, <2>7
  <2> QED BY <2>8 DEF TopBettor
<1>4. Max({0} \cup {g.pl[s].bet : s \in Seats \ {TopBettor(g)}}) \in Nat
  <2> DEFINE R == Seats \ {TopBettor(g)}
  <2>1. R \in SUBSET Seats
    OBVIOUS
  <2>2. IsFiniteSet(R)
    BY <2>1, SeatsFacts
  <2>3. {g.pl[s].bet : s \in R} = {bet[s] : s \in R}
    OBVIOUS
  <2> HIDE DEF bet, R
  <2>4. Max({0} \cup {bet[s] : s \in R}) \in Nat
    BY <1>1, <2>1, <2>2, LargestAmount
  <2>5. Max({0} \cup {g.pl[s].bet : s \in R}) \in Nat
    BY <2>3, <2>4
  <2> QED BY <2>5 DEF R
<1> QED BY <1>1, <1>3, <1>4 DEF Uncalled

Books(g) == \A s \in Seats : g.pl[s] \in Sound

NothingInFront(g) == \A s \in Seats : g.pl[s].bet = 0

\* Everything but the players is as in g, and nobody was folded.
SameHand(c, g) ==
  /\ c.phase = g.phase /\ c.street = g.street /\ c.toAct = g.toAct
  /\ \A s \in Seats : c.pl[s].folded = g.pl[s].folded

\* Who is live depends on who folded and on nothing else.
LEMMA SameLive ==
  ASSUME NEW c, NEW g, \A s \in Seats : c.pl[s].folded = g.pl[s].folded
  PROVE  Live(c) = Live(g)
  BY DEF Live

\* Returning the uncalled bet keeps the hand sound.
LEMMA ReturnUncalledFacts ==
  ASSUME NEW g \in Hand
  PROVE  /\ ReturnUncalled(g) \in Hand /\ SameHand(ReturnUncalled(g), g)
         /\ Books(g) => Books(ReturnUncalled(g))
<1> DEFINE top == TopBettor(g)
           n == Uncalled(g)
           c == [g EXCEPT !.pl[top] = Returned(g.pl[top], n)]
<1>1. top \in Seats /\ n \in Int /\ n <= g.pl[top].bet
  BY UncalledFacts
<1>2. g.pl[top] \in Player
  BY <1>1, HandFields
<1>3. ReturnUncalled(g) = IF n > 0 THEN c ELSE g
  BY DEF ReturnUncalled
<1>4. CASE n > 0
  <2>1. n \in Nat
    BY <1>1, <1>4
  <2>2. /\ Returned(g.pl[top], n) \in Player
        /\ g.pl[top] \in Sound => Returned(g.pl[top], n) \in Sound
        /\ Returned(g.pl[top], n).folded = g.pl[top].folded
    BY <1>1, <1>2, <1>4, <2>1, ReturnedSound
  <2> HIDE DEF top, n
  <2>3. /\ c \in Hand /\ c.pl[top] = Returned(g.pl[top], n)
        /\ \A t \in Seats \ {top} : c.pl[t] = g.pl[t]
        /\ c.phase = g.phase /\ c.street = g.street /\ c.toAct = g.toAct
    BY <1>1, <2>2, SeatReplaced
  <2>4. ReturnUncalled(g) = c
    BY <1>3, <1>4
  <2> HIDE DEF c
  <2> QED BY <1>1, <2>2, <2>3, <2>4 DEF SameHand, Books
<1>5. CASE ~(n > 0)
  BY <1>3, <1>5 DEF SameHand
<1> QED BY <1>4, <1>5

\* Collecting the bets keeps the hand sound and leaves nothing in front.
LEMMA CollectFacts ==
  ASSUME NEW g \in Hand
  PROVE  /\ Collect(g) \in Hand /\ SameHand(Collect(g), g)
         /\ Books(g) => Books(Collect(g))
         /\ NothingInFront(Collect(g))
<1> DEFINE pl == [s \in Seats |-> Pooled(g.pl[s])]
<1>1. \A s \in Seats : /\ Pooled(g.pl[s]) \in Player
                       /\ g.pl[s] \in Sound => Pooled(g.pl[s]) \in Sound
                       /\ Pooled(g.pl[s]).folded = g.pl[s].folded
                       /\ Pooled(g.pl[s]).bet = 0
  BY HandFields, PooledSound
<1>2. pl \in [Seats -> Player] /\ \A s \in Seats : pl[s] = Pooled(g.pl[s])
  BY <1>1
<1>3. Collect(g) = [g EXCEPT !.pl = pl]
  BY DEF Collect
<1> HIDE DEF pl
<1>4. /\ Collect(g) \in Hand /\ Collect(g).pl = pl
      /\ Collect(g).phase = g.phase /\ Collect(g).street = g.street
      /\ Collect(g).toAct = g.toAct
  BY <1>2, <1>3, PlayersReplaced
<1> QED BY <1>1, <1>2, <1>4 DEF SameHand, Books, NothingInFront

\* Turning all cards over keeps the hand sound.
LEMMA RevealAllFacts ==
  ASSUME NEW g \in Hand
  PROVE  /\ RevealAll(g) \in Hand /\ SameHand(RevealAll(g), g)
         /\ Books(g) => Books(RevealAll(g))
         /\ NothingInFront(g) => NothingInFront(RevealAll(g))
<1> DEFINE pl == [s \in Seats |->
                    IF s \in Live(g) THEN Faced(g.pl[s]) ELSE g.pl[s]]
<1>1. \A s \in Seats : /\ g.pl[s] \in Player /\ Faced(g.pl[s]) \in Player
                       /\ g.pl[s] \in Sound => Faced(g.pl[s]) \in Sound
                       /\ Faced(g.pl[s]).folded = g.pl[s].folded
                       /\ Faced(g.pl[s]).bet = g.pl[s].bet
  BY HandFields, FacedSound
<1>2. /\ pl \in [Seats -> Player]
      /\ \A s \in Seats : pl[s] = Faced(g.pl[s]) \/ pl[s] = g.pl[s]
  BY <1>1
<1>3. RevealAll(g) = [g EXCEPT !.pl = pl]
  BY DEF RevealAll
<1> HIDE DEF pl
<1>4. /\ RevealAll(g) \in Hand /\ RevealAll(g).pl = pl
      /\ RevealAll(g).phase = g.phase /\ RevealAll(g).street = g.street
      /\ RevealAll(g).toAct = g.toAct
  BY <1>2, <1>3, PlayersReplaced
<1> QED BY <1>1, <1>2, <1>4 DEF SameHand, Books, NothingInFront

-----------------------------------------------------------------------------
(* Paying the pots *)

\* The pots of a hand have the type of the code's Pot.
LEMMA PotsOfType ==
  ASSUME NEW g \in Hand
  PROVE  IsPots(PotsOf(g), Seats)
<1>1. DOMAIN Contributions(g) = Seats
  BY DEF Contributions
<1>2. IsTable(Contributions(g))
  <2>1. \A s \in Seats : Contributions(g)[s].total \in Nat
    BY HandFields DEF Contributions, Player
  <2> QED BY <1>1, <2>1, SeatsFacts DEF IsTable
<1> QED BY <1>1, <1>2, BuildPotsType DEF PotsOf

\* finish makes a hand with a result and nobody to act.
LEMMA FinishFacts ==
  ASSUME NEW g \in Hand, NEW pots, IsPots(pots, Seats)
  PROVE  /\ Finish(g, pots) \in Hand
         /\ Finish(g, pots).phase = "result" /\ Finish(g, pots).toAct = NoSeat
<1> DEFINE pl == [s \in Seats |-> [g.pl[s] EXCEPT !.committed = 0]]
           final == {[level |-> l, amount |-> pots[l].amount,
                      eligible |-> pots[l].eligible] : l \in DOMAIN pots}
<1>1. pl \in [Seats -> Player]
  <2>1. \A p \in Player : [p EXCEPT !.committed = 0] \in Player
    BY DEF Player
  <2> QED BY <2>1, HandFields
<1>2. final \in SUBSET Pot
  BY DEF Pot, IsPots
<1>3. Finish(g, pots) = [g EXCEPT !.pl = pl, !.phase = "result",
                                  !.toAct = NoSeat, !.finalPots = final]
  BY DEF Finish
<1> HIDE DEF pl, final
<1> QED BY <1>1, <1>2, <1>3 DEF Hand, Phases

\* A winner's share of a pot is a whole number.
LEMMA ShareType ==
  ASSUME NEW W \in SUBSET Seats, NEW amount \in Int, NEW s
  PROVE  Share(W, amount, s) \in Int
<1>1. CASE s \notin W
  BY <1>1 DEF Share
<1>2. CASE s \in W
  <2> DEFINE n == Cardinality(W)
             before == Cardinality({t \in W : Gap(cfg.button + 1, t)
                                                < Gap(cfg.button + 1, s)})
             odd == IF before < amount % n THEN 1 ELSE 0
  <2>1. n \in Nat \ {0}
    BY <1>2, SeatsFacts, FS_EmptySet
  <2>2. Share(W, amount, s) = amount \div n + odd
    BY <1>2 DEF Share
  <2> HIDE DEF n, before
  <2>3. amount \div n \in Int /\ odd \in Int
    BY <2>1
  <2> QED BY <2>2, <2>3
<1> QED BY <1>1, <1>2

\* So is what a seat gets of a pot on both boards.
LEMMA PotShareType ==
  ASSUME NEW g, NEW pot, pot.amount \in Int, pot.eligible \subseteq Seats, NEW s
  PROVE  PotShare(g, pot, s) \in Int
<1>1. Winners(g, pot, 1) \in SUBSET Seats /\ Winners(g, pot, 2) \in SUBSET Seats
  BY DEF Winners
<1> DEFINE half == pot.amount \div 2
<1>2. half \in Int
  OBVIOUS
<1> HIDE DEF half
<1>3. pot.amount - half \in Int
  BY <1>2
<1>4. /\ Share(Winners(g, pot, 1), pot.amount, s) \in Int
      /\ Share(Winners(g, pot, 1), pot.amount - half, s) \in Int
      /\ Share(Winners(g, pot, 2), half, s) \in Int
  BY <1>1, <1>2, <1>3, ShareType
<1>5. PotShare(g, pot, s) =
        IF g.runTwice
        THEN Share(Winners(g, pot, 1), pot.amount - half, s)
               + Share(Winners(g, pot, 2), half, s)
        ELSE Share(Winners(g, pot, 1), pot.amount, s)
  BY DEF PotShare, half
<1> QED BY <1>4, <1>5

\* What a seat gets of all pots is a number of chips.
LEMMA PrizeType ==
  ASSUME NEW g, NEW pots, IsPots(pots, Seats), NEW s
  PROVE  Prize(g, pots, s) \in Nat
<1> DEFINE f == [l \in DOMAIN pots |-> PotShare(g, pots[l], s)]
<1>1. DOMAIN f = DOMAIN pots /\ \A l \in DOMAIN f : f[l] \in Int
  BY PotShareType DEF IsPots
<1>2. Prize(g, pots, s) = Total(f)
  BY DEF Prize
<1> HIDE DEF f
<1> QED BY <1>1, <1>2, TotalType DEF IsPots

\* awardPots makes a hand with a result.
LEMMA AwardPotsFacts ==
  ASSUME NEW g \in Hand
  PROVE  /\ AwardPots(g) \in Hand
         /\ AwardPots(g).phase = "result" /\ AwardPots(g).toAct = NoSeat
<1> DEFINE pots == PotsOf(g)
           Won(s) == Prized(g.pl[s], Prize(g, pots, s))
           pl == [s \in Seats |->
                    IF s \in Live(g) /\ WinsAPot(g, pots, s) THEN Faced(Won(s))
                                                            ELSE Won(s)]
<1>1. IsPots(pots, Seats)
  BY PotsOfType
<1>2. \A s \in Seats : Won(s) \in Player /\ Faced(Won(s)) \in Player
  <2>1. SUFFICES ASSUME NEW s \in Seats
                 PROVE  Won(s) \in Player /\ Faced(Won(s)) \in Player
    OBVIOUS
  <2>2. Prize(g, pots, s) \in Nat
    BY <1>1, PrizeType
  <2>3. Won(s) \in Player
    BY <2>2, HandFields, PrizedType
  <2> QED BY <2>3, FacedSound
<1>3. AwardPots(g) = Finish([g EXCEPT !.pl = pl], pots)
  BY DEF AwardPots
<1> HIDE DEF Won, pots
<1>4. pl \in [Seats -> Player]
  BY <1>2
<1> HIDE DEF pl
<1>5. [g EXCEPT !.pl = pl] \in Hand
  BY <1>4, PlayersReplaced
<1> QED BY <1>1, <1>3, <1>5, FinishFacts

\* finishUncontested makes a hand with a result.
LEMMA FinishUncontestedFacts ==
  ASSUME NEW g \in Hand, Live(g) # {}
  PROVE  /\ FinishUncontested(g) \in Hand
         /\ FinishUncontested(g).phase = "result"
         /\ FinishUncontested(g).toAct = NoSeat
<1> DEFINE r      == ReturnUncalled(g)
           c      == Collect(r)
           pots   == PotsOf(c)
           winner == CHOOSE s \in Seats : s \in Live(c)
           n      == Total(AmountsOf(pots))
<1>1. r \in Hand /\ SameHand(r, g)
  BY ReturnUncalledFacts
<1> HIDE DEF r
<1>2. c \in Hand /\ SameHand(c, r)
  BY <1>1, CollectFacts
<1> HIDE DEF c
<1>3. Live(c) = Live(g)
  BY <1>1, <1>2, SameLive DEF SameHand
<1>4. winner \in Seats
  BY <1>3 DEF Live
<1>5. IsPots(pots, Seats)
  BY <1>2, PotsOfType
<1> HIDE DEF winner, pots
<1>6. n \in Nat
  BY <1>5, AmountsType
<1> HIDE DEF n
<1>7. Prized(c.pl[winner], n) \in Player
  BY <1>2, <1>4, <1>6, HandFields, PrizedType
<1>8. [c EXCEPT !.pl[winner] = Prized(c.pl[winner], n)] \in Hand
  BY <1>2, <1>4, <1>7, SeatReplaced
<1>9. FinishUncontested(g) =
        Finish([c EXCEPT !.pl[winner] = Prized(c.pl[winner], n)], pots)
  BY DEF FinishUncontested, c, r, winner, pots, n
<1> QED BY <1>5, <1>8, <1>9, FinishFacts

-----------------------------------------------------------------------------
(* Settling a round *)

\* The price of the round, as BettingLevels states it of h.
Price(g) ==
  /\ g.lastFullBetLevel <= g.currentBet
  /\ g.lastRaiseSize >= cfg.bb
  /\ \A s \in Seats : /\ g.pl[s].bet <= g.currentBet
                      /\ g.pl[s].actedAtFullLevel <= g.lastFullBetLevel

\* A hand between two calls: IInv below is this predicate of h.
Good(g) ==
  /\ g \in Hand
  /\ g.phase # "result" => Books(g) /\ Cardinality(Live(g)) >= 2
  /\ g.phase = "betting" => Price(g)
  /\ IF g.phase = "betting" THEN g.toAct \in Owing(g) ELSE g.toAct = NoSeat
  /\ g.phase = "deal_pending" => g.street < River
  /\ g.phase \in {"deal_pending", "showdown"} => NothingInFront(g)

\* A hand with a result and nobody to act meets the invariant.
LEMMA ResultIsGood ==
  ASSUME NEW g \in Hand, g.phase = "result", g.toAct = NoSeat
  PROVE  Good(g)
  BY DEF Good

\* A showdown establishes the invariant.
LEMMA ShowdownGood ==
  ASSUME NEW g \in Hand, Books(g), NothingInFront(g),
         Cardinality(Live(g)) >= 2
  PROVE  Good(Showdown(g))
<1>1. CASE \A s \in Live(g) : g.pl[s].revealed
  <2>1. Showdown(g) = AwardPots(g)
    BY <1>1 DEF Showdown
  <2> QED BY <2>1, AwardPotsFacts, ResultIsGood
<1>2. CASE ~\A s \in Live(g) : g.pl[s].revealed
  <2> DEFINE c == [g EXCEPT !.phase = "showdown", !.showIdx = 0,
                            !.toAct = NoSeat]
  <2>1. Showdown(g) = c
    BY <1>2 DEF Showdown
  <2>2. /\ c \in Hand /\ c.pl = g.pl /\ c.phase = "showdown"
        /\ c.toAct = NoSeat
    BY DEF Hand, Phases
  <2> HIDE DEF c
  <2>3. Live(c) = Live(g)
    BY <2>2, SameLive
  <2> QED BY <2>1, <2>2, <2>3 DEF Good, Books, NothingInFront
<1> QED BY <1>1, <1>2

\* The end of a street establishes the invariant.
LEMMA EndStreetGood ==
  ASSUME NEW g \in Hand, Books(g), Cardinality(Live(g)) >= 2
  PROVE  Good(EndStreet(g))
<1> DEFINE r == ReturnUncalled(g)
           k == Collect(r)
           c == [k EXCEPT !.toAct = NoSeat]
           d == [c EXCEPT !.phase = "deal_pending"]
           e == [d EXCEPT !.runout = TRUE]
<1>1. EndStreet(g) = IF c.street = River THEN Showdown(c)
                     ELSE IF Cardinality(Active(c)) < 2 THEN RevealAll(e) ELSE d
  BY DEF EndStreet
<1>2. r \in Hand /\ Books(r) /\ SameHand(r, g)
  BY ReturnUncalledFacts
<1> HIDE DEF r
<1>3. k \in Hand /\ Books(k) /\ NothingInFront(k) /\ SameHand(k, r)
  BY <1>2, CollectFacts
<1> HIDE DEF k
<1>4. c \in Hand /\ c.pl = k.pl /\ c.toAct = NoSeat /\ c.street \in Streets
  BY <1>3 DEF Hand
<1> HIDE DEF c
<1>5. Books(c) /\ NothingInFront(c) /\ Live(c) = Live(g)
  <2>1. Live(k) = Live(g)
    BY <1>2, <1>3, SameLive DEF SameHand
  <2>2. Live(c) = Live(k)
    BY <1>4, SameLive
  <2> QED BY <1>3, <1>4, <2>1, <2>2 DEF Books, NothingInFront
<1>6. CASE c.street = River
  BY <1>1, <1>4, <1>5, <1>6, ShowdownGood
<1>7. CASE c.street # River
  <2>1. c.street < River
    BY <1>4, <1>7 DEF Streets, River
  <2>2. /\ d \in Hand /\ d.pl = c.pl /\ d.toAct = NoSeat
        /\ d.street = c.street /\ d.phase = "deal_pending"
    BY <1>4 DEF Hand, Phases
  <2> HIDE DEF d
  <2>3. Books(d) /\ NothingInFront(d) /\ Live(d) = Live(g)
    BY <1>5, <2>2, SameLive DEF Books, NothingInFront
  <2>4. Good(d)
    BY <2>1, <2>2, <2>3 DEF Good
  <2>5. /\ e \in Hand /\ e.pl = d.pl /\ e.toAct = NoSeat
        /\ e.street = d.street /\ e.phase = "deal_pending"
    BY <2>2 DEF Hand
  <2> HIDE DEF e
  <2>6. Books(e) /\ NothingInFront(e) /\ Live(e) = Live(g)
    BY <2>3, <2>5, SameLive DEF Books, NothingInFront
  <2>7. /\ RevealAll(e) \in Hand /\ SameHand(RevealAll(e), e)
        /\ Books(RevealAll(e)) /\ NothingInFront(RevealAll(e))
    BY <2>5, <2>6, RevealAllFacts
  <2>8. Live(RevealAll(e)) = Live(g)
    BY <2>6, <2>7, SameLive DEF SameHand
  <2>9. Good(RevealAll(e))
    BY <2>1, <2>2, <2>5, <2>7, <2>8 DEF Good, SameHand
  <2> QED BY <1>1, <1>7, <2>4, <2>9
<1> QED BY <1>6, <1>7

\* settle never reaches its panic: a round that is not complete has a seat
\* that owes an action.
LEMMA SomebodyOwes ==
  ASSUME NEW g \in Hand, Price(g), ~RoundComplete(g)
  PROVE  Owing(g) # {}
<1>1. PICK s \in Active(g) : \/ g.pl[s].bet # g.currentBet
                             \/ ~g.pl[s].hasActed
  BY DEF RoundComplete
<1>2. s \in Seats
  BY <1>1, LiveFacts
<1>3. g.pl[s].bet \in Nat /\ g.currentBet \in Nat /\ g.pl[s].bet <= g.currentBet
  BY <1>2, HandFields DEF Price, Player
<1>4. s \in Owing(g)
  BY <1>1, <1>3 DEF Owing
<1> QED BY <1>4

\* Somebody still in the hand: settle leaves a hand between two calls.
LEMMA SettleGood ==
  ASSUME NEW g \in Hand, Books(g), Price(g), g.phase = "betting",
         Live(g) # {}, NEW start \in Int
  PROVE  Good(Settle(g, start))
<1>1. CASE Cardinality(Live(g)) = 1
  <2>1. Settle(g, start) = FinishUncontested(g)
    BY <1>1 DEF Settle
  <2> QED BY <2>1, FinishUncontestedFacts, ResultIsGood
<1>2. CASE Cardinality(Live(g)) # 1
  <2>1. Cardinality(Live(g)) >= 2
    BY <1>2, LiveFacts
  <2>2. CASE RoundComplete(g)
    <3>1. Settle(g, start) = EndStreet(g)
      BY <1>2, <2>2 DEF Settle
    <3> QED BY <2>1, <3>1, EndStreetGood
  <2>3. CASE ~RoundComplete(g)
    <3> DEFINE n == FirstFrom(start, Owing(g))
               c == [g EXCEPT !.toAct = n]
    <3>1. Owing(g) # {} /\ Owing(g) \in SUBSET Seats
      BY <2>3, SomebodyOwes, LiveFacts
    <3>2. Settle(g, start) = c
      BY <1>2, <2>3, <3>1 DEF Settle, NextActor
    <3>3. n \in Owing(g) /\ n \in Seats
      BY <3>1, FirstFromIn
    <3> HIDE DEF n
    <3>4. /\ c \in Hand /\ c.pl = g.pl /\ c.toAct = n /\ c.phase = "betting"
          /\ c.currentBet = g.currentBet
          /\ c.lastFullBetLevel = g.lastFullBetLevel
          /\ c.lastRaiseSize = g.lastRaiseSize
      BY <3>3 DEF Hand
    <3> HIDE DEF c
    <3>5. Live(c) = Live(g) /\ Owing(c) = Owing(g)
      BY <3>4 DEF Live, Active, Owing
    <3> QED BY <2>1, <3>2, <3>3, <3>4, <3>5 DEF Good, Books, Price
  <2> QED BY <2>2, <2>3
<1> QED BY <1>1, <1>2

-----------------------------------------------------------------------------
(* Player actions *)

\* What a change of one seat keeps of the rest of the hand.
SameTable(c, g) ==
  /\ c.phase = g.phase /\ c.street = g.street /\ c.toAct = g.toAct

\* A fold takes its seat out of the hand and changes nothing else.
LEMMA FoldFacts ==
  ASSUME NEW g \in Hand, NEW s \in Seats
  PROVE  /\ Fold(g, s) \in Hand /\ SameTable(Fold(g, s), g)
         /\ Books(g) => Books(Fold(g, s))
         /\ NothingInFront(g) => NothingInFront(Fold(g, s))
         /\ Price(g) => Price(Fold(g, s))
         /\ Live(Fold(g, s)) = Live(g) \ {s}
         /\ Owing(Fold(g, s)) = Owing(g) \ {s}
<1> DEFINE c == Fold(g, s)
<1>1. g.pl[s] \in Player
  BY HandFields
<1>2. /\ Folded(g.pl[s]) \in Player
      /\ g.pl[s] \in Sound => Folded(g.pl[s]) \in Sound
      /\ Folded(g.pl[s]).folded = TRUE
      /\ Folded(g.pl[s]).bet = g.pl[s].bet
      /\ Folded(g.pl[s]).actedAtFullLevel = g.pl[s].actedAtFullLevel
  BY <1>1, FoldedSound
<1>3. c = [g EXCEPT !.pl[s] = Folded(g.pl[s])]
  BY DEF Fold
<1> HIDE DEF c
<1>4. /\ c \in Hand /\ c.pl[s] = Folded(g.pl[s])
      /\ \A t \in Seats \ {s} : c.pl[t] = g.pl[t]
      /\ SameTable(c, g) /\ c.currentBet = g.currentBet
      /\ c.lastFullBetLevel = g.lastFullBetLevel
      /\ c.lastRaiseSize = g.lastRaiseSize
  BY <1>2, <1>3, SeatReplaced DEF SameTable
<1>5. Live(c) = Live(g) \ {s} /\ Owing(c) = Owing(g) \ {s}
  BY <1>2, <1>4 DEF Live, Owing, Active
<1>6. Price(g) => Price(c)
  BY <1>2, <1>4 DEF Price
<1>7. Books(g) => Books(c)
  BY <1>2, <1>4 DEF Books
<1>8. NothingInFront(g) => NothingInFront(c)
  BY <1>2, <1>4 DEF NothingInFront
<1> QED BY <1>4, <1>5, <1>6, <1>7, <1>8 DEF c

\* A commitment raises its seat's bet and changes no other seat.
LEMMA CommitFacts ==
  ASSUME NEW g \in Hand, NEW s \in Seats, NEW n \in Nat, n <= g.pl[s].stack
  PROVE  LET c == Commit(g, s, n)
         IN  /\ c \in Hand /\ SameHand(c, g)
             /\ Books(g) => Books(c)
             /\ c.pl[s].bet = g.pl[s].bet + n
             /\ c.pl[s].actedAtFullLevel = g.pl[s].actedAtFullLevel
             /\ \A t \in Seats \ {s} : c.pl[t] = g.pl[t]
             /\ c.currentBet = g.currentBet
             /\ c.lastFullBetLevel = g.lastFullBetLevel
             /\ c.lastRaiseSize = g.lastRaiseSize
<1> DEFINE c == Commit(g, s, n)
           q == Staked(g.pl[s], n)
<1>1. g.pl[s] \in Player
  BY HandFields
<1>2. /\ q \in Player
      /\ g.pl[s] \in Sound => q \in Sound
      /\ q.folded = g.pl[s].folded /\ q.bet = g.pl[s].bet + n
      /\ q.actedAtFullLevel = g.pl[s].actedAtFullLevel
  BY <1>1, StakedSound
<1>3. c = [g EXCEPT !.pl[s] = q]
  BY DEF Commit
<1> HIDE DEF c, q
<1>4. /\ c \in Hand /\ c.pl[s] = q /\ \A t \in Seats \ {s} : c.pl[t] = g.pl[t]
      /\ c.phase = g.phase /\ c.street = g.street /\ c.toAct = g.toAct
      /\ c.currentBet = g.currentBet
      /\ c.lastFullBetLevel = g.lastFullBetLevel
      /\ c.lastRaiseSize = g.lastRaiseSize
  BY <1>2, <1>3, SeatReplaced
<1>5. SameHand(c, g) /\ (Books(g) => Books(c))
  BY <1>2, <1>4 DEF SameHand, Books
<1> QED BY <1>2, <1>4, <1>5 DEF c

\* Marking a seat as having acted keeps the hand sound.
LEMMA ActedFacts ==
  ASSUME NEW g \in Hand, NEW s \in Seats, Books(g), Price(g)
  PROVE  LET c == Acted(g, s)
         IN  c \in Hand /\ SameHand(c, g) /\ Books(c) /\ Price(c)
<1> DEFINE c == Acted(g, s)
           q == [g.pl[s] EXCEPT !.hasActed = TRUE,
                                !.actedAtFullLevel = g.lastFullBetLevel]
<1>1. g.pl[s] \in Player /\ g.pl[s] \in Sound /\ g.lastFullBetLevel \in Nat
  BY HandFields DEF Books
<1>2. /\ q \in Player /\ q.folded = g.pl[s].folded /\ q.bet = g.pl[s].bet
      /\ q.stack = g.pl[s].stack /\ q.committed = g.pl[s].committed
      /\ q.startStack = g.pl[s].startStack /\ q.won = g.pl[s].won
      /\ q.allIn = g.pl[s].allIn /\ q.actedAtFullLevel = g.lastFullBetLevel
  BY <1>1 DEF Player
<1>3. c = [g EXCEPT !.pl[s] = q]
  BY DEF Acted
<1> HIDE DEF c, q
<1>4. q \in Sound
  BY <1>1, <1>2 DEF Sound
<1>5. /\ c \in Hand /\ c.pl[s] = q /\ \A t \in Seats \ {s} : c.pl[t] = g.pl[t]
      /\ c.phase = g.phase /\ c.street = g.street /\ c.toAct = g.toAct
      /\ c.currentBet = g.currentBet
      /\ c.lastFullBetLevel = g.lastFullBetLevel
      /\ c.lastRaiseSize = g.lastRaiseSize
  BY <1>2, <1>3, SeatReplaced
<1>6. SameHand(c, g) /\ Books(c)
  BY <1>2, <1>4, <1>5 DEF SameHand, Books
<1>7. Price(c)
  <2>1. \A t \in Seats : /\ c.pl[t].bet <= c.currentBet
                         /\ c.pl[t].actedAtFullLevel <= c.lastFullBetLevel
    BY <1>1, <1>2, <1>5 DEF Price
  <2> QED BY <1>5, <2>1 DEF Price
<1> QED BY <1>5, <1>6, <1>7 DEF c

\* A wager above the price, within what the seat has.
LEMMA WagerToFacts ==
  ASSUME cfg \in HandConfig,
         NEW g \in Hand, NEW s \in Seats, Books(g), Price(g),
         NEW amount \in Nat, g.currentBet < amount, amount <= MaxTo(g, s),
         NEW minTo \in Nat, minTo - g.currentBet >= cfg.bb
  PROVE  LET c == WagerTo(g, s, amount, minTo)
         IN  c \in Hand /\ SameHand(c, g) /\ Books(c) /\ Price(c)
<1> DEFINE n == amount - g.pl[s].bet
           c == Commit(g, s, n)
           d == [c EXCEPT !.currentBet = amount, !.aggressor = s]
           e == [d EXCEPT !.lastRaiseSize = amount - g.currentBet,
                          !.lastFullBetLevel = amount]
<1>1. /\ g.pl[s].bet \in Nat /\ g.pl[s].stack \in Nat /\ g.currentBet \in Nat
      /\ g.lastFullBetLevel \in Nat /\ g.lastRaiseSize \in Nat
      /\ g.pl[s].bet <= g.currentBet /\ cfg.bb \in Nat
  BY HandFields DEF Player, Price, HandConfig
<1>2. n \in Nat /\ n <= g.pl[s].stack /\ g.pl[s].bet + n = amount
  BY <1>1 DEF MaxTo
<1> HIDE DEF n
<1>3. /\ c \in Hand /\ SameHand(c, g) /\ Books(c)
      /\ c.pl[s].bet = amount
      /\ c.pl[s].actedAtFullLevel = g.pl[s].actedAtFullLevel
      /\ \A t \in Seats \ {s} : c.pl[t] = g.pl[t]
      /\ c.currentBet = g.currentBet
      /\ c.lastFullBetLevel = g.lastFullBetLevel
      /\ c.lastRaiseSize = g.lastRaiseSize
  BY <1>2, CommitFacts
<1>4. WagerTo(g, s, amount, minTo) = IF amount >= minTo THEN e ELSE d
  BY DEF WagerTo, n
<1> HIDE DEF c
<1>5. /\ d \in Hand /\ d.pl = c.pl /\ d.phase = c.phase
      /\ d.street = c.street /\ d.toAct = c.toAct
      /\ d.currentBet = amount /\ d.lastFullBetLevel = c.lastFullBetLevel
      /\ d.lastRaiseSize = c.lastRaiseSize
  BY <1>3 DEF Hand
<1> HIDE DEF d
<1>6. \A t \in Seats : /\ c.pl[t].bet \in Nat /\ c.pl[t].actedAtFullLevel \in Nat
                       /\ c.pl[t].bet <= amount
                       /\ c.pl[t].actedAtFullLevel <= g.lastFullBetLevel
  <2>1. \A t \in Seats : /\ g.pl[t].bet \in Nat
                         /\ g.pl[t].actedAtFullLevel \in Nat
                         /\ c.pl[t].bet \in Nat
                         /\ c.pl[t].actedAtFullLevel \in Nat
    BY <1>3, HandFields DEF Player
  <2> QED BY <1>1, <1>3, <2>1 DEF Price
<1>7. CASE amount >= minTo
  <2>1. amount - g.currentBet \in Nat /\ amount - g.currentBet >= cfg.bb
    BY <1>1, <1>7
  <2>2. /\ e \in Hand /\ e.pl = d.pl /\ e.phase = d.phase
        /\ e.street = d.street /\ e.toAct = d.toAct
        /\ e.currentBet = amount /\ e.lastFullBetLevel = amount
        /\ e.lastRaiseSize = amount - g.currentBet
    BY <1>5, <2>1 DEF Hand
  <2> HIDE DEF e
  <2>3. Price(e)
    BY <1>1, <1>5, <1>6, <2>1, <2>2 DEF Price
  <2> QED BY <1>3, <1>4, <1>5, <1>7, <2>2, <2>3 DEF SameHand, Books
<1>8. CASE ~(amount >= minTo)
  <2>1. Price(d)
    BY <1>1, <1>3, <1>5, <1>6 DEF Price
  <2> QED BY <1>3, <1>4, <1>5, <1>8, <2>1 DEF SameHand, Books
<1> QED BY <1>7, <1>8

\* A resolved action names one of the five moves and an amount in chips.
LEMMA ResolveFacts ==
  ASSUME NEW g \in Hand, NEW s \in Seats, NEW a \in Actions
  PROVE  LET r == Resolve(g, s, a)
         IN  /\ r.kind \in {"fold", "check", "call", "bet", "raise"}
             /\ r.amount \in Nat
             /\ r.kind = "bet" => g.currentBet = 0
<1> DEFINE r == Resolve(g, s, a)
<1>1. a.kind \in Kinds /\ a.amount \in Nat
  BY StackAssumption DEF Actions, Kinds
<1>2. MaxTo(g, s) \in Nat /\ g.currentBet \in Nat
  BY HandFields DEF MaxTo, Player
<1>3. r.amount = IF a.kind = "all_in" THEN MaxTo(g, s) ELSE a.amount
  BY DEF Resolve
<1> DEFINE shove == a.kind = "all_in"
           short == shove /\ g.currentBet > 0 /\ MaxTo(g, s) <= g.currentBet
           wager == a.kind \in {"bet", "raise"} \/ (shove /\ ~short)
<1>4. r.kind = IF short THEN "call"
               ELSE IF wager THEN IF g.currentBet = 0 THEN "bet" ELSE "raise"
               ELSE a.kind
  BY DEF Resolve
<1> HIDE DEF r
<1> QED BY <1>1, <1>2, <1>3, <1>4 DEF r, Kinds

\* What settle needs after a seat has acted, apart from the seats left.
Acting(c) ==
  /\ c \in Hand /\ Books(c) /\ Price(c) /\ c.phase = "betting"

\* A legal action leaves a round that can be settled, and folds its own seat
\* at most.
LEMMA PerformFacts ==
  ASSUME cfg \in HandConfig,
         NEW g \in Hand, NEW s \in Seats, Books(g), Price(g),
         g.phase = "betting", NEW a \in Actions,
         Legal(g, s, Resolve(g, s, a))
  PROVE  LET c == Perform(g, s, Resolve(g, s, a))
         IN  Acting(c) /\ Live(g) \ {s} \subseteq Live(c)
<1> DEFINE r == Resolve(g, s, a)
           c == Perform(g, s, r)
<1>1. /\ r.kind \in {"fold", "check", "call", "bet", "raise"}
      /\ r.amount \in Nat
      /\ r.kind = "bet" => g.currentBet = 0
  BY ResolveFacts
<1> HIDE DEF r
<1>2. /\ g.pl[s].bet \in Nat /\ g.pl[s].stack \in Nat /\ g.currentBet \in Nat
      /\ g.lastRaiseSize \in Nat /\ g.lastRaiseSize >= cfg.bb /\ cfg.bb \in Nat
  BY HandFields DEF Player, HandConfig, Price
<1>3. CASE r.kind = "fold"
  <2>1. c = Fold(g, s)
    BY <1>3 DEF Perform
  <2> HIDE DEF c
  <2> QED BY <2>1, FoldFacts DEF SameTable, Acting, r, c
<1>4. CASE r.kind = "check"
  <2>1. c = g
    BY <1>4 DEF Perform
  <2> HIDE DEF c
  <2> QED BY <2>1 DEF Acting, r, c
<1>5. CASE r.kind = "call"
  <2> DEFINE n == CallAmount(g, s)
  <2>1. ToCall(g, s) > 0
    BY <1>5 DEF Legal, r
  <2>2. n \in Nat /\ n <= g.pl[s].stack /\ n <= g.currentBet - g.pl[s].bet
    BY <1>2, <2>1 DEF CallAmount, ToCall, Min2
  <2>3. c = Commit(g, s, n)
    BY <1>5 DEF Perform
  <2> HIDE DEF n, c
  <2>4. /\ c \in Hand /\ SameHand(c, g) /\ Books(c)
        /\ c.pl[s].bet = g.pl[s].bet + n
        /\ c.pl[s].actedAtFullLevel = g.pl[s].actedAtFullLevel
        /\ \A t \in Seats \ {s} : c.pl[t] = g.pl[t]
        /\ c.currentBet = g.currentBet
        /\ c.lastFullBetLevel = g.lastFullBetLevel
        /\ c.lastRaiseSize = g.lastRaiseSize
    BY <2>2, <2>3, CommitFacts
  <2>5. c.pl[s].bet <= c.currentBet
    BY <1>2, <2>2, <2>4
  <2>6. Price(c)
    BY <2>4, <2>5 DEF Price
  <2>7. Live(c) = Live(g)
    BY <2>4, SameLive DEF SameHand
  <2> QED BY <2>4, <2>6, <2>7 DEF Acting, SameHand, r, c
<1>6. CASE r.kind = "bet"
  <2>1. r.amount > g.currentBet /\ r.amount <= MaxTo(g, s)
    BY <1>1, <1>2, <1>6 DEF Legal, LegalBet, r
  <2>2. c = WagerTo(g, s, r.amount, cfg.bb)
    BY <1>6 DEF Perform
  <2>3. cfg.bb - g.currentBet >= cfg.bb
    BY <1>1, <1>2, <1>6
  <2> HIDE DEF c
  <2>4. c \in Hand /\ SameHand(c, g) /\ Books(c) /\ Price(c)
    BY <1>1, <1>2, <2>1, <2>2, <2>3, WagerToFacts
  <2>5. Live(c) = Live(g)
    BY <2>4, SameLive DEF SameHand
  <2> QED BY <2>4, <2>5 DEF Acting, SameHand, r, c
<1>7. CASE r.kind = "raise"
  <2>1. r.amount > g.currentBet /\ r.amount <= MaxTo(g, s)
    BY <1>1, <1>2, <1>7 DEF Legal, LegalRaise, r
  <2>2. c = WagerTo(g, s, r.amount, MinRaiseTo(g))
    BY <1>7 DEF Perform
  <2>3. MinRaiseTo(g) \in Nat /\ MinRaiseTo(g) - g.currentBet >= cfg.bb
    BY <1>2 DEF MinRaiseTo
  <2> HIDE DEF c
  <2>4. c \in Hand /\ SameHand(c, g) /\ Books(c) /\ Price(c)
    BY <1>1, <2>1, <2>2, <2>3, WagerToFacts
  <2>5. Live(c) = Live(g)
    BY <2>4, SameLive DEF SameHand
  <2> QED BY <2>4, <2>5 DEF Acting, SameHand, r, c
<1> QED BY <1>1, <1>3, <1>4, <1>5, <1>6, <1>7

\* Somebody is left when one of at least two goes.
LEMMA OneLeft ==
  ASSUME NEW g, Cardinality(Live(g)) >= 2, NEW s
  PROVE  Live(g) \ {s} # {}
<1>1. IsFiniteSet(Live(g)) /\ Cardinality(Live(g)) \in Nat
  BY LiveFacts
<1>2. /\ IsFiniteSet(Live(g) \ {s})
      /\ Cardinality(Live(g) \ {s}) = IF s \in Live(g)
                                      THEN Cardinality(Live(g)) - 1
                                      ELSE Cardinality(Live(g))
  BY <1>1, FS_RemoveElement
<1>3. Cardinality(Live(g) \ {s}) # 0
  BY <1>1, <1>2
<1> QED BY <1>3, FS_EmptySet

\* A seat has acted and the turn goes on.
LEMMA AfterAct ==
  ASSUME NEW g, NEW c, Acting(c), NEW s \in Seats,
         Cardinality(Live(g)) >= 2, Live(g) \ {s} \subseteq Live(c)
  PROVE  Good(Settle(Acted(c, s), s + 1))
<1> DEFINE d == Acted(c, s)
<1>1. d \in Hand /\ SameHand(d, c) /\ Books(d) /\ Price(d)
  BY ActedFacts DEF Acting
<1> HIDE DEF d
<1>2. d.phase = "betting" /\ Live(d) = Live(c)
  BY <1>1, SameLive DEF SameHand, Acting
<1>3. Live(d) # {}
  BY <1>2, OneLeft
<1>4. s + 1 \in Int
  BY SeatsFacts
<1>5. Good(Settle(d, s + 1))
  BY <1>1, <1>2, <1>3, <1>4, SettleGood
<1> QED BY <1>5 DEF d

\* settle without the acted marks, after the seat to act has left.
LEMMA AfterForfeitGood ==
  ASSUME NEW g, Good(g), NEW s \in Live(g),
         g.phase \in {"betting", "deal_pending"}
  PROVE  Good(AfterForfeit(Fold(g, s), s))
<1> DEFINE c == Fold(g, s)
<1>1. g \in Hand /\ s \in Seats /\ Books(g) /\ Cardinality(Live(g)) >= 2
  BY LiveFacts DEF Good
<1>2. /\ c \in Hand /\ SameTable(c, g) /\ Books(c)
      /\ NothingInFront(g) => NothingInFront(c)
      /\ Price(g) => Price(c)
      /\ Live(c) = Live(g) \ {s} /\ Owing(c) = Owing(g) \ {s}
  BY <1>1, FoldFacts
<1> HIDE DEF c
<1>3. Live(c) # {}
  BY <1>1, <1>2, OneLeft
<1>4. CASE Cardinality(Live(c)) = 1
  <2>1. AfterForfeit(c, s) = FinishUncontested(c)
    BY <1>4 DEF AfterForfeit
  <2> QED BY <1>2, <1>3, <2>1, FinishUncontestedFacts, ResultIsGood DEF c
<1>5. CASE Cardinality(Live(c)) # 1 /\ g.phase = "deal_pending"
  <2>1. Cardinality(Live(c)) >= 2
    BY <1>3, <1>5, LiveFacts
  <2>2. AfterForfeit(c, s) = c
    BY <1>2, <1>5 DEF AfterForfeit, SameTable
  <2>3. Good(c)
    BY <1>2, <1>5, <2>1 DEF Good, SameTable
  <2> QED BY <2>2, <2>3 DEF c
<1>6. CASE Cardinality(Live(c)) # 1 /\ g.phase = "betting"
  <2>1. Cardinality(Live(c)) >= 2
    BY <1>3, <1>6, LiveFacts
  <2>2. Price(c) /\ c.phase = "betting" /\ c.toAct = g.toAct
        /\ g.toAct \in Owing(g)
    BY <1>2, <1>6 DEF Good, SameTable
  <2>3. CASE c.toAct = s
    <3>1. AfterForfeit(c, s) = Settle(c, s + 1)
      BY <1>6, <2>2, <2>3 DEF AfterForfeit
    <3>2. s + 1 \in Int
      BY <1>1, SeatsFacts
    <3> QED BY <1>2, <1>3, <2>2, <3>1, <3>2, SettleGood DEF c
  <2>4. CASE c.toAct # s /\ RoundComplete(c)
    <3>1. AfterForfeit(c, s) = EndStreet(c)
      BY <1>6, <2>2, <2>4 DEF AfterForfeit
    <3> QED BY <1>2, <2>1, <3>1, EndStreetGood DEF c
  <2>5. CASE c.toAct # s /\ ~RoundComplete(c)
    <3>1. AfterForfeit(c, s) = c
      BY <1>6, <2>2, <2>5 DEF AfterForfeit
    <3>2. Good(c)
      BY <1>2, <2>1, <2>2, <2>5 DEF Good
    <3> QED BY <3>1, <3>2 DEF c
  <2> QED BY <2>3, <2>4, <2>5
<1> QED BY <1>4, <1>5, <1>6

-----------------------------------------------------------------------------
(* A new hand *)

\* The next seat is another one, and the first from here.
LEMMA NextSeatFacts ==
  ASSUME NEW s \in Seats
  PROVE  /\ NextSeat(s) \in Seats
         /\ \A t \in Seats : Gap(s + 1, NextSeat(s)) <= Gap(s + 1, t)
         /\ NextSeat(s) # s
<1>1. s \in Nat /\ s + 1 \in Int /\ MaxSeats \in Nat
      /\ \A t \in Seats : t \in 0 .. MaxSeats - 1
  BY SeatsFacts, SeatsAssumption
<1> DEFINE f == [t \in Seats |-> Gap(s + 1, t)]
<1>2. \A t \in Seats : f[t] = Gap(s + 1, t) /\ f[t] \in Int
  BY <1>1 DEF Gap
<1>3. IsFiniteSet(Seats) /\ Seats # {}
  BY SeatsFacts, FS_EmptySet
<1>4. \E m \in Seats : \A t \in Seats : f[m] <= f[t]
  <2> HIDE DEF f
  <2> QED BY <1>2, <1>3, SmallestExists
<1>5. \E m \in Seats : \A t \in Seats : Gap(s + 1, m) <= Gap(s + 1, t)
  BY <1>2, <1>4
<1>6. /\ NextSeat(s) \in Seats
      /\ \A t \in Seats : Gap(s + 1, NextSeat(s)) <= Gap(s + 1, t)
  BY <1>5 DEF NextSeat, FirstFrom
<1>7. PICK t \in Seats : t # s
  <2>1. SUFFICES ASSUME Seats = {s} PROVE FALSE
    OBVIOUS
  <2>2. Cardinality({s}) = 1
    BY FS_Singleton, Zenon
  <2> QED BY <2>1, <2>2, SeatsFacts
<1>8. Gap(s + 1, t) < Gap(s + 1, s)
  BY <1>1, <1>7 DEF Gap
<1>9. NextSeat(s) # s
  <2>1. SUFFICES ASSUME NextSeat(s) = s PROVE FALSE
    OBVIOUS
  <2>2. Gap(s + 1, s) <= Gap(s + 1, t)
    BY <1>6, <2>1
  <2>3. Gap(s + 1, s) \in Int /\ Gap(s + 1, t) \in Int
    BY <1>2
  <2> QED BY <1>8, <2>2, <2>3
<1> QED BY <1>6, <1>9

\* With three seats or more the third one along is not the first one.
LEMMA NextNextSeat ==
  ASSUME NEW x \in Seats, Cardinality(Seats) >= 3
  PROVE  NextSeat(NextSeat(x)) # x
<1> DEFINE y == NextSeat(x)
           z == NextSeat(y)
<1>1. /\ y \in Seats /\ y # x
      /\ \A t \in Seats : Gap(x + 1, y) <= Gap(x + 1, t)
  BY NextSeatFacts
<1>2. \A t \in Seats : Gap(y + 1, z) <= Gap(y + 1, t)
  BY <1>1, NextSeatFacts
<1> HIDE DEF y, z
<1>3. PICK w \in Seats : w # x /\ w # y
  <2>1. SUFFICES ASSUME Seats = {x} \cup {y} PROVE FALSE
    BY <1>1
  <2>2. IsFiniteSet({x}) /\ Cardinality({x}) = 1
    BY FS_Singleton, Zenon
  <2>3. Cardinality({x} \cup {y}) = 2
    BY <1>1, <2>2, FS_AddElement
  <2> QED BY <2>1, <2>3
<1>4. SUFFICES ASSUME z = x PROVE FALSE
  BY DEF y, z
<1>5. Gap(x + 1, y) <= Gap(x + 1, w) /\ Gap(y + 1, x) <= Gap(y + 1, w)
  BY <1>1, <1>2, <1>3, <1>4
<1>6. /\ x \in Nat /\ y \in Nat /\ w \in Nat /\ MaxSeats \in Nat
      /\ x < MaxSeats /\ y < MaxSeats /\ w < MaxSeats
  BY <1>1, SeatsAssumption
<1> QED BY <1>1, <1>3, <1>5, <1>6 DEF Gap

\* The larger of two amounts.
LEMMA MaxOfTwo ==
  ASSUME NEW a \in Nat, NEW b \in Nat
  PROVE  /\ Max({a, b}) \in Nat /\ a <= Max({a, b}) /\ b <= Max({a, b})
<1>1. IsFiniteSet({a})
  BY FS_Singleton, Zenon
<1>2. IsFiniteSet({a} \cup {b}) /\ {a} \cup {b} = {a, b}
  BY <1>1, FS_AddElement
<1>3. {a, b} \subseteq Int /\ {a, b} # {}
  OBVIOUS
<1> HIDE DEF Max
<1>4. Max({a, b}) \in {a, b} /\ \A y \in {a, b} : y <= Max({a, b})
  BY <1>2, <1>3, MaxOfFinite
<1> QED BY <1>4

\* A posted blind is no more than its amount.
LEMMA PostBlindFacts ==
  ASSUME NEW p \in Player, NEW amount \in Nat
  PROVE  LET q == PostBlind(p, amount)
         IN  /\ q \in Player
             /\ p \in Sound => q \in Sound
             /\ q.folded = p.folded /\ q.actedAtFullLevel = p.actedAtFullLevel
             /\ q.bet = p.bet + Min2(amount, p.stack)
             /\ DealtIn(p) => DealtIn(q)
             /\ \A due \in Nat : AntedUp(p, due) => AntedUp(q, due)
<1>1. p.stack \in Nat
  BY DEF Player
<1>2. Min2(amount, p.stack) \in Nat /\ Min2(amount, p.stack) <= p.stack
  BY <1>1 DEF Min2
<1>3. (p.stack - Min2(amount, p.stack)) + (p.bet + Min2(amount, p.stack))
        = p.stack + p.bet
  BY <1>1, <1>2 DEF Player
<1> QED BY <1>1, <1>2, <1>3, StakedSound DEF PostBlind, AntedUp

\* The seats after the forced bets, before a straddle.
LEMMA BlindedFacts ==
  ASSUME cfg \in Configs, NEW stacks \in [Seats -> StartStacks]
  PROVE  LET pl == Blinded(stacks)
         IN  /\ pl \in [Seats -> Player]
             /\ \A s \in Seats : /\ pl[s] \in Sound /\ pl[s].folded = FALSE
                                 /\ pl[s].actedAtFullLevel = 0
                                 /\ pl[s].bet <= cfg.bb
                                 /\ s \notin {SBSeat, BBSeat} => pl[s].bet = 0
                                 /\ DealtIn(pl[s])
                                 /\ AntedUp(pl[s], cfg.ante + cfg.dead[s])
<1> DEFINE Poor(s) == IntoPot(IntoPot(Dealt(stacks[s]), cfg.ante), cfg.dead[s])
           paid == [s \in Seats |-> Poor(s)]
           small == PostBlind(paid[SBSeat], cfg.sb)
           one == [paid EXCEPT ![SBSeat] = small]
           big == PostBlind(one[BBSeat], cfg.bb)
           two == [one EXCEPT ![BBSeat] = big]
<1>1. /\ cfg.sb \in Nat /\ cfg.bb \in Nat /\ cfg.sb <= cfg.bb /\ cfg.ante \in Nat
      /\ cfg.button \in Seats /\ \A s \in Seats : cfg.dead[s] \in Nat
  BY ConfigAssumption DEF HandConfig
<1>2. \A s \in Seats : /\ Poor(s) \in Player /\ Poor(s) \in Sound
                       /\ Poor(s).folded = FALSE /\ Poor(s).bet = 0
                       /\ Poor(s).actedAtFullLevel = 0
                       /\ DealtIn(Poor(s))
                       /\ AntedUp(Poor(s), cfg.ante + cfg.dead[s])
  <2>1. SUFFICES ASSUME NEW s \in Seats
                 PROVE  /\ Poor(s) \in Player /\ Poor(s) \in Sound
                        /\ Poor(s).folded = FALSE /\ Poor(s).bet = 0
                        /\ Poor(s).actedAtFullLevel = 0
                        /\ DealtIn(Poor(s))
                        /\ AntedUp(Poor(s), cfg.ante + cfg.dead[s])
    OBVIOUS
  <2> DEFINE p == Dealt(stacks[s])
             q == IntoPot(p, cfg.ante)
  <2>2. stacks[s] \in Nat \ {0}
    <3>1. stacks[s] \in StartStacks
      OBVIOUS
    <3>2. StartStacks \subseteq 1 .. MaxStack /\ MaxStack \in Nat
      BY StackAssumption
    <3>3. stacks[s] \in 1 .. MaxStack
      BY <3>1, <3>2
    <3> HIDE DEF p
    <3> QED BY <3>2, <3>3
  <2>3. /\ p \in Player /\ p \in Sound /\ p.folded = FALSE /\ p.bet = 0
        /\ p.actedAtFullLevel = 0 /\ DealtIn(p) /\ AntedUp(p, 0)
    BY <2>2, DealtSound DEF Sound
  <2> HIDE DEF p
  <2>4. /\ q \in Player /\ q \in Sound /\ q.folded = FALSE /\ q.bet = 0
        /\ q.actedAtFullLevel = 0 /\ DealtIn(q) /\ AntedUp(q, cfg.ante)
    <3>1. 0 + cfg.ante = cfg.ante
      BY <1>1
    <3>2. AntedUp(q, 0 + cfg.ante)
      BY <1>1, <2>3, IntoPotSound
    <3> QED BY <1>1, <2>3, <3>1, <3>2, IntoPotSound
  <2> HIDE DEF q
  <2>5. /\ IntoPot(q, cfg.dead[s]) \in Player /\ IntoPot(q, cfg.dead[s]) \in Sound
        /\ IntoPot(q, cfg.dead[s]).folded = FALSE
        /\ IntoPot(q, cfg.dead[s]).bet = 0
        /\ IntoPot(q, cfg.dead[s]).actedAtFullLevel = 0
        /\ DealtIn(IntoPot(q, cfg.dead[s]))
        /\ AntedUp(IntoPot(q, cfg.dead[s]), cfg.ante + cfg.dead[s])
    BY <1>1, <2>4, IntoPotSound
  <2> QED BY <2>5 DEF q, p
<1>3. SBSeat \in Seats /\ BBSeat \in Seats /\ BBSeat # SBSeat
  <2>1. SBSeat \in Seats
    BY <1>1, NextSeatFacts DEF SBSeat
  <2> QED BY <2>1, NextSeatFacts DEF BBSeat
<1>4. Blinded(stacks) = two
  BY DEF Blinded
<1> HIDE DEF Poor
<1>5. paid \in [Seats -> Player] /\ \A s \in Seats : paid[s] = Poor(s)
  BY <1>2
<1> HIDE DEF paid
<1>6. /\ small \in Player /\ small \in Sound /\ small.folded = FALSE
      /\ small.actedAtFullLevel = 0 /\ small.bet <= cfg.bb
      /\ DealtIn(small) /\ AntedUp(small, cfg.ante + cfg.dead[SBSeat])
  <2>1. paid[SBSeat] \in Player /\ paid[SBSeat].stack \in Nat
    BY <1>2, <1>3, <1>5 DEF Player
  <2>2. Min2(cfg.sb, paid[SBSeat].stack) \in Nat
        /\ Min2(cfg.sb, paid[SBSeat].stack) <= cfg.bb
    BY <1>1, <2>1 DEF Min2
  <2>3. /\ paid[SBSeat] \in Sound /\ paid[SBSeat].folded = FALSE
        /\ paid[SBSeat].actedAtFullLevel = 0 /\ paid[SBSeat].bet = 0
        /\ DealtIn(paid[SBSeat])
        /\ AntedUp(paid[SBSeat], cfg.ante + cfg.dead[SBSeat])
        /\ cfg.ante + cfg.dead[SBSeat] \in Nat
    BY <1>1, <1>2, <1>3, <1>5
  <2>4. /\ small \in Player
        /\ paid[SBSeat] \in Sound => small \in Sound
        /\ small.folded = paid[SBSeat].folded
        /\ small.actedAtFullLevel = paid[SBSeat].actedAtFullLevel
        /\ small.bet = paid[SBSeat].bet + Min2(cfg.sb, paid[SBSeat].stack)
        /\ DealtIn(paid[SBSeat]) => DealtIn(small)
        /\ \A due \in Nat : AntedUp(paid[SBSeat], due) => AntedUp(small, due)
    BY <1>1, <2>1, PostBlindFacts
  <2> QED BY <2>2, <2>3, <2>4
<1> HIDE DEF small
<1>7. /\ one \in [Seats -> Player] /\ one[SBSeat] = small
      /\ \A s \in Seats \ {SBSeat} : one[s] = paid[s]
  BY <1>3, <1>5, <1>6
<1> HIDE DEF one
<1>8. /\ big \in Player /\ big \in Sound /\ big.folded = FALSE
      /\ big.actedAtFullLevel = 0 /\ big.bet <= cfg.bb
      /\ DealtIn(big) /\ AntedUp(big, cfg.ante + cfg.dead[BBSeat])
  <2>1. /\ one[BBSeat] \in Player /\ one[BBSeat].stack \in Nat
        /\ one[BBSeat] = Poor(BBSeat)
    BY <1>3, <1>5, <1>7 DEF Player
  <2>2. Min2(cfg.bb, one[BBSeat].stack) \in Nat
        /\ Min2(cfg.bb, one[BBSeat].stack) <= cfg.bb
    BY <1>1, <2>1 DEF Min2
  <2>3. /\ one[BBSeat] \in Sound /\ one[BBSeat].folded = FALSE
        /\ one[BBSeat].actedAtFullLevel = 0 /\ one[BBSeat].bet = 0
        /\ DealtIn(one[BBSeat])
        /\ AntedUp(one[BBSeat], cfg.ante + cfg.dead[BBSeat])
        /\ cfg.ante + cfg.dead[BBSeat] \in Nat
    BY <1>1, <1>2, <1>3, <2>1
  <2>4. /\ big \in Player
        /\ one[BBSeat] \in Sound => big \in Sound
        /\ big.folded = one[BBSeat].folded
        /\ big.actedAtFullLevel = one[BBSeat].actedAtFullLevel
        /\ big.bet = one[BBSeat].bet + Min2(cfg.bb, one[BBSeat].stack)
        /\ DealtIn(one[BBSeat]) => DealtIn(big)
        /\ \A due \in Nat : AntedUp(one[BBSeat], due) => AntedUp(big, due)
    BY <1>1, <2>1, PostBlindFacts
  <2> QED BY <2>2, <2>3, <2>4
<1> HIDE DEF big
<1>9. /\ two \in [Seats -> Player] /\ two[BBSeat] = big
      /\ \A s \in Seats \ {BBSeat} : two[s] = one[s]
  BY <1>3, <1>7, <1>8
<1> HIDE DEF two
<1>10. ASSUME NEW s \in Seats
       PROVE  /\ two[s] \in Sound /\ two[s].folded = FALSE
              /\ two[s].actedAtFullLevel = 0 /\ two[s].bet <= cfg.bb
              /\ s \notin {SBSeat, BBSeat} => two[s].bet = 0
              /\ DealtIn(two[s]) /\ AntedUp(two[s], cfg.ante + cfg.dead[s])
  BY <1>1, <1>2, <1>3, <1>5, <1>6, <1>7, <1>8, <1>9
<1> QED BY <1>4, <1>9, <1>10

\* A hand before its first turn.
Opening(g) ==
  /\ g \in Hand /\ Books(g) /\ Price(g) /\ g.phase = "betting"
  /\ g.street = Preflop /\ Live(g) = Seats /\ g.currentBet > 0
  /\ ~g.runout /\ ~g.runTwice
  /\ \A s \in Seats : DealtIn(g.pl[s]) /\ AntedUp(g.pl[s], cfg.ante + cfg.dead[s])

\* A new hand is an opening, settled from some seat on.
LEMMA NewHandOpens ==
  ASSUME cfg \in Configs, NEW stacks \in [Seats -> StartStacks]
  PROVE  \E g, first : /\ first \in Int /\ Opening(g)
                       /\ NewHand(stacks) = Settle(g, first)
<1> DEFINE pl       == Blinded(stacks)
           utg      == NextSeat(BBSeat)
           straddle == Straddles(pl)
           full     == straddle /\ pl[utg].stack >= cfg.straddle
           level    == IF full THEN cfg.straddle ELSE cfg.bb
           posted   == IF straddle THEN Min2(cfg.straddle, pl[utg].stack) ELSE 0
           first    == IF straddle THEN NextSeat(utg)
                       ELSE IF Cardinality(Seats) = 2 THEN cfg.button ELSE utg
           poster   == PostBlind(pl[utg], cfg.straddle)
           seated   == IF straddle THEN [pl EXCEPT ![utg] = poster] ELSE pl
           price    == Max({level, posted})
           g == [pl |-> seated, phase |-> "betting", street |-> Preflop,
                 runout |-> FALSE, runTwice |-> FALSE, toAct |-> NoSeat,
                 currentBet |-> price, lastFullBetLevel |-> level,
                 lastRaiseSize |-> level, aggressor |-> NoSeat, showIdx |-> 0,
                 deckPos |-> 2 * Cardinality(Seats),
                 strength |-> [b \in {1, 2} |-> NoStrength],
                 finalPots |-> {}]
<1>1. NewHand(stacks) = Settle(g, first)
  BY DEF NewHand
<1>2. /\ cfg.bb \in Nat /\ cfg.straddle \in Nat /\ cfg.button \in Seats
      /\ cfg.straddle > 0 => cfg.bb <= cfg.straddle
      /\ cfg.bb > 0 /\ \A s \in Seats : cfg.ante + cfg.dead[s] \in Nat
  BY ConfigAssumption DEF HandConfig
<1>3. /\ pl \in [Seats -> Player]
      /\ \A s \in Seats : /\ pl[s] \in Sound /\ pl[s].folded = FALSE
                          /\ pl[s].actedAtFullLevel = 0 /\ pl[s].bet <= cfg.bb
                          /\ s \notin {SBSeat, BBSeat} => pl[s].bet = 0
                          /\ DealtIn(pl[s])
                          /\ AntedUp(pl[s], cfg.ante + cfg.dead[s])
  BY BlindedFacts
<1> HIDE DEF pl
<1>4. SBSeat \in Seats /\ BBSeat \in Seats /\ utg \in Seats /\ utg # BBSeat
      /\ (Cardinality(Seats) >= 3 => utg # SBSeat)
  <2>1. SBSeat \in Seats
    BY <1>2, NextSeatFacts DEF SBSeat
  <2>2. BBSeat \in Seats
    BY <2>1, NextSeatFacts DEF BBSeat
  <2>3. utg \in Seats /\ utg # BBSeat
    BY <2>2, NextSeatFacts
  <2>4. Cardinality(Seats) >= 3 => utg # SBSeat
    BY <2>1, NextNextSeat DEF BBSeat
  <2> QED BY <2>1, <2>2, <2>3, <2>4
<1>5. first \in Seats /\ first \in Int
  <2>1. first \in Seats
    BY <1>2, <1>4, NextSeatFacts
  <2> HIDE DEF first
  <2> QED BY <2>1, SeatsFacts
<1> HIDE DEF utg, first
<1>6. pl[utg] \in Player /\ pl[utg].stack \in Nat /\ pl[utg].bet \in Nat
  BY <1>3, <1>4 DEF Player
<1>7. level \in Nat /\ posted \in Nat /\ cfg.bb <= level
  <2>1. full => cfg.straddle > 0
    BY DEF Straddles
  <2> QED BY <1>2, <1>6, <2>1 DEF Min2
<1>8. price \in Nat /\ level <= price /\ posted <= price
  <2> HIDE DEF level, posted
  <2> QED BY <1>7, MaxOfTwo
<1>9. /\ seated \in [Seats -> Player]
      /\ \A s \in Seats : /\ seated[s] \in Sound /\ seated[s].folded = FALSE
                          /\ seated[s].actedAtFullLevel = 0
                          /\ seated[s].bet <= price
                          /\ DealtIn(seated[s])
                          /\ AntedUp(seated[s], cfg.ante + cfg.dead[s])
  <2>1. \A s \in Seats : pl[s].bet \in Nat /\ pl[s].bet <= price
    BY <1>2, <1>3, <1>7, <1>8 DEF Player
  <2>2. CASE ~straddle
    BY <1>3, <2>1, <2>2
  <2>3. CASE straddle
    <3>1. pl[utg].bet = 0 /\ posted = Min2(cfg.straddle, pl[utg].stack)
      BY <1>3, <1>4, <2>3 DEF Straddles
    <3>2. /\ poster \in Player
          /\ pl[utg] \in Sound => poster \in Sound
          /\ poster.folded = pl[utg].folded
          /\ poster.actedAtFullLevel = pl[utg].actedAtFullLevel
          /\ poster.bet = pl[utg].bet + Min2(cfg.straddle, pl[utg].stack)
          /\ DealtIn(pl[utg]) => DealtIn(poster)
          /\ \A due \in Nat : AntedUp(pl[utg], due) => AntedUp(poster, due)
      BY <1>2, <1>6, PostBlindFacts
    <3> HIDE DEF poster, straddle
    <3>3. seated = [pl EXCEPT ![utg] = poster]
      BY <2>3
    <3> HIDE DEF posted, price
    <3>4. poster.bet <= price
      BY <1>7, <1>8, <3>1, <3>2
    <3> HIDE DEF seated
    <3>5. DealtIn(poster) /\ AntedUp(poster, cfg.ante + cfg.dead[utg])
      BY <1>2, <1>3, <1>4, <3>2
    <3> QED BY <1>3, <1>4, <2>1, <3>2, <3>3, <3>4, <3>5
  <2> QED BY <2>2, <2>3
<1> HIDE DEF straddle, full, level, posted, price, seated
<1>10. g \in Hand
  <2>1. [b \in {1, 2} |-> NoStrength] \in [{1, 2} -> [Seats -> Ranks]]
    BY CardAssumption DEF NoStrength
  <2>2. 2 * Cardinality(Seats) \in Nat
    BY SeatsFacts
  <2> QED BY <1>7, <1>8, <1>9, <2>1, <2>2
          DEF Hand, Phases, Streets, Preflop
<1>11. /\ g.pl = seated /\ g.phase = "betting" /\ g.currentBet = price
       /\ g.lastFullBetLevel = level /\ g.lastRaiseSize = level
       /\ g.street = Preflop /\ ~g.runout /\ ~g.runTwice
  OBVIOUS
<1> HIDE DEF g
<1>12. Books(g) /\ Price(g)
  BY <1>2, <1>7, <1>8, <1>9, <1>11 DEF Books, Price
<1>13. Live(g) = Seats
  <2>1. \A s \in Seats : s \in Live(g)
    BY <1>9, <1>11 DEF Live
  <2> QED BY <2>1, LiveFacts
<1>14. g.currentBet > 0
  BY <1>2, <1>7, <1>8, <1>11
<1> QED BY <1>1, <1>5, <1>9, <1>10, <1>11, <1>12, <1>13, <1>14 DEF Opening

\* A new hand meets the invariant.
LEMMA NewHandGood ==
  ASSUME cfg \in Configs, NEW stacks \in [Seats -> StartStacks]
  PROVE  Good(NewHand(stacks))
<1>1. PICK g, first : /\ first \in Int /\ Opening(g)
                      /\ NewHand(stacks) = Settle(g, first)
  BY NewHandOpens
<1>2. Live(g) # {}
  BY <1>1, SeatsFacts, FS_EmptySet DEF Opening
<1> QED BY <1>1, <1>2, SettleGood DEF Opening

-----------------------------------------------------------------------------
(* Dealing and showing *)

\* The strengths that a deal may give are strengths for every seat.
LEMMA DealtStrengthsType ==
  ASSUME NEW b, NEW f \in DealtStrengths(b)
  PROVE  f \in [Seats -> Ranks]
<1>1. NoStrength \in [Seats -> Ranks]
  BY CardAssumption DEF NoStrength
<1> QED BY <1>1, CardAssumption DEF DealtStrengths

\* Dealing turns the street and leaves the players alone.
LEMMA DealingFacts ==
  ASSUME NEW g \in Hand, g.street < River,
         NEW s1 \in [Seats -> Ranks], NEW s2 \in [Seats -> Ranks]
  PROVE  LET d == Dealing(g, s1, s2)
         IN  /\ d \in Hand /\ d.pl = g.pl /\ d.phase = g.phase
             /\ d.toAct = g.toAct /\ d.street = g.street + 1
<1> DEFINE n == g.deckPos
                  + (IF g.runTwice THEN 2 ELSE 1) * StreetCards(g.street + 1)
           str == [b \in {1, 2} |-> IF b = 1 THEN s1 ELSE s2]
           d == [g EXCEPT !.street = g.street + 1, !.deckPos = n,
                          !.strength = str]
<1>1. g.street \in 0 .. 3 /\ g.street < 3 /\ g.deckPos \in Nat
  BY HandFields DEF Streets, River
<1>2. n \in Nat
  BY <1>1 DEF StreetCards
<1>3. str \in [{1, 2} -> [Seats -> Ranks]]
  OBVIOUS
<1>4. Dealing(g, s1, s2) = d
  BY DEF Dealing
<1>5. g.street + 1 \in Streets
  BY <1>1 DEF Streets
<1> HIDE DEF n, str
<1>6. /\ d \in Hand /\ d.pl = g.pl /\ d.phase = g.phase
      /\ d.toAct = g.toAct /\ d.street = g.street + 1
  BY <1>2, <1>3, <1>5 DEF Hand
<1> QED BY <1>4, <1>6

\* A new round has a price, nothing in front and the same seats.
LEMMA NewRoundFacts ==
  ASSUME cfg \in HandConfig, NEW g \in Hand, Books(g), NothingInFront(g)
  PROVE  LET c == NewRound(g)
         IN  /\ c \in Hand /\ Books(c) /\ Price(c) /\ c.phase = "betting"
             /\ Live(c) = Live(g)
<1> DEFINE Fresh(p) == [p EXCEPT !.hasActed = FALSE, !.actedAtFullLevel = 0]
           pl == [s \in Seats |-> Fresh(g.pl[s])]
           c == [g EXCEPT !.currentBet = 0, !.lastFullBetLevel = 0,
                          !.lastRaiseSize = cfg.bb, !.aggressor = NoSeat,
                          !.phase = "betting", !.pl = pl]
<1>1. NewRound(g) = c
  BY DEF NewRound
<1>2. \A p \in Player : /\ Fresh(p) \in Player
                        /\ p \in Sound => Fresh(p) \in Sound
                        /\ Fresh(p).folded = p.folded /\ Fresh(p).bet = p.bet
                        /\ Fresh(p).actedAtFullLevel = 0
  BY DEF Player, Sound
<1> HIDE DEF Fresh
<1>3. /\ pl \in [Seats -> Player]
      /\ \A s \in Seats : /\ g.pl[s] \in Sound => pl[s] \in Sound
                          /\ pl[s].folded = g.pl[s].folded
                          /\ pl[s].bet = g.pl[s].bet
                          /\ pl[s].actedAtFullLevel = 0
  BY <1>2, HandFields
<1> HIDE DEF pl
<1>4. cfg.bb \in Nat
  BY DEF HandConfig
<1>5. /\ c \in Hand /\ c.pl = pl /\ c.phase = "betting" /\ c.currentBet = 0
      /\ c.lastFullBetLevel = 0 /\ c.lastRaiseSize = cfg.bb
  BY <1>3, <1>4 DEF Hand, Phases, NoSeat
<1> HIDE DEF c
<1>6. Books(c)
  BY <1>3, <1>5 DEF Books
<1>7. Price(c)
  BY <1>3, <1>4, <1>5 DEF Price, NothingInFront
<1>8. Live(c) = Live(g)
  BY <1>3, <1>5, SameLive
<1> QED BY <1>1, <1>5, <1>6, <1>7, <1>8

\* The seat that shows either shows, mucks, or was already face up.
LEMMA RevealStepFacts ==
  ASSUME NEW g \in Hand, NEW s, NEW p,
         s \in Seats => p \in Player /\ (g.pl[s] \in Sound => p \in Sound)
                        /\ p.folded = g.pl[s].folded /\ p.bet = g.pl[s].bet
  PROVE  LET r == [g EXCEPT !.showIdx = g.showIdx + 1, !.pl[s] = p]
         IN  /\ r \in Hand /\ r.phase = g.phase /\ r.toAct = g.toAct
             /\ Books(g) => Books(r)
             /\ NothingInFront(g) => NothingInFront(r)
             /\ Live(r) = Live(g)
<1> DEFINE r == [g EXCEPT !.showIdx = g.showIdx + 1, !.pl[s] = p]
           pl == [g.pl EXCEPT ![s] = p]
<1>1. r = [g EXCEPT !.showIdx = g.showIdx + 1, !.pl = pl]
  BY DEF Hand
<1>2. g.pl \in [Seats -> Player] /\ g.showIdx + 1 \in Nat
  BY HandFields
<1>3. /\ pl \in [Seats -> Player]
      /\ \A t \in Seats : pl[t] = IF t = s THEN p ELSE g.pl[t]
  BY <1>2
<1> HIDE DEF pl, r
<1>4. /\ r \in Hand /\ r.pl = pl /\ r.phase = g.phase /\ r.toAct = g.toAct
  BY <1>1, <1>2, <1>3 DEF Hand
<1>5. \A t \in Seats : /\ g.pl[t] \in Sound => r.pl[t] \in Sound
                       /\ r.pl[t].folded = g.pl[t].folded
                       /\ r.pl[t].bet = g.pl[t].bet
  BY <1>3, <1>4
<1> QED BY <1>4, <1>5, SameLive DEF Books, NothingInFront, r

-----------------------------------------------------------------------------
\* The invariant says the hand is good.
LEMMA IInvGivesGood == IInv => cfg \in Configs /\ cfg \in HandConfig /\ Good(h)
<1> SUFFICES ASSUME IInv PROVE cfg \in Configs /\ cfg \in HandConfig /\ Good(h)
  OBVIOUS
<1>1. cfg \in Configs /\ cfg \in HandConfig /\ h \in Hand
  BY ConfigAssumption DEF IInv, TypeOK
<1>2. h.phase # "result" => Books(h)
  BY <1>1, HandFields DEF IInv, OwnChips, BettingLevels, Books, Sound
<1>3. h.phase = "betting" => Price(h)
  BY DEF IInv, BettingLevels, Price
<1>4. h.phase \in {"deal_pending", "showdown"} => NothingInFront(h)
  BY DEF IInv, BettingLevels, NothingInFront
<1> QED BY <1>1, <1>2, <1>3, <1>4 DEF Good, IInv, TurnIsOwed

\* And a good hand under legal settings meets the invariant.
LEMMA GoodGivesIInv == cfg \in Configs /\ Good(h) => IInv
<1> SUFFICES ASSUME cfg \in Configs, Good(h) PROVE IInv
  OBVIOUS
<1>1. TypeOK
  BY DEF Good, TypeOK
<1>2. OwnChips
  BY DEF Good, Books, Sound, OwnChips
<1>3. TurnIsOwed
  BY DEF Good, TurnIsOwed
<1>4. BettingLevels
  BY DEF Good, Books, Sound, Price, NothingInFront, BettingLevels
<1> QED BY <1>1, <1>2, <1>3, <1>4 DEF IInv

\* The same one step later.
LEMMA GoodGivesIInvNext == cfg \in Configs /\ Good(h') /\ cfg' = cfg => IInv'
<1> SUFFICES ASSUME cfg \in Configs, Good(h'), cfg' = cfg PROVE IInv'
  OBVIOUS
<1>1. TypeOK'
  BY DEF Good, TypeOK
<1>2. OwnChips'
  BY DEF Good, Books, Sound, OwnChips
<1>3. TurnIsOwed'
  BY DEF Good, TurnIsOwed
<1>4. BettingLevels'
  BY DEF Good, Books, Sound, Price, NothingInFront, BettingLevels
<1> QED BY <1>1, <1>2, <1>3, <1>4 DEF IInv

\* The invariant holds at the start.
LEMMA InitEstablishes == Init => IInv
<1> SUFFICES ASSUME Init PROVE IInv
  OBVIOUS
<1>1. cfg \in Configs
  BY DEF Init
<1>2. PICK stacks \in [Seats -> StartStacks] : h = NewHand(stacks)
  BY DEF Init
<1>3. Good(h)
  BY <1>1, <1>2, NewHandGood
<1> QED BY <1>1, <1>3, GoodGivesIInv

\* One step per action of Next.
LEMMA NextPreserves == IInv /\ [Next]_vars => IInv'
<1> SUFFICES ASSUME IInv, [Next]_vars PROVE IInv'
  OBVIOUS
<1>1. cfg \in Configs /\ cfg \in HandConfig /\ Good(h) /\ h \in Hand
  BY IInvGivesGood DEF Good
<1>2. ASSUME NEW s \in Seats, NEW a \in Actions, Apply(s, a) PROVE IInv'
  <2> DEFINE c == Perform(h, s, Resolve(h, s, a))
  <2>1. /\ h.phase = "betting" /\ Legal(h, s, Resolve(h, s, a)) /\ cfg' = cfg
        /\ h' = Settle(Acted(c, s), s + 1)
    BY <1>2 DEF Apply, OnTurn
  <2>2. Books(h) /\ Price(h) /\ Cardinality(Live(h)) >= 2
    BY <1>1, <2>1 DEF Good
  <2>3. Acting(c) /\ Live(h) \ {s} \subseteq Live(c)
    BY <1>1, <2>1, <2>2, PerformFacts
  <2> HIDE DEF c
  <2>4. Good(h')
    BY <2>1, <2>2, <2>3, AfterAct
  <2> QED BY <1>1, <2>1, <2>4, GoodGivesIInvNext
<1>3. ASSUME NEW s \in Seats, Timeout(s) PROVE IInv'
  <2> DEFINE c == IF h.pl[s].bet = h.currentBet THEN h ELSE Fold(h, s)
  <2>1. /\ h.phase = "betting" /\ cfg' = cfg
        /\ h' = Settle(Acted(c, s), s + 1)
    BY <1>3 DEF Timeout, OnTurn
  <2>2. Books(h) /\ Price(h) /\ Cardinality(Live(h)) >= 2
    BY <1>1, <2>1 DEF Good
  <2>3. Acting(h) /\ Acting(Fold(h, s)) /\ Live(Fold(h, s)) = Live(h) \ {s}
    BY <1>1, <2>1, <2>2, FoldFacts DEF Acting, SameTable
  <2>4. Acting(c) /\ Live(h) \ {s} \subseteq Live(c)
    BY <2>3
  <2> HIDE DEF c
  <2>5. Good(h')
    BY <2>1, <2>2, <2>4, AfterAct
  <2> QED BY <1>1, <2>1, <2>5, GoodGivesIInvNext
<1>4. ASSUME NEW s \in Seats, Forfeit(s) PROVE IInv'
  <2>1. /\ s \in Live(h) /\ h.phase \in {"betting", "deal_pending"}
        /\ cfg' = cfg /\ h' = AfterForfeit(Fold(h, s), s)
    BY <1>4 DEF Forfeit
  <2>2. Good(h')
    BY <1>1, <2>1, AfterForfeitGood
  <2> QED BY <1>1, <2>1, <2>2, GoodGivesIInvNext
<1>5. ASSUME NEW s1 \in DealtStrengths(1), NEW s2 \in DealtStrengths(2),
             Advance(s1, s2)
      PROVE  IInv'
  <2> DEFINE d == Dealing(h, s1, s2)
  <2>1. /\ h.phase = "deal_pending" /\ cfg' = cfg
        /\ h' = IF ~h.runout THEN Settle(NewRound(d), NextSeat(cfg.button))
                ELSE IF d.street = River THEN Showdown(d)
                ELSE d
    BY <1>5 DEF Advance
  <2>2. /\ Books(h) /\ Cardinality(Live(h)) >= 2 /\ NothingInFront(h)
        /\ h.street < River /\ h.toAct = NoSeat /\ h.street \in Streets
    BY <1>1, <2>1, HandFields DEF Good
  <2>3. /\ d \in Hand /\ d.pl = h.pl /\ d.phase = "deal_pending"
        /\ d.toAct = NoSeat /\ d.street = h.street + 1
    BY <1>1, <2>1, <2>2, DealtStrengthsType, DealingFacts
  <2> HIDE DEF d
  <2>4. Books(d) /\ NothingInFront(d) /\ Live(d) = Live(h)
    BY <2>2, <2>3, SameLive DEF Books, NothingInFront
  <2>5. CASE ~h.runout
    <3> DEFINE n == NewRound(d)
               start == NextSeat(cfg.button)
    <3>1. /\ n \in Hand /\ Books(n) /\ Price(n) /\ n.phase = "betting"
          /\ Live(n) = Live(d)
      BY <1>1, <2>3, <2>4, NewRoundFacts
    <3>2. start \in Int
      <4>1. cfg.button \in Seats
        BY <1>1 DEF HandConfig
      <4>2. start \in Seats
        BY <4>1, NextSeatFacts
      <4> HIDE DEF start
      <4> QED BY <4>2, SeatsFacts
    <3>3. Live(n) # {}
      BY <2>2, <2>4, <3>1, OneLeft
    <3>4. h' = Settle(n, start)
      BY <2>1, <2>5
    <3> HIDE DEF n, start
    <3>5. Good(h')
      BY <3>1, <3>2, <3>3, <3>4, SettleGood
    <3> QED BY <1>1, <2>1, <3>5, GoodGivesIInvNext
  <2>6. CASE h.runout /\ d.street = River
    <3>1. Good(h')
      BY <2>1, <2>2, <2>3, <2>4, <2>6, ShowdownGood
    <3> QED BY <1>1, <2>1, <3>1, GoodGivesIInvNext
  <2>7. CASE h.runout /\ d.street # River
    <3>1. d.street < River
      BY <2>2, <2>3, <2>7 DEF Streets, River
    <3>2. Good(d)
      BY <2>2, <2>3, <2>4, <3>1 DEF Good
    <3> QED BY <1>1, <2>1, <2>7, <3>2, GoodGivesIInvNext
  <2> QED BY <2>5, <2>6, <2>7
<1>6. ASSUME RunItTwice PROVE IInv'
  <2> DEFINE c == [h EXCEPT !.runTwice = TRUE]
  <2>1. h.phase = "deal_pending" /\ h' = c /\ cfg' = cfg
    BY <1>6 DEF RunItTwice, CanRunItTwice
  <2>2. /\ c \in Hand /\ c.pl = h.pl /\ c.phase = h.phase
        /\ c.toAct = h.toAct /\ c.street = h.street
    BY <1>1 DEF Hand
  <2> HIDE DEF c
  <2>3. Live(c) = Live(h)
    BY <2>2, SameLive
  <2>4. Good(c)
    BY <1>1, <2>1, <2>2, <2>3 DEF Good, Books, NothingInFront
  <2> QED BY <1>1, <2>1, <2>4, GoodGivesIInvNext
<1>7. ASSUME RevealNext PROVE IInv'
  <2> DEFINE s == OnShow(h)
             q == h.pl[s]
             p == IF q.revealed THEN q
                  ELSE IF MustShow(h, s) THEN Faced(q)
                  ELSE [q EXCEPT !.mucked = TRUE]
             r == [h EXCEPT !.showIdx = h.showIdx + 1, !.pl[s] = p]
  <2>1. /\ h.phase = "showdown" /\ cfg' = cfg
        /\ h' = IF r.showIdx >= Cardinality(Live(r)) THEN AwardPots(r) ELSE r
    BY <1>7 DEF RevealNext
  <2>2. s \in Seats => /\ p \in Player
                       /\ q \in Sound => p \in Sound
                       /\ p.folded = q.folded /\ p.bet = q.bet
    <3>1. \A x \in Player :
            LET m == [x EXCEPT !.mucked = TRUE]
            IN  /\ m \in Player /\ (x \in Sound => m \in Sound)
                /\ m.folded = x.folded /\ m.bet = x.bet
      BY DEF Player, Sound
    <3>2. s \in Seats => q \in Player
      BY <1>1, HandFields
    <3> HIDE DEF s, q
    <3> QED BY <3>1, <3>2, FacedSound
  <2> HIDE DEF p, s
  <2>3. /\ r \in Hand /\ r.phase = h.phase /\ r.toAct = h.toAct
        /\ Books(h) => Books(r)
        /\ NothingInFront(h) => NothingInFront(r)
        /\ Live(r) = Live(h)
    BY <1>1, <2>2, RevealStepFacts
  <2> HIDE DEF r
  <2>4. Good(r)
    BY <1>1, <2>1, <2>3 DEF Good
  <2>5. Good(AwardPots(r))
    BY <2>3, AwardPotsFacts, ResultIsGood
  <2>6. Good(h')
    BY <2>1, <2>4, <2>5
  <2> QED BY <1>1, <2>1, <2>6, GoodGivesIInvNext
<1>8. ASSUME NEW s \in Seats, NEW cards \in SUBSET {1, 2}, ShowCards(s, cards)
      PROVE  IInv'
  <2> DEFINE q == h.pl[s]
             p == Exposed(q, cards)
             c == [h EXCEPT !.pl[s] = p]
  <2>1. h.phase = "result" /\ h' = c /\ cfg' = cfg
    BY <1>8 DEF ShowCards
  <2>2. p \in Player
    <3>1. \A x \in Player, f \in SUBSET {1, 2}, b \in BOOLEAN :
            [x EXCEPT !.shown = f, !.revealed = b] \in Player
      BY DEF Player
    <3>2. /\ q \in Player /\ q.shown \cup cards \in SUBSET {1, 2}
          /\ (q.shown \cup cards = {1, 2}) \in BOOLEAN
      BY <1>1, HandFields DEF Player
    <3> HIDE DEF q
    <3> QED BY <3>1, <3>2, Zenon DEF Exposed
  <2> HIDE DEF p
  <2>3. c \in Hand /\ c.phase = h.phase /\ c.toAct = h.toAct
    BY <1>1, <2>2, SeatReplaced
  <2> HIDE DEF c
  <2>4. Good(c)
    BY <1>1, <2>1, <2>3, ResultIsGood DEF Good
  <2> QED BY <1>1, <2>1, <2>4, GoodGivesIInvNext
<1>9. CASE UNCHANGED vars
  <2>1. h' = h /\ cfg' = cfg
    BY <1>9 DEF vars
  <2> QED BY <1>1, <2>1, GoodGivesIInvNext
<1>10. ASSUME Over PROVE IInv'
  BY <1>9, <1>10 DEF Over
<1> QED BY <1>2, <1>3, <1>4, <1>5, <1>6, <1>7, <1>8, <1>9, <1>10 DEF Next

\* IInv holds in every state of every hand.
THEOREM Invariance == Spec => []IInv
<1> QED BY InitEstablishes, NextPreserves, PTL DEF Spec

(***************************************************************************)
(* No amount of the engine ever leaves its type: no stack, bet or pot      *)
(* share goes negative, whatever is raised, called, forced or returned.    *)
(***************************************************************************)
THEOREM TypeCorrect == Spec => []TypeOK
<1>1. IInv => TypeOK
  BY DEF IInv
<1> QED BY <1>1, Invariance, PTL

\* Until the award no chip of a seat goes anywhere but into the seat's own
\* bet and its own part of the pots.
THEOREM ChipsStayOwn == Spec => []OwnChips
<1>1. IInv => OwnChips
  BY DEF IInv
<1> QED BY <1>1, Invariance, PTL

\* settle's panic ("no actor in an incomplete round") is unreachable, and a
\* hand without a result always has somebody to play against.
THEOREM TurnAlwaysOwed == Spec => []TurnIsOwed
<1>1. IInv => TurnIsOwed
  BY DEF IInv
<1> QED BY <1>1, Invariance, PTL

\* Nobody's bet is above the price of the round, and all-in means no chips.
THEOREM LevelsHold == Spec => []BettingLevels
<1>1. IInv => BettingLevels
  BY DEF IInv
<1> QED BY <1>1, Invariance, PTL

\* Division of whole chips leaves a remainder smaller than the divisor.
LEMMA Division ==
  ASSUME NEW a \in Nat, NEW n \in Nat \ {0}
  PROVE  /\ a \div n \in Nat /\ a % n \in 0 .. n - 1
         /\ n * (a \div n) + (a % n) = a
<1>1. a % n \in 0 .. n - 1
  OBVIOUS
<1>2. a \div n \in Nat
  OBVIOUS
<1>3. n * (a \div n) + (a % n) = a
  OBVIOUS
<1> QED BY <1>1, <1>2, <1>3

-----------------------------------------------------------------------------
(* Shares *)

\* No two seats are equally far from a starting point.
LEMMA GapsDiffer ==
  ASSUME NEW start \in 0 .. MaxSeats, NEW s \in Seats, NEW t \in Seats, s # t
  PROVE  /\ Gap(start, s) \in Int /\ Gap(start, t) \in Int
         /\ Gap(start, s) # Gap(start, t)
<1>1. s \in 0 .. MaxSeats - 1 /\ t \in 0 .. MaxSeats - 1 /\ MaxSeats \in Nat
  BY SeatsAssumption
<1> QED BY <1>1 DEF Gap

\* How many of W come before s, clockwise from start.
Before(W, start, s) ==
  Cardinality({t \in W : Gap(start, t) < Gap(start, s)})

\* The order from start has a first, a second, ... and a last seat.
LEMMA FirstOnes ==
  ASSUME NEW W \in SUBSET Seats, NEW start \in 0 .. MaxSeats,
         NEW n \in 0 .. Cardinality(W)
  PROVE  Cardinality({s \in W : Before(W, start, s) < n}) = n
<1> DEFINE N == Cardinality(W)
           rank == [s \in W |-> Before(W, start, s)]
           T == 0 .. N - 1
<1>1. IsFiniteSet(W) /\ N \in Nat
  BY SeatsFacts
<1>2. IsFiniteSet(T) /\ Cardinality(T) = N
  <2> HIDE DEF N
  <2>1. 0 \in Int /\ N - 1 \in Int
    BY <1>1
  <2>2. /\ IsFiniteSet(0 .. N - 1)
        /\ Cardinality(0 .. N - 1) = IF 0 > N - 1 THEN 0 ELSE N - 1 - 0 + 1
    BY <2>1, FS_Interval
  <2> QED BY <1>1, <2>2
<1> DEFINE Nearer(s) == {t \in W : Gap(start, t) < Gap(start, s)}
<1>3. \A s \in W : /\ IsFiniteSet(Nearer(s)) /\ Cardinality(Nearer(s)) \in Nat
                   /\ rank[s] = Cardinality(Nearer(s)) /\ rank[s] \in T
  <2>1. SUFFICES ASSUME NEW s \in W
                 PROVE  /\ IsFiniteSet(Nearer(s)) /\ Cardinality(Nearer(s)) \in Nat
                        /\ rank[s] = Cardinality(Nearer(s)) /\ rank[s] \in T
    OBVIOUS
  <2>2. Nearer(s) \in SUBSET (W \ {s})
    <3>1. ~(Gap(start, s) < Gap(start, s))
      <4>1. Gap(start, s) \in Int
        BY SeatsAssumption DEF Gap
      <4> QED BY <4>1
    <3> QED BY <3>1
  <2>3. IsFiniteSet(W \ {s}) /\ Cardinality(W \ {s}) = N - 1
    BY <1>1, FS_RemoveElement
  <2>4. /\ IsFiniteSet(Nearer(s)) /\ Cardinality(Nearer(s)) <= N - 1
        /\ Cardinality(Nearer(s)) \in Nat
    <3> HIDE DEF Nearer, N
    <3> QED BY <2>2, <2>3, FS_Subset, FS_CardinalityType
  <2>5. rank[s] = Cardinality(Nearer(s))
    BY DEF Before
  <2> HIDE DEF Nearer, rank, N
  <2> QED BY <1>1, <2>4, <2>5
<1>4. ASSUME NEW s \in W, NEW t \in W, Gap(start, s) < Gap(start, t)
      PROVE  rank[s] < rank[t]
  <2>1. Nearer(s) \in SUBSET Nearer(t)
    <3>1. \A u \in W : Gap(start, u) \in Int
      BY SeatsAssumption DEF Gap
    <3> QED BY <1>4, <3>1
  <2>2. s \in Nearer(t) /\ s \notin Nearer(s)
    <3>1. Gap(start, s) \in Int
      BY SeatsAssumption DEF Gap
    <3> QED BY <1>4, <3>1
  <2>3. Nearer(s) # Nearer(t)
    BY <2>2
  <2> HIDE DEF Nearer, rank
  <2>4. /\ IsFiniteSet(Nearer(t))
        /\ Cardinality(Nearer(s)) \in Nat /\ Cardinality(Nearer(t)) \in Nat
        /\ rank[s] = Cardinality(Nearer(s)) /\ rank[t] = Cardinality(Nearer(t))
    BY <1>3
  <2>5. /\ Cardinality(Nearer(s)) <= Cardinality(Nearer(t))
        /\ Cardinality(Nearer(s)) # Cardinality(Nearer(t))
    BY <2>1, <2>3, <2>4, FS_Subset
  <2> QED BY <2>4, <2>5
<1> HIDE DEF Nearer
<1>5. rank \in [W -> T]
  BY <1>3
<1>6. ASSUME NEW s \in W, NEW t \in W, rank[s] = rank[t]
      PROVE  s = t
  <2>1. rank[s] \in Int /\ rank[t] \in Int
    BY <1>3
  <2> HIDE DEF rank
  <2>2. SUFFICES ASSUME s # t PROVE FALSE
    OBVIOUS
  <2>3. /\ Gap(start, s) \in Int /\ Gap(start, t) \in Int
        /\ Gap(start, s) # Gap(start, t)
    BY <2>2, GapsDiffer
  <2>4. Gap(start, s) < Gap(start, t) \/ Gap(start, t) < Gap(start, s)
    BY <2>3
  <2> QED BY <1>4, <1>6, <2>1, <2>4
<1>7. \A s \in W : Before(W, start, s) = rank[s]
  OBVIOUS
<1> HIDE DEF rank
<1>8. rank \in Injection(W, T)
  BY <1>5, <1>6 DEF Injection, IsInjective
<1>9. rank \in Surjection(W, T)
  BY <1>1, <1>2, <1>8, FS_Injection
<1> DEFINE R == {s \in W : rank[s] < n}
           r == [s \in R |-> rank[s]]
           U == 0 .. n - 1
<1>10. r \in Bijection(R, U)
  <2>1. n \in Nat /\ n <= N
    BY <1>1
  <2>2. \A s \in W : rank[s] \in T
    BY <1>5
  <2>3. r \in [R -> U]
    BY <1>1, <2>1, <2>2
  <2>4. \A s, t \in R : r[s] = r[t] => s = t
    BY <1>6
  <2>5. \A k \in U : \E s \in R : r[s] = k
    <3>1. SUFFICES ASSUME NEW k \in U PROVE \E s \in R : r[s] = k
      OBVIOUS
    <3>2. k \in T /\ k < n
      BY <1>1, <2>1
    <3>3. PICK s \in W : rank[s] = k
      BY <1>9, <3>2 DEF Surjection
    <3> QED BY <3>2, <3>3
  <2> HIDE DEF r, R, U
  <2> QED BY <2>3, <2>4, <2>5 DEF Bijection, Injection, IsInjective, Surjection
<1>11. IsFiniteSet(R)
  BY <1>1, FS_Subset
<1>12. IsFiniteSet(U) /\ Cardinality(U) = n
  <2>1. n \in Nat /\ 0 \in Int /\ n - 1 \in Int
    BY <1>1
  <2>2. /\ IsFiniteSet(0 .. n - 1)
        /\ Cardinality(0 .. n - 1) = IF 0 > n - 1 THEN 0 ELSE n - 1 - 0 + 1
    BY <2>1, FS_Interval
  <2> QED BY <2>1, <2>2
<1>13. Cardinality(U) = Cardinality(R)
  <2> HIDE DEF R, U, r
  <2> QED BY <1>10, <1>11, FS_Bijection DEF ExistsBijection
<1>14. R = {s \in W : Before(W, start, s) < n}
  BY <1>7
<1> QED BY <1>12, <1>13, <1>14

\* A pot that is split gives out every chip of it, the odd ones too.
LEMMA ShareOutAll ==
  ASSUME cfg \in HandConfig, NEW W \in SUBSET Seats, W # {},
         NEW amount \in Nat
  PROVE  LET f == [s \in Seats |-> Share(W, amount, s)]
         IN  IsAmounts(f, Seats) /\ Total(f) = amount
<1> DEFINE n == Cardinality(W)
           q == amount \div n
           r == amount % n
           start == cfg.button + 1
           R == {s \in W : Before(W, start, s) < r}
           f == [s \in Seats |-> Share(W, amount, s)]
           even == [s \in Seats |-> IF s \in W THEN q ELSE 0]
           odd == [s \in Seats |-> IF s \in R THEN 1 ELSE 0]
<1>1. IsFiniteSet(Seats) /\ n \in Nat \ {0} /\ IsFiniteSet(W)
  BY SeatsFacts, FS_EmptySet
<1>2. start \in 0 .. MaxSeats
  <2>1. cfg.button \in Seats
    BY DEF HandConfig
  <2>2. cfg.button \in 0 .. MaxSeats - 1 /\ MaxSeats \in Nat
    BY <2>1, SeatsAssumption
  <2> QED BY <2>2
<1>3. \A s \in Seats : f[s] = IF s \notin W THEN 0
                             ELSE q + (IF Before(W, start, s) < r THEN 1 ELSE 0)
  BY DEF Share, Before
<1> HIDE DEF n, f, start
<1>4. q \in Nat /\ r \in 0 .. n - 1 /\ r \in 0 .. n /\ n * q + r = amount
  <2>1. q \in Nat /\ r \in 0 .. n - 1 /\ n * q + r = amount
    BY <1>1, Division
  <2> HIDE DEF q, r
  <2> QED BY <1>1, <2>1
<1> HIDE DEF q, r
<1>5. \A s \in Seats : f[s] = even[s] + odd[s]
  BY <1>3, <1>4
<1>6. IsAmounts(even, Seats) /\ IsAmounts(odd, Seats)
  BY <1>1, <1>4 DEF IsAmounts
<1>7. IsAmounts(f, Seats)
  <2>1. \A s \in Seats : even[s] \in Nat /\ odd[s] \in Nat
    BY <1>6 DEF IsAmounts
  <2>2. DOMAIN f = Seats
    BY DEF f
  <2> HIDE DEF even, odd
  <2> QED BY <1>1, <1>5, <2>1, <2>2 DEF IsAmounts
<1>8. Total(even) = Cardinality(W) * q
  <2>1. DOMAIN even = Seats /\ \A s \in Seats : even[s] = IF s \in W THEN q ELSE 0
    OBVIOUS
  <2> HIDE DEF even
  <2> QED BY <1>1, <1>4, <2>1, TotalOfEqual
<1>9. Total(odd) = Cardinality(R) * 1 /\ Cardinality(R) = r
  <2>1. DOMAIN odd = Seats /\ \A s \in Seats : odd[s] = IF s \in R THEN 1 ELSE 0
    OBVIOUS
  <2>2. R \in SUBSET Seats
    OBVIOUS
  <2>3. Cardinality(R) = r
    BY <1>2, <1>4, FirstOnes DEF n
  <2> HIDE DEF odd, R
  <2> QED BY <1>1, <2>1, <2>2, <2>3, TotalOfEqual
<1> HIDE DEF even, odd, R
<1>10. Total(f) = Total(even) + Total(odd)
  BY <1>5, <1>6, <1>7, TotalAdds
<1>11. Total(f) = amount
  BY <1>1, <1>4, <1>8, <1>9, <1>10 DEF n
<1> QED BY <1>7, <1>11 DEF f

\* Some contender has the best hand.
LEMMA SomebodyWins ==
  ASSUME NEW g \in Hand, NEW pot, pot.eligible \in SUBSET Seats,
         pot.eligible # {}, NEW b \in {1, 2}
  PROVE  Winners(g, pot, b) # {} /\ Winners(g, pot, b) \in SUBSET Seats
<1> DEFINE E == pot.eligible
           f == [s \in E |-> g.strength[b][s]]
           T == {f[s] : s \in E}
<1>1. \A s \in Seats : g.strength[b][s] \in Nat
  <2>1. g.strength[b] \in [Seats -> Ranks] /\ Ranks \subseteq Nat
    BY HandFields, CardAssumption
  <2> QED BY <2>1
<1>2. IsFiniteSet(T)
  <2>1. IsFiniteSet(E)
    BY SeatsFacts
  <2> HIDE DEF f
  <2> QED BY <2>1, ImageFinite
<1>3. T \subseteq Int /\ T # {}
  <2>1. \A s \in E : f[s] \in Int
    BY <1>1
  <2>2. E # {}
    OBVIOUS
  <2> HIDE DEF f, E
  <2> QED BY <2>1, <2>2
<1>4. Max(T) \in T /\ \A y \in T : y <= Max(T)
  <2> HIDE DEF T
  <2> QED BY <1>2, <1>3, MaxOfFinite
<1>5. PICK s \in E : Max(T) = f[s]
  BY <1>4
<1>6. \A t \in E : g.strength[b][t] <= g.strength[b][s]
  <2>1. SUFFICES ASSUME NEW t \in E PROVE f[t] <= f[s]
    OBVIOUS
  <2>2. f[t] \in T
    OBVIOUS
  <2> HIDE DEF f, T
  <2> QED BY <1>4, <1>5, <2>2
<1>7. s \in Winners(g, pot, b)
  BY <1>5, <1>6 DEF Winners
<1>8. Winners(g, pot, b) \in SUBSET Seats
  BY DEF Winners
<1> QED BY <1>7, <1>8

\* A pot pays out its amount, on one board or in halves on two.
LEMMA PotPaysOut ==
  ASSUME cfg \in HandConfig, NEW g \in Hand, NEW pot,
         pot.amount \in Nat, pot.eligible \in SUBSET Seats, pot.eligible # {}
  PROVE  LET f == [s \in Seats |-> PotShare(g, pot, s)]
         IN  IsAmounts(f, Seats) /\ Total(f) = pot.amount
<1> DEFINE W1 == Winners(g, pot, 1)
           W2 == Winners(g, pot, 2)
           half == pot.amount \div 2
           f == [s \in Seats |-> PotShare(g, pot, s)]
<1>1. W1 # {} /\ W1 \in SUBSET Seats /\ W2 # {} /\ W2 \in SUBSET Seats
  BY SomebodyWins
<1>2. half \in Nat /\ pot.amount - half \in Nat
  OBVIOUS
<1>3. \A s \in Seats : f[s] = IF g.runTwice
                             THEN Share(W1, pot.amount - half, s) + Share(W2, half, s)
                             ELSE Share(W1, pot.amount, s)
  BY DEF PotShare
<1>4. DOMAIN f = Seats
  OBVIOUS
<1> HIDE DEF W1, W2, half, f
<1>5. CASE g.runTwice
  <2> DEFINE f1 == [s \in Seats |-> Share(W1, pot.amount - half, s)]
             f2 == [s \in Seats |-> Share(W2, half, s)]
  <2>1. IsAmounts(f1, Seats) /\ Total(f1) = pot.amount - half
    BY <1>1, <1>2, ShareOutAll
  <2>2. IsAmounts(f2, Seats) /\ Total(f2) = half
    BY <1>1, <1>2, ShareOutAll
  <2>3. \A s \in Seats : f[s] = f1[s] + f2[s]
    BY <1>3, <1>5
  <2> HIDE DEF f1, f2
  <2>4. \A s \in Seats : f1[s] \in Nat /\ f2[s] \in Nat
    BY <2>1, <2>2 DEF IsAmounts
  <2>5. IsAmounts(f, Seats)
    BY <1>4, <2>1, <2>3, <2>4 DEF IsAmounts
  <2>6. Total(f) = Total(f1) + Total(f2)
    BY <2>1, <2>2, <2>3, <2>5, TotalAdds
  <2>7. Total(f) = pot.amount
    BY <1>2, <2>1, <2>2, <2>6
  <2> QED BY <2>5, <2>7 DEF f
<1>6. CASE ~g.runTwice
  <2> DEFINE f1 == [s \in Seats |-> Share(W1, pot.amount, s)]
  <2>1. IsAmounts(f1, Seats) /\ Total(f1) = pot.amount
    BY <1>1, ShareOutAll
  <2>2. \A s \in Seats : f[s] = f1[s]
    BY <1>3, <1>6
  <2> HIDE DEF f1
  <2>3. IsAmounts(f, Seats)
    BY <1>4, <2>1, <2>2 DEF IsAmounts
  <2>4. DOMAIN f = DOMAIN f1 /\ \A s \in DOMAIN f : f[s] = f1[s]
    BY <2>1, <2>2, <2>3 DEF IsAmounts
  <2>5. Total(f) = Total(f1)
    BY <2>4, TotalOfSame
  <2> QED BY <2>1, <2>3, <2>5 DEF f
<1> QED BY <1>5, <1>6

\* Pots that can all be won.
WonPots(pots) ==
  /\ IsAmounts(AmountsOf(pots), DOMAIN pots)
  /\ \A l \in DOMAIN pots :
       pots[l].eligible \in SUBSET Seats /\ pots[l].eligible # {}

\* The prizes of all seats are the pots.
LEMMA PrizesAreThePots ==
  ASSUME cfg \in HandConfig, NEW g \in Hand, NEW pots, WonPots(pots)
  PROVE  LET f == [s \in Seats |-> Prize(g, pots, s)]
         IN  /\ IsAmounts(f, Seats) /\ Total(f) = Total(AmountsOf(pots))
             /\ \A s \in Seats :
                  (\A l \in DOMAIN pots : s \notin pots[l].eligible) => f[s] = 0
<1> DEFINE D == DOMAIN pots
           m == [s \in Seats |-> [l \in D |-> PotShare(g, pots[l], s)]]
           f == [s \in Seats |-> Prize(g, pots, s)]
           a == AmountsOf(pots)
<1>1. \A l \in D : a[l] = pots[l].amount /\ pots[l].amount \in Nat
  BY DEF AmountsOf, WonPots, IsAmounts
<1>2. ASSUME NEW l \in D
      PROVE  LET k == [s \in Seats |-> PotShare(g, pots[l], s)]
             IN  IsAmounts(k, Seats) /\ Total(k) = a[l]
  <2>1. pots[l].amount \in Nat /\ pots[l].eligible \in SUBSET Seats
        /\ pots[l].eligible # {} /\ a[l] = pots[l].amount
    BY <1>1 DEF WonPots
  <2> HIDE DEF a
  <2> QED BY <2>1, PotPaysOut
<1>3. \A l \in D, s \in Seats : PotShare(g, pots[l], s) \in Nat
  BY <1>2 DEF IsAmounts
<1>4. IsLedger(m, Seats, D)
  <2>1. IsFiniteSet(D) /\ IsFiniteSet(Seats)
    BY SeatsFacts DEF WonPots, IsAmounts
  <2> QED BY <1>3, <2>1 DEF IsLedger
<1>5. ASSUME NEW s \in Seats PROVE RowSum(m, s, D) = f[s]
  <2>1. [l \in D |-> m[s][l]] = [l \in D |-> PotShare(g, pots[l], s)]
    OBVIOUS
  <2> HIDE DEF m
  <2> QED BY <2>1 DEF RowSum, Prize
<1>6. ASSUME NEW l \in D PROVE ColumnSum(m, Seats, l) = a[l]
  <2>1. [s \in Seats |-> m[s][l]] = [s \in Seats |-> PotShare(g, pots[l], s)]
    OBVIOUS
  <2> HIDE DEF m
  <2> QED BY <1>2, <2>1 DEF ColumnSum
<1>7. \A s \in Seats :
        (\A l \in D : s \notin pots[l].eligible) => f[s] = 0
  <2>1. SUFFICES ASSUME NEW s \in Seats, \A l \in D : s \notin pots[l].eligible
                 PROVE  f[s] = 0
    OBVIOUS
  <2> DEFINE k == [l \in D |-> PotShare(g, pots[l], s)]
  <2>2. \A l \in D : s \notin Winners(g, pots[l], 1) /\ s \notin Winners(g, pots[l], 2)
    BY <2>1 DEF Winners
  <2>3. \A l \in D : PotShare(g, pots[l], s) = 0
    BY <2>2 DEF PotShare, Share
  <2>4. DOMAIN k = D /\ \A l \in D : k[l] = IF l \in {} THEN 0 ELSE 0
    BY <2>3
  <2>5. f[s] = Total(k)
    BY DEF Prize
  <2>6. IsFiniteSet(D) /\ {} \in SUBSET D /\ 0 \in Nat
    BY DEF WonPots, IsAmounts
  <2> HIDE DEF k, f, D
  <2>7. Total(k) = Cardinality({}) * 0
    BY <2>4, <2>6, TotalOfEqual
  <2> QED BY <2>5, <2>7, FS_EmptySet
<1>8. DOMAIN f = Seats /\ DOMAIN a = D
  BY DEF AmountsOf
<1> HIDE DEF m, f, a
<1>9. /\ Total([s \in Seats |-> RowSum(m, s, D)]) = Total([l \in D |-> ColumnSum(m, Seats, l)])
      /\ IsAmounts([s \in Seats |-> RowSum(m, s, D)], Seats)
  BY <1>4, TotalOfTotals, LedgerSums
<1>10. Total([s \in Seats |-> RowSum(m, s, D)]) = Total(f)
  BY <1>5, <1>8, TotalOfSame
<1>11. Total([l \in D |-> ColumnSum(m, Seats, l)]) = Total(a)
  BY <1>6, <1>8, TotalOfSame
<1>12. IsAmounts(f, Seats)
  BY <1>5, <1>8, <1>9 DEF IsAmounts
<1> QED BY <1>7, <1>9, <1>10, <1>11, <1>12 DEF f, a

-----------------------------------------------------------------------------
(* What was paid in is paid out *)

Stacks(g) == [s \in Seats |-> g.pl[s].stack]
Starts(g) == [s \in Seats |-> g.pl[s].startStack]
Wins(g)   == [s \in Seats |-> g.pl[s].won]

(***************************************************************************)
(* A hand with a result: nothing is left in front or in the pots, the      *)
(* stacks add up to the starting stacks, the prizes to the pots, and a     *)
(* seat that folded has no more than it came with.                         *)
(***************************************************************************)
Accounted(g) ==
  g.phase = "result" =>
    /\ Live(g) # {}
    /\ \A s \in Seats : g.pl[s].bet = 0 /\ g.pl[s].committed = 0
    /\ Total(Stacks(g)) = Total(Starts(g))
    /\ Total(Wins(g)) = Total([p \in g.finalPots |-> p.amount])
    /\ \A s \in Seats \ Live(g) : g.pl[s].stack <= g.pl[s].startStack

\* From g to c nobody came back into the hand or came with other chips.
Trace(c, g) ==
  \A s \in Seats : /\ c.pl[s].startStack = g.pl[s].startStack
                   /\ g.pl[s].folded => c.pl[s].folded

\* The columns of a hand (stacks, wins, bets, shares) are amounts of chips.
LEMMA AmountsOfHand ==
  ASSUME NEW g \in Hand
  PROVE  /\ IsAmounts(Stacks(g), Seats) /\ IsAmounts(Starts(g), Seats)
         /\ IsAmounts(Wins(g), Seats)
         /\ IsAmounts([s \in Seats |-> g.pl[s].committed], Seats)
         /\ IsAmounts([s \in Seats |-> g.pl[s].bet + g.pl[s].committed], Seats)
         /\ IsAmounts([s \in Seats |->
              g.pl[s].stack + g.pl[s].bet + g.pl[s].committed], Seats)
<1>1. IsFiniteSet(Seats)
  BY SeatsFacts
<1>2. \A s \in Seats : /\ g.pl[s].stack \in Nat /\ g.pl[s].startStack \in Nat
                       /\ g.pl[s].won \in Nat /\ g.pl[s].committed \in Nat
                       /\ g.pl[s].bet \in Nat
  BY HandFields DEF Player
<1> QED BY <1>1, <1>2 DEF IsAmounts, Stacks, Starts, Wins

\* The pots of a hand are the pots of what its seats have committed.
LEMMA PotsOfHoldAll ==
  ASSUME NEW g \in Hand
  PROVE  /\ FullPots(Contributions(g), PotsOf(g))
         /\ IsPots(PotsOf(g), Seats)
         /\ LiveIn(Contributions(g)) = Live(g)
         /\ Contributed(Contributions(g)) = Total([s \in Seats |-> g.pl[s].committed])
         /\ Live(g) # {} => WonPots(PotsOf(g))
<1> DEFINE P == Contributions(g)
<1>1. /\ DOMAIN P = Seats
      /\ \A s \in Seats : /\ P[s].total = g.pl[s].committed
                          /\ P[s].folded = g.pl[s].folded
  BY DEF Contributions
<1> HIDE DEF P
<1>2. IsTable(P)
  <2>1. \A s \in Seats : P[s].total \in Nat
    BY <1>1, HandFields DEF Player
  <2> QED BY <1>1, <2>1, SeatsFacts DEF IsTable
<1>3. FullPots(P, PotsOf(g))
  BY <1>2, BuildPotsHoldsAll DEF PotsOf, P
<1>4. LiveIn(P) = Live(g)
  BY <1>1 DEF LiveIn, Live
<1>5. [s \in DOMAIN P |-> P[s].total] = [s \in Seats |-> g.pl[s].committed]
  BY <1>1
<1>6. Contributed(P) = Total([s \in Seats |-> g.pl[s].committed])
  BY <1>5 DEF Contributed
<1>7. IsPots(PotsOf(g), Seats)
  BY PotsOfType
<1>8. Live(g) # {} => WonPots(PotsOf(g))
  <2>1. Live(g) \subseteq Seats
    BY LiveFacts
  <2> QED BY <1>3, <1>4, <2>1 DEF FullPots, WonPots
<1> QED BY <1>3, <1>4, <1>6, <1>7, <1>8 DEF P

\* The record of the final pots has the amounts of the pots.
LEMMA FinalPotsFacts ==
  ASSUME NEW pots, IsAmounts(AmountsOf(pots), DOMAIN pots)
  PROVE  LET F == {[level |-> l, amount |-> pots[l].amount,
                    eligible |-> pots[l].eligible] : l \in DOMAIN pots}
         IN  Total([p \in F |-> p.amount]) = Total(AmountsOf(pots))
<1> DEFINE D == DOMAIN pots
           Entry(l) == [level |-> l, amount |-> pots[l].amount,
                        eligible |-> pots[l].eligible]
           F == {Entry(l) : l \in D}
           b == [l \in D |-> Entry(l)]
           k == [p \in F |-> p.amount]
           a == AmountsOf(pots)
<1>1. \A l, n \in D : Entry(l) = Entry(n) => l = n
  OBVIOUS
<1>2. b \in [D -> F] /\ \A l \in D : b[l] = Entry(l)
  OBVIOUS
<1>3. \A p \in F : \E l \in D : b[l] = p
  OBVIOUS
<1>4. \A l \in D : k[b[l]] = a[l]
  BY <1>2 DEF AmountsOf
<1>5. DOMAIN k = F
  OBVIOUS
<1>6. b \in Bijection(D, F)
  <2> HIDE DEF b, F, Entry
  <2> QED BY <1>1, <1>2, <1>3 DEF Bijection, Injection, IsInjective, Surjection
<1>7. IsAmounts(a, D)
  OBVIOUS
<1> HIDE DEF k, b, F, a
<1>8. Total(k) = Total(a)
  BY <1>4, <1>5, <1>6, <1>7, TotalRenamed
<1> QED BY <1>8 DEF k, F, a

\* A prize for everybody, out of pots that nobody but live seats wins.
LEMMA PayingOut ==
  ASSUME NEW g \in Hand, Books(g), NothingInFront(g), Live(g) # {},
         NEW prize, IsAmounts(prize, Seats),
         Total(prize) = Total(AmountsOf(PotsOf(g))),
         \A s \in Seats \ Live(g) : prize[s] = 0,
         NEW c \in Hand,
         \A s \in Seats : /\ c.pl[s].stack = g.pl[s].stack + prize[s]
                          /\ c.pl[s].won = g.pl[s].won + prize[s]
                          /\ c.pl[s].bet = g.pl[s].bet
                          /\ c.pl[s].startStack = g.pl[s].startStack
                          /\ c.pl[s].folded = g.pl[s].folded
  PROVE  /\ Accounted(Finish(c, PotsOf(g)))
         /\ Trace(Finish(c, PotsOf(g)), g)
<1> DEFINE pots == PotsOf(g)
           f == Finish(c, pots)
           paid == [s \in Seats |-> g.pl[s].committed]
           Emptied(p) == [p EXCEPT !.committed = 0]
<1>1. /\ FullPots(Contributions(g), pots) /\ IsPots(pots, Seats)
      /\ Contributed(Contributions(g)) = Total(paid)
  BY PotsOfHoldAll
<1>2. Total(prize) = Total(paid)
  BY <1>1 DEF FullPots
<1>3. /\ IsAmounts(Stacks(g), Seats) /\ IsAmounts(Starts(g), Seats)
      /\ IsAmounts(Wins(g), Seats) /\ IsAmounts(paid, Seats)
  BY AmountsOfHand
<1>4. \A s \in Seats : /\ g.pl[s] \in Player /\ c.pl[s] \in Player
                       /\ g.pl[s].stack \in Nat /\ g.pl[s].committed \in Nat
                       /\ g.pl[s].startStack \in Nat /\ prize[s] \in Nat
                       /\ g.pl[s].bet = 0 /\ g.pl[s].won = 0
                       /\ g.pl[s].stack + g.pl[s].committed = g.pl[s].startStack
  BY HandFields DEF Player, Books, Sound, NothingInFront, IsAmounts
<1>5. /\ f.phase = "result"
      /\ \A s \in Seats : f.pl[s] = Emptied(c.pl[s])
      /\ f.finalPots = {[level |-> l, amount |-> pots[l].amount,
                         eligible |-> pots[l].eligible] : l \in DOMAIN pots}
  BY DEF Finish, Hand
<1>6. \A p \in Player : /\ Emptied(p).committed = 0 /\ Emptied(p).bet = p.bet
                        /\ Emptied(p).stack = p.stack /\ Emptied(p).won = p.won
                        /\ Emptied(p).startStack = p.startStack
                        /\ Emptied(p).folded = p.folded
  BY DEF Player
<1> HIDE DEF f, Emptied, pots
<1>7. \A s \in Seats : /\ f.pl[s].committed = 0 /\ f.pl[s].bet = 0
                       /\ f.pl[s].stack = g.pl[s].stack + prize[s]
                       /\ f.pl[s].won = prize[s]
                       /\ f.pl[s].startStack = g.pl[s].startStack
                       /\ f.pl[s].folded = g.pl[s].folded
  BY <1>4, <1>5, <1>6
<1>8. Live(f) = Live(g)
  BY <1>7, SameLive
<1>9. Total(Stacks(f)) = Total(Starts(f))
  <2>1. IsAmounts(Stacks(f), Seats) /\ \A s \in Seats : Stacks(f)[s] = Stacks(g)[s] + prize[s]
    BY <1>3, <1>4, <1>7 DEF Stacks, IsAmounts
  <2>2. Total(Stacks(f)) = Total(Stacks(g)) + Total(prize)
    BY <1>3, <2>1, TotalAdds
  <2>3. \A s \in Seats : Starts(g)[s] = Stacks(g)[s] + paid[s]
    BY <1>4 DEF Starts, Stacks
  <2> HIDE DEF paid
  <2>4. Total(Starts(g)) = Total(Stacks(g)) + Total(paid)
    BY <1>3, <2>3, TotalAdds
  <2>5. Total(Starts(f)) = Total(Starts(g))
    BY <1>7, TotalOfSame DEF Starts
  <2> QED BY <1>2, <2>2, <2>4, <2>5
<1>10. Total(Wins(f)) = Total(prize)
  <2>1. DOMAIN Wins(f) = DOMAIN prize /\ \A s \in DOMAIN prize : Wins(f)[s] = prize[s]
    BY <1>7 DEF Wins, IsAmounts
  <2> QED BY <2>1, TotalOfSame
<1>11. Total([p \in f.finalPots |-> p.amount]) = Total(AmountsOf(pots))
  <2>1. IsAmounts(AmountsOf(pots), DOMAIN pots)
    BY <1>1 DEF FullPots
  <2> QED BY <1>5, <2>1, FinalPotsFacts
<1>12. \A s \in Seats \ Live(f) : f.pl[s].stack <= f.pl[s].startStack
  BY <1>4, <1>7, <1>8
<1>13. Accounted(f)
  BY <1>7, <1>8, <1>9, <1>10, <1>11, <1>12 DEF Accounted, pots
<1>14. Trace(f, g)
  BY <1>7 DEF Trace
<1> QED BY <1>13, <1>14 DEF f, pots

\* Paying a seat a prize changes its stack and winnings by it and nothing else.
LEMMA PrizedFields ==
  ASSUME NEW p \in Player, NEW n \in Nat
  PROVE  LET q == Prized(p, n)
         IN  /\ q \in Player /\ q.stack = p.stack + n /\ q.won = p.won + n
             /\ q.bet = p.bet /\ q.startStack = p.startStack
             /\ q.folded = p.folded
             /\ Faced(q) \in Player /\ Faced(q).stack = p.stack + n
             /\ Faced(q).won = p.won + n /\ Faced(q).bet = p.bet
             /\ Faced(q).startStack = p.startStack /\ Faced(q).folded = p.folded
<1> DEFINE q == Prized(p, n)
<1>1. q \in Player
  BY PrizedType
<1>2. /\ q.stack = p.stack + n /\ q.won = p.won + n /\ q.bet = p.bet
      /\ q.startStack = p.startStack /\ q.folded = p.folded
  BY DEF Prized, Player
<1> HIDE DEF q
<1>3. /\ Faced(q) \in Player /\ Faced(q).stack = q.stack /\ Faced(q).won = q.won
      /\ Faced(q).bet = q.bet /\ Faced(q).startStack = q.startStack
      /\ Faced(q).folded = q.folded
  BY <1>1 DEF Faced, Player
<1> QED BY <1>1, <1>2, <1>3 DEF q

\* awardPots pays out all of the pots, to seats that did not fold.
LEMMA AwardPotsPays ==
  ASSUME cfg \in HandConfig,
         NEW g \in Hand, Books(g), NothingInFront(g), Live(g) # {}
  PROVE  Accounted(AwardPots(g)) /\ Trace(AwardPots(g), g)
<1> DEFINE pots == PotsOf(g)
           prize == [s \in Seats |-> Prize(g, pots, s)]
           Won(s) == Prized(g.pl[s], Prize(g, pots, s))
           pl == [s \in Seats |->
                    IF s \in Live(g) /\ WinsAPot(g, pots, s) THEN Faced(Won(s))
                                                            ELSE Won(s)]
           c == [g EXCEPT !.pl = pl]
<1>1. AwardPots(g) = Finish(c, pots)
  BY DEF AwardPots
<1>2. WonPots(pots) /\ FullPots(Contributions(g), pots)
      /\ LiveIn(Contributions(g)) = Live(g)
  BY PotsOfHoldAll
<1>3. /\ IsAmounts(prize, Seats) /\ Total(prize) = Total(AmountsOf(pots))
      /\ \A s \in Seats :
           (\A l \in DOMAIN pots : s \notin pots[l].eligible) => prize[s] = 0
  <2> HIDE DEF pots
  <2> QED BY <1>2, PrizesAreThePots
<1>4. \A s \in Seats \ Live(g) : prize[s] = 0
  BY <1>2, <1>3 DEF FullPots
<1>5. \A s \in Seats : prize[s] = Prize(g, pots, s) /\ prize[s] \in Nat
  BY <1>3 DEF IsAmounts
<1>6. ASSUME NEW s \in Seats
      PROVE  /\ pl[s] \in Player
             /\ pl[s].stack = g.pl[s].stack + prize[s]
             /\ pl[s].won = g.pl[s].won + prize[s]
             /\ pl[s].bet = g.pl[s].bet
             /\ pl[s].startStack = g.pl[s].startStack
             /\ pl[s].folded = g.pl[s].folded
  <2> DEFINE p == g.pl[s]
             n == prize[s]
             q == Won(s)
  <2>1. q = Prized(p, n) /\ p \in Player /\ n \in Nat
    BY <1>5, HandFields
  <2>2. pl[s] = Faced(q) \/ pl[s] = q
    OBVIOUS
  <2> HIDE DEF pl, Won, prize, p, n, q
  <2>3. /\ q \in Player /\ q.stack = p.stack + n /\ q.won = p.won + n
        /\ q.bet = p.bet /\ q.startStack = p.startStack /\ q.folded = p.folded
        /\ Faced(q) \in Player /\ Faced(q).stack = p.stack + n
        /\ Faced(q).won = p.won + n /\ Faced(q).bet = p.bet
        /\ Faced(q).startStack = p.startStack /\ Faced(q).folded = p.folded
    BY <2>1, PrizedFields
  <2>4. /\ pl[s] \in Player /\ pl[s].stack = p.stack + n
        /\ pl[s].won = p.won + n /\ pl[s].bet = p.bet
        /\ pl[s].startStack = p.startStack /\ pl[s].folded = p.folded
    BY <2>2, <2>3
  <2> QED BY <2>4 DEF p, n
<1>7. pl \in [Seats -> Player]
  <2>1. pl = [s \in Seats |-> pl[s]]
    OBVIOUS
  <2> HIDE DEF pl
  <2> QED BY <1>6, <2>1
<1> HIDE DEF pl, prize
<1>8. c \in Hand /\ c.pl = pl
  BY <1>7, PlayersReplaced
<1> HIDE DEF c
<1>9. \A s \in Seats : /\ c.pl[s].stack = g.pl[s].stack + prize[s]
                       /\ c.pl[s].won = g.pl[s].won + prize[s]
                       /\ c.pl[s].bet = g.pl[s].bet
                       /\ c.pl[s].startStack = g.pl[s].startStack
                       /\ c.pl[s].folded = g.pl[s].folded
  BY <1>6, <1>8
<1>10. Accounted(Finish(c, PotsOf(g))) /\ Trace(Finish(c, PotsOf(g)), g)
  BY <1>3, <1>4, <1>8, <1>9, PayingOut
<1> QED BY <1>1, <1>10

-----------------------------------------------------------------------------
(* Traces *)

\* Steps that leave a trace join into one that does.
LEMMA TraceJoins ==
  ASSUME NEW c, NEW d, NEW g, Trace(c, d), Trace(d, g)
  PROVE  Trace(c, g)
  BY DEF Trace

\* Nobody who folded comes back into the hand.
LEMMA TraceLive ==
  ASSUME NEW c, NEW g \in Hand, Trace(c, g), c \in Hand
  PROVE  Live(c) \subseteq Live(g)
<1>1. \A s \in Seats : g.pl[s].folded \in BOOLEAN /\ c.pl[s].folded \in BOOLEAN
  BY HandFields DEF Player
<1> QED BY <1>1 DEF Trace, Live

\* Changes of players that leave the trace.
LEMMA PlayerTraces ==
  ASSUME NEW p \in Player
  PROVE  /\ Folded(p).startStack = p.startStack /\ Folded(p).folded = TRUE
         /\ Pooled(p).startStack = p.startStack /\ Pooled(p).folded = p.folded
         /\ Faced(p).startStack = p.startStack /\ Faced(p).folded = p.folded
         /\ \A n : /\ Staked(p, n).startStack = p.startStack
                   /\ Staked(p, n).folded = p.folded
                   /\ Returned(p, n).startStack = p.startStack
                   /\ Returned(p, n).folded = p.folded
  BY DEF Folded, Pooled, Faced, Staked, Returned, Player

\* An uncalled bet goes back to the stack of the seat that made it.
LEMMA ReturnUncalledTrace ==
  ASSUME NEW g \in Hand
  PROVE  Trace(ReturnUncalled(g), g)
<1> DEFINE top == TopBettor(g)
           n == Uncalled(g)
           c == [g EXCEPT !.pl[top] = Returned(g.pl[top], n)]
<1>1. top \in Seats
  BY UncalledFacts
<1>2. g.pl \in [Seats -> Player] /\ g.pl[top] \in Player
  BY <1>1, HandFields
<1>3. ReturnUncalled(g) = IF n > 0 THEN c ELSE g
  BY DEF ReturnUncalled
<1>4. c.pl = [g.pl EXCEPT ![top] = Returned(g.pl[top], n)]
  BY DEF Hand
<1>5. /\ Returned(g.pl[top], n).startStack = g.pl[top].startStack
      /\ Returned(g.pl[top], n).folded = g.pl[top].folded
  BY <1>2, PlayerTraces
<1> HIDE DEF c, top, n
<1>6. \A s \in Seats : c.pl[s] = IF s = top THEN Returned(g.pl[top], n) ELSE g.pl[s]
  BY <1>2, <1>4
<1>7. Trace(c, g)
  BY <1>1, <1>5, <1>6 DEF Trace
<1>8. Trace(g, g)
  BY DEF Trace
<1> QED BY <1>3, <1>7, <1>8

\* Collecting bets moves them into the pots and leaves the stacks alone.
LEMMA CollectTrace ==
  ASSUME NEW g \in Hand
  PROVE  Trace(Collect(g), g)
<1>1. \A s \in Seats : Collect(g).pl[s] = Pooled(g.pl[s])
  BY DEF Collect, Hand
<1>2. \A s \in Seats : g.pl[s] \in Player
  BY HandFields
<1> QED BY <1>1, <1>2, PlayerTraces DEF Trace

\* Turning cards over moves no chips.
LEMMA RevealAllTrace ==
  ASSUME NEW g \in Hand
  PROVE  Trace(RevealAll(g), g)
<1>1. \A s \in Seats : RevealAll(g).pl[s] = Faced(g.pl[s]) \/ RevealAll(g).pl[s] = g.pl[s]
  BY DEF RevealAll, Hand
<1>2. \A s \in Seats : g.pl[s] \in Player
  BY HandFields
<1> QED BY <1>1, <1>2, PlayerTraces DEF Trace

\* A hand nobody contests pays all that was put in to the seat left.
LEMMA FinishUncontestedPays ==
  ASSUME NEW g \in Hand, Books(g), Live(g) # {}
  PROVE  Accounted(FinishUncontested(g)) /\ Trace(FinishUncontested(g), g)
<1> DEFINE r      == ReturnUncalled(g)
           c      == Collect(r)
           pots   == PotsOf(c)
           winner == CHOOSE s \in Seats : s \in Live(c)
           n      == Total(AmountsOf(pots))
           d      == [c EXCEPT !.pl[winner] = Prized(c.pl[winner], n)]
           prize  == [s \in Seats |-> IF s \in {winner} THEN n ELSE 0]
<1>1. r \in Hand /\ SameHand(r, g) /\ Books(r) /\ Trace(r, g)
  BY ReturnUncalledFacts, ReturnUncalledTrace
<1> HIDE DEF r
<1>2. /\ c \in Hand /\ SameHand(c, r) /\ Books(c) /\ NothingInFront(c)
      /\ Trace(c, r)
  BY <1>1, CollectFacts, CollectTrace
<1> HIDE DEF c
<1>3. Live(c) = Live(g)
  BY <1>1, <1>2, SameLive DEF SameHand
<1>4. winner \in Seats /\ winner \in Live(c)
  BY <1>3 DEF Live
<1> HIDE DEF winner
<1>5. IsPots(pots, Seats)
  BY <1>2, PotsOfType
<1>6. n \in Nat
  <2> HIDE DEF pots
  <2> QED BY <1>5, AmountsType
<1>7. FinishUncontested(g) = Finish(d, PotsOf(c))
  BY DEF FinishUncontested, c, r, winner, pots, n
<1> HIDE DEF n
<1>8. c.pl[winner] \in Player
  BY <1>2, <1>4, HandFields
<1> DEFINE q == Prized(c.pl[winner], n)
<1>9. /\ q \in Player /\ q.stack = c.pl[winner].stack + n
      /\ q.won = c.pl[winner].won + n /\ q.bet = c.pl[winner].bet
      /\ q.startStack = c.pl[winner].startStack /\ q.folded = c.pl[winner].folded
  BY <1>6, <1>8, PrizedFields
<1> HIDE DEF q
<1>10. /\ d \in Hand /\ d.pl[winner] = q
       /\ \A t \in Seats \ {winner} : d.pl[t] = c.pl[t]
  BY <1>2, <1>4, <1>9, SeatReplaced DEF q
<1> HIDE DEF d
<1>11. /\ IsAmounts(prize, Seats) /\ Total(prize) = n
       /\ \A s \in Seats \ Live(c) : prize[s] = 0
       /\ \A s \in Seats : prize[s] = IF s = winner THEN n ELSE 0
  <2>1. /\ DOMAIN prize = Seats
        /\ \A s \in Seats : prize[s] = IF s \in {winner} THEN n ELSE 0
    OBVIOUS
  <2>2. IsFiniteSet(Seats) /\ {winner} \in SUBSET Seats
    BY <1>4, SeatsFacts
  <2>3. Cardinality({winner}) = 1
    BY FS_Singleton, Zenon
  <2> HIDE DEF prize
  <2>4. IsAmounts(prize, Seats)
    BY <1>6, <2>1, <2>2 DEF IsAmounts
  <2>5. Total(prize) = Cardinality({winner}) * n
    BY <1>6, <2>1, <2>2, TotalOfEqual
  <2>6. Total(prize) = n
    BY <1>6, <2>3, <2>5
  <2> QED BY <1>4, <2>1, <2>4, <2>6
<1> HIDE DEF prize
<1>12. \A s \in Seats : /\ d.pl[s].stack = c.pl[s].stack + prize[s]
                        /\ d.pl[s].won = c.pl[s].won + prize[s]
                        /\ d.pl[s].bet = c.pl[s].bet
                        /\ d.pl[s].startStack = c.pl[s].startStack
                        /\ d.pl[s].folded = c.pl[s].folded
  <2>1. \A s \in Seats : c.pl[s].stack \in Nat /\ c.pl[s].won \in Nat
    BY <1>2, HandFields DEF Player
  <2> QED BY <1>9, <1>10, <1>11, <2>1
<1>13. Total(prize) = Total(AmountsOf(PotsOf(c)))
  BY <1>11 DEF n
<1>14. /\ Accounted(Finish(d, PotsOf(c))) /\ Trace(Finish(d, PotsOf(c)), c)
  <2>1. Live(c) # {}
    BY <1>3
  <2> HIDE DEF pots
  <2> QED BY <1>2, <1>10, <1>11, <1>12, <1>13, <2>1, PayingOut
<1>15. Trace(c, g)
  BY <1>1, <1>2, TraceJoins
<1> QED BY <1>7, <1>14, <1>15, TraceJoins

-----------------------------------------------------------------------------
(* Every method of the engine keeps the account *)

Keeps(c, g) == Accounted(c) /\ Trace(c, g)

\* Without a result the account is open, and equal players are a trace.
LEMMA OpenAccount ==
  ASSUME NEW c, NEW g, c.phase # "result", c.pl = g.pl
  PROVE  Keeps(c, g)
  BY DEF Keeps, Accounted, Trace

\* A step that keeps the books may follow one that leaves a trace.
LEMMA KeepsJoins ==
  ASSUME NEW c, NEW d, NEW g, Keeps(c, d), Trace(d, g)
  PROVE  Keeps(c, g)
  BY TraceJoins DEF Keeps

\* A showdown keeps the books: with every pot paid, nothing is missing.
LEMMA ShowdownKeeps ==
  ASSUME cfg \in HandConfig,
         NEW g \in Hand, Books(g), NothingInFront(g), Live(g) # {}
  PROVE  Keeps(Showdown(g), g)
<1>1. CASE \A s \in Live(g) : g.pl[s].revealed
  <2>1. Showdown(g) = AwardPots(g)
    BY <1>1 DEF Showdown
  <2> QED BY <2>1, AwardPotsPays DEF Keeps
<1>2. CASE ~\A s \in Live(g) : g.pl[s].revealed
  <2> DEFINE c == [g EXCEPT !.phase = "showdown", !.showIdx = 0,
                            !.toAct = NoSeat]
  <2>1. Showdown(g) = c
    BY <1>2 DEF Showdown
  <2>2. c.phase = "showdown" /\ c.pl = g.pl
    BY DEF Hand
  <2> HIDE DEF c
  <2> QED BY <2>1, <2>2, OpenAccount
<1> QED BY <1>1, <1>2

\* The end of a street keeps the books, a showdown or a next street alike.
LEMMA EndStreetKeeps ==
  ASSUME cfg \in HandConfig, NEW g \in Hand, Books(g), Live(g) # {}
  PROVE  Keeps(EndStreet(g), g)
<1> DEFINE r == ReturnUncalled(g)
           k == Collect(r)
           c == [k EXCEPT !.toAct = NoSeat]
           d == [c EXCEPT !.phase = "deal_pending"]
           e == [d EXCEPT !.runout = TRUE]
<1>1. EndStreet(g) = IF c.street = River THEN Showdown(c)
                     ELSE IF Cardinality(Active(c)) < 2 THEN RevealAll(e) ELSE d
  BY DEF EndStreet
<1>2. r \in Hand /\ Books(r) /\ SameHand(r, g) /\ Trace(r, g)
  BY ReturnUncalledFacts, ReturnUncalledTrace
<1> HIDE DEF r
<1>3. /\ k \in Hand /\ Books(k) /\ NothingInFront(k) /\ SameHand(k, r)
      /\ Trace(k, r)
  BY <1>2, CollectFacts, CollectTrace
<1> HIDE DEF k
<1>4. c \in Hand /\ c.pl = k.pl
  BY <1>3 DEF Hand
<1>5. d \in Hand /\ d.pl = k.pl /\ d.phase = "deal_pending"
  BY <1>3 DEF Hand, Phases
<1>6. e \in Hand /\ e.pl = k.pl /\ e.phase = "deal_pending"
  BY <1>3 DEF Hand, Phases
<1> HIDE DEF c, d, e
<1>7. Books(c) /\ NothingInFront(c) /\ Live(c) # {}
  <2>1. Live(k) = Live(g)
    BY <1>2, <1>3, SameLive DEF SameHand
  <2>2. Live(c) = Live(k)
    BY <1>4, SameLive
  <2> QED BY <1>3, <1>4, <2>1, <2>2 DEF Books, NothingInFront
<1>8. Trace(k, g)
  BY <1>2, <1>3, TraceJoins
<1>9. Trace(c, g) /\ Trace(d, g) /\ Trace(e, g)
  BY <1>4, <1>5, <1>6, <1>8 DEF Trace
<1>10. CASE c.street = River
  BY <1>1, <1>4, <1>7, <1>9, <1>10, ShowdownKeeps, KeepsJoins
<1>11. CASE c.street # River /\ Cardinality(Active(c)) < 2
  <2>1. EndStreet(g) = RevealAll(e)
    BY <1>1, <1>11
  <2>2. RevealAll(e).phase = "deal_pending" /\ Trace(RevealAll(e), e)
    BY <1>6, RevealAllFacts, RevealAllTrace DEF SameHand
  <2>3. Keeps(RevealAll(e), e)
    BY <2>2 DEF Keeps, Accounted
  <2> QED BY <1>9, <2>1, <2>3, KeepsJoins
<1>12. CASE c.street # River /\ ~(Cardinality(Active(c)) < 2)
  <2>1. EndStreet(g) = d
    BY <1>1, <1>12
  <2> QED BY <1>5, <1>9, <2>1 DEF Keeps, Accounted
<1> QED BY <1>10, <1>11, <1>12

\* settle keeps the books, wherever it starts to look for the next seat.
LEMMA SettleKeeps ==
  ASSUME cfg \in HandConfig, NEW g \in Hand, Books(g), Live(g) # {},
         g.phase = "betting", NEW start
  PROVE  Keeps(Settle(g, start), g)
<1>1. CASE Cardinality(Live(g)) = 1
  <2>1. Settle(g, start) = FinishUncontested(g)
    BY <1>1 DEF Settle
  <2> QED BY <2>1, FinishUncontestedPays DEF Keeps
<1>2. CASE Cardinality(Live(g)) # 1 /\ RoundComplete(g)
  <2>1. Settle(g, start) = EndStreet(g)
    BY <1>2 DEF Settle
  <2> QED BY <2>1, EndStreetKeeps
<1>3. CASE Cardinality(Live(g)) # 1 /\ ~RoundComplete(g)
  <2> DEFINE c == [g EXCEPT !.toAct = NextActor(g, start)]
  <2>1. Settle(g, start) = c
    BY <1>3 DEF Settle
  <2>2. c.phase = "betting" /\ c.pl = g.pl
    BY DEF Hand
  <2> HIDE DEF c
  <2> QED BY <2>1, <2>2, OpenAccount
<1> QED BY <1>1, <1>2, <1>3

\* A seat's player replaced by one with the same start.
LEMMA SeatTrace ==
  ASSUME NEW g \in Hand, NEW s \in Seats, NEW p,
         p.startStack = g.pl[s].startStack, g.pl[s].folded => p.folded
  PROVE  Trace([g EXCEPT !.pl[s] = p], g)
<1> DEFINE c == [g EXCEPT !.pl[s] = p]
<1>1. \A t \in Seats : c.pl[t] = IF t = s THEN p ELSE g.pl[t]
  BY DEF Hand
<1> HIDE DEF c
<1>2. Trace(c, g)
  BY <1>1 DEF Trace
<1> QED BY <1>2 DEF c

\* A fold moves no chips and takes one seat out of the hand.
LEMMA FoldTrace ==
  ASSUME NEW g \in Hand, NEW s \in Seats
  PROVE  Trace(Fold(g, s), g)
<1>1. g.pl[s] \in Player
  BY HandFields
<1>2. /\ Folded(g.pl[s]).startStack = g.pl[s].startStack
      /\ Folded(g.pl[s]).folded = TRUE
  BY <1>1, PlayerTraces
<1>3. Trace([g EXCEPT !.pl[s] = Folded(g.pl[s])], g)
  BY <1>2, SeatTrace
<1> QED BY <1>3 DEF Fold

\* A commitment moves chips from a stack to the same seat's bet.
LEMMA CommitTrace ==
  ASSUME NEW g \in Hand, NEW s \in Seats, NEW n
  PROVE  Trace(Commit(g, s, n), g)
<1>1. g.pl[s] \in Player
  BY HandFields
<1>2. /\ Staked(g.pl[s], n).startStack = g.pl[s].startStack
      /\ Staked(g.pl[s], n).folded = g.pl[s].folded
  BY <1>1, PlayerTraces
<1>3. Trace([g EXCEPT !.pl[s] = Staked(g.pl[s], n)], g)
  BY <1>2, SeatTrace
<1> QED BY <1>3 DEF Commit

\* Marking a seat as having acted moves no chips.
LEMMA ActedTrace ==
  ASSUME NEW g \in Hand, NEW s \in Seats
  PROVE  Trace(Acted(g, s), g)
<1> DEFINE p == [g.pl[s] EXCEPT !.hasActed = TRUE,
                                !.actedAtFullLevel = g.lastFullBetLevel]
<1>1. g.pl[s] \in Player
  BY HandFields
<1>2. p.startStack = g.pl[s].startStack /\ p.folded = g.pl[s].folded
  BY <1>1 DEF Player
<1> HIDE DEF p
<1>3. Trace([g EXCEPT !.pl[s] = p], g)
  BY <1>2, SeatTrace
<1> QED BY <1>3 DEF Acted, p

\* A wager moves chips from a stack to the same seat's bet.
LEMMA WagerToTrace ==
  ASSUME NEW g \in Hand, NEW s \in Seats, NEW amount, NEW minTo,
         Commit(g, s, amount - g.pl[s].bet) \in Hand
  PROVE  Trace(WagerTo(g, s, amount, minTo), g)
<1> DEFINE k == Commit(g, s, amount - g.pl[s].bet)
           c == [k EXCEPT !.currentBet = amount, !.aggressor = s]
           d == [c EXCEPT !.lastRaiseSize = amount - g.currentBet,
                          !.lastFullBetLevel = amount]
<1>1. WagerTo(g, s, amount, minTo) = IF amount >= minTo THEN d ELSE c
  BY DEF WagerTo
<1>2. Trace(k, g) /\ k \in Hand
  BY CommitTrace
<1> HIDE DEF k
<1>3. c.pl = k.pl /\ d.pl = k.pl
  BY <1>2 DEF Hand
<1> HIDE DEF c, d
<1> QED BY <1>1, <1>2, <1>3 DEF Trace

\* A legal action moves chips within its own seat only.
LEMMA PerformTrace ==
  ASSUME NEW g \in Hand, NEW s \in Seats, Price(g), NEW a \in Actions,
         Legal(g, s, Resolve(g, s, a))
  PROVE  Trace(Perform(g, s, Resolve(g, s, a)), g)
<1> DEFINE r == Resolve(g, s, a)
           c == Perform(g, s, r)
           n == r.amount - g.pl[s].bet
<1>1. /\ r.kind \in {"fold", "check", "call", "bet", "raise"}
      /\ r.amount \in Nat
      /\ r.kind = "bet" => g.currentBet = 0
  BY ResolveFacts
<1> HIDE DEF r
<1>2. /\ g.pl[s].bet \in Nat /\ g.pl[s].stack \in Nat /\ g.currentBet \in Nat
      /\ g.pl[s].bet <= g.currentBet
  BY HandFields DEF Player, Price
<1>3. CASE r.kind = "fold"
  BY <1>3, FoldTrace DEF Perform, r
<1>4. CASE r.kind = "check"
  <2>1. Trace(g, g)
    BY DEF Trace
  <2> QED BY <1>4, <2>1 DEF Perform, r
<1>5. CASE r.kind = "call"
  BY <1>5, CommitTrace DEF Perform, r
<1>6. ASSUME r.kind \in {"bet", "raise"} PROVE Commit(g, s, n) \in Hand
  <2>1. r.amount >= g.currentBet /\ r.amount <= MaxTo(g, s)
    <3>1. CASE r.kind = "bet"
      BY <1>1, <1>2, <3>1 DEF Legal, LegalBet, r
    <3>2. CASE r.kind = "raise"
      BY <1>1, <1>2, <3>2 DEF Legal, LegalRaise, MaxTo, r
    <3> QED BY <1>6, <3>1, <3>2
  <2>2. n \in Nat /\ n <= g.pl[s].stack
    BY <1>1, <1>2, <2>1 DEF MaxTo
  <2> HIDE DEF n
  <2> QED BY <2>2, CommitFacts
<1>7. CASE r.kind = "bet"
  <2>1. c = WagerTo(g, s, r.amount, cfg.bb)
    BY <1>7 DEF Perform
  <2>2. Commit(g, s, r.amount - g.pl[s].bet) \in Hand
    BY <1>6, <1>7
  <2>3. Trace(WagerTo(g, s, r.amount, cfg.bb), g)
    BY <2>2, WagerToTrace
  <2> QED BY <2>1, <2>3 DEF r
<1>8. CASE r.kind = "raise"
  <2>1. c = WagerTo(g, s, r.amount, MinRaiseTo(g))
    BY <1>8 DEF Perform
  <2>2. Commit(g, s, r.amount - g.pl[s].bet) \in Hand
    BY <1>6, <1>8
  <2>3. Trace(WagerTo(g, s, r.amount, MinRaiseTo(g)), g)
    BY <2>2, WagerToTrace
  <2> QED BY <2>1, <2>3 DEF r
<1> QED BY <1>1, <1>3, <1>4, <1>5, <1>7, <1>8

\* Before the river the end of a street waits for the deal; nobody leaves.
LEMMA EndStreetOpen ==
  ASSUME NEW g \in Hand, g.street # River
  PROVE  EndStreet(g).phase = "deal_pending" /\ Live(EndStreet(g)) = Live(g)
<1> DEFINE r == ReturnUncalled(g)
           k == Collect(r)
           c == [k EXCEPT !.toAct = NoSeat]
           d == [c EXCEPT !.phase = "deal_pending"]
           e == [d EXCEPT !.runout = TRUE]
<1>1. EndStreet(g) = IF c.street = River THEN Showdown(c)
                     ELSE IF Cardinality(Active(c)) < 2 THEN RevealAll(e) ELSE d
  BY DEF EndStreet
<1>2. r \in Hand /\ SameHand(r, g)
  BY ReturnUncalledFacts
<1> HIDE DEF r
<1>3. k \in Hand /\ SameHand(k, r)
  BY <1>2, CollectFacts
<1> HIDE DEF k
<1>4. Live(k) = Live(g)
  BY <1>2, <1>3, SameLive DEF SameHand
<1>5. c.street = k.street
  BY <1>3 DEF Hand
<1>6. d \in Hand /\ d.pl = k.pl /\ d.phase = "deal_pending"
  BY <1>3 DEF Hand, Phases
<1>7. e \in Hand /\ e.pl = k.pl /\ e.phase = "deal_pending"
  BY <1>3 DEF Hand, Phases
<1> HIDE DEF c, d, e
<1>8. Live(d) = Live(k) /\ Live(e) = Live(k)
  BY <1>6, <1>7, SameLive
<1>9. RevealAll(e).phase = "deal_pending" /\ Live(RevealAll(e)) = Live(e)
  BY <1>7, RevealAllFacts, SameLive DEF SameHand
<1>10. c.street # River
  BY <1>2, <1>3, <1>5 DEF SameHand
<1> QED BY <1>1, <1>4, <1>6, <1>8, <1>9, <1>10

\* A new hand opens with every seat in it, and its books are kept.
LEMMA NewHandKeeps ==
  ASSUME cfg \in Configs, NEW stacks \in [Seats -> StartStacks]
  PROVE  /\ Accounted(NewHand(stacks)) /\ NewHand(stacks).phase # "result"
         /\ Live(NewHand(stacks)) = Seats
<1>1. PICK g, first : /\ first \in Int /\ Opening(g)
                      /\ NewHand(stacks) = Settle(g, first)
  BY NewHandOpens
<1>2. /\ g \in Hand /\ g.phase = "betting" /\ g.street # River
      /\ Live(g) = Seats /\ Cardinality(Live(g)) # 1
  <2>1. Cardinality(Seats) >= 2 /\ Cardinality(Seats) \in Nat
    BY SeatsFacts
  <2> QED BY <1>1, <2>1 DEF Opening, Preflop, River
<1>3. CASE RoundComplete(g)
  <2>1. Settle(g, first) = EndStreet(g)
    BY <1>2, <1>3 DEF Settle
  <2> QED BY <1>1, <1>2, <2>1, EndStreetOpen DEF Accounted
<1>4. CASE ~RoundComplete(g)
  <2> DEFINE c == [g EXCEPT !.toAct = NextActor(g, first)]
  <2>1. Settle(g, first) = c
    BY <1>2, <1>4 DEF Settle
  <2>2. c.phase = "betting" /\ c.pl = g.pl
    BY <1>2 DEF Hand
  <2> HIDE DEF c
  <2>3. Live(c) = Live(g)
    BY <2>2, SameLive
  <2> QED BY <1>1, <1>2, <2>1, <2>2, <2>3 DEF Accounted
<1> QED BY <1>3, <1>4

\* The engine keeps the books when a seat leaves the hand out of turn.
LEMMA AfterForfeitKeeps ==
  ASSUME cfg \in HandConfig, NEW g, Good(g), NEW s \in Live(g),
         g.phase \in {"betting", "deal_pending"}
  PROVE  Keeps(AfterForfeit(Fold(g, s), s), g)
<1> DEFINE c == Fold(g, s)
<1>1. g \in Hand /\ s \in Seats /\ Books(g) /\ Cardinality(Live(g)) >= 2
  BY LiveFacts DEF Good
<1>2. /\ c \in Hand /\ SameTable(c, g) /\ Books(c)
      /\ Live(c) = Live(g) \ {s} /\ Trace(c, g)
  BY <1>1, FoldFacts, FoldTrace
<1> HIDE DEF c
<1>3. Live(c) # {}
  BY <1>1, <1>2, OneLeft
<1>4. AfterForfeit(c, s) \in
        {FinishUncontested(c), c, EndStreet(c)}
          \cup (IF c.phase = "betting" THEN {Settle(c, s + 1)} ELSE {})
  BY <1>2 DEF AfterForfeit, SameTable
<1>5. Keeps(FinishUncontested(c), c)
  BY <1>2, <1>3, FinishUncontestedPays DEF Keeps
<1>6. Keeps(EndStreet(c), c)
  BY <1>2, <1>3, EndStreetKeeps
<1>7. c.phase = "betting" => Keeps(Settle(c, s + 1), c)
  BY <1>2, <1>3, SettleKeeps
<1>8. Keeps(c, c)
  BY <1>2, OpenAccount DEF SameTable
<1>9. Keeps(AfterForfeit(c, s), c)
  BY <1>4, <1>5, <1>6, <1>7, <1>8
<1>10. Keeps(AfterForfeit(c, s), g)
  BY <1>2, <1>9, KeepsJoins
<1> QED BY <1>10 DEF c

\* A new betting round moves no chips.
LEMMA NewRoundTrace ==
  ASSUME NEW g \in Hand
  PROVE  Trace(NewRound(g), g)
<1> DEFINE Fresh(p) == [p EXCEPT !.hasActed = FALSE, !.actedAtFullLevel = 0]
<1>1. \A s \in Seats : NewRound(g).pl[s] = Fresh(g.pl[s])
  BY DEF NewRound, Hand
<1>2. \A p \in Player : /\ Fresh(p).startStack = p.startStack
                        /\ Fresh(p).folded = p.folded
  BY DEF Player
<1> HIDE DEF Fresh
<1>3. \A s \in Seats : g.pl[s] \in Player
  BY HandFields
<1> QED BY <1>1, <1>2, <1>3 DEF Trace

\* One step per action of Next.
LEMMA NextKeeps == IInv /\ Accounted(h) /\ Next => Keeps(h', h)
<1> SUFFICES ASSUME IInv, Accounted(h), Next PROVE Keeps(h', h)
  OBVIOUS
<1>1. cfg \in Configs /\ cfg \in HandConfig /\ Good(h) /\ h \in Hand
  BY IInvGivesGood DEF Good
<1>2. ASSUME NEW s \in Seats, NEW a \in Actions, Apply(s, a) PROVE Keeps(h', h)
  <2> DEFINE c == Perform(h, s, Resolve(h, s, a))
             d == Acted(c, s)
  <2>1. /\ h.phase = "betting" /\ Legal(h, s, Resolve(h, s, a))
        /\ h' = Settle(d, s + 1)
    BY <1>2 DEF Apply, OnTurn
  <2>2. Books(h) /\ Price(h) /\ Cardinality(Live(h)) >= 2
    BY <1>1, <2>1 DEF Good
  <2>3. /\ Acting(c) /\ Live(h) \ {s} \subseteq Live(c) /\ Trace(c, h)
    BY <1>1, <2>1, <2>2, PerformFacts, PerformTrace
  <2> HIDE DEF c
  <2>4. /\ d \in Hand /\ SameHand(d, c) /\ Books(d) /\ Trace(d, c)
    BY <2>3, ActedFacts, ActedTrace DEF Acting
  <2> HIDE DEF d
  <2>5. d.phase = "betting" /\ Live(d) = Live(c)
    BY <2>3, <2>4, SameLive DEF SameHand, Acting
  <2>6. Live(d) # {}
    BY <2>2, <2>3, <2>5, OneLeft
  <2>7. Keeps(Settle(d, s + 1), d)
    BY <1>1, <2>4, <2>5, <2>6, SettleKeeps
  <2>8. Trace(d, h)
    BY <2>3, <2>4, TraceJoins
  <2> QED BY <2>1, <2>7, <2>8, KeepsJoins
<1>3. ASSUME NEW s \in Seats, Timeout(s) PROVE Keeps(h', h)
  <2> DEFINE c == IF h.pl[s].bet = h.currentBet THEN h ELSE Fold(h, s)
             d == Acted(c, s)
  <2>1. h.phase = "betting" /\ h' = Settle(d, s + 1)
    BY <1>3 DEF Timeout, OnTurn
  <2>2. Books(h) /\ Price(h) /\ Cardinality(Live(h)) >= 2
    BY <1>1, <2>1 DEF Good
  <2>3. Acting(h) /\ Acting(Fold(h, s)) /\ Live(Fold(h, s)) = Live(h) \ {s}
    BY <1>1, <2>1, <2>2, FoldFacts DEF Acting, SameTable
  <2>4. Trace(h, h) /\ Trace(Fold(h, s), h)
    BY <1>1, FoldTrace DEF Trace
  <2>5. Acting(c) /\ Live(h) \ {s} \subseteq Live(c) /\ Trace(c, h)
    BY <2>3, <2>4
  <2> HIDE DEF c
  <2>6. /\ d \in Hand /\ SameHand(d, c) /\ Books(d) /\ Trace(d, c)
    BY <2>5, ActedFacts, ActedTrace DEF Acting
  <2> HIDE DEF d
  <2>7. d.phase = "betting" /\ Live(d) = Live(c)
    BY <2>5, <2>6, SameLive DEF SameHand, Acting
  <2>8. Live(d) # {}
    BY <2>2, <2>5, <2>7, OneLeft
  <2>9. Keeps(Settle(d, s + 1), d)
    BY <1>1, <2>6, <2>7, <2>8, SettleKeeps
  <2>10. Trace(d, h)
    BY <2>5, <2>6, TraceJoins
  <2> QED BY <2>1, <2>9, <2>10, KeepsJoins
<1>4. ASSUME NEW s \in Seats, Forfeit(s) PROVE Keeps(h', h)
  <2>1. /\ s \in Live(h) /\ h.phase \in {"betting", "deal_pending"}
        /\ h' = AfterForfeit(Fold(h, s), s)
    BY <1>4 DEF Forfeit
  <2> QED BY <1>1, <2>1, AfterForfeitKeeps
<1>5. ASSUME NEW s1 \in DealtStrengths(1), NEW s2 \in DealtStrengths(2),
             Advance(s1, s2)
      PROVE  Keeps(h', h)
  <2> DEFINE d == Dealing(h, s1, s2)
             n == NewRound(d)
  <2>1. /\ h.phase = "deal_pending"
        /\ h' = IF ~h.runout THEN Settle(n, NextSeat(cfg.button))
                ELSE IF d.street = River THEN Showdown(d)
                ELSE d
    BY <1>5 DEF Advance
  <2>2. /\ Books(h) /\ Live(h) # {} /\ NothingInFront(h) /\ h.street < River
    <3>1. Books(h) /\ Cardinality(Live(h)) >= 2 /\ NothingInFront(h) /\ h.street < River
      BY <1>1, <2>1 DEF Good
    <3> QED BY <3>1, OneLeft
  <2>3. d \in Hand /\ d.pl = h.pl /\ d.phase = "deal_pending"
    BY <1>1, <2>1, <2>2, DealtStrengthsType, DealingFacts
  <2> HIDE DEF d
  <2>4. Books(d) /\ NothingInFront(d) /\ Live(d) = Live(h) /\ Trace(d, h)
    BY <2>2, <2>3, SameLive DEF Books, NothingInFront, Trace
  <2>5. CASE ~h.runout
    <3>1. /\ n \in Hand /\ Books(n) /\ n.phase = "betting" /\ Live(n) = Live(d)
          /\ Trace(n, d)
      BY <1>1, <2>3, <2>4, NewRoundFacts, NewRoundTrace
    <3> HIDE DEF n
    <3>2. Keeps(Settle(n, NextSeat(cfg.button)), n)
      BY <1>1, <2>2, <2>4, <3>1, SettleKeeps
    <3>3. Trace(n, h)
      BY <2>4, <3>1, TraceJoins
    <3> QED BY <2>1, <2>5, <3>2, <3>3, KeepsJoins
  <2>6. CASE h.runout /\ d.street = River
    <3>1. Keeps(Showdown(d), d)
      BY <1>1, <2>2, <2>3, <2>4, ShowdownKeeps
    <3> QED BY <2>1, <2>4, <2>6, <3>1, KeepsJoins
  <2>7. CASE h.runout /\ d.street # River
    BY <2>1, <2>3, <2>7, OpenAccount
  <2> QED BY <2>5, <2>6, <2>7
<1>6. ASSUME RunItTwice PROVE Keeps(h', h)
  <2> DEFINE c == [h EXCEPT !.runTwice = TRUE]
  <2>1. h.phase = "deal_pending" /\ h' = c
    BY <1>6 DEF RunItTwice, CanRunItTwice
  <2>2. c.pl = h.pl /\ c.phase = h.phase
    BY <1>1 DEF Hand
  <2> HIDE DEF c
  <2> QED BY <2>1, <2>2, OpenAccount
<1>7. ASSUME RevealNext PROVE Keeps(h', h)
  <2> DEFINE s == OnShow(h)
             q == h.pl[s]
             p == IF q.revealed THEN q
                  ELSE IF MustShow(h, s) THEN Faced(q)
                  ELSE [q EXCEPT !.mucked = TRUE]
             r == [h EXCEPT !.showIdx = h.showIdx + 1, !.pl[s] = p]
  <2>1. /\ h.phase = "showdown"
        /\ h' = IF r.showIdx >= Cardinality(Live(r)) THEN AwardPots(r) ELSE r
    BY <1>7 DEF RevealNext
  <2>2. s \in Seats => /\ p \in Player
                       /\ q \in Sound => p \in Sound
                       /\ p.folded = q.folded /\ p.bet = q.bet
                       /\ p.startStack = q.startStack
    <3>1. \A x \in Player :
            LET m == [x EXCEPT !.mucked = TRUE]
            IN  /\ m \in Player /\ (x \in Sound => m \in Sound)
                /\ m.folded = x.folded /\ m.bet = x.bet
                /\ m.startStack = x.startStack
      BY DEF Player, Sound
    <3>2. s \in Seats => q \in Player
      BY <1>1, HandFields
    <3> HIDE DEF s, q
    <3> QED BY <3>1, <3>2, FacedSound, PlayerTraces
  <2> HIDE DEF p, s
  <2>3. /\ r \in Hand /\ r.phase = h.phase /\ r.toAct = h.toAct
        /\ Books(h) => Books(r)
        /\ NothingInFront(h) => NothingInFront(r)
        /\ Live(r) = Live(h)
    BY <1>1, <2>2, RevealStepFacts
  <2>4. Trace(r, h)
    <3>1. \A t \in Seats : r.pl[t] = IF t = s THEN p ELSE h.pl[t]
      BY <1>1 DEF Hand
    <3> HIDE DEF r
    <3> QED BY <2>2, <3>1 DEF Trace
  <2> HIDE DEF r
  <2>5. Books(h) /\ NothingInFront(h) /\ Live(h) # {}
    <3>1. Books(h) /\ Cardinality(Live(h)) >= 2 /\ NothingInFront(h)
      BY <1>1, <2>1 DEF Good
    <3> QED BY <3>1, OneLeft
  <2>6. Keeps(AwardPots(r), r)
    BY <1>1, <2>3, <2>5, AwardPotsPays DEF Keeps
  <2>7. Keeps(AwardPots(r), h)
    BY <2>4, <2>6, KeepsJoins
  <2>8. Keeps(r, h)
    BY <2>1, <2>3, <2>4 DEF Keeps, Accounted
  <2> QED BY <2>1, <2>7, <2>8
<1>8. ASSUME NEW s \in Seats, NEW cards \in SUBSET {1, 2}, ShowCards(s, cards)
      PROVE  Keeps(h', h)
  <2> DEFINE q == h.pl[s]
             p == Exposed(q, cards)
             c == [h EXCEPT !.pl[s] = p]
  <2>1. h.phase = "result" /\ h' = c
    BY <1>8 DEF ShowCards
  <2>2. q \in Player
    BY <1>1, HandFields
  <2>3. /\ p.stack = q.stack /\ p.startStack = q.startStack /\ p.won = q.won
        /\ p.bet = q.bet /\ p.committed = q.committed /\ p.folded = q.folded
    BY <2>2 DEF Exposed, Player
  <2>4. /\ \A t \in Seats : c.pl[t] = IF t = s THEN p ELSE h.pl[t]
        /\ c.phase = h.phase /\ c.finalPots = h.finalPots
    BY <1>1 DEF Hand
  <2> HIDE DEF c, p
  <2>5. \A t \in Seats :
          /\ c.pl[t].stack = h.pl[t].stack /\ c.pl[t].startStack = h.pl[t].startStack
          /\ c.pl[t].won = h.pl[t].won /\ c.pl[t].bet = h.pl[t].bet
          /\ c.pl[t].committed = h.pl[t].committed
          /\ c.pl[t].folded = h.pl[t].folded
    BY <2>3, <2>4
  <2>6. /\ Total(Stacks(c)) = Total(Stacks(h)) /\ Total(Starts(c)) = Total(Starts(h))
        /\ Total(Wins(c)) = Total(Wins(h)) /\ Live(c) = Live(h)
    <3>1. Total(Stacks(c)) = Total(Stacks(h))
      BY <2>5, TotalOfSame DEF Stacks
    <3>2. Total(Starts(c)) = Total(Starts(h))
      BY <2>5, TotalOfSame DEF Starts
    <3>3. Total(Wins(c)) = Total(Wins(h))
      BY <2>5, TotalOfSame DEF Wins
    <3> QED BY <2>5, <3>1, <3>2, <3>3, SameLive
  <2>7. Accounted(c)
    BY <2>1, <2>4, <2>5, <2>6 DEF Accounted
  <2>8. Trace(c, h)
    BY <2>5 DEF Trace
  <2> QED BY <2>1, <2>7, <2>8 DEF Keeps
<1>9. ASSUME Over PROVE Keeps(h', h)
  BY <1>9 DEF Over, vars, Keeps, Trace
<1> QED BY <1>2, <1>3, <1>4, <1>5, <1>6, <1>7, <1>8, <1>9 DEF Next

-----------------------------------------------------------------------------
(* Chips are conserved *)

AccountInv == IInv /\ Accounted(h)

\* AccountInv holds in every state of every hand.
LEMMA AccountInvHolds == Spec => []AccountInv
<1>1. Init => AccountInv
  <2> SUFFICES ASSUME Init PROVE AccountInv
    OBVIOUS
  <2>1. PICK stacks \in [Seats -> StartStacks] : h = NewHand(stacks)
    BY DEF Init
  <2>2. cfg \in Configs
    BY DEF Init
  <2>3. Accounted(h)
    BY <2>1, <2>2, NewHandKeeps
  <2> QED BY <2>3, InitEstablishes DEF AccountInv
<1>2. AccountInv /\ [Next]_vars => AccountInv'
  <2> SUFFICES ASSUME AccountInv, [Next]_vars PROVE AccountInv'
    OBVIOUS
  <2>1. IInv'
    BY NextPreserves DEF AccountInv
  <2>2. CASE Next
    <3>1. Accounted(h')
      BY <2>2, NextKeeps DEF AccountInv, Keeps
    <3> QED BY <2>1, <3>1 DEF AccountInv
  <2>3. CASE UNCHANGED vars
    <3>1. Accounted(h')
      BY <2>3 DEF AccountInv, vars
    <3> QED BY <2>1, <3>1 DEF AccountInv
  <2> QED BY <2>2, <2>3
<1> QED BY <1>1, <1>2, PTL DEF Spec

\* A live set that is not empty, whatever the phase.
LEMMA SomebodyLive == AccountInv => h \in Hand /\ Live(h) # {}
<1> SUFFICES ASSUME AccountInv PROVE h \in Hand /\ Live(h) # {}
  OBVIOUS
<1>1. Good(h)
  BY IInvGivesGood DEF AccountInv
<1>2. CASE h.phase = "result"
  BY <1>1, <1>2 DEF AccountInv, Accounted, Good
<1>3. CASE h.phase # "result"
  BY <1>1, <1>3, OneLeft DEF Good
<1> QED BY <1>2, <1>3

\* What a seat has, in front of it or behind, adds up to what all came with.
LEMMA AccountAddsUp == AccountInv => EveryChipCounts
<1> SUFFICES ASSUME AccountInv PROVE EveryChipCounts
  OBVIOUS
<1>1. h \in Hand /\ Live(h) # {}
  BY SomebodyLive
<1> DEFINE all == [s \in Seats |-> h.pl[s].stack + h.pl[s].bet + h.pl[s].committed]
<1>2. \A s \in Seats : h.pl[s].stack \in Nat
  BY <1>1, HandFields DEF Player
<1>3. CASE h.phase = "result"
  <2>1. \A s \in Seats : all[s] = Stacks(h)[s]
    BY <1>2, <1>3 DEF AccountInv, Accounted, Stacks
  <2>2. Total(all) = Total(Stacks(h))
    <3>1. DOMAIN all = DOMAIN Stacks(h) /\ DOMAIN all = Seats
      BY DEF Stacks
    <3> HIDE DEF all
    <3> QED BY <2>1, <3>1, TotalOfSame
  <2>3. ChipConservation
    BY <1>3, <2>2 DEF ChipConservation, AccountInv, Accounted, Starts, Wins
  <2>4. PotsWellFormed
    BY <1>3 DEF PotsWellFormed
  <2> QED BY <2>3, <2>4 DEF EveryChipCounts
<1>4. CASE h.phase # "result"
  <2>1. \A s \in Seats : all[s] = Starts(h)[s]
    BY <1>4 DEF AccountInv, IInv, OwnChips, Starts
  <2>2. Total(all) = Total(Starts(h))
    <3>1. DOMAIN all = DOMAIN Starts(h) /\ DOMAIN all = Seats
      BY DEF Starts
    <3> HIDE DEF all
    <3> QED BY <2>1, <3>1, TotalOfSame
  <2>3. ChipConservation
    BY <1>4, <2>2 DEF ChipConservation, Starts
  <2>4. PotsWellFormed
    <3>1. /\ FullPots(Contributions(h), PotsOf(h))
          /\ LiveIn(Contributions(h)) = Live(h)
      BY <1>1, PotsOfHoldAll
    <3> QED BY <1>1, <3>1 DEF PotsWellFormed, FullPots
  <2> QED BY <2>3, <2>4 DEF EveryChipCounts
<1> QED BY <1>3, <1>4

(***************************************************************************)
(* Every chip is in one place: whatever is bet, folded, returned, split,   *)
(* dealt twice or awarded with odd chips, stacks, bets and pots add up to  *)
(* what the seats came with, every pot has a contender, and the prizes add *)
(* up to the pots.                                                         *)
(***************************************************************************)
THEOREM ChipsAreConserved == Spec => []EveryChipCounts
BY AccountInvHolds, AccountAddsUp, PTL

-----------------------------------------------------------------------------
(* The hand implements the ledger *)

PaidIn(g) == [s \in Seats |-> g.pl[s].bet + g.pl[s].committed]

(* The ledger counts its chips as the proofs do.                           *)
LEMMA LedgerTotal == ASSUME NEW f PROVE Ledger!Total(f) = Total(f)
<1>1. Ledger!Chips(f) = Chips(f)
  BY DEF Ledger!Chips, Chips
<1>2. Ledger!Cardinality(Chips(f)) = Cardinality(Chips(f))
  BY DEF Ledger!Cardinality, Cardinality
<1> QED BY <1>1, <1>2 DEF Ledger!Total, Total

\* The first state of a hand is a first state of the ledger.
LEMMA LedgerStart == Init => Ledger!LedgerInit
<1> SUFFICES ASSUME Init PROVE Ledger!LedgerInit
  OBVIOUS
<1>1. PICK stacks \in [Seats -> StartStacks] : h = NewHand(stacks)
  BY DEF Init
<1>2. cfg \in Configs
  BY DEF Init
<1>3. Good(h) /\ h.phase # "result" /\ Live(h) = Seats
  BY <1>1, <1>2, NewHandGood, NewHandKeeps
<1>4. \A s \in Seats : h.pl[s].stack \in Nat /\ h.pl[s].bet + h.pl[s].committed \in Nat
  BY <1>3, HandFields DEF Player, Good
<1> QED BY <1>3, <1>4 DEF Ledger!LedgerInit

\* Every step of the engine is a step of the ledger or leaves it alone.
LEMMA LedgerStep ==
  AccountInv /\ AccountInv' /\ [Next]_vars
    => [Ledger!Play \/ Ledger!Award]_(Ledger!ledger)
<1> SUFFICES ASSUME AccountInv, AccountInv', [Next]_vars
             PROVE  [Ledger!Play \/ Ledger!Award]_(Ledger!ledger)
  OBVIOUS
<1>1. h \in Hand /\ Live(h) # {} /\ h' \in Hand /\ Live(h') # {}
  <2>1. h \in Hand /\ Live(h) # {}
    BY SomebodyLive
  <2>2. (h \in Hand /\ Live(h) # {})'
    BY SomebodyLive, PTL
  <2> QED BY <2>1, <2>2
<1>2. CASE UNCHANGED vars
  BY <1>2 DEF vars, Ledger!ledger, Live
<1>3. CASE Next
  <2>1. Keeps(h', h)
    BY <1>3, NextKeeps DEF AccountInv
  <2>2. Live(h') \subseteq Live(h)
    BY <1>1, <2>1, TraceLive DEF Keeps
  <2>3. \A s \in Seats : /\ h.pl[s].stack \in Nat /\ h.pl[s].bet \in Nat
                         /\ h.pl[s].committed \in Nat /\ h.pl[s].startStack \in Nat
                         /\ h'.pl[s].stack \in Nat /\ h'.pl[s].bet \in Nat
                         /\ h'.pl[s].committed \in Nat
                         /\ h'.pl[s].startStack = h.pl[s].startStack
    BY <1>1, <2>1, HandFields DEF Player, Keeps, Trace
  <2>4. CASE h.phase = "result"
    <3>1. Over \/ \E s \in Seats, cards \in SUBSET {1, 2} : ShowCards(s, cards)
      BY <1>3, <2>4 DEF Next, Apply, Timeout, OnTurn, Forfeit, Advance,
                        RunItTwice, CanRunItTwice, RevealNext
    <3>2. ASSUME NEW s \in Seats, NEW cards \in SUBSET {1, 2}, ShowCards(s, cards)
          PROVE  UNCHANGED Ledger!ledger
      <4> DEFINE p == Exposed(h.pl[s], cards)
                 c == [h EXCEPT !.pl[s] = p]
      <4>1. h' = c
        BY <3>2 DEF ShowCards
      <4>2. h.pl[s] \in Player
        BY <1>1, HandFields
      <4>3. /\ p.stack = h.pl[s].stack /\ p.bet = h.pl[s].bet
            /\ p.committed = h.pl[s].committed /\ p.folded = h.pl[s].folded
        BY <4>2 DEF Exposed, Player
      <4>4. c.phase = h.phase /\ \A t \in Seats : c.pl[t] = IF t = s THEN p ELSE h.pl[t]
        BY <1>1 DEF Hand
      <4> HIDE DEF c, p
      <4>5. \A t \in Seats : /\ h'.pl[t].stack = h.pl[t].stack
                             /\ h'.pl[t].bet = h.pl[t].bet
                             /\ h'.pl[t].committed = h.pl[t].committed
                             /\ h'.pl[t].folded = h.pl[t].folded
        BY <4>1, <4>3, <4>4
      <4>6. Live(h') = Live(h)
        BY <4>5, SameLive
      <4>7. h'.phase = h.phase
        BY <4>1, <4>4
      <4> QED BY <4>5, <4>6, <4>7 DEF Ledger!ledger
    <3>3. CASE Over
      BY <1>2, <3>3 DEF Over
    <3> QED BY <3>1, <3>2, <3>3
  <2>5. CASE h.phase # "result" /\ h'.phase # "result"
    <3>1. \A s \in Seats :
            /\ h.pl[s].stack + h.pl[s].bet + h.pl[s].committed = h.pl[s].startStack
            /\ h'.pl[s].stack + h'.pl[s].bet + h'.pl[s].committed
                 = h'.pl[s].startStack
      BY <2>5 DEF AccountInv, IInv, OwnChips
    <3>2. \A s \in Seats :
            h'.pl[s].stack + (h'.pl[s].bet + h'.pl[s].committed)
              = h.pl[s].stack + (h.pl[s].bet + h.pl[s].committed)
      BY <2>3, <3>1
    <3>3. Ledger!Play
      BY <1>1, <2>2, <2>5, <3>2 DEF Ledger!Play
    <3> QED BY <3>3
  <2>6. CASE h.phase # "result" /\ h'.phase = "result"
    <3>1. Accounted(h')
      BY <2>1 DEF Keeps
    <3>2. \A s \in Seats :
            h.pl[s].stack + h.pl[s].bet + h.pl[s].committed = h.pl[s].startStack
      BY <2>6 DEF AccountInv, IInv, OwnChips
    <3>3. \A s \in Seats : h'.pl[s].bet + h'.pl[s].committed = 0
      BY <2>6, <3>1 DEF Accounted
    <3>4. Total(Stacks(h')) = Total(Starts(h))
      <4>1. Total(Starts(h')) = Total(Starts(h))
        BY <2>3, TotalOfSame DEF Starts
      <4> QED BY <2>6, <3>1, <4>1 DEF Accounted
    <3>5. Total(Starts(h)) = Total(Stacks(h)) + Total(PaidIn(h))
      <4>1. /\ IsAmounts(Stacks(h), Seats) /\ IsAmounts(Starts(h), Seats)
            /\ IsAmounts(PaidIn(h), Seats)
        BY <1>1, AmountsOfHand DEF PaidIn
      <4>2. \A s \in Seats : Starts(h)[s] = Stacks(h)[s] + PaidIn(h)[s]
        BY <2>3, <3>2 DEF Starts, Stacks, PaidIn
      <4> QED BY <4>1, <4>2, TotalAdds
    <3>6. \A s \in Seats \ Live(h') :
            h'.pl[s].stack <= h.pl[s].stack + (h.pl[s].bet + h.pl[s].committed)
      BY <2>3, <2>6, <3>1, <3>2 DEF Accounted
    <3>7. Total(Stacks(h')) = Total(Stacks(h)) + Total(PaidIn(h))
      BY <3>4, <3>5
    <3>8. Ledger!Award
      BY <1>1, <2>2, <2>6, <3>3, <3>6, <3>7, LedgerTotal
         DEF Ledger!Award, Stacks, PaidIn
    <3> QED BY <3>8
  <2> QED BY <2>4, <2>5, <2>6
<1> QED BY <1>2, <1>3

(***************************************************************************)
(* The engine keeps the chip ledger: a step moves chips between a seat and *)
(* its own part of the pots only, or pays out all that was paid in, to     *)
(* seats still in the hand.                                                *)
(***************************************************************************)
THEOREM LedgerIsKept == Spec => KeepsTheLedger
<1>1. []AccountInv /\ [][Next]_vars => [][Ledger!Play \/ Ledger!Award]_(Ledger!ledger)
  BY LedgerStep, PTL
<1> QED BY <1>1, AccountInvHolds, LedgerStart, PTL
        DEF Spec, KeepsTheLedger, Ledger!LedgerSpec
=============================================================================
