------------------------------- MODULE Pots -------------------------------
(***************************************************************************)
(* Main and side pots (src/backend/internal/poker/pots.go, buildPots).     *)
(*                                                                         *)
(* A contribution table P maps every seat dealt into the hand to a record  *)
(* [total, folded, allIn].  The pots are a function from contribution      *)
(* levels to [amount, eligible]; the code's list is this function in the   *)
(* order of its domain.  The pot of level 0 is the dead-money pot that is  *)
(* built when nobody still in the hand contributed anything.               *)
(***************************************************************************)
EXTENDS Integers, FiniteSets, FiniteSetsExt

Min2(a, b) == IF a <= b THEN a ELSE b

(***************************************************************************)
(* The sum of a function to Nat, as the number of its chips: the chips of  *)
(* s are <<s, 1>>, <<s, 2>>, ... <<s, f[s]>>.                              *)
(***************************************************************************)
Chips(f) == UNION {{s} \X (1 .. f[s]) : s \in DOMAIN f}
Total(f) == Cardinality(Chips(f))

LiveIn(P) == {s \in DOMAIN P : ~P[s].folded}

Contributed(P) == Total([s \in DOMAIN P |-> P[s].total])

MaxLive(P) == Max({0} \cup {P[s].total : s \in LiveIn(P)})

\* Mutant: no side pots.
LevelsMainOnly(P) == {MaxLive(P)}

\* All-in totals of the players still in the hand, then the largest live one.
Levels(P) ==
  {P[s].total : s \in {t \in LiveIn(P) : P[t].allIn /\ P[t].total > 0}}
    \cup {MaxLive(P)}

Below(P, level) == Max({0} \cup {l \in Levels(P) : l < level})

Slice(P, level) ==
  Total([s \in DOMAIN P |->
           Min2(P[s].total, level) - Min2(P[s].total, Below(P, level))])

\* Mutant: matching the level is not enough.
EligibleAbove(P, level) == {s \in LiveIn(P) : P[s].total > level}
EligibleAt(P, level) == {s \in LiveIn(P) : P[s].total >= level}

AmountsOf(pots) == [l \in DOMAIN pots |-> pots[l].amount]

Sliced(P) ==
  [l \in {k \in Levels(P) : Slice(P, k) > 0} |->
     [amount |-> Slice(P, l), eligible |-> EligibleAt(P, l)]]

\* Mutant: dead money is forgotten.
BuildPotsWithoutRest(P) == Sliced(P)

\* Chips nobody left in the hand could match go to the last pot.
BuildPots(P) ==
  LET sliced == Sliced(P)
      rest   == Contributed(P) - Total(AmountsOf(sliced))
  IN  IF rest = 0 THEN sliced
      ELSE IF DOMAIN sliced = {}
           THEN [l \in {0} |-> [amount |-> rest, eligible |-> LiveIn(P)]]
           ELSE [sliced EXCEPT ![Max(DOMAIN sliced)].amount = @ + rest]
=============================================================================
