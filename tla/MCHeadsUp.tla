------------------------------ MODULE MCHeadsUp ------------------------------
(* Heads-up hands with the cards of a small deck.                              *)
EXTENDS CardHand, MCPokerHand

\* Two to Six and the Ace in two suits, the Fours and the Aces in four.
SmallDeck ==
  {MakeCard(r, s) : r \in {0, 1, 2, 3, 4, 12}, s \in {0, 1}}
  \cup {MakeCard(r, s) : r \in {2, 12}, s \in {2, 3}}

\* Wheels, full houses, quads, flushes, a straight against two pair, split pots.
SomeDeals ==
  {[hole |-> (0 :> <<48, 5>> @@ 1 :> <<9, 13>>), rest |-> <<0, 8, 12, 1, 10, 4, 16, 50, 11>>],
   [hole |-> (0 :> <<4, 49>> @@ 1 :> <<9, 8>>), rest |-> <<0, 10, 12, 16, 48, 17, 5, 50, 11>>],
   [hole |-> (0 :> <<0, 5>> @@ 1 :> <<1, 4>>), rest |-> <<48, 49, 8, 9, 16, 10, 17, 13, 50>>]}

\* The values of all hands, for both seats.
CardRanks == {0} \cup {Evaluate5(five) : five \in Fives(SmallDeck)}
CardStrengths == [Seats -> CardRanks]
=============================================================================
