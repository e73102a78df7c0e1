-------------------------------- MODULE Cards --------------------------------
(* Cards, the value of a hand of five to seven of them (poker/card.go and      *)
(* eval.go) and what a hand is worth against others before the board is        *)
(* complete (equity.go).                                                       *)
(*                                                                             *)
(* A card is a number, as in the code.  Five cards are a set: evaluate5 sorts  *)
(* them first.  Names and words for hands are left out.                        *)
EXTENDS Integers, Sequences, FiniteSets, FiniteSetsExt, SequencesExt

CONSTANT Deck      \* the cards of the variant that is played

ASSUME DeckAssumption == Deck \subseteq 0 .. 51

Two  == 0
Five == 3
Ace  == 12
Rank(c) == c \div 4
Suit(c) == c % 4
MakeCard(r, s) == r * 4 + s
RanksOf(cards) == {Rank(c) : c \in cards}
Ranked(cards, r) == {c \in cards : Rank(c) = r}
Suited(cards, s) == {c \in cards : Suit(c) = s}

LowestRank(variant) == IF variant = "royal" THEN 8 ELSE Two
VariantDeck(variant) == {c \in 0 .. 51 : Rank(c) >= LowestRank(variant)}

-------------------------------------------------------------------------------
(* The value of five cards.                                                    *)

(* Categories, weakest first.                                                  *)
HighCard      == 0
OnePair       == 1
TwoPair       == 2
ThreeOfAKind  == 3
Straight      == 4
Flush         == 5
FullHouse     == 6
FourOfAKind   == 7
StraightFlush == 8

(* Category and tie-breaks in one number, four bits each.                      *)
Encode(category, ranks) ==
    FoldLeft(LAMBDA n, i : n * 16 + (IF i <= Len(ranks) THEN ranks[i] ELSE 0), category, <<1, 2, 3, 4, 5>>)

\* Mutant: the ace counts high only.
StraightTopHigh(ranks) ==
    IF Cardinality(ranks) = 5 /\ Max(ranks) - Min(ranks) = 4 THEN Max(ranks) ELSE -1

(* -1 when five cards of these ranks are no straight.                          *)
StraightTop(ranks) ==
    IF Cardinality(ranks) # 5 THEN -1
    ELSE IF Max(ranks) - Min(ranks) = 4 THEN Max(ranks)
    ELSE IF Max(ranks) = Ace /\ Min(ranks) = Two /\ Max(ranks \ {Ace}) = Five THEN Five
    ELSE -1

(* Ranks by how often they occur, then by height.                              *)
Groups(five) ==
    LET many(r) == Cardinality(Ranked(five, r))
    IN  SetToSortSeq(RanksOf(five), LAMBDA q, r : many(q) > many(r) \/ (many(q) = many(r) /\ q > r))

Evaluate5(five) ==
    LET groups == Groups(five)
        many   == [i \in DOMAIN groups |-> Cardinality(Ranked(five, groups[i]))]
        flush  == \E s \in 0 .. 3 : Suited(five, s) = five
        top    == StraightTop(RanksOf(five))
        value(category, n) == Encode(category, SubSeq(groups, 1, n))
    IN  IF top >= 0 /\ flush THEN Encode(StraightFlush, <<top>>)
        ELSE IF many[1] = 4 THEN value(FourOfAKind, 2)
        ELSE IF many[1] = 3 /\ many[2] = 2 THEN value(FullHouse, 2)
        ELSE IF flush THEN value(Flush, 5)
        ELSE IF top >= 0 THEN Encode(Straight, <<top>>)
        ELSE IF many[1] = 3 THEN value(ThreeOfAKind, 3)
        ELSE IF many[1] = 2 /\ many[2] = 2 THEN value(TwoPair, 3)
        ELSE IF many[1] = 2 THEN value(OnePair, 4)
        ELSE value(HighCard, 5)

Category(value) == value \div 16 ^ 5

Fives(cards) == kSubset(5, cards)

(* Every five cards of the deck; @@ makes TLC keep the function as a table.    *)
Evaluated == [five \in Fives(Deck) |-> Evaluate5(five)] @@ <<>>

(* Evaluate: the best five of five, six or seven.                              *)
Evaluate(cards) == Max({Evaluated[five] : five \in Fives(cards)})

(* The hole cards in the best five: of equal hands the first found is kept,    *)
(* which leaves out the cards that come first.                                 *)
HoleInBest(hole, board) ==
    LET cards   == {hole[1], hole[2]} \cup board
        kept    == <<{}, {hole[2]}, {hole[1]}, {hole[1], hole[2]}>>
        found(i) == \E five \in Fives(cards) :
                       five \cap {hole[1], hole[2]} = kept[i] /\ Evaluated[five] = Evaluate(cards)
    IN  kept[CHOOSE i \in 1 .. 4 : found(i) /\ \A j \in 1 .. i - 1 : ~found(j)]

-------------------------------------------------------------------------------
(* Shares of the pot.  A share is counted in twelfths of one run of the board, *)
(* which two, three and four winners divide.                                   *)
Point == 12

(* score: everybody with the best hand on a full board.                        *)
BestHands(board, hands) ==
    LET value == [i \in DOMAIN hands |-> Evaluate(hands[i] \cup board)]
    IN  {i \in DOMAIN hands : \A j \in DOMAIN hands : value[j] <= value[i]}

\* Mutant: the cards the others hold may still come.
RestBoardOnly(board, hands) == Deck \ board

Rest(board, hands) == Deck \ (board \cup UNION {hands[i] : i \in DOMAIN hands})

(* Every completion is played out (two cards or fewer to come).                *)
Completions(board, hands) == {board \cup more : more \in kSubset(5 - Cardinality(board), Rest(board, hands))}

Equity(board, hands) ==
    LET all == Completions(board, hands)
        won == [b \in all |-> BestHands(b, hands)]
    IN  [i \in DOMAIN hands |->
            [points |-> MapThenSumSet(LAMBDA b : Point \div Cardinality(won[b]), {b \in all : i \in won[b]}),
             total  |-> Point * Cardinality(all)]]

-------------------------------------------------------------------------------
(* The rules of the game, as a reference: two hands differ by what they are    *)
(* made of.                                                                    *)

Shape(five) == [flush |-> \E s \in 0 .. 3 : five \subseteq Suited(Deck, s),
                many |-> [r \in 0 .. 12 |-> Cardinality(Ranked(five, r))]]

Of(shape, n) == {r \in 0 .. 12 : shape.many[r] = n}

(* The top of a straight: five ranks in a row, or the wheel.                   *)
Runs(shape) == {top \in 4 .. 12 : Of(shape, 1) = top - 4 .. top} \cup (IF Of(shape, 1) = {12, 0, 1, 2, 3} THEN {3} ELSE {})

Class(shape) ==
    CASE shape.flush /\ Runs(shape) # {}                -> 8
      [] Of(shape, 4) # {}                              -> 7
      [] Of(shape, 3) # {} /\ Of(shape, 2) # {}         -> 6
      [] shape.flush /\ Runs(shape) = {}                -> 5
      [] Runs(shape) # {} /\ ~shape.flush               -> 4
      [] Of(shape, 3) # {} /\ Of(shape, 2) = {}         -> 3
      [] Cardinality(Of(shape, 2)) = 2                  -> 2
      [] Cardinality(Of(shape, 2)) = 1 /\ Of(shape, 3) = {} -> 1
      [] OTHER                                          -> 0

(* Two sets of ranks differ at their highest difference.                       *)
Higher(a, b) == a # b /\ Max((a \ b) \cup (b \ a)) \in a

(* A higher class wins, then the higher straight, then the higher ranks of     *)
(* those held four, three, two times and once.                                 *)
Beats(a, b) ==
    IF Class(a) # Class(b) THEN Class(a) > Class(b)
    ELSE IF Runs(a) # {} THEN Max(Runs(a)) > Max(Runs(b))
    ELSE \E n \in 1 .. 4 : Higher(Of(a, n), Of(b, n)) /\ \A m \in n + 1 .. 4 : Of(a, m) = Of(b, m)

(* The hand with cards a is worth more than the one with cards b.              *)
Stronger(a, b) ==
    LET against == {Shape(five) : five \in Fives(b)}
    IN  \E x \in {Shape(five) : five \in Fives(a)} : \A y \in against : Beats(x, y)

(* The numbers of Evaluate order all hands of five as the rules do.            *)
OrderedByTheRules ==
    LET values == {<<Shape(five), Evaluated[five]>> : five \in Fives(Deck)}
    IN  \A x \in values, y \in values : x[2] > y[2] <=> Beats(x[1], y[1])

(* A hand's share is the average of its shares over the next card, none of     *)
(* which somebody holds, and the shares add up to the pot.                     *)
SharesAreFair(hands, b) ==
    LET now   == Equity(b, hands)
        cards == Deck \ (b \cup UNION {hands[i] : i \in DOMAIN hands})
        next  == [c \in cards |-> Equity(b \cup {c}, hands)]
        come  == 5 - Cardinality(b)
    IN  /\ \A i \in DOMAIN hands :
             /\ MapThenSumSet(LAMBDA c : next[c][i].points, cards) = come * now[i].points
             /\ MapThenSumSet(LAMBDA c : next[c][i].total, cards) = come * now[i].total
        /\ MapThenSumSet(LAMBDA i : now[i].points, DOMAIN hands) = now[1].total
==============================================================================
