------------------------------- MODULE CardHand -------------------------------
(* The hand engine with its cards: PokerHand leaves open how strong the seats  *)
(* turn out to be, here the deck is shuffled when the hand is dealt and the    *)
(* evaluator compares what each seat makes of the board.                        *)
EXTENDS PokerHand, BoardNotes

CONSTANT Deals      \* how the deck may lie: hole cards by seat and the rest in order

HoleOf(d, s)    == {d.hole[s][1], d.hole[s][2]}
ValuesOf(d, on) == [s \in Seats |-> Evaluate(HoleOf(d, s) \cup on)]

ASSUME DealsAssumption ==
  \A d \in Deals :
    LET holes == UNION {HoleOf(d, s) : s \in Seats}
    IN  /\ Cardinality(holes) = 2 * Cardinality(Seats) /\ holes \subseteq Deck
        /\ d.rest \in Seq(Deck \ holes) /\ IsInjective(d.rest)
        /\ Len(d.rest) = DeckSize - 2 * Cardinality(Seats)

\* PokerHand leaves open how strong the seats are: here it is the evaluator's
\* numbers, and any seat may have any of them.
ASSUME StrengthsAssumption ==
  {Evaluated[five] : five \in Fives(Deck)} \subseteq Ranks /\ Strengths = [Seats -> Ranks]

VARIABLES
  deal,    \* how the deck lies
  board1,   \* the community cards
  board2   \* those of the second board

layout == <<deal, board1, board2>>
cardVars == <<cfg, h, deal, board1, board2>>

Hole(s) == HoleOf(deal, s)

\* draw: the next n cards after the first i undealt ones.
Drawn(i, n) ==
  {deal.rest[h.deckPos - 2 * Cardinality(Seats) + i + j] : j \in 1 .. n}

\* What the seats have on a full board.
Values(on) == ValuesOf(deal, on)

StrengthOn(on) == IF Cardinality(on) = 5 THEN Values(on) ELSE NoStrength

\* Mutant: both boards get the same cards.
DealStreetAlike ==
  LET n == StreetCards(h.street + 1)
  IN  /\ board1' = board1 \cup Drawn(0, n)
      /\ board2' = IF h.runTwice THEN board2 \cup Drawn(0, n) ELSE board2
      /\ Advance(StrengthOn(board1'), IF h.runTwice THEN StrengthOn(board2') ELSE NoStrength)

\* Advance: a street to the board and, run twice, another to the second one.
DealStreet ==
  LET n == StreetCards(h.street + 1)
  IN  /\ board1' = board1 \cup Drawn(0, n)
      /\ board2' = IF h.runTwice THEN board2 \cup Drawn(n, n) ELSE board2
      /\ Advance(StrengthOn(board1'), IF h.runTwice THEN StrengthOn(board2') ELSE NoStrength)

\* The boards part where the hand is when it is run twice.
RunTwoBoards == RunItTwice /\ board2' = board1 /\ UNCHANGED <<deal, board1>>

CardInit ==
  /\ Init /\ deal \in Deals
  /\ board1 = {} /\ board2 = {}

CardNext ==
  \/ \E s \in Seats, a \in Actions : Apply(s, a) /\ UNCHANGED layout
  \/ \E s \in Seats : (Timeout(s) \/ Forfeit(s)) /\ UNCHANGED layout
  \/ h.phase = "deal_pending" /\ DealStreet /\ UNCHANGED deal
  \/ RunTwoBoards
  \/ RevealNext /\ UNCHANGED layout
  \/ \E s \in Seats, some \in SUBSET {1, 2} : ShowCards(s, some) /\ UNCHANGED layout
  \/ Over /\ UNCHANGED layout

CardSpec == CardInit /\ [][CardNext]_cardVars

-------------------------------------------------------------------------------
(* The timers of the table, as in PokerHand.                                   *)
CardTimers ==
  \/ \E s \in Seats : Timeout(s) /\ UNCHANGED layout
  \/ h.phase = "deal_pending" /\ DealStreet /\ UNCHANGED deal
  \/ RevealNext /\ UNCHANGED layout

CardTimerFairness == <>[](h.phase # "result") => []<><<CardTimers>>_cardVars

CardFairSpec == CardSpec /\ CardTimerFairness

-------------------------------------------------------------------------------
(* What players see of the cards while the hand goes on.                       *)

\* computeEquity: the live seats share the board that is being run out.
SharesShown == h.runout /\ h.phase = "deal_pending" /\ Cardinality(board1) \in 3 .. 4
SharesOf(d, live) ==
  [i \in 1 .. Cardinality(live) |->
     LET s == SetToSortSeq(live, <)[i] IN HoleOf(d, s)]

-------------------------------------------------------------------------------
(* Properties.                                                                 *)

\* At a showdown a seat whose cards are beaten on every board that was dealt,
\* by a seat that paid as much, wins nothing, whatever the engine computed
\* with (docs/rules.md 7.8); and the evaluator orders all hands by the rules.
BoardsDealt == {board1} \cup (IF h.runTwice THEN {board2} ELSE {})
ShowdownByTheRules ==
  AtShowdown =>
    /\ OrderedByTheRules
    /\ \A s \in Live(h), t \in Live(h) :
         (Paid(t) >= Paid(s) /\ \A on \in BoardsDealt : Stronger(Hole(t) \cup on, Hole(s) \cup on))
           => h.pl[s].won = 0

\* The boards hold cards of the deck that nobody holds, and part only where
\* the hand was when it was run twice.
BoardsAreApart ==
  /\ \A s \in Seats : Hole(s) \cap (board1 \cup board2) = {}
  /\ Cardinality(board1) = BoardCards(h.street) /\ DeckSuffices
  /\ h.runTwice => /\ Cardinality(board2) = Cardinality(board1)
                   /\ Cardinality(board1 \cap board2) \in {0, 3, 4}

\* The shares shown while the board is run out are fair (equity.go:5-10).
\* The tables here and below have TLC work out every case once.
Runouts == Deals \X {3, 4} \X {live \in SUBSET Seats : Cardinality(live) >= 2}
SharesHold ==
  [r \in Runouts |-> SharesAreFair(SharesOf(r[1], r[3]), {r[1].rest[i] : i \in 1 .. r[2]})] @@ <<>>

EquityIsFair == SharesShown => SharesHold[deal, Cardinality(board1), Live(h)]

\* What a seat is told of its hand and the board is true (notes.go:27-48).
Readings ==
  {<<d.hole[s], {d.rest[i] : i \in 1 .. n}>> : d \in Deals, s \in Seats, n \in 3 .. 5}
NotesHold == [r \in Readings |-> NotesTell(r[1], r[2])] @@ <<>>

NotesAreTrue ==
  Cardinality(board1) >= 3 /\ ~h.runTwice =>
    \A s \in Seats : NotesHold[deal.hole[s], board1]
===============================================================================
