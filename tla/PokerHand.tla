----------------------------- MODULE PokerHand -----------------------------
(***************************************************************************)
(* One hand of No-Limit Texas Hold'em as the hand engine plays it          *)
(* (src/backend/internal/poker/hand.go).  The table actor owns the hand    *)
(* and calls one method at a time, so every method is one action.          *)
(*                                                                         *)
(* A hand is a record h; the operators below that take and return such a   *)
(* record are the engine's methods, composed in the order the code calls   *)
(* them.  Cards are abstracted to what decides a pot: when the river of a  *)
(* board falls every seat gets a strength on that board.                   *)
(***************************************************************************)
EXTENDS Pots

CONSTANTS
  Seats,        \* the seats dealt into the hand
  MaxSeats,     \* seats are numbered 0 .. MaxSeats - 1
  MaxStack,     \* bound on the stack a seat starts the hand with
  StartStacks,  \* the stacks a seat may start the hand with
  Configs,      \* the table settings a hand may be frozen with
  Ranks,        \* hand strengths, compared as numbers
  Strengths,    \* the ways a river may rank the seats
  DeckSize      \* cards in the variant's deck

NoSeat == -1

(***************************************************************************)
(* HandConfig.  straddle = 0 is a hand without a straddle.  The table only *)
(* ever asks for a straddle of twice the big blind; a straddle below the   *)
(* big blind would be no raise at all and is excluded.                     *)
(***************************************************************************)
RevealPolicies == {"all", "winners_only", "in_order"}

HandConfig ==
  [button : Seats, sb : Nat \ {0}, bb : Nat \ {0}, ante : Nat,
   dead : [Seats -> Nat], straddleSeat : Seats \cup {NoSeat},
   straddle : Nat, reveal : RevealPolicies]

ASSUME SeatsAssumption ==
  /\ MaxSeats \in Nat
  /\ Seats \subseteq 0 .. MaxSeats - 1
  /\ Cardinality(Seats) >= 2

ASSUME StackAssumption ==
  /\ MaxStack \in Nat
  /\ StartStacks \subseteq 1 .. MaxStack

ASSUME ConfigAssumption ==
  /\ Configs \subseteq HandConfig
  /\ \A c \in Configs : c.sb <= c.bb /\ (c.straddle > 0 => c.bb <= c.straddle)

ASSUME CardAssumption ==
  /\ Ranks \subseteq Nat /\ 0 \in Ranks
  /\ Strengths \subseteq [Seats -> Ranks]
  /\ DeckSize \in Nat
  /\ 2 * Cardinality(Seats) + 5 <= DeckSize

VARIABLES
  cfg,  \* HandConfig, frozen at the start of the hand
  h     \* the hand

vars == <<cfg, h>>

Streets  == 0 .. 3
Preflop  == 0
Flop     == 1
River    == 3
Phases   == {"betting", "deal_pending", "showdown", "result"}

(***************************************************************************)
(* Seat order.  Gap(start, s) is the number of seats from start clockwise  *)
(* to s; the scans of the code (next, nextActor, clockwiseFromButton,      *)
(* showdownOrder) all take seats by increasing Gap.                        *)
(***************************************************************************)
Gap(start, s) == IF s >= start THEN s - start ELSE s - start + MaxSeats
FirstFrom(start, S) ==
  CHOOSE s \in S : \A t \in S : Gap(start, s) <= Gap(start, t)
NextSeat(s) == FirstFrom(s + 1, Seats)

-----------------------------------------------------------------------------
(* Views of a hand *)

Live(g)   == {s \in Seats : ~g.pl[s].folded}
Active(g) == {s \in Live(g) : ~g.pl[s].allIn}

\* needsToAct: s still owes an action in the current round.
Owing(g) ==
  {s \in Active(g) : ~g.pl[s].hasActed \/ g.pl[s].bet < g.currentBet}

MayRaise(g, s) ==
  ~g.pl[s].hasActed \/ g.pl[s].actedAtFullLevel < g.lastFullBetLevel

MinRaiseTo(g) == g.currentBet + g.lastRaiseSize
ToCall(g, s)  == g.currentBet - g.pl[s].bet
MaxTo(g, s)   == g.pl[s].bet + g.pl[s].stack

\* Mutant: a short stack calls in full.
CallInFull(g, s) == ToCall(g, s)
CallAmount(g, s) == Min2(ToCall(g, s), g.pl[s].stack)

Contributions(g) ==
  [s \in Seats |-> [total  |-> g.pl[s].committed,
                    folded |-> g.pl[s].folded,
                    allIn  |-> g.pl[s].allIn]]
PotsOf(g) == BuildPots(Contributions(g))

BoardCards(street) == IF street = Preflop THEN 0 ELSE street + 2
Missing(g)         == 5 - BoardCards(g.street)

CanRunItTwice(g) ==
  /\ g.phase = "deal_pending" /\ g.runout /\ ~g.runTwice
  /\ Missing(g) > 0
  /\ g.deckPos + 2 * Missing(g) <= DeckSize

-----------------------------------------------------------------------------
(* What happens to one player p *)

Folded(p)  == [p EXCEPT !.folded = TRUE]
Pooled(p)  == [p EXCEPT !.committed = @ + p.bet, !.bet = 0]
Faced(p)   == [p EXCEPT !.revealed = TRUE]
Staked(p, n) ==
  [p EXCEPT !.stack = @ - n, !.bet = @ + n, !.allIn = (p.stack = n)]
Returned(p, n) ==
  [p EXCEPT !.bet = @ - n, !.stack = @ + n, !.allIn = FALSE]
Exposed(p, cards) ==
  [p EXCEPT !.shown = @ \cup cards, !.revealed = (p.shown \cup cards = {1, 2})]
Prized(p, n) == [p EXCEPT !.stack = @ + n, !.won = @ + n]

-----------------------------------------------------------------------------
(* Paying the pots *)

Finish(g, pots) ==
  [g EXCEPT !.pl = [s \in Seats |-> [g.pl[s] EXCEPT !.committed = 0]],
            !.phase = "result", !.toAct = NoSeat,
            !.finalPots = {[level |-> l, amount |-> pots[l].amount,
                            eligible |-> pots[l].eligible] : l \in DOMAIN pots}]

\* The part of the highest bet nobody matched goes back to the first seat
\* that has it in front; a folded seat takes part like any other.
TopBettor(g) ==
  CHOOSE s \in Seats : \A t \in Seats :
    \/ g.pl[t].bet < g.pl[s].bet
    \/ g.pl[t].bet = g.pl[s].bet /\ s <= t

Uncalled(g) ==
  g.pl[TopBettor(g)].bet
    - Max({0} \cup {g.pl[s].bet : s \in Seats \ {TopBettor(g)}})

\* Mutant: the seat that gets chips back stays all-in.
ReturnUncalledStaysAllIn(g) ==
  LET top == TopBettor(g)
  IN  [g EXCEPT !.pl[top] = [Returned(@, Uncalled(g)) EXCEPT
                               !.allIn = g.pl[top].allIn]]

ReturnUncalled(g) ==
  IF Uncalled(g) > 0
  THEN [g EXCEPT !.pl[TopBettor(g)] = Returned(@, Uncalled(g))]
  ELSE g

\* Mutant: the bets in front are counted into the pots but not taken away.
CollectKeepsBets(g) ==
  [g EXCEPT !.pl = [s \in Seats |->
     [g.pl[s] EXCEPT !.committed = @ + g.pl[s].bet]]]

Collect(g) == [g EXCEPT !.pl = [s \in Seats |-> Pooled(g.pl[s])]]

\* Everybody else folded: the last live seat takes every pot unseen.
FinishUncontested(g) ==
  LET c      == Collect(ReturnUncalled(g))
      pots   == PotsOf(c)
      winner == CHOOSE s \in Seats : s \in Live(c)
  IN  Finish([c EXCEPT !.pl[winner] = Prized(@, Total(AmountsOf(pots)))], pots)

\* The best of the eligible seats on board b.
Winners(g, pot, b) ==
  {s \in pot.eligible : \A t \in pot.eligible :
     g.strength[b][t] <= g.strength[b][s]}

\* Mutant: odd chips are dropped.
ShareDropsOddChips(W, amount, s) ==
  IF s \notin W THEN 0 ELSE amount \div Cardinality(W)

\* An equal split; odd chips go clockwise from the button.
Share(W, amount, s) ==
  IF s \notin W THEN 0
  ELSE amount \div Cardinality(W)
         + (IF Cardinality({t \in W : Gap(cfg.button + 1, t)
                                        < Gap(cfg.button + 1, s)})
                 < amount % Cardinality(W)
            THEN 1 ELSE 0)

Boards(g) == IF g.runTwice THEN {1, 2} ELSE {1}

\* Mutant: both boards get the smaller half.
PotShareTwoFloors(g, pot, s) ==
  LET half == IF g.runTwice THEN pot.amount \div 2 ELSE 0
  IN  Share(Winners(g, pot, 1), IF g.runTwice THEN half ELSE pot.amount, s)
        + Share(Winners(g, pot, 2), half, s)

\* A hand run twice pays a pot in halves, the odd chip with the first board.
PotShare(g, pot, s) ==
  IF g.runTwice
  THEN Share(Winners(g, pot, 1), pot.amount - pot.amount \div 2, s)
         + Share(Winners(g, pot, 2), pot.amount \div 2, s)
  ELSE Share(Winners(g, pot, 1), pot.amount, s)

WinsAPot(g, pots, s) ==
  \E l \in DOMAIN pots, b \in Boards(g) : s \in Winners(g, pots[l], b)

Prize(g, pots, s) == Total([l \in DOMAIN pots |-> PotShare(g, pots[l], s)])

\* Every winner's hand is turned over.
AwardPots(g) ==
  LET pots == PotsOf(g)
      Won(s) == Prized(g.pl[s], Prize(g, pots, s))
  IN  Finish([g EXCEPT !.pl = [s \in Seats |->
                IF s \in Live(g) /\ WinsAPot(g, pots, s) THEN Faced(Won(s))
                                                        ELSE Won(s)]],
             pots)

-----------------------------------------------------------------------------
(* Ending a street *)

ShowStart(g) ==
  IF g.aggressor # NoSeat /\ g.aggressor \in Live(g)
  THEN g.aggressor
  ELSE FirstFrom(cfg.button + 1, Live(g))

\* Mutant: hands that are already on their backs are shown again.
ShowdownAlwaysStaged(g) ==
  [g EXCEPT !.phase = "showdown", !.showIdx = 0, !.toAct = NoSeat]

\* A run-out is already on its back and is paid at once.
Showdown(g) ==
  IF \A s \in Live(g) : g.pl[s].revealed
  THEN AwardPots(g)
  ELSE [g EXCEPT !.phase = "showdown", !.showIdx = 0, !.toAct = NoSeat]

\* Mutant: the folded hands are turned over with the others.
RevealAllFolded(g) ==
  [g EXCEPT !.pl = [s \in Seats |-> Faced(g.pl[s])]]

RevealAll(g) ==
  [g EXCEPT !.pl = [s \in Seats |->
     IF s \in Live(g) THEN Faced(g.pl[s]) ELSE g.pl[s]]]

EndStreet(g) ==
  LET c == [Collect(ReturnUncalled(g)) EXCEPT !.toAct = NoSeat]
      d == [c EXCEPT !.phase = "deal_pending"]
  IN  IF c.street = River THEN Showdown(c)
      ELSE IF Cardinality(Active(c)) < 2
           THEN RevealAll([d EXCEPT !.runout = TRUE])
           ELSE d

RoundComplete(g) ==
  \A s \in Active(g) :
    /\ g.pl[s].bet = g.currentBet
    /\ Cardinality(Active(g)) >= 2 => g.pl[s].hasActed

\* nextActor, -1 when nobody owes an action.
NextActor(g, start) ==
  IF Owing(g) = {} THEN NoSeat ELSE FirstFrom(start, Owing(g))

\* The code panics when the round is not complete and nobody owes an action;
\* here that is a betting phase without a seat to act.
Settle(g, start) ==
  IF Cardinality(Live(g)) = 1 THEN FinishUncontested(g)
  ELSE IF RoundComplete(g) THEN EndStreet(g)
  ELSE [g EXCEPT !.toAct = NextActor(g, start)]

-----------------------------------------------------------------------------
(* A new hand *)

Dealt(stack) ==
  [stack |-> stack, startStack |-> stack, folded |-> FALSE, allIn |-> FALSE,
   bet |-> 0, committed |-> 0, hasActed |-> FALSE, actedAtFullLevel |-> 0,
   revealed |-> FALSE, mucked |-> FALSE, shown |-> {}, won |-> 0]

\* Antes and dead blinds go into the pot, blinds and a straddle in front.
IntoPot(p, amount) ==
  LET paid == Min2(amount, p.stack)
  IN  [p EXCEPT !.stack = @ - paid, !.committed = @ + paid,
                !.allIn = (p.stack = paid)]
PostBlind(p, amount) == Staked(p, Min2(amount, p.stack))

SBSeat == IF Cardinality(Seats) = 2 THEN cfg.button ELSE NextSeat(cfg.button)
BBSeat == NextSeat(SBSeat)

NoStrength == [s \in Seats |-> 0]

\* Everybody after antes, dead blinds and the two blinds.
Blinded(stacks) ==
  LET paid  == [s \in Seats |->
                  IntoPot(IntoPot(Dealt(stacks[s]), cfg.ante), cfg.dead[s])]
      small == [paid EXCEPT ![SBSeat] = PostBlind(@, cfg.sb)]
  IN  [small EXCEPT ![BBSeat] = PostBlind(@, cfg.bb)]

Straddles(pl) ==
  /\ cfg.straddle > 0
  /\ Cardinality(Seats) >= 3
  /\ NextSeat(BBSeat) = cfg.straddleSeat
  /\ pl[cfg.straddleSeat].stack > 0

\* A straddle that is all-in for less is only a price, not a full bet.
NewHand(stacks) ==
  LET pl       == Blinded(stacks)
      utg      == NextSeat(BBSeat)
      straddle == Straddles(pl)
      full     == straddle /\ pl[utg].stack >= cfg.straddle
      level    == IF full THEN cfg.straddle ELSE cfg.bb
      posted   == IF straddle THEN Min2(cfg.straddle, pl[utg].stack) ELSE 0
      first    == IF straddle THEN NextSeat(utg)
                  ELSE IF Cardinality(Seats) = 2 THEN cfg.button ELSE utg
  IN  Settle([pl |-> IF straddle
                     THEN [pl EXCEPT ![utg] = PostBlind(@, cfg.straddle)]
                     ELSE pl,
              phase |-> "betting", street |-> Preflop, runout |-> FALSE,
              runTwice |-> FALSE, toAct |-> NoSeat,
              currentBet |-> Max({level, posted}),
              lastFullBetLevel |-> level, lastRaiseSize |-> level,
              aggressor |-> NoSeat, showIdx |-> 0,
              deckPos |-> 2 * Cardinality(Seats),
              strength |-> [b \in {1, 2} |-> NoStrength],
              finalPots |-> {}],
             first)

Init ==
  /\ cfg \in Configs
  /\ \E stacks \in [Seats -> StartStacks] : h = NewHand(stacks)

-----------------------------------------------------------------------------
(* Player actions *)

Kinds   == {"fold", "check", "call", "bet", "raise", "all_in"}
Action  == [kind : Kinds, amount : Nat]
Actions == [kind : {"fold", "check", "call", "all_in"}, amount : {0}]
             \cup [kind : {"bet", "raise"}, amount : 0 .. MaxStack]

\* Bet and raise name the same amount; all_in is one of bet, call, raise.
Resolve(g, s, a) ==
  LET shove == a.kind = "all_in"
      short == shove /\ g.currentBet > 0 /\ MaxTo(g, s) <= g.currentBet
      wager == a.kind \in {"bet", "raise"} \/ (shove /\ ~short)
  IN  [kind   |-> IF short THEN "call"
                  ELSE IF wager
                       THEN IF g.currentBet = 0 THEN "bet" ELSE "raise"
                       ELSE a.kind,
       amount |-> IF shove THEN MaxTo(g, s) ELSE a.amount]

LegalBet(g, s, amount) ==
  /\ 0 < amount /\ amount <= MaxTo(g, s)
  /\ amount >= cfg.bb \/ amount = MaxTo(g, s)

LegalRaise(g, s, amount) ==
  /\ MayRaise(g, s)
  /\ g.currentBet < amount /\ amount <= MaxTo(g, s)
  /\ amount >= MinRaiseTo(g) \/ amount = MaxTo(g, s)

\* a is resolved.
Legal(g, s, a) ==
  \/ a.kind = "fold"
  \/ a.kind = "check" /\ ToCall(g, s) <= 0
  \/ a.kind = "call"  /\ ToCall(g, s) > 0
  \/ a.kind = "bet"   /\ LegalBet(g, s, a.amount)
  \/ a.kind = "raise" /\ LegalRaise(g, s, a.amount)

Fold(g, s)        == [g EXCEPT !.pl[s] = Folded(@)]
Commit(g, s, add) == [g EXCEPT !.pl[s] = Staked(@, add)]

\* Mutant: every all-in counts as a full raise.
WagerToAlwaysFull(g, s, amount, minTo) ==
  [Commit(g, s, amount - g.pl[s].bet) EXCEPT
     !.currentBet = amount, !.aggressor = s,
     !.lastRaiseSize = amount - g.currentBet, !.lastFullBetLevel = amount]

\* A bet or raise below the minimum is all-in and only changes the price.
WagerTo(g, s, amount, minTo) ==
  LET c == [Commit(g, s, amount - g.pl[s].bet) EXCEPT
              !.currentBet = amount, !.aggressor = s]
  IN  IF amount >= minTo
      THEN [c EXCEPT !.lastRaiseSize = amount - g.currentBet,
                     !.lastFullBetLevel = amount]
      ELSE c

Perform(g, s, a) ==
  CASE a.kind = "fold"  -> Fold(g, s)
    [] a.kind = "check" -> g
    [] a.kind = "call"  -> Commit(g, s, CallAmount(g, s))
    [] a.kind = "bet"   -> WagerTo(g, s, a.amount, cfg.bb)
    [] a.kind = "raise" -> WagerTo(g, s, a.amount, MinRaiseTo(g))

\* Mutant: that the seat has acted is not noted.
ActedForgotten(g, s) ==
  [g EXCEPT !.pl[s].actedAtFullLevel = g.lastFullBetLevel]

Acted(g, s) ==
  [g EXCEPT !.pl[s] = [@ EXCEPT !.hasActed = TRUE,
                                !.actedAtFullLevel = g.lastFullBetLevel]]

OnTurn(s) == h.phase = "betting" /\ h.toAct = s

Apply(s, a) ==
  /\ OnTurn(s)
  /\ Legal(h, s, Resolve(h, s, a))
  /\ h' = Settle(Acted(Perform(h, s, Resolve(h, s, a)), s), s + 1)
  /\ UNCHANGED cfg

\* Check if that is free, else fold.
Timeout(s) ==
  /\ OnTurn(s)
  /\ h' = Settle(Acted(IF h.pl[s].bet = h.currentBet THEN h ELSE Fold(h, s), s),
                 s + 1)
  /\ UNCHANGED cfg

\* Mutant: the turn is not passed on when the seat to act leaves.
AfterForfeitKeepsTurn(g, s) ==
  IF Cardinality(Live(g)) = 1 THEN FinishUncontested(g)
  ELSE IF g.phase = "betting" /\ RoundComplete(g) THEN EndStreet(g)
  ELSE g

\* g: the hand with s folded.
AfterForfeit(g, s) ==
  IF Cardinality(Live(g)) = 1 THEN FinishUncontested(g)
  ELSE IF g.phase = "deal_pending" THEN g
  ELSE IF g.toAct = s THEN Settle(g, s + 1)
  ELSE IF RoundComplete(g) THEN EndStreet(g)
  ELSE g

\* A player leaves, is kicked or sits out: folded whoever's turn it is.
Forfeit(s) ==
  /\ s \in Live(h)
  /\ h.phase \in {"betting", "deal_pending"}
  /\ h' = AfterForfeit(Fold(h, s), s)
  /\ UNCHANGED cfg

-----------------------------------------------------------------------------
(* Dealing and showing *)

StreetCards(street) == IF street = Flop THEN 3 ELSE 1

\* Only the river decides how strong the seats are on board b.
DealtStrengths(b) ==
  IF h.street + 1 = River /\ (b = 1 \/ h.runTwice) THEN Strengths
                                                  ELSE {NoStrength}

\* The next street, from the same deck for both boards.
Dealing(g, s1, s2) ==
  LET street == g.street + 1
      boards == IF g.runTwice THEN 2 ELSE 1
  IN  [g EXCEPT !.street = street,
                !.deckPos = @ + boards * StreetCards(street),
                !.strength = [b \in {1, 2} |-> IF b = 1 THEN s1 ELSE s2]]

NewRound(g) ==
  [g EXCEPT !.currentBet = 0, !.lastFullBetLevel = 0,
            !.lastRaiseSize = cfg.bb, !.aggressor = NoSeat,
            !.phase = "betting",
            !.pl = [s \in Seats |-> [g.pl[s] EXCEPT !.hasActed = FALSE,
                                                    !.actedAtFullLevel = 0]]]

Advance(s1, s2) ==
  /\ h.phase = "deal_pending"
  /\ LET d == Dealing(h, s1, s2)
     IN  h' = IF ~h.runout THEN Settle(NewRound(d), NextSeat(cfg.button))
              ELSE IF d.street = River THEN Showdown(d)
              ELSE d
  /\ UNCHANGED cfg

RunItTwice ==
  /\ CanRunItTwice(h)
  /\ h' = [h EXCEPT !.runTwice = TRUE]
  /\ UNCHANGED cfg

\* The seat whose turn it is to show.
OnShow(g) ==
  CHOOSE s \in Live(g) :
    g.showIdx = Cardinality({t \in Live(g) : Gap(ShowStart(g), t)
                                               < Gap(ShowStart(g), s)})

\* Mutant: a tie with a hand on the table is mucked.
MustShowStrictly(g, s) ==
  \E l \in DOMAIN PotsOf(g) :
    /\ s \in PotsOf(g)[l].eligible
    /\ \A t \in PotsOf(g)[l].eligible \ {s} :
         g.pl[t].revealed => g.strength[1][t] < g.strength[1][s]

MustShow(g, s) ==
  LET pots == PotsOf(g)
  IN  CASE cfg.reveal = "all" -> TRUE
        [] cfg.reveal = "winners_only" ->
             \E l \in DOMAIN pots : s \in Winners(g, pots[l], 1)
        [] cfg.reveal = "in_order" ->
             \E l \in DOMAIN pots :
               /\ s \in pots[l].eligible
               /\ \A t \in pots[l].eligible \ {s} :
                    g.pl[t].revealed => g.strength[1][t] <= g.strength[1][s]

RevealNext ==
  /\ h.phase = "showdown"
  /\ LET s == OnShow(h)
         r == [h EXCEPT !.showIdx = @ + 1,
                !.pl[s] = IF h.pl[s].revealed THEN @
                          ELSE IF MustShow(h, s) THEN Faced(@)
                          ELSE [@ EXCEPT !.mucked = TRUE]]
     IN  h' = IF r.showIdx >= Cardinality(Live(r)) THEN AwardPots(r) ELSE r
  /\ UNCHANGED cfg

\* One or both cards, after the hand; both is a full reveal.
ShowCards(s, cards) ==
  /\ h.phase = "result"
  /\ s \in Live(h) /\ ~h.pl[s].revealed
  /\ cards # {} /\ (cards # {1, 2} => cards \cap h.pl[s].shown = {})
  /\ h' = [h EXCEPT !.pl[s] = Exposed(@, cards)]
  /\ UNCHANGED cfg

\* The hand is over; the table drops it.
Over == h.phase = "result" /\ UNCHANGED vars

Next ==
  \/ \E s \in Seats, a \in Actions : Apply(s, a)
  \/ \E s \in Seats : Timeout(s)
  \/ \E s \in Seats : Forfeit(s)
  \/ \E s1 \in DealtStrengths(1), s2 \in DealtStrengths(2) : Advance(s1, s2)
  \/ RunItTwice
  \/ RevealNext
  \/ \E s \in Seats, cards \in SUBSET {1, 2} : ShowCards(s, cards)
  \/ Over

Spec == Init /\ [][Next]_vars

-----------------------------------------------------------------------------
(***************************************************************************)
(* Types.                                                                  *)
(***************************************************************************)
Player ==
  [stack : Nat, startStack : Nat, folded : BOOLEAN, allIn : BOOLEAN,
   bet : Nat, committed : Nat, hasActed : BOOLEAN, actedAtFullLevel : Nat,
   revealed : BOOLEAN, mucked : BOOLEAN, shown : SUBSET {1, 2}, won : Nat]

Pot == [level : Nat, amount : Int, eligible : SUBSET Seats]

Hand ==
  [pl : [Seats -> Player], phase : Phases, street : Streets,
   runout : BOOLEAN, runTwice : BOOLEAN, toAct : Seats \cup {NoSeat},
   currentBet : Nat, lastFullBetLevel : Nat, lastRaiseSize : Nat,
   aggressor : Seats \cup {NoSeat}, showIdx : Nat, deckPos : Nat,
   strength : [{1, 2} -> [Seats -> Ranks]], finalPots : SUBSET Pot]

\* The hand's fields have the types of the code's struct (amounts are signed
\* there; that none of a seat's amounts is ever negative is part of it).
TypeOK == cfg \in Configs /\ h \in Hand

-----------------------------------------------------------------------------
(***************************************************************************)
(* What a player is offered (Options), for the client's buttons.           *)
(***************************************************************************)
\* Mutant: the slider is shown to a seat that may only call or fold.
RaiseRangeForAll(g, s) ==
  IF g.currentBet = 0 THEN cfg.bb .. MaxTo(g, s)
  ELSE MinRaiseTo(g) .. MaxTo(g, s)

RaiseRange(g, s) ==
  IF g.currentBet = 0 THEN cfg.bb .. MaxTo(g, s)
  ELSE IF MayRaise(g, s) /\ MaxTo(g, s) > g.currentBet
       THEN MinRaiseTo(g) .. MaxTo(g, s)
       ELSE {}

\* 0 when all-in is not on offer.
OfferedAllIn(g, s) ==
  IF \/ g.currentBet = 0
     \/ MayRaise(g, s) /\ MaxTo(g, s) > g.currentBet
     \/ g.pl[s].stack <= ToCall(g, s)
  THEN MaxTo(g, s) ELSE 0

Offered(g, s, a) ==
  \/ a.kind = "fold"
  \/ a.kind = "check" /\ ToCall(g, s) <= 0
  \/ a.kind = "call" /\ CallAmount(g, s) > 0
  \/ a.kind = "all_in" /\ OfferedAllIn(g, s) > 0
  \/ /\ a.kind \in {"bet", "raise"}
     /\ \/ a.amount \in RaiseRange(g, s)
        \/ a.amount = OfferedAllIn(g, s) /\ a.amount > g.currentBet

-----------------------------------------------------------------------------
(***************************************************************************)
(* Safety.                                                                 *)
(***************************************************************************)

\* Until the pots are awarded a seat's chips are its stack, its bet in front
\* and what it has in the pots: no step moves chips between two seats.
OwnChips ==
  h.phase # "result" =>
    \A s \in Seats :
      /\ h.pl[s].stack + h.pl[s].bet + h.pl[s].committed = h.pl[s].startStack
      /\ h.pl[s].won = 0

\* What a seat has paid into the hand, net of a returned bet.
Paid(s) == h.pl[s].startStack - (h.pl[s].stack - h.pl[s].won)

\* Stacks, bets and pots add up to the same sum in every state, over odd
\* chips, side pots, dead money and a board run twice (docs/rules.md 7.9).
ChipConservation ==
  /\ Total([s \in Seats |-> h.pl[s].stack + h.pl[s].bet + h.pl[s].committed])
       = Total([s \in Seats |-> h.pl[s].startStack])
  /\ h.phase = "result" =>
       Total([s \in Seats |-> h.pl[s].won])
         = Total([p \in h.finalPots |-> p.amount])

\* While betting there is a seat to act, it owes an action, and it is against
\* somebody: settle never reaches its panic and a turn timer always has a
\* seat to run for.  A pending deal has a street left to deal.
TurnIsOwed ==
  /\ h.phase # "result" => Cardinality(Live(h)) >= 2
  /\ IF h.phase = "betting"
     THEN h.toAct \in Owing(h)
     ELSE h.toAct = NoSeat
  /\ h.phase = "deal_pending" => h.street < River

\* The price of a round is the highest bet or forced bet, the last full bet
\* is part of it, nobody acted at a level that does not exist yet, and a
\* seat is all-in exactly when its stack is empty.
BettingLevels ==
  /\ h.phase # "result" =>
       \A s \in Seats : h.pl[s].allIn <=> h.pl[s].stack = 0
  /\ h.phase = "betting" =>
       /\ h.lastFullBetLevel <= h.currentBet
       /\ h.lastRaiseSize >= cfg.bb
       /\ \A s \in Seats :
            /\ h.pl[s].bet <= h.currentBet
            /\ h.pl[s].actedAtFullLevel <= h.lastFullBetLevel
  /\ h.phase \in {"deal_pending", "showdown"} =>
       \A s \in Seats : h.pl[s].bet = 0

\* The inductive invariant of a hand (PokerHandProofs).  None of the four is
\* inductive alone: the type of a stack needs the price (a raise pays the
\* difference to a bet that is not above it), the turn needs the price (a
\* round that is not complete has a seat below the price or one that has not
\* acted), and the price needs the chips in front to be gone when a new round
\* resets it to zero.
IInv == TypeOK /\ OwnChips /\ TurnIsOwed /\ BettingLevels

\* The options a seat is shown and the actions the engine accepts are two
\* pieces of code: they agree on every action and amount.
OptionsMatchApply ==
  \A s \in Seats, a \in Actions :
    OnTurn(s) => (Offered(h, s, a) <=> Legal(h, s, Resolve(h, s, a)))

\* The pots hold exactly the chips collected so far, each can be won by
\* somebody still in the hand, and a side pot has no contender its lower
\* pots do not have.
PotsWellFormed ==
  h.phase # "result" =>
    LET pots == PotsOf(h)
    IN  /\ Total(AmountsOf(pots)) = Contributed(Contributions(h))
        /\ \A l \in DOMAIN pots :
             /\ pots[l].eligible # {} /\ pots[l].eligible \subseteq Live(h)
             /\ \A k \in DOMAIN pots :
                  k < l => pots[l].eligible \subseteq pots[k].eligible

\* Every chip is in one place: in a stack, in front of a seat or in one pot,
\* and at the end with those who won it.
EveryChipCounts == ChipConservation /\ PotsWellFormed

\* No seat of this hand returns to the table and owes a blind it missed.
NoDeadBlind == \A s \in Seats : cfg.dead[s] = 0

\* A seat still in the hand with chips behind has matched every bet, so no
\* pot is out of its reach once the round is over.
MatchedMeansEligible ==
  h.phase \in {"deal_pending", "showdown"} =>
    \A s \in Active(h), l \in DOMAIN PotsOf(h) : s \in PotsOf(h)[l].eligible

\* So it is in every hand without a dead blind: with one the poster has put
\* in more than a seat that matched every bet.
MatchedCanWin == NoDeadBlind => MatchedMeansEligible

AtShowdown == h.phase = "result" /\ Cardinality(Live(h)) >= 2

\* What s can win from everybody together: nobody's chips count beyond what
\* s put in.
Reach(s) == Total([t \in Seats |-> Min2(Paid(t), Paid(s))])

\* At a showdown a seat covered by another live seat never wins more than
\* its reach, and on a single board the one strongest hand wins all of it,
\* again but for dead blinds.
ShowdownPaysReach ==
  AtShowdown /\ NoDeadBlind =>
    \A s \in Live(h) :
      /\ (\E t \in Live(h) : Paid(t) > Paid(s)) => h.pl[s].won <= Reach(s)
      /\ /\ ~h.runTwice
         /\ \A t \in Live(h) \ {s} : h.strength[1][t] < h.strength[1][s]
         => h.pl[s].won >= Reach(s)

\* A hand is mucked only when it wins nothing, and at a showdown every winner
\* is on the table.
WinnersShow ==
  \A s \in Seats :
    /\ h.pl[s].mucked => h.pl[s].won = 0
    /\ AtShowdown /\ h.pl[s].won > 0 => h.pl[s].revealed

\* Both boards of a hand run twice fit into the deck.
DeckSuffices == h.deckPos <= DeckSize

(***************************************************************************)
(* Steps.                                                                  *)
(***************************************************************************)

\* A seat that has acted may raise again in the same round only after a full
\* raise: a short all-in never reopens the betting (docs/rules.md 7.5).
ReopenedByFullRaise ==
  [][\A s \in Seats :
       /\ h.phase = "betting" /\ h'.phase = "betting"
       /\ ~MayRaise(h, s) /\ MayRaise(h', s)
       => h'.currentBet - h.currentBet >= h.lastRaiseSize]_vars

\* A hand becomes public only for a seat that is still in it, never because
\* everybody else folded, and once on the table it stays there.
NoCardLeaks ==
  /\ \A s \in Seats :
       /\ h.pl[s].revealed => h'.pl[s].revealed
       /\ h'.pl[s].revealed /\ ~h.pl[s].revealed => ~h'.pl[s].folded
  /\ (h.phase # "result" /\ Cardinality(Live(h')) = 1)
       => \A s \in Seats : h'.pl[s].revealed = h.pl[s].revealed

\* Cards stay hidden that need not be seen, and only those: whoever wins at a
\* showdown has shown, under every reveal policy.
CardsShownRight == [][WinnersShow' /\ NoCardLeaks]_vars

(***************************************************************************)
(* The hand keeps the chip ledger of HandLedger: only a seat's own action  *)
(* or forced bet moves its chips, and the award pays out exactly what was  *)
(* paid in, to seats that are still in the hand.                           *)
(***************************************************************************)
Ledger == INSTANCE HandLedger WITH
  stack <- [s \in Seats |-> h.pl[s].stack],
  paid  <- [s \in Seats |-> h.pl[s].bet + h.pl[s].committed],
  live  <- Live(h),
  over  <- h.phase = "result"

KeepsTheLedger == Ledger!LedgerSpec

(***************************************************************************)
(* The table relies on nothing but the phases of a hand: the engine goes   *)
(* through them as TableHand says, so a model of the table may play its    *)
(* hands with TableHand's steps.                                           *)
(***************************************************************************)
TableView ==
  [dealt |-> Seats, live |-> Live(h),
   allIn |-> {s \in Seats : h.pl[s].allIn},
   phase |-> h.phase, toAct |-> h.toAct, street |-> h.street,
   runout |-> h.runout, twice |-> h.runTwice,
   toShow |-> IF h.phase = "showdown"
              THEN Cardinality(Live(h)) - h.showIdx ELSE 0,
   contested |-> AtShowdown,
   broke |-> {s \in Seats : h.phase = "result" /\ h.pl[s].stack = 0}]

Table == INSTANCE TableHand WITH LastStreet <- River, hand <- TableView

ShowsItsPhases == Table!TableHandSpec

(***************************************************************************)
(* Liveness.  The table's timer fires the turn timeout, the next street    *)
(* and the next reveal; players need not do anything.  One of the three is *)
(* enabled exactly while the hand has no result (TurnIsOwed), so this is   *)
(* weak fairness of TimerSteps with its ENABLED written out.               *)
(***************************************************************************)
TimerSteps ==
  \/ \E s \in Seats : Timeout(s)
  \/ \E s1 \in DealtStrengths(1), s2 \in DealtStrengths(2) : Advance(s1, s2)
  \/ RevealNext

TimerFairness == <>[](h.phase # "result") => []<><<TimerSteps>>_vars

FairSpec == Spec /\ TimerFairness

\* Every hand ends, whatever the players do or leave undone.
HandEnds == <>(h.phase = "result")
=============================================================================
