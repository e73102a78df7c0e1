-------------------------- MODULE PokerHandRulesProofs --------------------------
(***************************************************************************)
(* The rules of a hand that no single state shows, proved from the         *)
(* invariant of PokerHandProofs: what a seat is offered is what it may do, *)
(* only a full raise reopens the betting, who has matched every bet can    *)
(* win every pot, what it wins is within its reach, and no card is seen    *)
(* that need not be.  Each is an invariant of its own on top of IInv,      *)
(* carried from method to method.                                          *)
(*                                                                         *)
(* The second half maps the hand to the one the table counts on            *)
(* (TableHand): the picture of a hand has a street, a phase and the seats  *)
(* in it, and every method of the hand turns it into a picture that one    *)
(* step of TableHand allows.                                               *)
(*                                                                         *)
(* The last part plays the hand with its cards (CardHand).  No method but  *)
(* the two that deal touches the street, the cards drawn, the boards or    *)
(* the strengths; those two lay the next stretch of the deck on the        *)
(* boards, and from the river on the strengths are the evaluator's         *)
(* numbers.                                                                *)
(***************************************************************************)
EXTENDS CardHand, PokerHandProofs

-----------------------------------------------------------------------------
(* Options and Apply *)

\* An all-in that only calls comes down to a call, any other to a wager of
\* everything the seat has.
LEMMA ResolvedKinds ==
  ASSUME NEW g \in Hand, NEW s \in Seats, NEW a \in Actions
  PROVE  LET r     == Resolve(g, s, a)
             short == g.currentBet > 0 /\ MaxTo(g, s) <= g.currentBet
             wager == IF g.currentBet = 0 THEN "bet" ELSE "raise"
         IN  /\ a.kind \in {"fold", "check", "call"} => r.kind = a.kind
             /\ a.kind \in {"bet", "raise"} => r.kind = wager /\ r.amount = a.amount
             /\ a.kind = "all_in" =>
                  /\ r.amount = MaxTo(g, s)
                  /\ r.kind = IF short THEN "call" ELSE wager
<1> DEFINE r == Resolve(g, s, a)
           shove == a.kind = "all_in"
           short == shove /\ g.currentBet > 0 /\ MaxTo(g, s) <= g.currentBet
           wager == a.kind \in {"bet", "raise"} \/ (shove /\ ~short)
<1>1. r.amount = IF shove THEN MaxTo(g, s) ELSE a.amount
  BY DEF Resolve
<1>2. r.kind = IF short THEN "call"
               ELSE IF wager THEN IF g.currentBet = 0 THEN "bet" ELSE "raise"
               ELSE a.kind
  BY DEF Resolve
<1> HIDE DEF r
<1>3. CASE a.kind \in {"fold", "check", "call"}
  BY <1>1, <1>2, <1>3 DEF r
<1>4. CASE a.kind \in {"bet", "raise"}
  BY <1>1, <1>2, <1>4 DEF r
<1>5. CASE a.kind = "all_in"
  BY <1>1, <1>2, <1>5 DEF r
<1> QED BY <1>3, <1>4, <1>5 DEF Actions

(***************************************************************************)
(* A seat that owes an action is offered exactly what the engine accepts.  *)
(* That it has chips and that the price is at least its own bet is what    *)
(* makes the two computations meet.                                        *)
(***************************************************************************)
LEMMA OfferedIsLegal ==
  ASSUME cfg \in HandConfig,
         NEW g \in Hand, Books(g), Price(g), NEW s \in Owing(g), NEW a \in Actions
  PROVE  Offered(g, s, a) <=> Legal(g, s, Resolve(g, s, a))
<1> DEFINE r == Resolve(g, s, a)
           cur == g.currentBet
           bet == g.pl[s].bet
           stack == g.pl[s].stack
           bb == cfg.bb
           last == g.lastRaiseSize
<1>1. s \in Seats /\ ~g.pl[s].allIn
  BY DEF Owing, Active, Live
<1>2. /\ cur \in Nat /\ bet \in Nat /\ stack \in Nat /\ bb \in Nat \ {0}
      /\ last \in Nat /\ last >= bb /\ bet <= cur /\ stack > 0
  BY <1>1, HandFields DEF Player, Price, Books, Sound, HandConfig
<1>3. /\ ToCall(g, s) = cur - bet /\ MaxTo(g, s) = bet + stack
      /\ MinRaiseTo(g) = cur + last
      /\ CallAmount(g, s) = IF cur - bet <= stack THEN cur - bet ELSE stack
  BY DEF ToCall, MaxTo, MinRaiseTo, CallAmount, Min2
<1>4. /\ a.kind \in {"fold", "check", "call"} => r.kind = a.kind
      /\ a.kind \in {"bet", "raise"} =>
           /\ r.kind = IF cur = 0 THEN "bet" ELSE "raise"
           /\ r.amount = a.amount
      /\ a.kind = "all_in" =>
           /\ r.amount = MaxTo(g, s)
           /\ r.kind = IF cur > 0 /\ MaxTo(g, s) <= cur THEN "call"
                       ELSE IF cur = 0 THEN "bet" ELSE "raise"
  BY <1>1, ResolvedKinds
<1>5. a.amount \in Nat
  BY StackAssumption DEF Actions
<1>6. RaiseRange(g, s) = IF cur = 0 THEN bb .. MaxTo(g, s)
                         ELSE IF MayRaise(g, s) /\ MaxTo(g, s) > cur
                              THEN cur + last .. MaxTo(g, s) ELSE {}
  BY <1>3 DEF RaiseRange
<1>7. OfferedAllIn(g, s) =
        IF cur = 0 \/ (MayRaise(g, s) /\ MaxTo(g, s) > cur) \/ stack <= cur - bet
        THEN MaxTo(g, s) ELSE 0
  BY <1>3 DEF OfferedAllIn
<1>8. /\ LegalBet(g, s, r.amount) <=>
           0 < r.amount /\ r.amount <= bet + stack
             /\ (r.amount >= bb \/ r.amount = bet + stack)
      /\ LegalRaise(g, s, r.amount) <=>
           MayRaise(g, s) /\ cur < r.amount /\ r.amount <= bet + stack
             /\ (r.amount >= cur + last \/ r.amount = bet + stack)
  BY <1>3 DEF LegalBet, LegalRaise
<1> HIDE DEF r, cur, bet, stack, bb, last
<1>9. CASE a.kind \in {"fold", "check", "call"}
  BY <1>2, <1>3, <1>4, <1>9 DEF Offered, Legal, r
<1>10. CASE a.kind \in {"bet", "raise"} /\ cur = 0
  BY <1>2, <1>3, <1>4, <1>5, <1>6, <1>7, <1>8, <1>10 DEF Offered, Legal, r, cur
<1>11. CASE a.kind \in {"bet", "raise"} /\ cur # 0
  BY <1>2, <1>3, <1>4, <1>5, <1>6, <1>7, <1>8, <1>11 DEF Offered, Legal, r, cur
<1>12. CASE a.kind = "all_in"
  BY <1>2, <1>3, <1>4, <1>7, <1>8, <1>12 DEF Offered, Legal, r
<1> QED BY <1>9, <1>10, <1>11, <1>12 DEF Actions

\* The buttons a player gets and the moves the engine takes are the same, for
\* every stack, price and blind.
THEOREM OptionsAreLegal == Spec => []OptionsMatchApply
<1>1. IInv => OptionsMatchApply
  <2> SUFFICES ASSUME IInv, NEW s \in Seats, NEW a \in Actions, OnTurn(s)
               PROVE  Offered(h, s, a) <=> Legal(h, s, Resolve(h, s, a))
    BY DEF OptionsMatchApply
  <2>1. cfg \in HandConfig /\ Good(h)
    BY IInvGivesGood
  <2>2. h \in Hand /\ Books(h) /\ Price(h) /\ s \in Owing(h)
    BY <2>1 DEF OnTurn, Good
  <2> QED BY <2>1, <2>2, OfferedIsLegal
<1> QED BY <1>1, Invariance, PTL

-----------------------------------------------------------------------------
(* A full raise reopens the betting *)

\* With nothing bet, the smallest raise is one big blind.
Opens(g) == g.phase = "betting" /\ g.currentBet = 0 => g.lastRaiseSize = cfg.bb

\* A street that has ended is not bet on.
LEMMA EndStreetOver ==
  ASSUME NEW g \in Hand
  PROVE  EndStreet(g).phase # "betting"
<1> DEFINE r == ReturnUncalled(g)
           k == Collect(r)
           c == [k EXCEPT !.toAct = NoSeat]
           d == [c EXCEPT !.phase = "deal_pending"]
           e == [d EXCEPT !.runout = TRUE]
           w == [c EXCEPT !.phase = "showdown", !.showIdx = 0, !.toAct = NoSeat]
<1>1. EndStreet(g) = IF c.street = River THEN Showdown(c)
                     ELSE IF Cardinality(Active(c)) < 2 THEN RevealAll(e) ELSE d
  BY DEF EndStreet
<1>2. k \in Hand
  BY ReturnUncalledFacts, CollectFacts
<1> HIDE DEF r, k
<1>3. c \in Hand
  BY <1>2 DEF Hand
<1>4. d \in Hand /\ d.phase = "deal_pending"
  BY <1>2 DEF Hand, Phases
<1>5. e \in Hand /\ e.phase = "deal_pending"
  BY <1>2 DEF Hand, Phases
<1>6. w.phase = "showdown"
  BY <1>2 DEF Hand
<1>7. Showdown(c) = w \/ Showdown(c) = AwardPots(c)
  BY DEF Showdown
<1> HIDE DEF c, d, e, w
<1>8. RevealAll(e).phase = "deal_pending"
  BY <1>5, RevealAllFacts DEF SameHand
<1>9. AwardPots(c).phase = "result"
  BY <1>3, AwardPotsFacts
<1> QED BY <1>1, <1>4, <1>6, <1>7, <1>8, <1>9

\* A round that settle lets go on is the round it was given.
LEMMA SettleGoesOn ==
  ASSUME NEW g \in Hand, Live(g) # {}, NEW start, Settle(g, start).phase = "betting"
  PROVE  LET c == Settle(g, start)
         IN  /\ c.pl = g.pl /\ c.currentBet = g.currentBet
             /\ c.lastFullBetLevel = g.lastFullBetLevel
             /\ c.lastRaiseSize = g.lastRaiseSize
<1> DEFINE c == [g EXCEPT !.toAct = NextActor(g, start)]
<1>1. CASE Cardinality(Live(g)) = 1
  <2>1. Settle(g, start) = FinishUncontested(g)
    BY <1>1 DEF Settle
  <2> QED BY <2>1, FinishUncontestedFacts
<1>2. CASE Cardinality(Live(g)) # 1 /\ RoundComplete(g)
  <2>1. Settle(g, start) = EndStreet(g)
    BY <1>2 DEF Settle
  <2> QED BY <2>1, EndStreetOver
<1>3. CASE Cardinality(Live(g)) # 1 /\ ~RoundComplete(g)
  <2>1. Settle(g, start) = c
    BY <1>3 DEF Settle
  <2>2. /\ c.pl = g.pl /\ c.currentBet = g.currentBet
        /\ c.lastFullBetLevel = g.lastFullBetLevel
        /\ c.lastRaiseSize = g.lastRaiseSize
    BY DEF Hand
  <2> HIDE DEF c
  <2> QED BY <2>1, <2>2
<1> QED BY <1>1, <1>2, <1>3

\* What a seat's own doing changes of the price: nothing, or it lifts it, and
\* by a full raise when it lifts the last full bet.
Lifts(c, g) ==
  /\ c.currentBet >= g.currentBet
  /\ c.currentBet = g.currentBet => c.lastRaiseSize = g.lastRaiseSize
  /\ c.lastFullBetLevel # g.lastFullBetLevel =>
       c.currentBet - g.currentBet >= g.lastRaiseSize

\* Whether the others may raise is up to what they did themselves.
OthersStay(c, g, s) ==
  \A t \in Seats \ {s} : /\ c.pl[t].hasActed = g.pl[t].hasActed
                         /\ c.pl[t].actedAtFullLevel = g.pl[t].actedAtFullLevel

\* A wager of less than the minimum leaves the last full bet where it is.
LEMMA WagerLifts ==
  ASSUME NEW g \in Hand, NEW s \in Seats, NEW amount \in Nat, g.currentBet < amount,
         NEW minTo \in Nat, minTo - g.currentBet >= g.lastRaiseSize
  PROVE  Lifts(WagerTo(g, s, amount, minTo), g)
         /\ OthersStay(WagerTo(g, s, amount, minTo), g, s)
<1> DEFINE q == Staked(g.pl[s], amount - g.pl[s].bet)
           c == Commit(g, s, amount - g.pl[s].bet)
           d == [c EXCEPT !.currentBet = amount, !.aggressor = s]
           e == [d EXCEPT !.lastRaiseSize = amount - g.currentBet,
                          !.lastFullBetLevel = amount]
<1>1. WagerTo(g, s, amount, minTo) = IF amount >= minTo THEN e ELSE d
  BY DEF WagerTo
<1>2. c = [g EXCEPT !.pl[s] = q]
  BY DEF Commit
<1> HIDE DEF q
<1>3. /\ d.currentBet = amount /\ d.lastFullBetLevel = g.lastFullBetLevel
      /\ d.lastRaiseSize = g.lastRaiseSize
      /\ \A t \in Seats \ {s} : d.pl[t] = g.pl[t]
  BY <1>2 DEF Hand
<1>4. /\ e.currentBet = amount /\ e.pl = d.pl
  BY <1>2 DEF Hand
<1> HIDE DEF c, d, e
<1>5. g.currentBet \in Nat /\ g.lastRaiseSize \in Nat
  BY HandFields
<1>6. CASE amount >= minTo
  <2>1. amount - g.currentBet >= g.lastRaiseSize
    BY <1>5, <1>6
  <2> QED BY <1>1, <1>3, <1>4, <1>5, <1>6, <2>1 DEF Lifts, OthersStay
<1>7. CASE ~(amount >= minTo)
  BY <1>1, <1>3, <1>5, <1>7 DEF Lifts, OthersStay
<1> QED BY <1>6, <1>7

\* Every legal action leaves the price as it is or lifts it.
LEMMA PerformLifts ==
  ASSUME cfg \in HandConfig,
         NEW g \in Hand, NEW s \in Seats, Price(g), Opens(g),
         g.phase = "betting", NEW a \in Actions,
         Legal(g, s, Resolve(g, s, a))
  PROVE  LET c == Perform(g, s, Resolve(g, s, a))
         IN  Lifts(c, g) /\ OthersStay(c, g, s)
<1> DEFINE r == Resolve(g, s, a)
           c == Perform(g, s, r)
<1>1. /\ r.kind \in {"fold", "check", "call", "bet", "raise"}
      /\ r.amount \in Nat
      /\ r.kind = "bet" => g.currentBet = 0
  BY ResolveFacts
<1> HIDE DEF r
<1>2. /\ g.currentBet \in Nat /\ g.lastRaiseSize \in Nat /\ cfg.bb \in Nat
      /\ g.lastFullBetLevel \in Nat
  BY HandFields DEF HandConfig
<1>3. ASSUME NEW q, c = [g EXCEPT !.pl[s] = q]
      PROVE  Lifts(c, g) /\ OthersStay(c, g, s)
  <2>1. /\ c.currentBet = g.currentBet /\ c.lastFullBetLevel = g.lastFullBetLevel
        /\ c.lastRaiseSize = g.lastRaiseSize
        /\ \A t \in Seats \ {s} : c.pl[t] = g.pl[t]
    BY <1>3 DEF Hand
  <2> HIDE DEF c
  <2> QED BY <1>2, <2>1 DEF Lifts, OthersStay
<1>4. CASE r.kind = "fold"
  <2>1. c = [g EXCEPT !.pl[s] = Folded(g.pl[s])]
    BY <1>4 DEF Perform, Fold
  <2> QED BY <1>3, <2>1 DEF r
<1>5. CASE r.kind = "check"
  <2>1. c = g
    BY <1>5 DEF Perform
  <2> QED BY <1>2, <2>1 DEF Lifts, OthersStay, r
<1>6. CASE r.kind = "call"
  <2>1. c = [g EXCEPT !.pl[s] = Staked(g.pl[s], CallAmount(g, s))]
    BY <1>6 DEF Perform, Commit
  <2> QED BY <1>3, <2>1 DEF r
<1>7. CASE r.kind = "bet"
  <2>1. r.amount > g.currentBet
    BY <1>1, <1>2, <1>7 DEF Legal, LegalBet, r
  <2>2. c = WagerTo(g, s, r.amount, cfg.bb)
    BY <1>7 DEF Perform
  <2>3. cfg.bb - g.currentBet >= g.lastRaiseSize
    BY <1>1, <1>2, <1>7 DEF Opens
  <2> HIDE DEF c
  <2> QED BY <1>1, <1>2, <2>1, <2>2, <2>3, WagerLifts DEF c, r
<1>8. CASE r.kind = "raise"
  <2>1. r.amount > g.currentBet
    BY <1>1, <1>2, <1>8 DEF Legal, LegalRaise, r
  <2>2. c = WagerTo(g, s, r.amount, MinRaiseTo(g))
    BY <1>8 DEF Perform
  <2>3. MinRaiseTo(g) \in Nat /\ MinRaiseTo(g) - g.currentBet >= g.lastRaiseSize
    BY <1>2 DEF MinRaiseTo
  <2> HIDE DEF c
  <2> QED BY <1>1, <2>1, <2>2, <2>3, WagerLifts DEF c, r
<1> QED BY <1>1, <1>4, <1>5, <1>6, <1>7, <1>8

\* One seat has acted; the betting may be open again for another one only
\* after a full raise.
LEMMA ActReopens ==
  ASSUME NEW g \in Hand, NEW c, Acting(c), NEW s \in Seats, Opens(g),
         cfg \in HandConfig, g.phase = "betting",
         Cardinality(Live(g)) >= 2, Live(g) \ {s} \subseteq Live(c),
         Lifts(c, g), OthersStay(c, g, s),
         Settle(Acted(c, s), s + 1).phase = "betting"
  PROVE  LET d == Settle(Acted(c, s), s + 1)
         IN  /\ Opens(d)
             /\ \A t \in Seats : ~MayRaise(g, t) /\ MayRaise(d, t)
                                   => d.currentBet - g.currentBet >= g.lastRaiseSize
<1> DEFINE k == Acted(c, s)
           d == Settle(k, s + 1)
<1>1. /\ k \in Hand /\ SameHand(k, c)
      /\ k.pl[s].hasActed = TRUE /\ k.pl[s].actedAtFullLevel = c.lastFullBetLevel
      /\ \A t \in Seats \ {s} : k.pl[t] = c.pl[t]
      /\ k.currentBet = c.currentBet /\ k.lastFullBetLevel = c.lastFullBetLevel
      /\ k.lastRaiseSize = c.lastRaiseSize
  <2> DEFINE q == [c.pl[s] EXCEPT !.hasActed = TRUE,
                                  !.actedAtFullLevel = c.lastFullBetLevel]
  <2>1. k = [c EXCEPT !.pl[s] = q]
    BY DEF Acted
  <2>2. c.pl[s] \in Player /\ c.lastFullBetLevel \in Nat
    BY HandFields DEF Acting
  <2>3. q \in Player /\ q.hasActed = TRUE /\ q.actedAtFullLevel = c.lastFullBetLevel
    BY <2>2 DEF Player
  <2> HIDE DEF k, q
  <2>4. /\ k \in Hand /\ k.pl[s] = q
        /\ \A t \in Seats \ {s} : k.pl[t] = c.pl[t]
        /\ k.currentBet = c.currentBet /\ k.lastFullBetLevel = c.lastFullBetLevel
        /\ k.lastRaiseSize = c.lastRaiseSize
    BY <2>1, <2>3, SeatReplaced DEF Acting
  <2>5. SameHand(k, c)
    BY ActedFacts DEF Acting, k
  <2> QED BY <2>3, <2>4, <2>5
<1>2. Live(k) # {}
  BY <1>1, OneLeft, SameLive DEF SameHand
<1> HIDE DEF k
<1>3. /\ d.pl = k.pl /\ d.currentBet = k.currentBet
      /\ d.lastFullBetLevel = k.lastFullBetLevel
      /\ d.lastRaiseSize = k.lastRaiseSize
  BY <1>1, <1>2, SettleGoesOn DEF k
<1> HIDE DEF d
<1>4. /\ c.lastFullBetLevel \in Nat /\ g.lastFullBetLevel \in Nat
      /\ c.currentBet \in Nat /\ g.currentBet \in Nat
      /\ c.lastRaiseSize \in Nat /\ g.lastRaiseSize \in Nat
  BY HandFields DEF Acting
<1>5. Opens(d)
  BY <1>1, <1>3, <1>4 DEF Opens, Lifts
<1>6. ASSUME NEW t \in Seats, ~MayRaise(g, t), MayRaise(d, t)
      PROVE  d.currentBet - g.currentBet >= g.lastRaiseSize
  <2>1. CASE t = s
    BY <1>1, <1>3, <1>4, <1>6, <2>1 DEF MayRaise
  <2>2. CASE t # s
    BY <1>1, <1>3, <1>4, <1>6, <2>2 DEF MayRaise, OthersStay, Lifts
  <2> QED BY <2>1, <2>2
<1> QED BY <1>5, <1>6 DEF d, k

\* A seat that leaves opens nothing.
LEMMA ForfeitReopens ==
  ASSUME NEW g, Good(g), Opens(g), NEW s \in Live(g),
         g.phase \in {"betting", "deal_pending"},
         AfterForfeit(Fold(g, s), s).phase = "betting"
  PROVE  LET d == AfterForfeit(Fold(g, s), s)
         IN  /\ Opens(d) /\ \A t \in Seats : MayRaise(d, t) <=> MayRaise(g, t)
<1> DEFINE c == Fold(g, s)
           d == AfterForfeit(c, s)
<1>1. g \in Hand /\ s \in Seats /\ Books(g) /\ Cardinality(Live(g)) >= 2
  BY LiveFacts DEF Good
<1>2. /\ c \in Hand /\ SameTable(c, g) /\ Live(c) = Live(g) \ {s}
  BY <1>1, FoldFacts
<1>3. /\ \A t \in Seats : /\ c.pl[t].hasActed = g.pl[t].hasActed
                          /\ c.pl[t].actedAtFullLevel = g.pl[t].actedAtFullLevel
      /\ c.currentBet = g.currentBet /\ c.lastFullBetLevel = g.lastFullBetLevel
      /\ c.lastRaiseSize = g.lastRaiseSize
  <2>1. g.pl[s] \in Player
    BY <1>1, HandFields
  <2> DEFINE q == Folded(g.pl[s])
  <2>2. /\ q \in Player /\ q.hasActed = g.pl[s].hasActed
        /\ q.actedAtFullLevel = g.pl[s].actedAtFullLevel
    BY <2>1, FoldedSound
  <2>3. c = [g EXCEPT !.pl[s] = q]
    BY DEF Fold
  <2> HIDE DEF c, q
  <2>4. /\ c.pl[s] = q /\ \A t \in Seats \ {s} : c.pl[t] = g.pl[t]
        /\ c.currentBet = g.currentBet
        /\ c.lastFullBetLevel = g.lastFullBetLevel
        /\ c.lastRaiseSize = g.lastRaiseSize
    BY <1>1, <2>2, <2>3, SeatReplaced
  <2> QED BY <2>2, <2>4
<1> HIDE DEF c
<1>4. Live(c) # {}
  BY <1>1, <1>2, OneLeft
<1>5. /\ d.pl = c.pl /\ d.currentBet = c.currentBet
      /\ d.lastFullBetLevel = c.lastFullBetLevel
      /\ d.lastRaiseSize = c.lastRaiseSize
      /\ g.phase = "betting"
  <2>1. d = FinishUncontested(c) \/ d = c \/ d = EndStreet(c) \/ d = Settle(c, s + 1)
    BY DEF AfterForfeit
  <2>2. d.phase = "betting"
    BY DEF c
  <2>3. c.phase = "deal_pending" => d = FinishUncontested(c) \/ d = c
    BY DEF AfterForfeit
  <2> HIDE DEF d
  <2>4. d # FinishUncontested(c) /\ d # EndStreet(c)
    BY <1>2, <1>4, <2>2, FinishUncontestedFacts, EndStreetOver
  <2>5. c.phase = "betting"
    BY <1>2, <2>2, <2>3, <2>4 DEF SameTable
  <2>6. CASE d = c
    BY <1>2, <2>5, <2>6 DEF SameTable
  <2>7. CASE d = Settle(c, s + 1)
    BY <1>2, <1>4, <2>2, <2>5, <2>7, SettleGoesOn DEF SameTable
  <2> QED BY <2>1, <2>4, <2>6, <2>7
<1> HIDE DEF d
<1>6. Opens(d)
  BY <1>3, <1>5 DEF Opens
<1>7. \A t \in Seats : MayRaise(d, t) <=> MayRaise(g, t)
  BY <1>3, <1>5 DEF MayRaise
<1> QED BY <1>6, <1>7 DEF c, d

OpensInv == IInv /\ Opens(h)

\* The three steps that come from one betting phase to the next.
LEMMA BettingStep ==
  OpensInv /\ Next =>
    /\ Opens(h)'
    /\ \A t \in Seats :
         h.phase = "betting" /\ h'.phase = "betting"
           /\ ~MayRaise(h, t) /\ MayRaise(h', t)
         => h'.currentBet - h.currentBet >= h.lastRaiseSize
<1> SUFFICES ASSUME OpensInv, Next
             PROVE  /\ Opens(h)'
                    /\ \A t \in Seats :
                         h.phase = "betting" /\ h'.phase = "betting"
                           /\ ~MayRaise(h, t) /\ MayRaise(h', t)
                         => h'.currentBet - h.currentBet >= h.lastRaiseSize
  OBVIOUS
<1>1. cfg \in HandConfig /\ Good(h) /\ h \in Hand /\ Opens(h)
  BY IInvGivesGood DEF Good, OpensInv
<1>2. cfg' = cfg
  BY DEF Next, Apply, Timeout, Forfeit, Advance, RunItTwice, RevealNext, ShowCards,
         Over, vars
<1> DEFINE Goal == /\ Opens(h')
                   /\ \A t \in Seats :
                        h.phase = "betting" /\ ~MayRaise(h, t) /\ MayRaise(h', t)
                        => h'.currentBet - h.currentBet >= h.lastRaiseSize
<1>3. SUFFICES ASSUME h'.phase = "betting" PROVE Goal
  BY <1>2 DEF Opens
<1>4. ASSUME NEW s \in Seats, NEW a \in Actions, Apply(s, a) PROVE Goal
  <2> DEFINE c == Perform(h, s, Resolve(h, s, a))
  <2>1. /\ h.phase = "betting" /\ Legal(h, s, Resolve(h, s, a))
        /\ h' = Settle(Acted(c, s), s + 1)
    BY <1>4 DEF Apply, OnTurn
  <2>2. Books(h) /\ Price(h) /\ Cardinality(Live(h)) >= 2
    BY <1>1, <2>1 DEF Good
  <2>3. Acting(c) /\ Live(h) \ {s} \subseteq Live(c)
    BY <1>1, <2>1, <2>2, PerformFacts
  <2>4. Lifts(c, h) /\ OthersStay(c, h, s)
    BY <1>1, <2>1, <2>2, PerformLifts
  <2> HIDE DEF c
  <2> QED BY <1>1, <1>3, <2>1, <2>2, <2>3, <2>4, ActReopens
<1>5. ASSUME NEW s \in Seats, Timeout(s) PROVE Goal
  <2> DEFINE c == IF h.pl[s].bet = h.currentBet THEN h ELSE Fold(h, s)
  <2>1. /\ h.phase = "betting"
        /\ h' = Settle(Acted(c, s), s + 1)
    BY <1>5 DEF Timeout, OnTurn
  <2>2. Books(h) /\ Price(h) /\ Cardinality(Live(h)) >= 2
    BY <1>1, <2>1 DEF Good
  <2>3. Acting(h) /\ Acting(Fold(h, s)) /\ Live(Fold(h, s)) = Live(h) \ {s}
    BY <1>1, <2>1, <2>2, FoldFacts DEF Acting, SameTable
  <2>4. Acting(c) /\ Live(h) \ {s} \subseteq Live(c)
    BY <2>3
  <2>5. Lifts(c, h) /\ OthersStay(c, h, s)
    <3> DEFINE f == Fold(h, s)
               q == Folded(h.pl[s])
    <3>1. f = [h EXCEPT !.pl[s] = q]
      BY DEF Fold
    <3> HIDE DEF f, q
    <3>2. /\ f.currentBet = h.currentBet /\ f.lastFullBetLevel = h.lastFullBetLevel
          /\ f.lastRaiseSize = h.lastRaiseSize
          /\ \A t \in Seats \ {s} : f.pl[t] = h.pl[t]
      BY <1>1, <3>1 DEF Hand
    <3>3. h.currentBet \in Nat /\ h.lastRaiseSize \in Nat
      BY <1>1, HandFields
    <3>4. c = h \/ c = f
      BY DEF f
    <3> HIDE DEF c
    <3> QED BY <3>2, <3>3, <3>4 DEF Lifts, OthersStay
  <2> HIDE DEF c
  <2> QED BY <1>1, <1>3, <2>1, <2>2, <2>4, <2>5, ActReopens
<1>6. ASSUME NEW s \in Seats, Forfeit(s) PROVE Goal
  <2>1. /\ s \in Live(h) /\ h.phase \in {"betting", "deal_pending"}
        /\ h' = AfterForfeit(Fold(h, s), s)
    BY <1>6 DEF Forfeit
  <2> QED BY <1>1, <1>3, <2>1, ForfeitReopens
<1>7. ASSUME NEW s1 \in DealtStrengths(1), NEW s2 \in DealtStrengths(2),
             Advance(s1, s2)
      PROVE  Goal
  <2> DEFINE d == Dealing(h, s1, s2)
             n == NewRound(d)
             start == NextSeat(cfg.button)
  <2>1. /\ h.phase = "deal_pending"
        /\ h' = IF ~h.runout THEN Settle(n, start)
                ELSE IF d.street = River THEN Showdown(d)
                ELSE d
    BY <1>7 DEF Advance
  <2>2. /\ Books(h) /\ Cardinality(Live(h)) >= 2 /\ NothingInFront(h)
        /\ h.street < River
    BY <1>1, <2>1 DEF Good
  <2>3. /\ d \in Hand /\ d.pl = h.pl /\ d.phase = "deal_pending"
    BY <1>1, <2>1, <2>2, DealtStrengthsType, DealingFacts
  <2>4. n.lastRaiseSize = cfg.bb
    <3> HIDE DEF d
    <3>1. d \in Hand
      BY <2>3
    <3> QED BY <3>1 DEF NewRound, Hand
  <2> HIDE DEF d
  <2>5. Books(d) /\ NothingInFront(d) /\ Live(d) = Live(h)
    BY <2>2, <2>3, SameLive DEF Books, NothingInFront
  <2>6. n \in Hand /\ Live(n) # {}
    <3>1. n \in Hand /\ Live(n) = Live(d)
      BY <1>1, <2>3, <2>5, NewRoundFacts
    <3> QED BY <2>2, <2>5, <3>1, OneLeft
  <2> HIDE DEF n, start
  <2>7. h' = Settle(n, start)
    <3>1. Showdown(d).phase # "betting"
      <4> DEFINE w == [d EXCEPT !.phase = "showdown", !.showIdx = 0, !.toAct = NoSeat]
      <4>1. Showdown(d) = w \/ Showdown(d) = AwardPots(d)
        BY DEF Showdown
      <4>2. w.phase = "showdown"
        BY <2>3 DEF Hand
      <4> HIDE DEF w
      <4> QED BY <2>3, <4>1, <4>2, AwardPotsFacts
    <3> QED BY <1>3, <2>1, <2>3, <3>1
  <2>8. h'.lastRaiseSize = cfg.bb
    BY <1>3, <2>4, <2>6, <2>7, SettleGoesOn
  <2> QED BY <2>1, <2>8 DEF Opens
<1>8. ASSUME RunItTwice PROVE Goal
  <2>1. h'.phase = "deal_pending"
    BY <1>1, <1>8 DEF RunItTwice, CanRunItTwice, Hand
  <2> QED BY <1>3, <2>1
<1>9. ASSUME RevealNext PROVE Goal
  <2> DEFINE s == OnShow(h)
             p == IF h.pl[s].revealed THEN h.pl[s]
                  ELSE IF MustShow(h, s) THEN Faced(h.pl[s])
                  ELSE [h.pl[s] EXCEPT !.mucked = TRUE]
             r == [h EXCEPT !.showIdx = @ + 1, !.pl[s] = p]
  <2>1. h.phase = "showdown" /\ (h' = r \/ h' = AwardPots(r))
    BY <1>9 DEF RevealNext
  <2>2. r.phase = "showdown"
    <3> HIDE DEF s, p
    <3> QED BY <1>1, <2>1 DEF Hand
  <2>3. AwardPots(r).phase = "result"
    <3> HIDE DEF r
    <3> QED BY DEF AwardPots, Finish
  <2> HIDE DEF r
  <2> QED BY <1>3, <2>1, <2>2, <2>3
<1>10. ASSUME NEW s \in Seats, NEW cards \in SUBSET {1, 2}, ShowCards(s, cards)
       PROVE  Goal
  <2>1. h'.phase = "result"
    BY <1>1, <1>10 DEF ShowCards, Hand
  <2> QED BY <1>3, <2>1
<1>11. ASSUME Over PROVE Goal
  BY <1>3, <1>11 DEF Over, vars
<1> QED BY <1>4, <1>5, <1>6, <1>7, <1>8, <1>9, <1>10, <1>11 DEF Next

\* A short all-in never reopens the betting for a seat that has acted: the
\* seat may raise again in the round only after the price went up by a full
\* raise, however many short all-ins came before.
THEOREM FullRaisesReopen == Spec => ReopenedByFullRaise
<1>1. Init => OpensInv
  <2> SUFFICES ASSUME Init PROVE OpensInv
    OBVIOUS
  <2>1. PICK stacks \in [Seats -> StartStacks] : h = NewHand(stacks)
    BY DEF Init
  <2>2. cfg \in Configs
    BY DEF Init
  <2>3. PICK g, first : /\ first \in Int /\ Opening(g)
                        /\ NewHand(stacks) = Settle(g, first)
    BY <2>2, NewHandOpens
  <2>4. g \in Hand /\ Live(g) # {} /\ g.currentBet > 0
    BY <2>3, SeatsFacts, FS_EmptySet DEF Opening
  <2>5. h.phase = "betting" => h.currentBet = g.currentBet
    BY <2>1, <2>3, <2>4, SettleGoesOn
  <2>6. Opens(h)
    BY <2>4, <2>5, HandFields DEF Opens
  <2> QED BY <2>6, InitEstablishes DEF OpensInv
<1>2. OpensInv /\ [Next]_vars => OpensInv'
  <2> SUFFICES ASSUME OpensInv, [Next]_vars PROVE OpensInv'
    OBVIOUS
  <2>1. IInv'
    BY NextPreserves DEF OpensInv
  <2>2. CASE Next
    BY <2>1, <2>2, BettingStep DEF OpensInv
  <2>3. CASE UNCHANGED vars
    BY <2>1, <2>3 DEF OpensInv, Opens, vars
  <2> QED BY <2>2, <2>3
<1>3. OpensInv /\ [Next]_vars =>
        [\A s \in Seats :
           /\ h.phase = "betting" /\ h'.phase = "betting"
           /\ ~MayRaise(h, s) /\ MayRaise(h', s)
           => h'.currentBet - h.currentBet >= h.lastRaiseSize]_vars
  BY BettingStep
<1> QED BY <1>1, <1>2, <1>3, PTL DEF Spec, ReopenedByFullRaise

-----------------------------------------------------------------------------
(* Who has matched every bet is eligible for every pot *)

(***************************************************************************)
(* Nobody has more in the pots than a seat that can still bet, or that bet *)
(* in this round.                                                          *)
(***************************************************************************)
Even(g) ==
  \A s \in Live(g) :
    ~g.pl[s].allIn \/ g.pl[s].bet > 0
      => \A t \in Seats : g.pl[t].committed <= g.pl[s].committed

\* What Even looks at.
SameBets(c, g) ==
  \A s \in Seats : /\ c.pl[s].folded = g.pl[s].folded
                   /\ c.pl[s].allIn = g.pl[s].allIn /\ c.pl[s].bet = g.pl[s].bet
                   /\ c.pl[s].committed = g.pl[s].committed

\* Nothing else decides whether the pots are even.
LEMMA EvenStays ==
  ASSUME NEW c, NEW g, SameBets(c, g), Even(g)
  PROVE  Even(c)
<1>1. Live(c) = Live(g) /\ Live(g) \subseteq Seats
  BY SameLive, LiveFacts DEF SameBets
<1> QED BY <1>1 DEF Even, SameBets

(***************************************************************************)
(* The uncalled bet is what one seat bet above everybody else, and goes    *)
(* back to it.                                                             *)
(***************************************************************************)
LEMMA UncalledIsTheExcess ==
  ASSUME NEW g \in Hand
  PROVE  LET top == TopBettor(g)
             r   == ReturnUncalled(g)
         IN  /\ top \in Seats /\ r \in Hand
             /\ \A t \in Seats : g.pl[t].bet <= g.pl[top].bet
             /\ \A t \in Seats \ {top} : r.pl[t] = g.pl[t]
             /\ Uncalled(g) > 0 =>
                  /\ r.pl[top] = Returned(g.pl[top], Uncalled(g))
                  /\ \A t \in Seats \ {top} :
                       /\ g.pl[t].bet < g.pl[top].bet
                       /\ g.pl[t].bet <= r.pl[top].bet
             /\ ~(Uncalled(g) > 0) => r = g
<1> DEFINE top == TopBettor(g)
           n == Uncalled(g)
           r == ReturnUncalled(g)
           others == Seats \ {top}
           bet == [s \in Seats |-> g.pl[s].bet]
           M == Max({0} \cup {bet[s] : s \in others})
           c == [g EXCEPT !.pl[top] = Returned(g.pl[top], n)]
<1>1. \A s \in Seats : bet[s] = g.pl[s].bet /\ bet[s] \in Nat /\ g.pl[s] \in Player
  BY HandFields DEF Player
<1>2. top \in Seats /\ n \in Int /\ n <= g.pl[top].bet /\ r \in Hand
  BY UncalledFacts, ReturnUncalledFacts
<1>3. \A t \in Seats : \/ g.pl[t].bet < g.pl[top].bet
                       \/ g.pl[t].bet = g.pl[top].bet /\ top <= t
  <2> DEFINE down == [s \in Seats |-> 0 - bet[s]]
  <2>1. IsFiniteSet(Seats) /\ Seats # {}
    BY SeatsFacts, FS_EmptySet
  <2>2. \A s \in Seats : down[s] \in Int
    BY <1>1
  <2>3. PICK m \in Seats : \A t \in Seats : down[m] <= down[t]
    <3> HIDE DEF down, bet
    <3> QED BY <2>1, <2>2, SmallestExists
  <2>4. \A t \in Seats : bet[t] <= bet[m]
    BY <1>1, <2>3
  <2> DEFINE S == {s \in Seats : bet[s] = bet[m]}
             id == [s \in S |-> s]
  <2>5. S \in SUBSET Seats /\ m \in S
    OBVIOUS
  <2>10. IsFiniteSet(S)
    BY <2>5, SeatsFacts
  <2>6. \A s \in S : id[s] \in Int
    BY SeatsFacts
  <2>7. PICK k \in S : \A t \in S : id[k] <= id[t]
    <3> HIDE DEF S, id
    <3> QED BY <2>5, <2>6, <2>10, SmallestExists
  <2>8. \A t \in Seats : bet[t] < bet[k] \/ (bet[t] = bet[k] /\ k <= t)
    BY <1>1, <2>4, <2>7
  <2>9. \E s \in Seats : \A t \in Seats :
          \/ g.pl[t].bet < g.pl[s].bet
          \/ g.pl[t].bet = g.pl[s].bet /\ s <= t
    BY <1>1, <2>5, <2>8
  <2> QED BY <2>9 DEF TopBettor
<1>4. n = g.pl[top].bet - M /\ M \in Nat /\ \A t \in others : bet[t] <= M
  <2>1. others \in SUBSET Seats
    OBVIOUS
  <2>2. IsFiniteSet(others)
    BY <2>1, SeatsFacts
  <2>3. {g.pl[s].bet : s \in others} = {bet[s] : s \in others}
    OBVIOUS
  <2>4. n = g.pl[top].bet - M
    BY <2>3 DEF Uncalled
  <2> HIDE DEF bet, others, n
  <2>5. M \in Nat /\ \A t \in others : bet[t] <= M
    BY <1>1, <2>1, <2>2, LargestAmount
  <2> QED BY <2>4, <2>5
<1>5. r = IF n > 0 THEN c ELSE g
  BY DEF ReturnUncalled
<1>6. \A t \in Seats \ {top} : c.pl[t] = g.pl[t]
  BY DEF Hand
<1>7. c.pl[top] = Returned(g.pl[top], n)
  BY <1>2, HandFields DEF Hand
<1> HIDE DEF c, M, n, top
<1>8. n > 0 => /\ g.pl[top].bet - n = M /\ M < g.pl[top].bet
               /\ Returned(g.pl[top], n).bet = g.pl[top].bet - n
  BY <1>1, <1>2, <1>4 DEF Returned, Player
<1>9. \A t \in Seats : g.pl[t].bet <= g.pl[top].bet
  BY <1>1, <1>2, <1>3
<1>10. n > 0 => r = c
  BY <1>5
<1>11. ~(n > 0) => r = g
  BY <1>5
<1> HIDE DEF r
<1>12. n > 0 => \A t \in Seats \ {top} : g.pl[t].bet < g.pl[top].bet
                                         /\ g.pl[t].bet <= r.pl[top].bet
  BY <1>1, <1>2, <1>4, <1>7, <1>8, <1>10
<1> QED BY <1>2, <1>6, <1>7, <1>9, <1>10, <1>11, <1>12 DEF r, n, top

(***************************************************************************)
(* When everybody has called, the bets go into the pots and leave them     *)
(* even, a bet that came back included.                                    *)
(***************************************************************************)
LEMMA CollectedEven ==
  ASSUME NEW g \in Hand, Books(g), Price(g), Even(g), RoundComplete(g)
  PROVE  Even(Collect(ReturnUncalled(g)))
<1> DEFINE top == TopBettor(g)
           r == ReturnUncalled(g)
           c == Collect(r)
           n == Uncalled(g)
<1>1. /\ top \in Seats /\ r \in Hand
      /\ \A t \in Seats : g.pl[t].bet <= g.pl[top].bet
      /\ \A t \in Seats \ {top} : r.pl[t] = g.pl[t]
      /\ n > 0 =>
           /\ r.pl[top] = Returned(g.pl[top], n)
           /\ \A t \in Seats \ {top} : /\ g.pl[t].bet < g.pl[top].bet
                                       /\ g.pl[t].bet <= r.pl[top].bet
      /\ ~(n > 0) => r = g
  BY UncalledIsTheExcess
<1>2. n \in Int /\ n <= g.pl[top].bet
  BY UncalledFacts
<1>3. \A s \in Seats : g.pl[s] \in Player /\ r.pl[s] \in Player
  BY <1>1, HandFields
<1> HIDE DEF r, top, n
<1>4. \A s \in Seats : c.pl[s] = Pooled(r.pl[s])
  BY <1>1 DEF Collect, Hand
<1> HIDE DEF c
<1>5. \A s \in Seats : /\ c.pl[s].folded = r.pl[s].folded
                       /\ c.pl[s].allIn = r.pl[s].allIn /\ c.pl[s].bet = 0
                       /\ c.pl[s].committed = r.pl[s].committed + r.pl[s].bet
  BY <1>3, <1>4 DEF Pooled, Player
<1>6. n > 0 => /\ r.pl[top].folded = g.pl[top].folded /\ r.pl[top].allIn = FALSE
               /\ r.pl[top].committed = g.pl[top].committed
               /\ r.pl[top].bet <= g.pl[top].bet
  <2>1. \A p \in Player : \A k \in Int :
          /\ Returned(p, k).folded = p.folded /\ Returned(p, k).allIn = FALSE
          /\ Returned(p, k).committed = p.committed
          /\ Returned(p, k).bet = p.bet - k
    BY DEF Returned, Player
  <2>2. g.pl[top].bet \in Nat /\ g.pl[top] \in Player
    BY <1>1, <1>3 DEF Player
  <2>3. n > 0 => g.pl[top].bet - n <= g.pl[top].bet
    BY <1>2, <2>2
  <2> QED BY <1>1, <1>2, <2>1, <2>2, <2>3
<1> DEFINE CEven == \A s \in Seats : ~c.pl[s].folded /\ ~c.pl[s].allIn =>
                     \A t \in Seats : c.pl[t].committed <= c.pl[s].committed
<1>13. CEven => Even(c)
  <2>1. Live(c) = {s \in Seats : ~c.pl[s].folded}
    BY DEF Live
  <2>2. \A s \in Seats : ~(c.pl[s].bet > 0)
    BY <1>5
  <2> QED BY <2>1, <2>2 DEF Even
<1>7. SUFFICES ASSUME NEW s \in Seats, ~c.pl[s].folded, ~c.pl[s].allIn,
                      NEW t \in Seats
               PROVE  c.pl[t].committed <= c.pl[s].committed
  <2>1. SUFFICES Even(c)
    BY DEF c, r
  <2> QED BY <1>13
<1>8. s \in Seats /\ ~r.pl[s].folded /\ ~r.pl[s].allIn
  BY <1>5, <1>7
<1>9. \A x \in Seats : /\ g.pl[x].bet \in Nat /\ g.pl[x].committed \in Nat
                       /\ r.pl[x].bet \in Nat /\ r.pl[x].committed \in Nat
  BY <1>3 DEF Player
<1>10. g.currentBet \in Nat /\ \A x \in Seats : g.pl[x].bet <= g.currentBet
  BY HandFields DEF Price
<1>11. CASE n > 0 /\ s = top
  <2>1. s \in Live(g) /\ g.pl[s].bet > 0
    BY <1>2, <1>6, <1>8, <1>9, <1>11 DEF Live
  <2>2. g.pl[t].committed <= g.pl[s].committed
    BY <2>1 DEF Even
  <2>3. r.pl[t].bet <= r.pl[s].bet
    BY <1>1, <1>9, <1>11
  <2>4. r.pl[t].committed <= r.pl[s].committed
    BY <1>1, <1>6, <1>9, <1>11, <2>2
  <2> QED BY <1>5, <1>8, <1>9, <2>3, <2>4
<1>12. CASE ~(n > 0) \/ s # top
  <2>1. r.pl[s] = g.pl[s]
    BY <1>1, <1>8, <1>12
  <2>2. s \in Active(g) /\ s \in Live(g)
    BY <1>8, <2>1 DEF Active, Live
  <2>3. g.pl[s].bet = g.currentBet
    BY <2>2 DEF RoundComplete
  <2>4. ~(n > 0)
    <3>1. CASE s # top
      BY <1>1, <1>8, <1>9, <1>10, <2>3, <3>1
    <3> QED BY <1>12, <3>1
  <2>5. r = g
    BY <1>1, <2>4
  <2>6. g.pl[t].committed <= g.pl[s].committed /\ g.pl[t].bet <= g.pl[s].bet
    BY <1>8, <1>10, <2>2, <2>3, <2>5 DEF Even
  <2> QED BY <1>5, <1>8, <1>9, <2>5, <2>6
<1> QED BY <1>11, <1>12

\* A result, or even pots.
EvenOn(g) == g.phase # "result" => Even(g)

\* The end of a street leaves the pots even.
LEMMA EndStreetEven ==
  ASSUME NEW g \in Hand, Books(g), Price(g), Even(g), RoundComplete(g)
  PROVE  EvenOn(EndStreet(g))
<1> DEFINE k == Collect(ReturnUncalled(g))
           c == [k EXCEPT !.toAct = NoSeat]
           d == [c EXCEPT !.phase = "deal_pending"]
           e == [d EXCEPT !.runout = TRUE]
           w == [c EXCEPT !.phase = "showdown", !.showIdx = 0, !.toAct = NoSeat]
<1>1. EndStreet(g) = IF c.street = River THEN Showdown(c)
                     ELSE IF Cardinality(Active(c)) < 2 THEN RevealAll(e) ELSE d
  BY DEF EndStreet
<1>2. k \in Hand /\ Even(k)
  BY ReturnUncalledFacts, CollectFacts, CollectedEven
<1> HIDE DEF k
<1>3. c \in Hand
  BY <1>2 DEF Hand
<1>4. d \in Hand /\ d.pl = k.pl
  BY <1>2 DEF Hand, Phases
<1>5. e \in Hand /\ e.pl = k.pl
  BY <1>2 DEF Hand, Phases
<1>6. w.pl = k.pl
  BY <1>2 DEF Hand
<1>7. Showdown(c) = w \/ Showdown(c) = AwardPots(c)
  BY DEF Showdown
<1> HIDE DEF c, d, e, w
<1>8. SameBets(d, k) /\ SameBets(w, k)
  BY <1>4, <1>6 DEF SameBets
<1>9. SameBets(RevealAll(e), k)
  <2>1. \A s \in Seats : RevealAll(e).pl[s] = Faced(e.pl[s])
                         \/ RevealAll(e).pl[s] = e.pl[s]
    BY <1>5 DEF RevealAll, Hand
  <2>2. \A p \in Player : /\ Faced(p).folded = p.folded /\ Faced(p).allIn = p.allIn
                          /\ Faced(p).bet = p.bet
                          /\ Faced(p).committed = p.committed
    BY DEF Faced, Player
  <2>3. \A s \in Seats : e.pl[s] \in Player
    BY <1>5, HandFields
  <2> QED BY <1>5, <2>1, <2>2, <2>3 DEF SameBets
<1>10. AwardPots(c).phase = "result"
  BY <1>3, AwardPotsFacts
<1> QED BY <1>1, <1>2, <1>7, <1>8, <1>9, <1>10, EvenStays DEF EvenOn

\* So does a settled round.
LEMMA SettleEven ==
  ASSUME NEW g \in Hand, Books(g), Price(g), Even(g), Live(g) # {}, NEW start
  PROVE  EvenOn(Settle(g, start))
<1> DEFINE c == [g EXCEPT !.toAct = NextActor(g, start)]
<1>1. CASE Cardinality(Live(g)) = 1
  <2>1. Settle(g, start) = FinishUncontested(g)
    BY <1>1 DEF Settle
  <2> QED BY <2>1, FinishUncontestedFacts DEF EvenOn
<1>2. CASE Cardinality(Live(g)) # 1 /\ RoundComplete(g)
  <2>1. Settle(g, start) = EndStreet(g)
    BY <1>2 DEF Settle
  <2> QED BY <1>2, <2>1, EndStreetEven
<1>3. CASE Cardinality(Live(g)) # 1 /\ ~RoundComplete(g)
  <2>1. Settle(g, start) = c
    BY <1>3 DEF Settle
  <2>2. c.pl = g.pl
    BY DEF Hand
  <2> HIDE DEF c
  <2>3. SameBets(c, g)
    BY <2>2 DEF SameBets
  <2> QED BY <2>1, <2>3, EvenStays DEF EvenOn
<1> QED BY <1>1, <1>2, <1>3

\* A fold makes no seat uneven.
LEMMA FoldEven ==
  ASSUME NEW g \in Hand, Even(g), NEW s \in Seats
  PROVE  Even(Fold(g, s))
<1> DEFINE q == Folded(g.pl[s])
           c == Fold(g, s)
<1>1. g.pl[s] \in Player
  BY HandFields
<1>2. /\ q \in Player /\ q.folded = TRUE /\ q.allIn = g.pl[s].allIn
      /\ q.bet = g.pl[s].bet /\ q.committed = g.pl[s].committed
  BY <1>1, FoldedSound DEF Folded, Player
<1>3. c = [g EXCEPT !.pl[s] = q]
  BY DEF Fold
<1>4. Live(c) \subseteq Live(g)
  BY FoldFacts
<1> HIDE DEF c, q
<1>5. c.pl[s] = q /\ \A t \in Seats \ {s} : c.pl[t] = g.pl[t]
  BY <1>2, <1>3, SeatReplaced
<1>6. \A t \in Seats : /\ c.pl[t].allIn = g.pl[t].allIn /\ c.pl[t].bet = g.pl[t].bet
                       /\ c.pl[t].committed = g.pl[t].committed
  BY <1>2, <1>5
<1>7. Live(g) \subseteq Seats
  BY LiveFacts
<1> QED BY <1>4, <1>6, <1>7 DEF Even, c

\* Nor does what a seat that can bet puts up.
LEMMA PerformEven ==
  ASSUME NEW g \in Hand, Even(g), NEW s \in Active(g), NEW a \in Actions,
         Legal(g, s, Resolve(g, s, a))
  PROVE  Even(Perform(g, s, Resolve(g, s, a)))
<1> DEFINE r == Resolve(g, s, a)
           c == Perform(g, s, r)
<1>1. r.kind \in {"fold", "check", "call", "bet", "raise"} /\ s \in Seats
      /\ s \in Live(g) /\ ~g.pl[s].allIn
  BY ResolveFacts, LiveFacts DEF Active
<1> HIDE DEF r
<1>2. CASE r.kind = "fold"
  <2>1. c = Fold(g, s)
    BY <1>2 DEF Perform
  <2> QED BY <1>1, <2>1, FoldEven DEF r
<1>3. CASE r.kind = "check"
  <2>1. c = g
    BY <1>3 DEF Perform
  <2> QED BY <2>1 DEF r
<1>4. CASE r.kind \in {"call", "bet", "raise"}
  <2>1. PICK n : c.pl = Commit(g, s, n).pl
    <3>1. \A amount, minTo :
            WagerTo(g, s, amount, minTo).pl = Commit(g, s, amount - g.pl[s].bet).pl
      BY DEF WagerTo, Commit, Hand
    <3>2. CASE r.kind = "call"
      <4>1. c = Commit(g, s, CallAmount(g, s))
        BY <3>2 DEF Perform
      <4> QED BY <4>1
    <3>3. CASE r.kind = "bet"
      <4>1. c = WagerTo(g, s, r.amount, cfg.bb)
        BY <3>3 DEF Perform
      <4> HIDE DEF c
      <4> QED BY <3>1, <4>1
    <3>4. CASE r.kind = "raise"
      <4>1. c = WagerTo(g, s, r.amount, MinRaiseTo(g))
        BY <3>4 DEF Perform
      <4> HIDE DEF c
      <4> QED BY <3>1, <4>1
    <3> QED BY <1>4, <3>2, <3>3, <3>4
  <2> HIDE DEF c
  <2>2. c.pl = [g.pl EXCEPT ![s] = Staked(g.pl[s], n)]
    BY <2>1 DEF Commit, Hand
  <2>3. g.pl \in [Seats -> Player] /\ g.pl[s] \in Player
    BY <1>1, HandFields
  <2>4. /\ c.pl[s] = Staked(g.pl[s], n)
        /\ \A t \in Seats \ {s} : c.pl[t] = g.pl[t]
    BY <1>1, <2>2, <2>3
  <2>5. /\ c.pl[s].folded = g.pl[s].folded
        /\ c.pl[s].committed = g.pl[s].committed
    BY <2>3, <2>4 DEF Staked, Player
  <2>6. \A t \in Seats : /\ c.pl[t].folded = g.pl[t].folded
                         /\ c.pl[t].committed = g.pl[t].committed
    BY <2>4, <2>5
  <2>7. Live(c) = Live(g) /\ Live(g) \subseteq Seats
    BY <2>6, SameLive, LiveFacts
  <2> QED BY <1>1, <2>4, <2>6, <2>7 DEF Even, c, r
<1> QED BY <1>1, <1>2, <1>3, <1>4 DEF r

\* Noting that a seat has acted changes no chips.
LEMMA ActedEven ==
  ASSUME NEW g \in Hand, NEW s \in Seats, Even(g)
  PROVE  Even(Acted(g, s))
<1> DEFINE q == [g.pl[s] EXCEPT !.hasActed = TRUE,
                                !.actedAtFullLevel = g.lastFullBetLevel]
           c == Acted(g, s)
<1>1. g.pl[s] \in Player /\ g.lastFullBetLevel \in Nat
  BY HandFields
<1>2. /\ q \in Player /\ q.folded = g.pl[s].folded /\ q.allIn = g.pl[s].allIn
      /\ q.bet = g.pl[s].bet /\ q.committed = g.pl[s].committed
  BY <1>1 DEF Player
<1>3. c = [g EXCEPT !.pl[s] = q]
  BY DEF Acted
<1> HIDE DEF c, q
<1>4. c.pl[s] = q /\ \A t \in Seats \ {s} : c.pl[t] = g.pl[t]
  BY <1>2, <1>3, SeatReplaced
<1>5. SameBets(c, g)
  BY <1>2, <1>4 DEF SameBets
<1> QED BY <1>5, EvenStays DEF c

\* So does a seat that leaves out of turn.
LEMMA AfterForfeitEven ==
  ASSUME NEW g, Good(g), Even(g), NEW s \in Live(g),
         g.phase \in {"betting", "deal_pending"}
  PROVE  EvenOn(AfterForfeit(Fold(g, s), s))
<1> DEFINE c == Fold(g, s)
<1>1. g \in Hand /\ s \in Seats /\ Books(g) /\ Cardinality(Live(g)) >= 2
  BY LiveFacts DEF Good
<1>2. /\ c \in Hand /\ SameTable(c, g) /\ Books(c) /\ Even(c)
      /\ Price(g) => Price(c)
      /\ Live(c) = Live(g) \ {s}
  BY <1>1, FoldFacts, FoldEven
<1> HIDE DEF c
<1>3. Live(c) # {}
  BY <1>1, <1>2, OneLeft
<1>4. CASE Cardinality(Live(c)) = 1
  <2>1. AfterForfeit(c, s) = FinishUncontested(c)
    BY <1>4 DEF AfterForfeit
  <2> QED BY <1>2, <1>3, <2>1, FinishUncontestedFacts DEF EvenOn, c
<1>5. CASE Cardinality(Live(c)) # 1 /\ g.phase = "deal_pending"
  <2>1. AfterForfeit(c, s) = c
    BY <1>2, <1>5 DEF AfterForfeit, SameTable
  <2> QED BY <1>2, <2>1 DEF EvenOn, c
<1>6. CASE Cardinality(Live(c)) # 1 /\ g.phase = "betting"
  <2>1. Price(c) /\ c.phase = "betting"
    BY <1>1, <1>2, <1>6 DEF Good, SameTable
  <2>2. AfterForfeit(c, s) = IF c.toAct = s THEN Settle(c, s + 1)
                             ELSE IF RoundComplete(c) THEN EndStreet(c) ELSE c
    BY <1>6, <2>1 DEF AfterForfeit
  <2>3. EvenOn(Settle(c, s + 1)) /\ EvenOn(c)
    BY <1>2, <1>3, <2>1, SettleEven DEF EvenOn
  <2>4. RoundComplete(c) => EvenOn(EndStreet(c))
    BY <1>2, <2>1, EndStreetEven
  <2> QED BY <2>2, <2>3, <2>4 DEF c
<1> QED BY <1>4, <1>5, <1>6

\* A new betting round moves no chips.
LEMMA NewRoundEven ==
  ASSUME NEW g \in Hand, Even(g)
  PROVE  Even(NewRound(g))
<1> DEFINE Fresh(p) == [p EXCEPT !.hasActed = FALSE, !.actedAtFullLevel = 0]
           c == NewRound(g)
<1>1. \A s \in Seats : c.pl[s] = Fresh(g.pl[s])
  BY DEF NewRound, Hand
<1>2. \A p \in Player : /\ Fresh(p).folded = p.folded /\ Fresh(p).allIn = p.allIn
                        /\ Fresh(p).bet = p.bet
                        /\ Fresh(p).committed = p.committed
  BY DEF Player
<1> HIDE DEF Fresh, c
<1>3. \A s \in Seats : g.pl[s] \in Player
  BY HandFields
<1>4. SameBets(c, g)
  BY <1>1, <1>2, <1>3 DEF SameBets
<1> QED BY <1>4, EvenStays DEF c

\* One step per action of Next.
LEMMA NextEven == IInv /\ EvenOn(h) /\ Next => EvenOn(h')
<1> SUFFICES ASSUME IInv, EvenOn(h), Next PROVE EvenOn(h')
  OBVIOUS
<1>1. cfg \in Configs /\ cfg \in HandConfig /\ Good(h) /\ h \in Hand
  BY IInvGivesGood DEF Good
<1>2. ASSUME NEW s \in Seats, NEW a \in Actions, Apply(s, a) PROVE EvenOn(h')
  <2> DEFINE c == Perform(h, s, Resolve(h, s, a))
             d == Acted(c, s)
  <2>1. /\ h.phase = "betting" /\ Legal(h, s, Resolve(h, s, a))
        /\ h.toAct = s /\ h' = Settle(d, s + 1)
    BY <1>2 DEF Apply, OnTurn
  <2>2. Books(h) /\ Price(h) /\ Cardinality(Live(h)) >= 2 /\ Even(h)
    BY <1>1, <2>1 DEF Good, EvenOn
  <2>3. s \in Active(h)
    BY <1>1, <2>1 DEF Good, Owing
  <2>4. Acting(c) /\ Live(h) \ {s} \subseteq Live(c) /\ Even(c)
    BY <1>1, <2>1, <2>2, <2>3, PerformFacts, PerformEven
  <2> HIDE DEF c
  <2>5. /\ d \in Hand /\ SameHand(d, c) /\ Books(d) /\ Price(d) /\ Even(d)
    BY <2>4, ActedFacts, ActedEven DEF Acting
  <2> HIDE DEF d
  <2>6. Live(d) = Live(c)
    BY <2>5, SameLive DEF SameHand
  <2>7. Live(d) # {}
    BY <2>2, <2>4, <2>6, OneLeft
  <2> QED BY <2>1, <2>5, <2>7, SettleEven
<1>3. ASSUME NEW s \in Seats, Timeout(s) PROVE EvenOn(h')
  <2> DEFINE c == IF h.pl[s].bet = h.currentBet THEN h ELSE Fold(h, s)
             d == Acted(c, s)
  <2>1. h.phase = "betting" /\ h' = Settle(d, s + 1)
    BY <1>3 DEF Timeout, OnTurn
  <2>2. Books(h) /\ Price(h) /\ Cardinality(Live(h)) >= 2 /\ Even(h)
    BY <1>1, <2>1 DEF Good, EvenOn
  <2>3. /\ Acting(h) /\ Acting(Fold(h, s)) /\ Live(Fold(h, s)) = Live(h) \ {s}
        /\ Even(Fold(h, s))
    BY <1>1, <2>1, <2>2, FoldFacts, FoldEven DEF Acting, SameTable
  <2>4. Acting(c) /\ Live(h) \ {s} \subseteq Live(c) /\ Even(c)
    BY <2>2, <2>3
  <2> HIDE DEF c
  <2>5. /\ d \in Hand /\ SameHand(d, c) /\ Books(d) /\ Price(d) /\ Even(d)
    BY <2>4, ActedFacts, ActedEven DEF Acting
  <2> HIDE DEF d
  <2>6. Live(d) = Live(c)
    BY <2>5, SameLive DEF SameHand
  <2>7. Live(d) # {}
    BY <2>2, <2>4, <2>6, OneLeft
  <2> QED BY <2>1, <2>5, <2>7, SettleEven
<1>4. ASSUME NEW s \in Seats, Forfeit(s) PROVE EvenOn(h')
  <2>1. /\ s \in Live(h) /\ h.phase \in {"betting", "deal_pending"}
        /\ h' = AfterForfeit(Fold(h, s), s)
    BY <1>4 DEF Forfeit
  <2>2. Even(h)
    BY <2>1 DEF EvenOn
  <2> QED BY <1>1, <2>1, <2>2, AfterForfeitEven
<1>5. ASSUME NEW s1 \in DealtStrengths(1), NEW s2 \in DealtStrengths(2),
             Advance(s1, s2)
      PROVE  EvenOn(h')
  <2> DEFINE d == Dealing(h, s1, s2)
             n == NewRound(d)
             w == [d EXCEPT !.phase = "showdown", !.showIdx = 0, !.toAct = NoSeat]
  <2>1. /\ h.phase = "deal_pending"
        /\ h' = IF ~h.runout THEN Settle(n, NextSeat(cfg.button))
                ELSE IF d.street = River THEN Showdown(d)
                ELSE d
    BY <1>5 DEF Advance
  <2>2. /\ Books(h) /\ Live(h) # {} /\ NothingInFront(h) /\ h.street < River
    <3>1. Books(h) /\ Cardinality(Live(h)) >= 2 /\ NothingInFront(h) /\ h.street < River
      BY <1>1, <2>1 DEF Good
    <3> QED BY <3>1, OneLeft
  <2>3. d \in Hand /\ d.pl = h.pl
    BY <1>1, <2>1, <2>2, DealtStrengthsType, DealingFacts
  <2>4. Even(h)
    BY <2>1 DEF EvenOn
  <2> HIDE DEF d
  <2>5. /\ Books(d) /\ NothingInFront(d) /\ Live(d) = Live(h) /\ SameBets(d, h)
    BY <2>2, <2>3, SameLive DEF Books, NothingInFront, SameBets
  <2>6. Even(d)
    BY <2>4, <2>5, EvenStays
  <2>7. CASE ~h.runout
    <3>1. /\ n \in Hand /\ Books(n) /\ Price(n) /\ Live(n) = Live(d) /\ Even(n)
      BY <1>1, <2>3, <2>5, <2>6, NewRoundFacts, NewRoundEven
    <3> HIDE DEF n
    <3>2. EvenOn(Settle(n, NextSeat(cfg.button)))
      BY <2>2, <2>5, <3>1, SettleEven
    <3> QED BY <2>1, <2>7, <3>2
  <2>8. CASE h.runout /\ d.street = River
    <3>1. Showdown(d) = w \/ Showdown(d) = AwardPots(d)
      BY DEF Showdown
    <3>2. w.pl = d.pl
      BY <2>3 DEF Hand
    <3> HIDE DEF w
    <3>3. SameBets(w, d)
      BY <3>2 DEF SameBets
    <3>4. EvenOn(w)
      BY <2>6, <3>3, EvenStays DEF EvenOn
    <3>5. EvenOn(AwardPots(d))
      BY <2>3, AwardPotsFacts DEF EvenOn
    <3> QED BY <2>1, <2>8, <3>1, <3>4, <3>5
  <2>9. CASE h.runout /\ d.street # River
    BY <2>1, <2>6, <2>9 DEF EvenOn
  <2> QED BY <2>7, <2>8, <2>9
<1>6. ASSUME RunItTwice PROVE EvenOn(h')
  <2> DEFINE c == [h EXCEPT !.runTwice = TRUE]
  <2>1. h.phase = "deal_pending" /\ h' = c
    BY <1>6 DEF RunItTwice, CanRunItTwice
  <2>2. c.pl = h.pl /\ Even(h)
    BY <1>1, <2>1 DEF Hand, EvenOn
  <2> HIDE DEF c
  <2>3. SameBets(c, h)
    BY <2>2 DEF SameBets
  <2> QED BY <2>1, <2>2, <2>3, EvenStays DEF EvenOn
<1>7. ASSUME RevealNext PROVE EvenOn(h')
  <2> DEFINE s == OnShow(h)
             q == h.pl[s]
             p == IF q.revealed THEN q
                  ELSE IF MustShow(h, s) THEN Faced(q)
                  ELSE [q EXCEPT !.mucked = TRUE]
             r == [h EXCEPT !.showIdx = h.showIdx + 1, !.pl[s] = p]
  <2>1. /\ h.phase = "showdown"
        /\ h' = IF r.showIdx >= Cardinality(Live(r)) THEN AwardPots(r) ELSE r
    BY <1>7 DEF RevealNext
  <2>2. s \in Seats => /\ p \in Player
                       /\ q \in Sound => p \in Sound
                       /\ p.folded = q.folded /\ p.allIn = q.allIn
                       /\ p.bet = q.bet /\ p.committed = q.committed
    <3>1. \A x \in Player :
            LET m == [x EXCEPT !.mucked = TRUE]
            IN  /\ m \in Player /\ (x \in Sound => m \in Sound)
                /\ m.folded = x.folded /\ m.allIn = x.allIn
                /\ m.bet = x.bet /\ m.committed = x.committed
      BY DEF Player, Sound
    <3>2. \A x \in Player :
            /\ Faced(x) \in Player /\ (x \in Sound => Faced(x) \in Sound)
            /\ Faced(x).folded = x.folded /\ Faced(x).allIn = x.allIn
            /\ Faced(x).bet = x.bet /\ Faced(x).committed = x.committed
      BY DEF Faced, Player, Sound
    <3>3. s \in Seats => q \in Player
      BY <1>1, HandFields
    <3> HIDE DEF s, q
    <3> QED BY <3>1, <3>2, <3>3
  <2> HIDE DEF p, s
  <2>3. r \in Hand
    BY <1>1, <2>2, RevealStepFacts
  <2>4. SameBets(r, h)
    <3>1. \A t \in Seats : r.pl[t] = IF t = s THEN p ELSE h.pl[t]
      BY <1>1 DEF Hand
    <3> HIDE DEF r
    <3> QED BY <2>2, <3>1 DEF SameBets
  <2> HIDE DEF r
  <2>5. EvenOn(r)
    BY <2>1, <2>4, EvenStays DEF EvenOn
  <2>6. EvenOn(AwardPots(r))
    BY <2>3, AwardPotsFacts DEF EvenOn
  <2> QED BY <2>1, <2>5, <2>6
<1>8. ASSUME NEW s \in Seats, NEW cards \in SUBSET {1, 2}, ShowCards(s, cards)
      PROVE  EvenOn(h')
  <2>1. h.phase = "result" /\ h' = [h EXCEPT !.pl[s] = Exposed(h.pl[s], cards)]
    BY <1>8 DEF ShowCards
  <2>2. h'.phase = h.phase
    BY <1>1, <2>1 DEF Hand
  <2> QED BY <2>1, <2>2 DEF EvenOn
<1>9. ASSUME Over PROVE EvenOn(h')
  BY <1>9 DEF Over, vars
<1> QED BY <1>2, <1>3, <1>4, <1>5, <1>6, <1>7, <1>8, <1>9 DEF Next

\* With nothing but antes in the pot a hand opens even.
LEMMA OpeningEven ==
  ASSUME NEW g, Opening(g), cfg \in HandConfig, \A s \in Seats : cfg.dead[s] = 0
  PROVE  Even(g)
<1>1. cfg.ante \in Nat
  BY DEF HandConfig
<1>2. \A s \in Seats : /\ g.pl[s].committed <= cfg.ante
                       /\ g.pl[s].stack + g.pl[s].bet > 0
                            => g.pl[s].committed = cfg.ante
  BY <1>1 DEF Opening, AntedUp
<1>3. \A s \in Seats : /\ g.pl[s].stack \in Nat /\ g.pl[s].bet \in Nat
                       /\ ~g.pl[s].allIn => g.pl[s].stack > 0
  BY DEF Opening, Books, Sound, Player
<1>4. Live(g) \subseteq Seats
  BY LiveFacts
<1>5. \A s \in Seats : ~g.pl[s].allIn \/ g.pl[s].bet > 0
                         => g.pl[s].committed = cfg.ante
  BY <1>2, <1>3
<1> QED BY <1>2, <1>4, <1>5 DEF Even

\* The seat in the hand that has paid the most can win every pot.
LEMMA BiggestCanWinAll ==
  ASSUME NEW P, IsTable(P), NEW s \in LiveIn(P),
         \A t \in LiveIn(P) : P[t].total <= P[s].total
  PROVE  \A l \in DOMAIN BuildPots(P) : s \in BuildPots(P)[l].eligible
<1> DEFINE sliced == Sliced(P)
           rest   == Contributed(P) - Total(AmountsOf(sliced))
<1>1. DOMAIN sliced \subseteq Levels(P) /\ Levels(P) \subseteq Nat
  BY SlicedFacts, LevelsType
<1>2. \A l \in DOMAIN sliced : sliced[l] = [amount |-> Slice(P, l),
                                            eligible |-> EligibleAt(P, l)]
  BY DEF Sliced
<1>3. \A l \in Levels(P) : s \in EligibleAt(P, l)
  <2>1. \A t \in LiveIn(P) : P[t].total \in Nat
    BY DEF LiveIn, IsTable
  <2>2. \A l \in Levels(P) : EligibleAt(P, l) # {}
    BY LevelHasContender
  <2>3. SUFFICES ASSUME NEW l \in Levels(P) PROVE s \in EligibleAt(P, l)
    OBVIOUS
  <2>4. PICK t \in LiveIn(P) : P[t].total >= l
    BY <2>2 DEF EligibleAt
  <2>5. l \in Nat
    BY <1>1
  <2>6. P[s].total >= l
    BY <2>1, <2>4, <2>5
  <2> QED BY <2>6 DEF EligibleAt
<1>4. BuildPots(P) =
        IF rest = 0 THEN sliced
        ELSE IF DOMAIN sliced = {}
             THEN [l \in {0} |-> [amount |-> rest, eligible |-> LiveIn(P)]]
             ELSE [sliced EXCEPT ![Max(DOMAIN sliced)].amount = @ + rest]
  BY DEF BuildPots
<1> HIDE DEF sliced, rest
<1>5. \A l \in DOMAIN sliced : s \in sliced[l].eligible
  BY <1>1, <1>2, <1>3
<1>6. CASE rest = 0
  BY <1>4, <1>5, <1>6
<1>7. CASE rest # 0 /\ DOMAIN sliced = {}
  BY <1>4, <1>7
<1>8. CASE rest # 0 /\ DOMAIN sliced # {}
  <2> DEFINE m == Max(DOMAIN sliced)
  <2> HIDE DEF m
  <2>1. BuildPots(P) = [sliced EXCEPT ![m].amount = @ + rest]
    BY <1>4, <1>8 DEF m
  <2>2. /\ DOMAIN BuildPots(P) = DOMAIN sliced
        /\ \A l \in DOMAIN sliced :
             BuildPots(P)[l] = IF l = m
                               THEN [sliced[l] EXCEPT !.amount = @ + rest]
                               ELSE sliced[l]
    BY <2>1
  <2>3. \A l \in DOMAIN sliced :
          [sliced[l] EXCEPT !.amount = @ + rest].eligible = sliced[l].eligible
    BY <1>2
  <2> QED BY <1>5, <2>2, <2>3
<1> QED BY <1>6, <1>7, <1>8

\* So every pot of an even hand is in reach of a seat with chips behind.
LEMMA EvenIsEligible ==
  ASSUME NEW g \in Hand, Even(g), NEW s \in Active(g)
  PROVE  \A l \in DOMAIN PotsOf(g) : s \in PotsOf(g)[l].eligible
<1> DEFINE P == Contributions(g)
<1>1. /\ DOMAIN P = Seats
      /\ \A t \in Seats : /\ P[t].total = g.pl[t].committed
                          /\ P[t].folded = g.pl[t].folded
  BY DEF Contributions
<1> HIDE DEF P
<1>2. IsTable(P)
  <2>1. \A t \in Seats : P[t].total \in Nat
    BY <1>1, HandFields DEF Player
  <2> QED BY <1>1, <2>1, SeatsFacts DEF IsTable
<1>3. LiveIn(P) = Live(g) /\ Live(g) \subseteq Seats
  BY <1>1, LiveFacts DEF LiveIn, Live
<1>4. s \in LiveIn(P) /\ \A t \in LiveIn(P) : P[t].total <= P[s].total
  BY <1>1, <1>3 DEF Active, Even
<1> QED BY <1>2, <1>4, BiggestCanWinAll DEF PotsOf, P

MatchInv == IInv /\ (NoDeadBlind => EvenOn(h))

LEMMA MatchStart == Init => MatchInv
<1> SUFFICES ASSUME Init PROVE MatchInv
  OBVIOUS
<1>1. PICK stacks \in [Seats -> StartStacks] : h = NewHand(stacks)
  BY DEF Init
<1>2. cfg \in Configs
  BY DEF Init
<1>3. cfg \in HandConfig
  BY <1>2, ConfigAssumption
<1>4. PICK g, first : /\ first \in Int /\ Opening(g)
                      /\ NewHand(stacks) = Settle(g, first)
  BY <1>2, NewHandOpens
<1>5. /\ g \in Hand /\ Live(g) # {} /\ Books(g) /\ Price(g)
  BY <1>4, SeatsFacts, FS_EmptySet DEF Opening
<1>6. NoDeadBlind => Even(g)
  BY <1>3, <1>4, OpeningEven DEF NoDeadBlind
<1>7. NoDeadBlind => EvenOn(h)
  BY <1>1, <1>4, <1>5, <1>6, SettleEven
<1> QED BY <1>7, InitEstablishes DEF MatchInv

LEMMA MatchStep == MatchInv /\ [Next]_vars => MatchInv'
<1> SUFFICES ASSUME MatchInv, [Next]_vars PROVE MatchInv'
  OBVIOUS
<1>1. IInv'
  BY NextPreserves DEF MatchInv
<1>2. cfg' = cfg
  BY DEF Next, Apply, Timeout, Forfeit, Advance, RunItTwice, RevealNext,
         ShowCards, Over, vars
<1>3. NoDeadBlind' <=> NoDeadBlind
  BY <1>2 DEF NoDeadBlind
<1>4. CASE Next
  <2>1. NoDeadBlind => EvenOn(h')
    BY <1>4, NextEven DEF MatchInv
  <2>2. EvenOn(h') <=> EvenOn(h)'
    BY DEF EvenOn, Even, Live
  <2> QED BY <1>1, <1>3, <2>1, <2>2 DEF MatchInv
<1>5. CASE UNCHANGED vars
  BY <1>1, <1>3, <1>5 DEF MatchInv, EvenOn, Even, Live, vars
<1> QED BY <1>4, <1>5

(***************************************************************************)
(* MatchedMeansEligible in every hand without a dead blind: with one the   *)
(* poster has more in the pot than a seat that called (hand_dead_blind).   *)
(***************************************************************************)
THEOREM MatchedIsEligible == Spec => []MatchedCanWin
<1>1. MatchInv => MatchedCanWin
  <2> SUFFICES ASSUME MatchInv, NoDeadBlind, h.phase \in {"deal_pending", "showdown"}
               PROVE  \A s \in Active(h), l \in DOMAIN PotsOf(h) :
                        s \in PotsOf(h)[l].eligible
    BY DEF MatchedCanWin, MatchedMeansEligible
  <2>1. h \in Hand /\ Even(h)
    BY DEF MatchInv, IInv, TypeOK, EvenOn
  <2> QED BY <2>1, EvenIsEligible
<1> QED BY <1>1, MatchStart, MatchStep, PTL DEF Spec

-----------------------------------------------------------------------------
(* What a seat can win from everybody *)

\* The levels up to c, and what the seats have put in up to c.
Under(P, c)  == {l \in Levels(P) : l <= c}
Upto(P, c) == [s \in DOMAIN P |-> Min2(P[s].total, c)]

\* Up to a level, a seat's chips are cut into pieces without a gap and
\* without an overlap.
LEMMA PiecesUpto ==
  ASSUME NEW P, IsTable(P), NEW s \in DOMAIN P, NEW c \in Nat
  PROVE  /\ ColumnSum(Cut(P), Under(P, c), s) <= Upto(P, c)[s]
         /\ c \in Levels(P) => ColumnSum(Cut(P), Under(P, c), s) = Upto(P, c)[s]
<1> DEFINE L == Under(P, c)
           f == [l \in L |-> Cut(P)[l][s]]
           place == [x \in Chips(f) |-> Below(P, x[1]) + x[2]]
           t == P[s].total
           m == Min2(t, c)
<1>1. t \in Nat /\ m \in Nat /\ m <= t /\ m <= c /\ (m = t \/ m = c)
  BY DEF IsTable, Min2
<1>2. L \subseteq Levels(P) /\ L \subseteq Nat /\ IsFiniteSet(L) /\ \A l \in L : l <= c
  <2>1. L \in SUBSET Levels(P)
    BY DEF Under
  <2> QED BY <2>1, LevelsType, FS_Subset DEF Under
<1>3. IsLedger(Cut(P), L, DOMAIN P)
  BY <1>2, CutIsLedger DEF IsLedger
<1>4. IsAmounts(f, L) /\ ColumnSum(Cut(P), L, s) = Total(f)
  <2> HIDE DEF L
  <2> QED BY <1>3, LedgerSums DEF ColumnSum
<1>5. \A l \in L : f[l] = Piece(P, l, s)
  BY <1>2 DEF Cut
<1> HIDE DEF t, L
<1>6. ASSUME NEW x \in Chips(f)
      PROVE  /\ x[1] \in L /\ x[2] \in Nat /\ x = <<x[1], x[2]>>
             /\ x[1] \in Nat /\ Below(P, x[1]) \in Nat
             /\ x[2] > 0 /\ Below(P, x[1]) + x[2] <= x[1]
             /\ Below(P, x[1]) + x[2] <= m
  <2>1. PICK l \in L : x \in {l} \X (1 .. f[l])
    BY DEF Chips
  <2>2. x[1] = l /\ x[2] \in 1 .. f[l] /\ x = <<x[1], x[2]>>
    BY <2>1
  <2>3. /\ f[l] = Piece(P, l, s) /\ f[l] \in Nat /\ l \in Nat /\ l <= c
        /\ f[l] > 0 => /\ Below(P, l) + f[l] <= l /\ Below(P, l) + f[l] <= t
    BY <1>2, <1>5, PieceType DEF t
  <2>4. Below(P, l) \in Nat
    BY BelowType
  <2> HIDE DEF f, m
  <2> QED BY <1>1, <2>1, <2>2, <2>3, <2>4
<1> HIDE DEF f, m
<1>7. place \in [Chips(f) -> 1 .. m]
  BY <1>1, <1>6
<1>8. ASSUME NEW x \in Chips(f), NEW y \in Chips(f), place[x] = place[y]
      PROVE  x = y
  <2>1. Below(P, x[1]) + x[2] = Below(P, y[1]) + y[2]
    BY <1>8
  <2>2. /\ x[1] \in Levels(P) /\ y[1] \in Levels(P) /\ x[1] \in Nat /\ y[1] \in Nat
        /\ x[1] < y[1] => x[1] <= Below(P, y[1])
        /\ y[1] < x[1] => y[1] <= Below(P, x[1])
    BY <1>2, <1>6, BelowFacts
  <2>3. x[1] = y[1]
    BY <1>6, <2>1, <2>2
  <2>4. x[2] = y[2]
    BY <1>6, <2>1, <2>3
  <2>5. x = <<x[1], x[2]>> /\ y = <<y[1], y[2]>>
    BY <1>6
  <2> QED BY <2>3, <2>4, <2>5
<1>9. IsFiniteSet(1 .. m) /\ Cardinality(1 .. m) = m
  BY <1>1, FS_Interval
<1>10. Cardinality(Chips(f)) <= m
  <2> HIDE DEF place
  <2>1. place \in Injection(Chips(f), 1 .. m)
    BY <1>7, <1>8 DEF Injection, IsInjective
  <2> QED BY <1>9, <2>1, FS_Injection
<1>11. ASSUME c \in Levels(P) PROVE Cardinality(Chips(f)) = m
  <2> HIDE DEF place
  <2>1. ASSUME NEW i \in 1 .. m PROVE \E x \in Chips(f) : place[x] = i
    <3> DEFINE A == {l \in L : i <= l}
               id == [l \in A |-> l]
    <3>1. A \subseteq Nat /\ A # {} /\ IsFiniteSet(A) /\ A \subseteq L
      <4>1. A \in SUBSET L
        OBVIOUS
      <4>2. c \in L
        BY <1>11 DEF L, Under
      <4>3. i <= c
        BY <1>1
      <4> QED BY <1>2, <4>1, <4>2, <4>3, FS_Subset
    <3>2. \A a \in A : id[a] \in Int /\ id[a] = a
      BY <3>1
    <3> HIDE DEF id
    <3>3. PICK l \in A : \A k \in A : l <= k
      <4>1. PICK l \in A : \A k \in A : id[l] <= id[k]
        <5> HIDE DEF A
        <5> QED BY <3>1, <3>2, SmallestExists
      <4> QED BY <3>2, <4>1
    <3>4. l \in L /\ l \in Levels(P) /\ i <= l /\ l \in Nat
      BY <1>2, <3>1
    <3>5. Below(P, l) < i
      <4>1. Below(P, l) \in Nat /\ (Below(P, l) = 0 \/ (Below(P, l) \in Levels(P) /\ Below(P, l) < l))
        <5> DEFINE S == {k \in Levels(P) : k < l}
                   T == {0} \cup S
        <5>1. Below(P, l) = Max(T)
          BY DEF Below
        <5>2. S \in SUBSET Levels(P)
          OBVIOUS
        <5>3. IsFiniteSet(S) /\ IsFiniteSet({0})
          BY <5>2, LevelsType, FS_Subset, FS_Singleton, Zenon
        <5>4. IsFiniteSet(T)
          BY <5>3, FS_Union
        <5>5. T \subseteq Int /\ T # {}
          BY LevelsType
        <5>6. Max(T) \in T
          <6> HIDE DEF T
          <6> QED BY <5>4, <5>5, MaxOfFinite
        <5>7. Below(P, l) \in Nat
          BY BelowType
        <5> QED BY <5>1, <5>6, <5>7
      <4> DEFINE b == Below(P, l)
      <4>2. b \in Levels(P) /\ b < l => ~(i <= b)
        <5>1. SUFFICES ASSUME b \in Levels(P), b < l, i <= b PROVE FALSE
          OBVIOUS
        <5>2. b \in L
          <6>1. l <= c
            BY <1>2, <3>4
          <6> QED BY <3>4, <4>1, <5>1, <6>1 DEF L, Under
        <5>3. b \in A
          BY <5>1, <5>2
        <5>4. l <= b
          BY <3>3, <5>3
        <5> QED BY <3>4, <4>1, <5>1, <5>4
      <4> QED BY <4>1, <4>2
    <3> DEFINE x == <<l, i - Below(P, l)>>
    <3>6. Below(P, l) \in Nat /\ Below(P, l) <= l
      BY <3>4, BelowFacts
    <3>7. i <= t
      BY <1>1
    <3>8. f[l] = Piece(P, l, s)
      BY <1>5, <3>4
    <3>9. i - Below(P, l) \in 1 .. f[l]
      <4>1. Piece(P, l, s) = Min2(t, l) - Min2(t, Below(P, l))
        BY DEF Piece, t
      <4> HIDE DEF A
      <4> QED BY <1>1, <3>4, <3>5, <3>6, <3>7, <3>8, <4>1 DEF Min2
    <3>10. x \in Chips(f)
      <4>1. DOMAIN f = L
        BY <1>4 DEF IsAmounts
      <4> QED BY <3>4, <3>9, <4>1 DEF Chips
    <3>11. place[x] = i
      <4>1. place[x] = Below(P, x[1]) + x[2]
        BY <3>10 DEF place
      <4>2. x[1] = l /\ x[2] = i - Below(P, l)
        OBVIOUS
      <4> HIDE DEF A, x
      <4> QED BY <3>6, <4>1, <4>2
    <3> QED BY <3>10, <3>11
  <2>2. place \in Bijection(Chips(f), 1 .. m)
    <3>1. place \in Injection(Chips(f), 1 .. m)
      BY <1>7, <1>8 DEF Injection, IsInjective
    <3>2. place \in Surjection(Chips(f), 1 .. m)
      BY <1>7, <2>1 DEF Surjection
    <3> QED BY <3>1, <3>2 DEF Bijection
  <2>3. IsFiniteSet(Chips(f))
    BY <1>4, ChipsFinite
  <2>4. Cardinality(Chips(f)) = Cardinality(1 .. m)
    <3> DEFINE S == Chips(f)
               T == 1 .. m
    <3>1. place \in Bijection(S, T) /\ IsFiniteSet(S)
      BY <2>2, <2>3
    <3> HIDE DEF S, T
    <3>2. Cardinality(S) = Cardinality(T)
      BY <3>1, FS_Bijection DEF ExistsBijection
    <3> QED BY <3>2 DEF S, T
  <2> QED BY <1>9, <2>4
<1>12. Upto(P, c)[s] = m
  BY DEF Upto, m, t
<1> QED BY <1>4, <1>10, <1>11, <1>12 DEF Total, L

\* The slices up to c hold no more than what was put in up to c, and all of
\* it when c is a level.
LEMMA SlicesUpto ==
  ASSUME NEW P, IsTable(P), NEW c \in Nat
  PROVE  LET held == Total([l \in Under(P, c) |-> Slice(P, l)])
             put  == Total(Upto(P, c))
         IN  /\ IsAmounts([l \in Under(P, c) |-> Slice(P, l)], Under(P, c))
             /\ IsAmounts(Upto(P, c), DOMAIN P)
             /\ held <= put /\ (c \in Levels(P) => held = put)
<1> DEFINE L == Under(P, c)
           D == DOMAIN P
           rows == [l \in L |-> RowSum(Cut(P), l, D)]
           columns == [s \in D |-> ColumnSum(Cut(P), L, s)]
           slices == [l \in L |-> Slice(P, l)]
           put == Upto(P, c)
<1>1. L \subseteq Levels(P) /\ IsFiniteSet(L)
  <2>1. L \in SUBSET Levels(P)
    BY DEF Under
  <2> QED BY <2>1, LevelsType, FS_Subset
<1>2. IsLedger(Cut(P), L, D)
  BY <1>1, CutIsLedger DEF IsLedger
<1>3. IsAmounts(rows, L) /\ IsAmounts(columns, D) /\ Total(rows) = Total(columns)
  <2> HIDE DEF L, D
  <2> QED BY <1>2, LedgerSums, TotalOfTotals
<1>4. rows = slices
  BY <1>1, CutIsLedger
<1>5. IsAmounts(put, D)
  BY DEF IsAmounts, IsTable, Upto, Min2
<1>6. \A s \in D : /\ columns[s] <= put[s]
                   /\ c \in Levels(P) => columns[s] = put[s]
  BY PiecesUpto
<1> HIDE DEF rows, columns, put, slices, L, D
<1>7. Total(columns) <= Total(put)
  BY <1>3, <1>5, <1>6, TotalAtMost
<1>8. c \in Levels(P) => Total(columns) = Total(put)
  <2>1. DOMAIN columns = D /\ DOMAIN put = D
    BY <1>3, <1>5 DEF IsAmounts
  <2> QED BY <1>6, <2>1, TotalOfSame
<1> QED BY <1>3, <1>4, <1>5, <1>7, <1>8 DEF slices, put, L, D

\* The pots are the slices that hold chips, and what is left over lies in the
\* highest; with no slice there is one pot for everybody.
LEMMA PotsAreSlices ==
  ASSUME NEW P, IsTable(P)
  PROVE  LET pots == BuildPots(P)
         IN  /\ \A l \in Levels(P) : Slice(P, l) > 0 => l \in DOMAIN pots
             /\ \A l \in DOMAIN pots :
                  \/ /\ l \in Levels(P) /\ Slice(P, l) > 0 /\ Slice(P, l) <= pots[l].amount
                     /\ pots[l].eligible = EligibleAt(P, l)
                     /\ \A k \in DOMAIN pots : l < k => pots[l].amount = Slice(P, l)
                  \/ /\ pots[l].eligible = LiveIn(P)
                     /\ \A k \in Levels(P) : ~(Slice(P, k) > 0)
<1> DEFINE sliced == Sliced(P)
           rest   == Contributed(P) - Total(AmountsOf(sliced))
           pots   == BuildPots(P)
           D      == DOMAIN sliced
<1>1. D \subseteq Levels(P) /\ D \subseteq Nat /\ IsFiniteSet(D) /\ rest \in Nat
  <2>1. D \in SUBSET Levels(P) /\ rest \in Nat
    BY SlicedFacts
  <2> QED BY <2>1, LevelsType, FS_Subset
<1>2. \A l \in D : /\ l \in Levels(P) /\ Slice(P, l) > 0 /\ Slice(P, l) \in Nat
                   /\ sliced[l] = [amount |-> Slice(P, l), eligible |-> EligibleAt(P, l)]
                   /\ sliced[l].amount = Slice(P, l) /\ sliced[l].eligible = EligibleAt(P, l)
  BY <1>1, SliceType DEF Sliced
<1>3. \A l \in Levels(P) : Slice(P, l) > 0 => l \in D
  BY DEF Sliced
<1>4. pots = IF rest = 0 THEN sliced
             ELSE IF D = {}
                  THEN [l \in {0} |-> [amount |-> rest, eligible |-> LiveIn(P)]]
                  ELSE [sliced EXCEPT ![Max(D)].amount = @ + rest]
  BY DEF BuildPots
<1> HIDE DEF sliced, rest, pots
<1>5. CASE rest = 0
  BY <1>2, <1>3, <1>4, <1>5 DEF pots
<1>6. CASE rest # 0 /\ D = {}
  <2>1. DOMAIN pots = {0} /\ pots[0].eligible = LiveIn(P)
    BY <1>4, <1>6
  <2> QED BY <1>3, <1>6, <2>1 DEF pots
<1>7. CASE rest # 0 /\ D # {}
  <2> DEFINE m == Max(D)
  <2>1. m \in D /\ \A l \in D : l <= m
    <3>1. D \subseteq Int
      BY <1>1
    <3> QED BY <1>1, <1>7, <3>1, MaxOfFinite
  <2>2. pots = [sliced EXCEPT ![m].amount = @ + rest]
    BY <1>4, <1>7
  <2> HIDE DEF m
  <2>3. /\ DOMAIN pots = D
        /\ \A l \in D \ {m} : pots[l] = sliced[l]
        /\ pots[m] = [sliced[m] EXCEPT !.amount = sliced[m].amount + rest]
    BY <2>1, <2>2
  <2>4. pots[m].eligible = EligibleAt(P, m) /\ pots[m].amount = Slice(P, m) + rest
    <3>1. sliced[m] = [amount |-> Slice(P, m), eligible |-> EligibleAt(P, m)]
      BY <1>2, <2>1
    <3> QED BY <2>3, <3>1
  <2>5. \A l \in D : /\ pots[l].eligible = EligibleAt(P, l)
                     /\ pots[l].amount = Slice(P, l) \/ l = m
                     /\ Slice(P, l) <= pots[l].amount
    BY <1>1, <1>2, <2>3, <2>4
  <2>6. \A k \in D : ~(m < k)
    BY <1>1, <2>1
  <2> QED BY <1>2, <1>3, <2>3, <2>5, <2>6 DEF pots
<1> QED BY <1>5, <1>6, <1>7

\* Who has put in as much can win every pot another live seat can.
LEMMA MoreIsEligible ==
  ASSUME NEW P, IsTable(P), NEW s \in LiveIn(P), NEW t \in LiveIn(P),
         P[s].total <= P[t].total, NEW l \in DOMAIN BuildPots(P),
         s \in BuildPots(P)[l].eligible
  PROVE  t \in BuildPots(P)[l].eligible
<1>1. P[s].total \in Nat /\ P[t].total \in Nat
  BY DEF IsTable, LiveIn
<1>2. CASE BuildPots(P)[l].eligible = LiveIn(P)
  BY <1>2
<1>3. CASE l \in Levels(P) /\ BuildPots(P)[l].eligible = EligibleAt(P, l)
  <2>1. l \in Nat /\ P[s].total >= l
    BY <1>3, LevelsType DEF EligibleAt
  <2>2. P[t].total >= l
    BY <1>1, <2>1
  <2> QED BY <1>3, <2>2 DEF EligibleAt
<1> QED BY <1>2, <1>3, PotsAreSlices

\* The largest live total is a level with chips, so what is left over lies
\* beyond every seat that is covered.
LEMMA CoveredPots ==
  ASSUME NEW P, IsTable(P), NEW c \in Nat, NEW t \in LiveIn(P), P[t].total > c
  PROVE  \A l \in DOMAIN BuildPots(P) :
           /\ l \in Levels(P) /\ BuildPots(P)[l].eligible = EligibleAt(P, l)
           /\ l <= c => BuildPots(P)[l].amount = Slice(P, l)
<1> DEFINE M == MaxLive(P)
           pots == BuildPots(P)
           f == [s \in LiveIn(P) |-> P[s].total]
           pieces == [s \in DOMAIN P |-> Piece(P, M, s)]
<1>1. \A s \in LiveIn(P) : s \in DOMAIN P /\ f[s] = P[s].total /\ f[s] \in Nat
  BY DEF LiveIn, IsTable
<1>2. IsFiniteSet(LiveIn(P))
  <2>1. LiveIn(P) \in SUBSET DOMAIN P
    BY DEF LiveIn
  <2> QED BY <2>1, FS_Subset DEF IsTable
<1>3. M \in Nat /\ \A s \in LiveIn(P) : P[s].total <= M
  <2>1. {P[s].total : s \in LiveIn(P)} = {f[s] : s \in LiveIn(P)}
    BY <1>1
  <2> HIDE DEF f
  <2> QED BY <1>1, <1>2, <2>1, LargestAmount DEF MaxLive
<1>4. M \in Levels(P) /\ M > c
  BY <1>1, <1>3 DEF Levels
<1> HIDE DEF M
<1>5. ASSUME ~(Slice(P, M) > 0) PROVE FALSE
  <2>1. Slice(P, M) = 0
    BY <1>3, <1>5, SliceType
  <2>2. IsAmounts(pieces, DOMAIN P) /\ Total(pieces) = Slice(P, M)
    <3>1. \A s \in DOMAIN P : pieces[s] \in Nat
      BY <1>4, PieceType
    <3> QED BY <3>1 DEF IsAmounts, IsTable, Slice, Piece
  <2>3. \A s \in DOMAIN P : pieces[s] = 0
    <3>1. SUFFICES ASSUME NEW s \in DOMAIN P PROVE pieces[s] = 0
      OBVIOUS
    <3> HIDE DEF pieces
    <3>2. Total(pieces) = pieces[s] + Total([q \in DOMAIN P \ {s} |-> pieces[q]])
          /\ IsAmounts([q \in DOMAIN P \ {s} |-> pieces[q]], DOMAIN P \ {s})
      BY <2>2, TotalSplit
    <3>3. Total([q \in DOMAIN P \ {s} |-> pieces[q]]) \in Nat
      BY <3>2, ChipsFinite
    <3>4. pieces[s] \in Nat
      BY <2>2 DEF IsAmounts
    <3> QED BY <2>1, <2>2, <3>2, <3>3, <3>4
  <2>4. PICK s \in LiveIn(P) : P[s].total = M
    <3> DEFINE T == {0} \cup {f[x] : x \in LiveIn(P)}
    <3>1. M = Max(T)
      <4>1. {P[x].total : x \in LiveIn(P)} = {f[x] : x \in LiveIn(P)}
        BY <1>1
      <4> QED BY <4>1 DEF MaxLive, M
    <3>2. IsFiniteSet(T) /\ T \subseteq Int /\ T # {}
      <4>1. IsFiniteSet({f[x] : x \in LiveIn(P)})
        <5> HIDE DEF f
        <5> QED BY <1>2, ImageFinite
      <4>2. IsFiniteSet({0})
        BY FS_Singleton, Zenon
      <4>3. {f[x] : x \in LiveIn(P)} \subseteq Int
        BY <1>1
      <4>4. T \subseteq Int /\ T # {}
        BY <4>3
      <4> DEFINE F == {f[x] : x \in LiveIn(P)}
      <4> HIDE DEF F
      <4>5. IsFiniteSet({0} \cup F)
        BY <4>1, <4>2, FS_Union DEF F
      <4> QED BY <4>4, <4>5 DEF F
    <3>3. M \in T
      <4> HIDE DEF T
      <4> QED BY <3>1, <3>2, MaxOfFinite
    <3> QED BY <1>1, <1>4, <3>3
  <2>5. Below(P, M) < M
    <3> DEFINE S == {k \in Levels(P) : k < M}
               T == {0} \cup S
    <3>1. Below(P, M) = Max(T)
      BY DEF Below
    <3>2. S \in SUBSET Levels(P)
      OBVIOUS
    <3>3. IsFiniteSet(S) /\ IsFiniteSet({0})
      BY <3>2, LevelsType, FS_Subset, FS_Singleton, Zenon
    <3>4. IsFiniteSet(T)
      BY <3>3, FS_Union
    <3>5. T \subseteq Int /\ T # {}
      BY LevelsType
    <3>6. Max(T) \in T
      <4> HIDE DEF T
      <4> QED BY <3>4, <3>5, MaxOfFinite
    <3> QED BY <1>3, <1>4, <3>1, <3>6
  <2>6. Below(P, M) \in Nat /\ s \in DOMAIN P
    BY <1>1, BelowType
  <2>7. Piece(P, M, s) > 0
    BY <1>3, <2>4, <2>5, <2>6 DEF Piece, Min2
  <2> QED BY <2>3, <2>6, <2>7
<1>6. M \in DOMAIN pots /\ Slice(P, M) > 0
  BY <1>4, <1>5, PotsAreSlices
<1>7. SUFFICES ASSUME NEW l \in DOMAIN pots
               PROVE  /\ l \in Levels(P) /\ pots[l].eligible = EligibleAt(P, l)
                      /\ l <= c => pots[l].amount = Slice(P, l)
  OBVIOUS
<1>8. /\ l \in Levels(P) /\ pots[l].eligible = EligibleAt(P, l)
      /\ \A k \in DOMAIN pots : l < k => pots[l].amount = Slice(P, l)
  BY <1>4, <1>6, PotsAreSlices
<1>9. l <= c => l < M
  BY <1>3, <1>4, <1>8, LevelsType
<1> QED BY <1>6, <1>8, <1>9

(***************************************************************************)
(* No seat gets more of a pot than there is, nothing of a pot it is not    *)
(* eligible for or is beaten for on every board, and all of it when it is  *)
(* the best on the one board.                                              *)
(***************************************************************************)
LEMMA PotShareBounds ==
  ASSUME cfg \in HandConfig, NEW g \in Hand, NEW pot, NEW s \in Seats,
         pot.amount \in Nat, pot.eligible \in SUBSET Seats, pot.eligible # {}
  PROVE  /\ PotShare(g, pot, s) \in Nat /\ PotShare(g, pot, s) <= pot.amount
         /\ (\A b \in Boards(g) : \E t \in pot.eligible :
               g.strength[b][s] < g.strength[b][t])
              => PotShare(g, pot, s) = 0
         /\ s \notin pot.eligible => PotShare(g, pot, s) = 0
         /\ ~g.runTwice /\ s \in pot.eligible
              /\ (\A t \in pot.eligible \ {s} :
                    g.strength[1][t] < g.strength[1][s])
              => PotShare(g, pot, s) = pot.amount
<1> DEFINE f == [t \in Seats |-> PotShare(g, pot, t)]
           W(b) == Winners(g, pot, b)
<1>1. IsAmounts(f, Seats) /\ Total(f) = pot.amount
  BY PotPaysOut
<1>2. f[s] = PotShare(g, pot, s)
  OBVIOUS
<1>3. \A b \in {1, 2} : \A t \in Seats : g.strength[b][t] \in Nat
  <2>1. g.strength \in [{1, 2} -> [Seats -> Ranks]]
    BY HandFields
  <2> QED BY <2>1, CardAssumption
<1> HIDE DEF f
<1>4. f[s] \in Nat /\ f[s] <= pot.amount
  <2> DEFINE k == [t \in Seats \ {s} |-> f[t]]
  <2>1. IsAmounts(k, Seats \ {s}) /\ Total(f) = f[s] + Total(k)
    BY <1>1, TotalSplit
  <2> HIDE DEF k
  <2>2. Total(k) \in Nat /\ f[s] \in Nat
    BY <1>1, <2>1, ChipsFinite DEF IsAmounts
  <2> QED BY <1>1, <2>1, <2>2
<1>5. ASSUME \A b \in Boards(g) : s \notin W(b)
      PROVE  PotShare(g, pot, s) = 0
  <2>1. CASE g.runTwice
    <3>1. s \notin W(1) /\ s \notin W(2)
      BY <1>5, <2>1 DEF Boards
    <3> QED BY <2>1, <3>1 DEF PotShare, Share
  <2>2. CASE ~g.runTwice
    <3>1. s \notin W(1)
      BY <1>5, <2>2 DEF Boards
    <3> QED BY <2>2, <3>1 DEF PotShare, Share
  <2> QED BY <2>1, <2>2
<1>6. ASSUME \A b \in Boards(g) : \E t \in pot.eligible :
               g.strength[b][s] < g.strength[b][t]
      PROVE  PotShare(g, pot, s) = 0
  <2>1. ASSUME NEW b \in Boards(g) PROVE s \notin W(b)
    <3>1. b \in {1, 2}
      BY DEF Boards
    <3>2. PICK t \in pot.eligible : g.strength[b][s] < g.strength[b][t]
      BY <1>6
    <3>3. g.strength[b][s] \in Nat /\ g.strength[b][t] \in Nat
      BY <1>3, <3>1
    <3> QED BY <3>2, <3>3 DEF Winners
  <2> QED BY <1>5, <2>1
<1>7. s \notin pot.eligible => PotShare(g, pot, s) = 0
  BY <1>5 DEF Winners
<1>8. ASSUME ~g.runTwice, s \in pot.eligible,
             \A t \in pot.eligible \ {s} : g.strength[1][t] < g.strength[1][s]
      PROVE  PotShare(g, pot, s) = pot.amount
  <2>1. ASSUME NEW t \in Seats \ {s} PROVE t \notin W(1)
    <3>1. CASE t \in pot.eligible
      <4>1. g.strength[1][t] < g.strength[1][s]
        BY <1>8, <3>1
      <4>2. g.strength[1][s] \in Nat /\ g.strength[1][t] \in Nat
        BY <1>3
      <4> QED BY <1>8, <4>1, <4>2 DEF Winners
    <3> QED BY <3>1 DEF Winners
  <2>2. \A t \in Seats \ {s} : f[t] = 0
    BY <1>8, <2>1 DEF f, PotShare, Share
  <2>3. DOMAIN f = Seats /\ f[s] \in Nat
    BY <1>1 DEF IsAmounts
  <2>4. Total(f) = Total([t \in {s} |-> f[t]])
    BY <2>2, <2>3, TotalOfSupport
  <2> DEFINE one == [t \in {s} |-> f[t]]
  <2>5. Total(one) = f[s]
    <3>1. IsFiniteSet({s}) /\ Cardinality({s}) = 1
      BY FS_Singleton, Zenon
    <3>2. DOMAIN one = {s} /\ one[s] = f[s]
      OBVIOUS
    <3> HIDE DEF one
    <3>3. Total(one) = Cardinality({s}) * f[s]
      BY <2>3, <3>1, <3>2, TotalOfEqual
    <3> QED BY <2>3, <3>1, <3>3
  <2> QED BY <1>1, <1>2, <2>4, <2>5
<1> QED BY <1>2, <1>4, <1>6, <1>7, <1>8

\* The contributions of a hand whose bets lie in the pots.
LEMMA ContributionFacts ==
  ASSUME NEW g \in Hand
  PROVE  LET P == Contributions(g)
         IN  /\ IsTable(P) /\ DOMAIN P = Seats /\ LiveIn(P) = Live(g)
             /\ \A s \in Seats : /\ P[s].total = g.pl[s].committed
                                 /\ P[s].total \in Nat
                                 /\ P[s].folded = g.pl[s].folded
                                 /\ P[s].allIn = g.pl[s].allIn
<1> DEFINE P == Contributions(g)
<1>1. /\ DOMAIN P = Seats
      /\ \A s \in Seats : /\ P[s].total = g.pl[s].committed
                          /\ P[s].folded = g.pl[s].folded
                          /\ P[s].allIn = g.pl[s].allIn
  BY DEF Contributions
<1> HIDE DEF P
<1>2. \A s \in Seats : P[s].total \in Nat
  BY <1>1, HandFields DEF Player
<1>3. IsTable(P)
  BY <1>1, <1>2, SeatsFacts DEF IsTable
<1>4. LiveIn(P) = Live(g)
  BY <1>1 DEF LiveIn, Live
<1> QED BY <1>1, <1>2, <1>3, <1>4 DEF P

\* A prize is the shares of the pots up to what the seat has put in.
LEMMA PrizeWithin ==
  ASSUME cfg \in HandConfig, NEW g \in Hand, Live(g) # {}, NEW s \in Live(g)
  PROVE  LET P == Contributions(g)
             c == P[s].total
         IN  /\ (\E t \in Live(g) : P[t].total > c)
                  => Prize(g, PotsOf(g), s) <= Total(Upto(P, c))
             /\ /\ ~g.runTwice
                /\ \A t \in Live(g) \ {s} : g.strength[1][t] < g.strength[1][s]
                /\ c = 0 \/ c \in Levels(P)
                => Prize(g, PotsOf(g), s) >= Total(Upto(P, c))
<1> DEFINE P == Contributions(g)
           c == P[s].total
           pots == BuildPots(P)
           D == DOMAIN pots
           share == [l \in D |-> PotShare(g, pots[l], s)]
           U == Under(P, c)
           slices == [l \in U |-> Slice(P, l)]
<1>1. /\ s \in Seats /\ IsTable(P) /\ DOMAIN P = Seats /\ LiveIn(P) = Live(g)
      /\ c \in Nat /\ Live(g) \subseteq Seats
      /\ \A t \in Seats : P[t].total \in Nat
  BY ContributionFacts, LiveFacts
<1>2. /\ IsAmounts(AmountsOf(pots), D)
      /\ \A l \in D : /\ pots[l].amount \in Nat
                      /\ pots[l].eligible \in SUBSET Live(g)
                      /\ pots[l].eligible # {}
  <2>1. WonPots(pots) /\ FullPots(P, pots)
    BY PotsOfHoldAll DEF PotsOf
  <2>2. \A l \in D : pots[l].amount \in Nat
    BY <2>1 DEF WonPots, AmountsOf, IsAmounts
  <2> QED BY <1>1, <2>1, <2>2 DEF WonPots, FullPots
<1>3. Prize(g, PotsOf(g), s) = Total(share)
  BY DEF Prize, PotsOf
<1>4. /\ IsAmounts(slices, U) /\ IsAmounts(Upto(P, c), Seats)
      /\ Total(slices) <= Total(Upto(P, c))
      /\ c \in Levels(P) => Total(slices) = Total(Upto(P, c))
  BY <1>1, SlicesUpto
<1>5. U = {l \in Levels(P) : l <= c}
  BY DEF Under
<1>6. \A l \in U : slices[l] = Slice(P, l) /\ slices[l] \in Nat
  BY <1>4 DEF IsAmounts
<1> HIDE DEF P, c, pots, U, slices
<1>7. \A l \in D : /\ share[l] = PotShare(g, pots[l], s) /\ share[l] \in Nat
                   /\ share[l] <= pots[l].amount
                   /\ s \notin pots[l].eligible => share[l] = 0
                   /\ ~g.runTwice /\ s \in pots[l].eligible
                        /\ (\A t \in pots[l].eligible \ {s} :
                              g.strength[1][t] < g.strength[1][s])
                        => share[l] = pots[l].amount
  <2>1. SUFFICES ASSUME NEW l \in D
                 PROVE  LET n == PotShare(g, pots[l], s)
                        IN  /\ n \in Nat /\ n <= pots[l].amount
                            /\ s \notin pots[l].eligible => n = 0
                            /\ ~g.runTwice /\ s \in pots[l].eligible
                                 /\ (\A t \in pots[l].eligible \ {s} :
                                       g.strength[1][t] < g.strength[1][s])
                                 => n = pots[l].amount
    OBVIOUS
  <2>2. /\ pots[l].amount \in Nat /\ pots[l].eligible \in SUBSET Seats
        /\ pots[l].eligible # {}
    BY <1>1, <1>2
  <2> QED BY <1>1, <2>2, PotShareBounds
<1>8. IsAmounts(share, D)
  BY <1>2, <1>7 DEF IsAmounts
<1>9. Total(share) \in Nat /\ Total(slices) \in Nat /\ Total(Upto(P, c)) \in Nat
  BY <1>4, <1>8, ChipsFinite
<1> HIDE DEF share
<1>10. ASSUME \E t \in Live(g) : P[t].total > c
       PROVE  Total(share) <= Total(Upto(P, c))
  <2> DEFINE T == D \cap U
             low == [l \in T |-> share[l]]
             cut == [l \in T |-> slices[l]]
  <2>1. \A l \in D : /\ l \in Levels(P) /\ pots[l].eligible = EligibleAt(P, l)
                     /\ l <= c => pots[l].amount = Slice(P, l)
    <3>1. PICK t \in LiveIn(P) : P[t].total > c
      BY <1>1, <1>10
    <3> QED BY <1>1, <3>1, CoveredPots DEF pots
  <2>2. \A l \in D \ T : share[l] = 0
    <3>1. SUFFICES ASSUME NEW l \in D, l \notin U PROVE s \notin pots[l].eligible
      BY <1>7
    <3>2. ~(l <= c)
      BY <1>5, <2>1, <3>1
    <3>3. l \in Nat
      BY <1>1, <2>1, LevelsType
    <3>4. ~(c >= l)
      BY <1>1, <3>2, <3>3
    <3> QED BY <2>1, <3>4 DEF EligibleAt, c
  <2>3. Total(share) = Total(low)
    <3>1. DOMAIN share = D
      BY <1>8 DEF IsAmounts
    <3> QED BY <2>2, <3>1, TotalOfSupport
  <2>4. T \in SUBSET U /\ T \in SUBSET D /\ IsFiniteSet(T)
    <3>1. T \in SUBSET U /\ T \in SUBSET D
      OBVIOUS
    <3> QED BY <1>8, <3>1, FS_Subset DEF IsAmounts
  <2>5. \A l \in T : /\ low[l] = share[l] /\ cut[l] = slices[l]
                     /\ low[l] \in Nat /\ cut[l] \in Nat /\ low[l] <= cut[l]
    <3>1. SUFFICES ASSUME NEW l \in T
                   PROVE  share[l] \in Nat /\ slices[l] \in Nat /\ share[l] <= slices[l]
      OBVIOUS
    <3>2. l \in D /\ l \in U /\ l <= c
      BY <1>5
    <3>3. pots[l].amount = slices[l]
      BY <1>6, <2>1, <3>2
    <3> QED BY <1>6, <1>7, <3>2, <3>3
  <2> HIDE DEF T, low, cut
  <2>6. IsAmounts(low, T) /\ IsAmounts(cut, T)
    BY <2>4, <2>5 DEF IsAmounts, low, cut
  <2>7. Total(low) <= Total(cut)
    BY <2>5, <2>6, TotalAtMost
  <2>8. Total(cut) <= Total(slices)
    <3> DEFINE all == [l \in U |-> IF l \in T THEN slices[l] ELSE 0]
    <3>1. /\ \A l \in U : /\ all[l] \in Nat /\ all[l] <= slices[l]
                          /\ l \notin T => all[l] = 0
          /\ \A l \in T : l \in U /\ all[l] = cut[l]
      BY <1>6, <2>4, <2>5
    <3>2. DOMAIN all = U
      OBVIOUS
    <3> HIDE DEF all
    <3>3. IsAmounts(all, U)
      BY <1>4, <3>1, <3>2 DEF IsAmounts
    <3>4. Total(all) <= Total(slices)
      BY <1>4, <3>1, <3>3, TotalAtMost
    <3>5. Total(all) = Total([l \in T |-> all[l]])
      BY <3>1, <3>2, TotalOfSupport
    <3>6. Total([l \in T |-> all[l]]) = Total(cut)
      <4>1. [l \in T |-> all[l]] = cut
        BY <3>1 DEF cut
      <4> QED BY <4>1
    <3> QED BY <3>4, <3>5, <3>6
  <2>9. Total(low) \in Nat /\ Total(cut) \in Nat
    BY <2>6, ChipsFinite
  <2> QED BY <1>4, <1>9, <2>3, <2>7, <2>8, <2>9
<1>11. ASSUME ~g.runTwice,
              \A t \in Live(g) \ {s} : g.strength[1][t] < g.strength[1][s],
              c = 0 \/ c \in Levels(P)
       PROVE  Total(share) >= Total(Upto(P, c))
  <2>1. CASE c = 0
    <3>1. \A t \in Seats : Upto(P, c)[t] = 0
      BY <1>1, <2>1 DEF Upto, Min2
    <3>2. DOMAIN Upto(P, c) = Seats /\ IsFiniteSet(Seats)
      BY <1>4 DEF IsAmounts
    <3>3. Total(Upto(P, c)) = Cardinality({}) * 0
      <4> DEFINE u == Upto(P, c)
      <4>1. DOMAIN u = Seats /\ \A t \in Seats : u[t] = IF t \in {} THEN 0 ELSE 0
        BY <3>1, <3>2
      <4>2. {} \in SUBSET Seats /\ 0 \in Nat
        OBVIOUS
      <4> HIDE DEF u
      <4>3. Total(u) = Cardinality({}) * 0
        BY <3>2, <4>1, <4>2, TotalOfEqual
      <4> QED BY <4>3 DEF u
    <3> QED BY <1>9, <3>3, FS_EmptySet
  <2>2. CASE c \in Levels(P)
    <3> DEFINE T == {l \in U : slices[l] > 0}
               high == [l \in T |-> share[l]]
               cut == [l \in T |-> slices[l]]
    <3>1. ASSUME NEW l \in U, slices[l] > 0
          PROVE  /\ l \in D /\ share[l] \in Nat /\ slices[l] <= share[l]
      <4>1. l \in Levels(P) /\ l <= c /\ Slice(P, l) > 0 /\ slices[l] = Slice(P, l)
        BY <1>5, <1>6, <3>1
      <4>2. l \in D
        BY <1>1, <4>1, PotsAreSlices DEF pots
      <4>3. slices[l] <= pots[l].amount /\ pots[l].eligible = EligibleAt(P, l)
        BY <1>1, <4>1, <4>2, PotsAreSlices DEF pots
      <4>4. s \in EligibleAt(P, l)
        <5>1. l \in Nat /\ c >= l
          BY <1>1, <4>1, LevelsType
        <5> QED BY <1>1, <5>1 DEF EligibleAt, c
      <4>5. \A t \in pots[l].eligible \ {s} : g.strength[1][t] < g.strength[1][s]
        BY <1>2, <1>11, <4>2
      <4>6. share[l] = pots[l].amount
        BY <1>7, <1>11, <4>2, <4>3, <4>4, <4>5
      <4> QED BY <1>7, <4>2, <4>3, <4>6
    <3>2. T \in SUBSET U /\ T \in SUBSET D /\ IsFiniteSet(T)
      <4>1. T \in SUBSET U /\ T \in SUBSET D
        BY <3>1
      <4> QED BY <1>8, <4>1, FS_Subset DEF IsAmounts
    <3>3. \A l \in T : /\ high[l] = share[l] /\ cut[l] = slices[l]
                       /\ high[l] \in Nat /\ cut[l] \in Nat /\ cut[l] <= high[l]
      BY <1>6, <3>1
    <3>4. \A l \in U \ T : slices[l] = 0
      BY <1>6
    <3> HIDE DEF T, high, cut
    <3>5. IsAmounts(high, T) /\ IsAmounts(cut, T)
      BY <3>2, <3>3 DEF IsAmounts, high, cut
    <3>6. Total(cut) <= Total(high)
      BY <3>3, <3>5, TotalAtMost
    <3>7. Total(slices) = Total(cut)
      <4>1. DOMAIN slices = U
        BY <1>4 DEF IsAmounts
      <4> QED BY <3>2, <3>4, <4>1, TotalOfSupport DEF cut
    <3>8. Total(high) <= Total(share)
      <4> DEFINE all == [l \in D |-> IF l \in T THEN share[l] ELSE 0]
      <4>1. /\ \A l \in D : /\ all[l] \in Nat /\ all[l] <= share[l]
                            /\ l \notin T => all[l] = 0
            /\ \A l \in T : l \in D /\ all[l] = high[l]
        BY <1>7, <3>2, <3>3
      <4>2. DOMAIN all = D
        OBVIOUS
      <4> HIDE DEF all
      <4>3. IsAmounts(all, D)
        BY <1>8, <4>1, <4>2 DEF IsAmounts
      <4>4. Total(all) <= Total(share)
        BY <1>8, <4>1, <4>3, TotalAtMost
      <4>5. Total(all) = Total([l \in T |-> all[l]])
        BY <4>1, <4>2, TotalOfSupport
      <4>6. [l \in T |-> all[l]] = high
        BY <4>1 DEF high
      <4> QED BY <4>4, <4>5, <4>6
    <3>9. Total(high) \in Nat /\ Total(cut) \in Nat
      BY <3>5, ChipsFinite
    <3> QED BY <1>4, <1>9, <2>2, <3>6, <3>7, <3>8, <3>9
  <2> QED BY <1>11, <2>1, <2>2
<1> QED BY <1>1, <1>3, <1>10, <1>11 DEF P, c
\* Who is beaten on every board by a seat that put in as much gets no prize.
LEMMA NoPrizeForBeaten ==
  ASSUME cfg \in HandConfig, NEW g \in Hand, NEW s \in Live(g), NEW t \in Live(g),
         g.pl[s].committed <= g.pl[t].committed,
         \A b \in Boards(g) : g.strength[b][s] < g.strength[b][t]
  PROVE  Prize(g, PotsOf(g), s) = 0
<1> DEFINE P == Contributions(g)
           pots == BuildPots(P)
           D == DOMAIN pots
           share == [l \in D |-> PotShare(g, pots[l], s)]
<1>1. /\ s \in Seats /\ t \in Seats /\ IsTable(P) /\ LiveIn(P) = Live(g)
      /\ P[s].total <= P[t].total /\ Live(g) \subseteq Seats
  <2>1. s \in Seats /\ t \in Seats /\ Live(g) \subseteq Seats
    BY LiveFacts
  <2> QED BY <2>1, ContributionFacts
<1>2. /\ IsAmounts(AmountsOf(pots), D)
      /\ \A l \in D : /\ pots[l].amount \in Nat
                      /\ pots[l].eligible \in SUBSET Seats
                      /\ pots[l].eligible # {}
  <2>1. Live(g) # {}
    OBVIOUS
  <2>2. WonPots(pots)
    BY <2>1, PotsOfHoldAll DEF PotsOf
  <2> QED BY <2>2 DEF WonPots, AmountsOf, IsAmounts
<1> HIDE DEF P
<1>3. \A l \in D : s \in pots[l].eligible => t \in pots[l].eligible
  BY <1>1, MoreIsEligible
<1>4. Prize(g, PotsOf(g), s) = Total(share)
  BY DEF Prize, PotsOf, P
<1> HIDE DEF pots
<1>5. ASSUME NEW l \in D PROVE share[l] = 0
  <2> DEFINE n == PotShare(g, pots[l], s)
  <2>1. /\ (\A b \in Boards(g) : \E u \in pots[l].eligible :
              g.strength[b][s] < g.strength[b][u]) => n = 0
        /\ s \notin pots[l].eligible => n = 0
    BY <1>1, <1>2, PotShareBounds
  <2>2. n = 0
    BY <1>3, <2>1
  <2> QED BY <2>2
<1> HIDE DEF share
<1>6. DOMAIN share = D /\ IsFiniteSet(D)
  BY <1>2 DEF share, IsAmounts
<1>7. Total(share) = Cardinality({}) * 0
  <2>1. {} \in SUBSET D /\ 0 \in Nat /\ \A l \in D : share[l] = IF l \in {} THEN 0 ELSE 0
    BY <1>5
  <2> QED BY <1>6, <2>1, TotalOfEqual
<1> QED BY <1>4, <1>7, FS_EmptySet

\* What awardPots leaves of a seat: its stack and winnings are up by its prize.
LEMMA AwardFields ==
  ASSUME NEW g \in Hand, Books(g), NothingInFront(g)
  PROVE  LET f == AwardPots(g)
         IN  /\ f.phase = "result" /\ f.runTwice = g.runTwice
             /\ f.strength = g.strength
             /\ \A s \in Seats :
                  /\ f.pl[s].folded = g.pl[s].folded
                  /\ f.pl[s].won = Prize(g, PotsOf(g), s)
                  /\ f.pl[s].startStack - (f.pl[s].stack - f.pl[s].won)
                       = g.pl[s].committed
<1> DEFINE pots == PotsOf(g)
           Won(s) == Prized(g.pl[s], Prize(g, pots, s))
           pl == [s \in Seats |->
                    IF s \in Live(g) /\ WinsAPot(g, pots, s) THEN Faced(Won(s))
                                                            ELSE Won(s)]
           c == [g EXCEPT !.pl = pl]
           f == Finish(c, pots)
           Emptied(p) == [p EXCEPT !.committed = 0]
<1>1. AwardPots(g) = f
  BY DEF AwardPots
<1>2. IsPots(pots, Seats)
  BY PotsOfType
<1>3. ASSUME NEW s \in Seats
      PROVE  /\ pl[s] \in Player /\ pl[s].folded = g.pl[s].folded
             /\ Prize(g, pots, s) \in Nat
             /\ pl[s].won = g.pl[s].won + Prize(g, pots, s)
             /\ pl[s].stack = g.pl[s].stack + Prize(g, pots, s)
             /\ pl[s].startStack = g.pl[s].startStack
  <2> DEFINE p == g.pl[s]
             q == Won(s)
             k == Prize(g, pots, s)
  <2>1. k \in Nat
    <3> HIDE DEF pots
    <3> QED BY <1>2, PrizeType
  <2>2. q = Prized(p, k) /\ p \in Player
    BY HandFields
  <2>3. pl[s] = Faced(q) \/ pl[s] = q
    OBVIOUS
  <2> HIDE DEF pl, Won, p, q, k
  <2>4. /\ q \in Player /\ q.folded = p.folded /\ q.won = p.won + k
        /\ q.stack = p.stack + k /\ q.startStack = p.startStack
        /\ Faced(q) \in Player /\ Faced(q).folded = p.folded
        /\ Faced(q).won = p.won + k /\ Faced(q).stack = p.stack + k
        /\ Faced(q).startStack = p.startStack
    BY <2>1, <2>2, PrizedFields
  <2>5. /\ pl[s] \in Player /\ pl[s].folded = p.folded /\ pl[s].won = p.won + k
        /\ pl[s].stack = p.stack + k /\ pl[s].startStack = p.startStack
    BY <2>3, <2>4
  <2> QED BY <2>1, <2>5 DEF p, k
<1>4. /\ \A s \in Seats : f.pl[s] = Emptied(pl[s])
      /\ f.phase = "result" /\ f.runTwice = g.runTwice /\ f.strength = g.strength
  <2>1. c.pl = pl
    BY DEF Hand
  <2> HIDE DEF pots, pl
  <2> QED BY <2>1 DEF Finish, Hand
<1> HIDE DEF pl, f
<1>5. \A p \in Player : /\ Emptied(p).folded = p.folded /\ Emptied(p).won = p.won
                        /\ Emptied(p).stack = p.stack
                        /\ Emptied(p).startStack = p.startStack
  BY DEF Player
<1> HIDE DEF Emptied
<1>6. ASSUME NEW s \in Seats
      PROVE  /\ f.pl[s].folded = g.pl[s].folded
             /\ f.pl[s].won = Prize(g, pots, s)
             /\ f.pl[s].startStack - (f.pl[s].stack - f.pl[s].won)
                  = g.pl[s].committed
  <2>1. /\ g.pl[s].stack \in Nat /\ g.pl[s].committed \in Nat
        /\ g.pl[s].startStack \in Nat /\ g.pl[s].won = 0 /\ g.pl[s].bet = 0
        /\ g.pl[s].stack + g.pl[s].committed = g.pl[s].startStack
    BY HandFields DEF Player, Books, Sound, NothingInFront
  <2>2. /\ f.pl[s].folded = g.pl[s].folded
        /\ f.pl[s].won = 0 + Prize(g, pots, s) /\ Prize(g, pots, s) \in Nat
        /\ f.pl[s].stack = g.pl[s].stack + Prize(g, pots, s)
        /\ f.pl[s].startStack = g.pl[s].startStack
    BY <1>3, <1>4, <1>5, <2>1
  <2> HIDE DEF pots
  <2> QED BY <2>1, <2>2
<1> QED BY <1>1, <1>4, <1>6

-----------------------------------------------------------------------------
(* The showdown pays what a seat can reach, and nothing to the beaten *)

\* Paid, Reach and ShowdownPaysReach of any hand.
PaidTo(g, s)  == g.pl[s].startStack - (g.pl[s].stack - g.pl[s].won)
ReachTo(g, s) == Total([t \in Seats |-> Min2(PaidTo(g, t), PaidTo(g, s))])
Contested(g)  == g.phase = "result" /\ Cardinality(Live(g)) >= 2

PaysReach(g) ==
  Contested(g) =>
    \A s \in Live(g) :
      /\ (\E t \in Live(g) : PaidTo(g, t) > PaidTo(g, s))
           => g.pl[s].won <= ReachTo(g, s)
      /\ /\ ~g.runTwice
         /\ \A t \in Live(g) \ {s} : g.strength[1][t] < g.strength[1][s]
         => g.pl[s].won >= ReachTo(g, s)

\* A seat beaten on every board by one that paid as much wins nothing.
BeatenWinsNothing(g) ==
  Contested(g) =>
    \A s \in Live(g), t \in Live(g) :
      /\ PaidTo(g, s) <= PaidTo(g, t)
      /\ \A b \in Boards(g) : g.strength[b][s] < g.strength[b][t]
      => g.pl[s].won = 0

PaysRight(g) == BeatenWinsNothing(g) /\ (NoDeadBlind => PaysReach(g))

\* awardPots pays right when the pots are even.
LEMMA AwardPotsPaysRight ==
  ASSUME cfg \in HandConfig, NEW g \in Hand, Books(g), NothingInFront(g),
         NoDeadBlind => Even(g)
  PROVE  PaysRight(AwardPots(g))
<1> DEFINE f == AwardPots(g)
           P == Contributions(g)
<1>1. /\ f.phase = "result" /\ f.runTwice = g.runTwice
      /\ f.strength = g.strength
      /\ \A s \in Seats :
           /\ f.pl[s].folded = g.pl[s].folded
           /\ f.pl[s].won = Prize(g, PotsOf(g), s)
           /\ PaidTo(f, s) = g.pl[s].committed
  BY AwardFields DEF PaidTo
<1> HIDE DEF f
<1>2. Live(f) = Live(g) /\ Live(g) \subseteq Seats
  BY <1>1, SameLive, LiveFacts
<1>3. Boards(f) = Boards(g)
  BY <1>1 DEF Boards
<1>4. BeatenWinsNothing(f)
  <2>1. SUFFICES ASSUME NEW s \in Live(f), NEW t \in Live(f),
                        PaidTo(f, s) <= PaidTo(f, t),
                        \A b \in Boards(f) : f.strength[b][s] < f.strength[b][t]
                 PROVE  f.pl[s].won = 0
    BY DEF BeatenWinsNothing
  <2>2. /\ s \in Live(g) /\ t \in Live(g) /\ s \in Seats /\ t \in Seats
        /\ g.pl[s].committed <= g.pl[t].committed
        /\ \A b \in Boards(g) : g.strength[b][s] < g.strength[b][t]
    BY <1>1, <1>2, <1>3, <2>1
  <2>3. Prize(g, PotsOf(g), s) = 0
    BY <2>2, NoPrizeForBeaten
  <2> QED BY <1>1, <2>2, <2>3
<1>5. ASSUME NoDeadBlind PROVE PaysReach(f)
  <2>1. SUFFICES ASSUME NEW s \in Live(f)
          PROVE  /\ (\E t \in Live(f) : PaidTo(f, t) > PaidTo(f, s))
                      => f.pl[s].won <= ReachTo(f, s)
                 /\ /\ ~f.runTwice
                    /\ \A t \in Live(f) \ {s} : f.strength[1][t] < f.strength[1][s]
                    => f.pl[s].won >= ReachTo(f, s)
    BY DEF PaysReach
  <2>2. s \in Live(g) /\ s \in Seats
    BY <1>2, <2>1
  <2> DEFINE c == P[s].total
  <2>3. /\ IsTable(P) /\ DOMAIN P = Seats /\ LiveIn(P) = Live(g)
        /\ \A t \in Seats : /\ P[t].total = g.pl[t].committed
                            /\ P[t].total \in Nat
                            /\ P[t].allIn = g.pl[t].allIn
    BY ContributionFacts
  <2>4. /\ (\E t \in Live(g) : P[t].total > c)
             => Prize(g, PotsOf(g), s) <= Total(Upto(P, c))
        /\ /\ ~g.runTwice
           /\ \A t \in Live(g) \ {s} : g.strength[1][t] < g.strength[1][s]
           /\ c = 0 \/ c \in Levels(P)
           => Prize(g, PotsOf(g), s) >= Total(Upto(P, c))
    BY <2>2, PrizeWithin
  <2> HIDE DEF P
  <2>5. ReachTo(f, s) = Total(Upto(P, c))
    <3>1. [t \in Seats |-> Min2(PaidTo(f, t), PaidTo(f, s))] = Upto(P, c)
      BY <1>1, <2>2, <2>3 DEF Upto
    <3> QED BY <3>1 DEF ReachTo
  <2>6. c = 0 \/ c \in Levels(P)
    <3>1. CASE P[s].allIn
      <4>1. c > 0 => c \in Levels(P)
        BY <2>2, <2>3, <3>1 DEF Levels
      <4> QED BY <2>2, <2>3, <4>1
    <3>2. CASE ~P[s].allIn
      <4>1. \A t \in Seats : g.pl[t].committed <= g.pl[s].committed
        BY <1>5, <2>2, <2>3, <3>2 DEF Even
      <4>2. \A t \in LiveIn(P) : P[t].total <= c /\ t \in Seats
        BY <1>2, <2>2, <2>3, <4>1
      <4> DEFINE F == [t \in LiveIn(P) |-> P[t].total]
                 T == {0} \cup {F[t] : t \in LiveIn(P)}
      <4>3. \A t \in LiveIn(P) : F[t] \in Nat /\ F[t] <= c
        BY <2>3, <4>2
      <4>4. c \in T
        BY <2>2, <2>3
      <4>5. MaxLive(P) = Max(T)
        <5>1. {P[t].total : t \in LiveIn(P)} = {F[t] : t \in LiveIn(P)}
          OBVIOUS
        <5> QED BY <5>1 DEF MaxLive
      <4>6. IsFiniteSet(LiveIn(P)) /\ c \in Nat
        BY <1>2, <2>2, <2>3, LiveFacts
      <4>7. \A n \in T : n \in Nat /\ n <= c
        BY <4>3, <4>6
      <4> HIDE DEF F
      <4>8. IsFiniteSet(T)
        <5>1. IsFiniteSet({F[t] : t \in LiveIn(P)}) /\ IsFiniteSet({0})
          <6>1. IsFiniteSet({F[t] : t \in LiveIn(P)})
            BY <4>6, ImageFinite
          <6>2. IsFiniteSet({0})
            BY FS_Singleton, Zenon
          <6> QED BY <6>1, <6>2
        <5> DEFINE I == {F[t] : t \in LiveIn(P)}
        <5> HIDE DEF I
        <5>2. IsFiniteSet({0} \cup I)
          BY <5>1, FS_Union DEF I
        <5> QED BY <5>2 DEF I
      <4> HIDE DEF T
      <4>9. Max(T) \in T /\ \A n \in T : n <= Max(T)
        <5>1. T \subseteq Int /\ T # {}
          BY <4>4, <4>7
        <5> QED BY <4>8, <5>1, MaxOfFinite
      <4>10. Max(T) = c
        BY <4>4, <4>6, <4>7, <4>9
      <4> QED BY <4>5, <4>10 DEF Levels
    <3> QED BY <3>1, <3>2
  <2>7. f.pl[s].won = Prize(g, PotsOf(g), s) /\ PaidTo(f, s) = c
    BY <1>1, <2>2, <2>3
  <2>8. \A t \in Live(f) : t \in Live(g) /\ PaidTo(f, t) = P[t].total
    BY <1>1, <1>2, <2>3
  <2> QED BY <1>1, <1>2, <2>4, <2>5, <2>6, <2>7, <2>8
<1> QED BY <1>4, <1>5 DEF PaysRight, f
\* A step that leaves the seats' chips and hands alone leaves the pay right.
LEMMA PayStays ==
  ASSUME NEW c, NEW g, PaysRight(g), Contested(c) => Contested(g),
         c.runTwice = g.runTwice, c.strength = g.strength,
         \A s \in Seats : /\ c.pl[s].folded = g.pl[s].folded
                          /\ c.pl[s].startStack = g.pl[s].startStack
                          /\ c.pl[s].stack = g.pl[s].stack
                          /\ c.pl[s].won = g.pl[s].won
  PROVE  PaysRight(c)
<1>1. Live(c) = Live(g) /\ Live(g) \subseteq Seats /\ Boards(c) = Boards(g)
  BY SameLive, LiveFacts DEF Boards
<1>2. \A s \in Seats : /\ PaidTo(c, s) = PaidTo(g, s)
                       /\ c.pl[s].won = g.pl[s].won
  BY DEF PaidTo
<1>3. \A s \in Seats : ReachTo(c, s) = ReachTo(g, s)
  <2>1. SUFFICES ASSUME NEW s \in Seats PROVE ReachTo(c, s) = ReachTo(g, s)
    OBVIOUS
  <2>2. [t \in Seats |-> Min2(PaidTo(c, t), PaidTo(c, s))]
          = [t \in Seats |-> Min2(PaidTo(g, t), PaidTo(g, s))]
    BY <1>2
  <2> QED BY <2>2 DEF ReachTo
<1>4. BeatenWinsNothing(c)
  BY <1>1, <1>2 DEF PaysRight, BeatenWinsNothing
<1>5. NoDeadBlind /\ PaysReach(g) => PaysReach(c)
  <2>1. SUFFICES ASSUME PaysReach(g), Contested(c), NEW s \in Live(c)
          PROVE  /\ (\E t \in Live(c) : PaidTo(c, t) > PaidTo(c, s))
                      => c.pl[s].won <= ReachTo(c, s)
                 /\ /\ ~c.runTwice
                    /\ \A t \in Live(c) \ {s} : c.strength[1][t] < c.strength[1][s]
                    => c.pl[s].won >= ReachTo(c, s)
    BY DEF PaysReach
  <2>2. /\ (\E t \in Live(g) : PaidTo(g, t) > PaidTo(g, s))
             => g.pl[s].won <= ReachTo(g, s)
        /\ /\ ~g.runTwice
           /\ \A t \in Live(g) \ {s} : g.strength[1][t] < g.strength[1][s]
           => g.pl[s].won >= ReachTo(g, s)
    BY <1>1, <2>1 DEF PaysReach
  <2>3. s \in Seats /\ \A t \in Live(c) : t \in Live(g) /\ PaidTo(c, t) = PaidTo(g, t)
    BY <1>1, <1>2, <2>1
  <2> QED BY <1>1, <1>2, <1>3, <2>2, <2>3
<1> QED BY <1>4, <1>5 DEF PaysRight

\* Nothing is owed before the result, nor when one seat is left.
LEMMA NothingToPay ==
  ASSUME NEW g, ~Contested(g)
  PROVE  PaysRight(g)
  BY DEF PaysRight, PaysReach, BeatenWinsNothing

LEMMA UncontestedPaysRight ==
  ASSUME NEW g \in Hand, Books(g), Cardinality(Live(g)) = 1
  PROVE  PaysRight(FinishUncontested(g))
<1>1. Live(g) # {}
  BY LiveFacts
<1>2. /\ FinishUncontested(g) \in Hand
      /\ Live(FinishUncontested(g)) \subseteq Live(g)
  BY <1>1, FinishUncontestedFacts, FinishUncontestedPays, TraceLive
<1>3. Cardinality(Live(FinishUncontested(g))) <= Cardinality(Live(g))
  <2> DEFINE L == Live(FinishUncontested(g))
             M == Live(g)
  <2>1. L \subseteq M /\ IsFiniteSet(M)
    BY <1>2, LiveFacts
  <2> HIDE DEF L, M
  <2> QED BY <2>1, FS_Subset DEF L, M
<1>4. Cardinality(Live(FinishUncontested(g))) \in Nat
  BY LiveFacts
<1> QED BY <1>3, <1>4, NothingToPay DEF Contested

LEMMA ShowdownPaysRight ==
  ASSUME cfg \in HandConfig, NEW g \in Hand, Books(g), NothingInFront(g),
         NoDeadBlind => Even(g)
  PROVE  PaysRight(Showdown(g))
<1> DEFINE w == [g EXCEPT !.phase = "showdown", !.showIdx = 0, !.toAct = NoSeat]
<1>1. Showdown(g) = w \/ Showdown(g) = AwardPots(g)
  BY DEF Showdown
<1>2. w.phase = "showdown"
  BY DEF Hand
<1> HIDE DEF w
<1>3. ~Contested(w)
  BY <1>2 DEF Contested
<1> QED BY <1>1, <1>3, NothingToPay, AwardPotsPaysRight

\* The end of a street pays right, with the bets in the pots.
LEMMA EndStreetPaysRight ==
  ASSUME cfg \in HandConfig, NEW g \in Hand, Books(g), Price(g),
         RoundComplete(g), NoDeadBlind => Even(g)
  PROVE  PaysRight(EndStreet(g))
<1> DEFINE r == ReturnUncalled(g)
           k == Collect(r)
           c == [k EXCEPT !.toAct = NoSeat]
           d == [c EXCEPT !.phase = "deal_pending"]
           e == [d EXCEPT !.runout = TRUE]
<1>1. EndStreet(g) = IF c.street = River THEN Showdown(c)
                     ELSE IF Cardinality(Active(c)) < 2 THEN RevealAll(e) ELSE d
  BY DEF EndStreet
<1>2. NoDeadBlind => Even(k)
  BY CollectedEven
<1>3. r \in Hand /\ Books(r)
  BY ReturnUncalledFacts
<1> HIDE DEF r
<1>4. k \in Hand /\ Books(k) /\ NothingInFront(k)
  BY <1>3, CollectFacts
<1> HIDE DEF k
<1>5. c \in Hand /\ c.pl = k.pl
  BY <1>4 DEF Hand
<1>6. d.phase = "deal_pending" /\ RevealAll(e).phase = "deal_pending"
  BY <1>4 DEF Hand, RevealAll
<1> HIDE DEF c, d, e
<1>7. Books(c) /\ NothingInFront(c) /\ SameBets(c, k)
  BY <1>4, <1>5 DEF Books, NothingInFront, SameBets
<1>8. NoDeadBlind => Even(c)
  BY <1>2, <1>7, EvenStays
<1>9. PaysRight(Showdown(c))
  BY <1>5, <1>7, <1>8, ShowdownPaysRight
<1>10. PaysRight(d) /\ PaysRight(RevealAll(e))
  BY <1>6, NothingToPay DEF Contested
<1> QED BY <1>1, <1>9, <1>10

\* So does a settled round.
LEMMA SettlePaysRight ==
  ASSUME cfg \in HandConfig, NEW g \in Hand, Books(g), Price(g),
         g.phase = "betting", NoDeadBlind => Even(g), NEW start
  PROVE  PaysRight(Settle(g, start))
<1> DEFINE c == [g EXCEPT !.toAct = NextActor(g, start)]
<1>1. CASE Cardinality(Live(g)) = 1
  <2>1. Settle(g, start) = FinishUncontested(g)
    BY <1>1 DEF Settle
  <2> QED BY <1>1, <2>1, UncontestedPaysRight
<1>2. CASE Cardinality(Live(g)) # 1 /\ RoundComplete(g)
  <2>1. Settle(g, start) = EndStreet(g)
    BY <1>2 DEF Settle
  <2> QED BY <1>2, <2>1, EndStreetPaysRight
<1>3. CASE Cardinality(Live(g)) # 1 /\ ~RoundComplete(g)
  <2>1. Settle(g, start) = c
    BY <1>3 DEF Settle
  <2>2. c.phase = "betting"
    BY DEF Hand
  <2> HIDE DEF c
  <2> QED BY <2>1, <2>2, NothingToPay DEF Contested
<1> QED BY <1>1, <1>2, <1>3

\* And a seat that leaves out of turn.
LEMMA AfterForfeitPaysRight ==
  ASSUME cfg \in HandConfig, NEW g, Good(g), NoDeadBlind => Even(g),
         NEW s \in Live(g), g.phase \in {"betting", "deal_pending"}
  PROVE  PaysRight(AfterForfeit(Fold(g, s), s))
<1> DEFINE c == Fold(g, s)
<1>1. g \in Hand /\ s \in Seats /\ Books(g) /\ Cardinality(Live(g)) >= 2
  BY LiveFacts DEF Good
<1>2. /\ c \in Hand /\ SameTable(c, g) /\ Books(c) /\ (NoDeadBlind => Even(c))
      /\ Price(g) => Price(c)
      /\ Live(c) = Live(g) \ {s}
  BY <1>1, FoldFacts, FoldEven
<1> HIDE DEF c
<1>4. CASE Cardinality(Live(c)) = 1
  <2>1. AfterForfeit(c, s) = FinishUncontested(c)
    BY <1>4 DEF AfterForfeit
  <2> QED BY <1>2, <1>4, <2>1, UncontestedPaysRight DEF c
<1>5. CASE Cardinality(Live(c)) # 1 /\ g.phase = "deal_pending"
  <2>1. AfterForfeit(c, s) = c /\ c.phase = "deal_pending"
    BY <1>2, <1>5 DEF AfterForfeit, SameTable
  <2> QED BY <2>1, NothingToPay DEF Contested, c
<1>6. CASE Cardinality(Live(c)) # 1 /\ g.phase = "betting"
  <2>1. Price(c) /\ c.phase = "betting"
    BY <1>1, <1>2, <1>6 DEF Good, SameTable
  <2>2. AfterForfeit(c, s) = IF c.toAct = s THEN Settle(c, s + 1)
                             ELSE IF RoundComplete(c) THEN EndStreet(c) ELSE c
    BY <1>6, <2>1 DEF AfterForfeit
  <2>3. PaysRight(Settle(c, s + 1))
    BY <1>2, <2>1, SettlePaysRight
  <2>4. RoundComplete(c) => PaysRight(EndStreet(c))
    BY <1>2, <2>1, EndStreetPaysRight
  <2>5. PaysRight(c)
    BY <2>1, NothingToPay DEF Contested
  <2> QED BY <2>2, <2>3, <2>4, <2>5 DEF c
<1> QED BY <1>4, <1>5, <1>6

\* One step per action of Next.
LEMMA NextPaysRight == MatchInv /\ PaysRight(h) /\ Next => PaysRight(h')
<1> SUFFICES ASSUME MatchInv, PaysRight(h), Next PROVE PaysRight(h')
  OBVIOUS
<1>1. /\ cfg \in Configs /\ cfg \in HandConfig /\ Good(h) /\ h \in Hand
      /\ NoDeadBlind /\ h.phase # "result" => Even(h)
  BY IInvGivesGood DEF Good, MatchInv, EvenOn
<1>2. ASSUME NEW s \in Seats, NEW a \in Actions, Apply(s, a) PROVE PaysRight(h')
  <2> DEFINE c == Perform(h, s, Resolve(h, s, a))
             d == Acted(c, s)
  <2>1. /\ h.phase = "betting" /\ Legal(h, s, Resolve(h, s, a))
        /\ h.toAct = s /\ h' = Settle(d, s + 1)
    BY <1>2 DEF Apply, OnTurn
  <2>2. Books(h) /\ Price(h) /\ Cardinality(Live(h)) >= 2 /\ (NoDeadBlind => Even(h))
    BY <1>1, <2>1 DEF Good
  <2>3. s \in Active(h)
    BY <1>1, <2>1 DEF Good, Owing
  <2>4. Acting(c) /\ (NoDeadBlind => Even(c))
    BY <1>1, <2>1, <2>2, <2>3, PerformFacts, PerformEven
  <2> HIDE DEF c
  <2>5. /\ d \in Hand /\ SameHand(d, c) /\ Books(d) /\ Price(d)
        /\ (NoDeadBlind => Even(d)) /\ c.phase = "betting"
    BY <2>4, ActedFacts, ActedEven DEF Acting
  <2> HIDE DEF d
  <2>6. d.phase = "betting"
    BY <2>5 DEF SameHand
  <2> QED BY <1>1, <2>1, <2>5, <2>6, SettlePaysRight
<1>3. ASSUME NEW s \in Seats, Timeout(s) PROVE PaysRight(h')
  <2> DEFINE c == IF h.pl[s].bet = h.currentBet THEN h ELSE Fold(h, s)
             d == Acted(c, s)
  <2>1. h.phase = "betting" /\ h' = Settle(d, s + 1)
    BY <1>3 DEF Timeout, OnTurn
  <2>2. Books(h) /\ Price(h) /\ Cardinality(Live(h)) >= 2 /\ (NoDeadBlind => Even(h))
    BY <1>1, <2>1 DEF Good
  <2>3. /\ Acting(h) /\ Acting(Fold(h, s))
        /\ NoDeadBlind => Even(Fold(h, s))
    BY <1>1, <2>1, <2>2, FoldFacts, FoldEven DEF Acting, SameTable
  <2>4. Acting(c) /\ (NoDeadBlind => Even(c))
    BY <2>2, <2>3
  <2> HIDE DEF c
  <2>5. /\ d \in Hand /\ SameHand(d, c) /\ Books(d) /\ Price(d)
        /\ (NoDeadBlind => Even(d)) /\ c.phase = "betting"
    BY <2>4, ActedFacts, ActedEven DEF Acting
  <2> HIDE DEF d
  <2>6. d.phase = "betting"
    BY <2>5 DEF SameHand
  <2> QED BY <1>1, <2>1, <2>5, <2>6, SettlePaysRight
<1>4. ASSUME NEW s \in Seats, Forfeit(s) PROVE PaysRight(h')
  <2>1. /\ s \in Live(h) /\ h.phase \in {"betting", "deal_pending"}
        /\ h' = AfterForfeit(Fold(h, s), s)
    BY <1>4 DEF Forfeit
  <2>2. NoDeadBlind => Even(h)
    BY <1>1, <2>1
  <2> QED BY <1>1, <2>1, <2>2, AfterForfeitPaysRight
<1>5. ASSUME NEW s1 \in DealtStrengths(1), NEW s2 \in DealtStrengths(2),
             Advance(s1, s2)
      PROVE  PaysRight(h')
  <2> DEFINE d == Dealing(h, s1, s2)
             n == NewRound(d)
  <2>1. /\ h.phase = "deal_pending"
        /\ h' = IF ~h.runout THEN Settle(n, NextSeat(cfg.button))
                ELSE IF d.street = River THEN Showdown(d)
                ELSE d
    BY <1>5 DEF Advance
  <2>2. /\ Books(h) /\ NothingInFront(h) /\ h.street < River
        /\ (NoDeadBlind => Even(h))
    BY <1>1, <2>1 DEF Good
  <2>3. d \in Hand /\ d.pl = h.pl /\ d.phase = "deal_pending"
    BY <1>1, <2>1, <2>2, DealtStrengthsType, DealingFacts
  <2> HIDE DEF d
  <2>4. Books(d) /\ NothingInFront(d) /\ SameBets(d, h)
    BY <2>2, <2>3 DEF Books, NothingInFront, SameBets
  <2>5. NoDeadBlind => Even(d)
    BY <2>2, <2>4, EvenStays
  <2>6. /\ n \in Hand /\ Books(n) /\ Price(n) /\ n.phase = "betting"
        /\ (NoDeadBlind => Even(n))
    BY <1>1, <2>3, <2>4, <2>5, NewRoundFacts, NewRoundEven
  <2> HIDE DEF n
  <2>7. PaysRight(Settle(n, NextSeat(cfg.button)))
    BY <1>1, <2>6, SettlePaysRight
  <2>8. PaysRight(Showdown(d))
    BY <1>1, <2>3, <2>4, <2>5, ShowdownPaysRight
  <2>9. PaysRight(d)
    BY <2>3, NothingToPay DEF Contested
  <2> QED BY <2>1, <2>7, <2>8, <2>9
<1>6. ASSUME RunItTwice PROVE PaysRight(h')
  <2> DEFINE c == [h EXCEPT !.runTwice = TRUE]
  <2>1. h.phase = "deal_pending" /\ h' = c
    BY <1>6 DEF RunItTwice, CanRunItTwice
  <2>2. c.phase = "deal_pending"
    BY <1>1, <2>1 DEF Hand
  <2> HIDE DEF c
  <2> QED BY <2>1, <2>2, NothingToPay DEF Contested
<1>7. ASSUME RevealNext PROVE PaysRight(h')
  <2> DEFINE s == OnShow(h)
             q == h.pl[s]
             p == IF q.revealed THEN q
                  ELSE IF MustShow(h, s) THEN Faced(q)
                  ELSE [q EXCEPT !.mucked = TRUE]
             r == [h EXCEPT !.showIdx = h.showIdx + 1, !.pl[s] = p]
  <2>1. /\ h.phase = "showdown"
        /\ h' = IF r.showIdx >= Cardinality(Live(r)) THEN AwardPots(r) ELSE r
    BY <1>7 DEF RevealNext
  <2>2. s \in Seats => /\ p \in Player
                       /\ q \in Sound => p \in Sound
                       /\ p.folded = q.folded /\ p.allIn = q.allIn
                       /\ p.bet = q.bet /\ p.committed = q.committed
    <3>1. \A x \in Player :
            LET m == [x EXCEPT !.mucked = TRUE]
            IN  /\ m \in Player /\ (x \in Sound => m \in Sound)
                /\ m.folded = x.folded /\ m.allIn = x.allIn
                /\ m.bet = x.bet /\ m.committed = x.committed
      BY DEF Player, Sound
    <3>2. \A x \in Player :
            /\ Faced(x) \in Player /\ (x \in Sound => Faced(x) \in Sound)
            /\ Faced(x).folded = x.folded /\ Faced(x).allIn = x.allIn
            /\ Faced(x).bet = x.bet /\ Faced(x).committed = x.committed
      BY DEF Faced, Player, Sound
    <3>3. s \in Seats => q \in Player
      BY <1>1, HandFields
    <3> HIDE DEF s, q
    <3> QED BY <3>1, <3>2, <3>3
  <2> HIDE DEF p, s
  <2>3. /\ r \in Hand /\ r.phase = "showdown" /\ Books(r) /\ NothingInFront(r)
    BY <1>1, <2>1, <2>2, RevealStepFacts DEF Good
  <2>4. SameBets(r, h)
    <3>1. \A t \in Seats : r.pl[t] = IF t = s THEN p ELSE h.pl[t]
      BY <1>1 DEF Hand
    <3> HIDE DEF r
    <3> QED BY <2>2, <3>1 DEF SameBets
  <2> HIDE DEF r
  <2>5. NoDeadBlind => Even(r)
    BY <1>1, <2>1, <2>4, EvenStays
  <2>6. PaysRight(AwardPots(r))
    BY <1>1, <2>3, <2>5, AwardPotsPaysRight
  <2>7. PaysRight(r)
    BY <2>3, NothingToPay DEF Contested
  <2> QED BY <2>1, <2>6, <2>7
<1>8. ASSUME NEW s \in Seats, NEW cards \in SUBSET {1, 2}, ShowCards(s, cards)
      PROVE  PaysRight(h')
  <2> DEFINE q == Exposed(h.pl[s], cards)
             c == [h EXCEPT !.pl[s] = q]
  <2>1. h' = c
    BY <1>8 DEF ShowCards
  <2>2. /\ q.folded = h.pl[s].folded /\ q.startStack = h.pl[s].startStack
        /\ q.stack = h.pl[s].stack /\ q.won = h.pl[s].won
    <3>1. h.pl[s] \in Player
      BY <1>1, HandFields
    <3> QED BY <3>1 DEF Exposed, Player
  <2> HIDE DEF q
  <2>3. /\ c.phase = h.phase /\ c.runTwice = h.runTwice /\ c.strength = h.strength
        /\ \A t \in Seats : c.pl[t] = IF t = s THEN q ELSE h.pl[t]
    BY <1>1 DEF Hand
  <2> HIDE DEF c
  <2>4. \A t \in Seats : /\ c.pl[t].folded = h.pl[t].folded
                         /\ c.pl[t].startStack = h.pl[t].startStack
                         /\ c.pl[t].stack = h.pl[t].stack
                         /\ c.pl[t].won = h.pl[t].won
    BY <2>2, <2>3
  <2>5. Live(c) = Live(h)
    BY <2>4, SameLive
  <2>6. Contested(c) => Contested(h)
    BY <2>3, <2>5 DEF Contested
  <2>7. PaysRight(c)
    BY <2>3, <2>4, <2>6, PayStays
  <2> QED BY <2>1, <2>7
<1>9. ASSUME Over PROVE PaysRight(h')
  BY <1>9 DEF Over, vars
<1> QED BY <1>2, <1>3, <1>4, <1>5, <1>6, <1>7, <1>8, <1>9 DEF Next

PayInv == MatchInv /\ PaysRight(h)

\* A new hand meets the invariant, and every step keeps it.
LEMMA PayStart == Init => PayInv
<1> SUFFICES ASSUME Init PROVE PayInv
  OBVIOUS
<1>1. PICK stacks \in [Seats -> StartStacks] : h = NewHand(stacks)
  BY DEF Init
<1>2. cfg \in Configs
  BY DEF Init
<1>3. cfg \in HandConfig
  BY <1>2, ConfigAssumption
<1>4. PICK g, first : /\ first \in Int /\ Opening(g)
                      /\ NewHand(stacks) = Settle(g, first)
  BY <1>2, NewHandOpens
<1>5. g \in Hand /\ Books(g) /\ Price(g) /\ g.phase = "betting"
  BY <1>4 DEF Opening
<1>6. NoDeadBlind => Even(g)
  BY <1>3, <1>4, OpeningEven DEF NoDeadBlind
<1>7. PaysRight(Settle(g, first))
  BY <1>3, <1>5, <1>6, SettlePaysRight
<1>8. PaysRight(h)
  BY <1>1, <1>4, <1>7
<1> QED BY <1>8, MatchStart DEF PayInv

LEMMA PayStep == PayInv /\ [Next]_vars => PayInv'
<1> SUFFICES ASSUME PayInv, [Next]_vars PROVE PayInv'
  OBVIOUS
<1>1. MatchInv'
  BY MatchStep DEF PayInv
<1>2. cfg' = cfg
  BY DEF Next, Apply, Timeout, Forfeit, Advance, RunItTwice, RevealNext,
         ShowCards, Over, vars
<1>3. NoDeadBlind' <=> NoDeadBlind
  BY <1>2 DEF NoDeadBlind
<1>4. PaysRight(h')
  <2>1. CASE Next
    BY <2>1, NextPaysRight DEF PayInv
  <2>2. CASE UNCHANGED vars
    BY <2>2 DEF PayInv, vars
  <2> QED BY <2>1, <2>2
<1>5. PaysRight(h)' <=> BeatenWinsNothing(h') /\ (NoDeadBlind' => PaysReach(h'))
  BY DEF PaysRight, BeatenWinsNothing, PaysReach, Contested, PaidTo, ReachTo,
         Live, Boards
<1> QED BY <1>1, <1>3, <1>4, <1>5 DEF PayInv, PaysRight

LEMMA PayInvHolds == Spec => []PayInv
  BY PayStart, PayStep, PTL DEF Spec

(***************************************************************************)
(* ShowdownPaysReach: at a showdown without a dead blind a covered seat    *)
(* wins no more than what it paid from everybody, and on one board the     *)
(* strongest hand no less (awardPots and buildPots together).              *)
(***************************************************************************)
THEOREM ReachIsPaid == Spec => []ShowdownPaysReach
<1>1. PayInv => ShowdownPaysReach
  <2> SUFFICES ASSUME PayInv, AtShowdown, NoDeadBlind, NEW s \in Live(h)
               PROVE  /\ (\E t \in Live(h) : Paid(t) > Paid(s))
                           => h.pl[s].won <= Reach(s)
                      /\ /\ ~h.runTwice
                         /\ \A t \in Live(h) \ {s} : h.strength[1][t] < h.strength[1][s]
                         => h.pl[s].won >= Reach(s)
    BY DEF ShowdownPaysReach
  <2>1. PaysReach(h) /\ Contested(h)
    BY DEF PayInv, PaysRight, AtShowdown, Contested
  <2>2. \A t \in Seats : Paid(t) = PaidTo(h, t) /\ Reach(t) = ReachTo(h, t)
    BY DEF Paid, PaidTo, Reach, ReachTo
  <2>3. Live(h) \subseteq Seats
    BY LiveFacts
  <2>4. /\ (\E t \in Live(h) : PaidTo(h, t) > PaidTo(h, s))
             => h.pl[s].won <= ReachTo(h, s)
        /\ /\ ~h.runTwice
           /\ \A t \in Live(h) \ {s} : h.strength[1][t] < h.strength[1][s]
           => h.pl[s].won >= ReachTo(h, s)
    BY <2>1 DEF PaysReach
  <2> QED BY <2>2, <2>3, <2>4
<1> QED BY <1>1, PayInvHolds, PTL

(***************************************************************************)
(* At a showdown a seat wins nothing when on every board it is beaten by   *)
(* one that paid as much, dead blinds or not.                              *)
(***************************************************************************)
THEOREM TheBeatenWinNothing == Spec => []BeatenWinsNothing(h)
<1>1. PayInv => BeatenWinsNothing(h)
  BY DEF PayInv, PaysRight
<1> QED BY <1>1, PayInvHolds, PTL

-----------------------------------------------------------------------------
(* Who has shown and who has mucked *)

\* The same hands lie open, the same are mucked, on as many boards.
SameFaces(c, g) ==
  /\ c.runout = g.runout /\ c.runTwice = g.runTwice
  /\ \A s \in Seats : /\ c.pl[s].revealed = g.pl[s].revealed
                      /\ c.pl[s].mucked = g.pl[s].mucked

\* Changes of a player that turn no card.
LEMMA PlayerFaces ==
  ASSUME NEW p \in Player
  PROVE  /\ Folded(p).revealed = p.revealed /\ Folded(p).mucked = p.mucked
         /\ Pooled(p).revealed = p.revealed /\ Pooled(p).mucked = p.mucked
         /\ \A n : /\ Staked(p, n).revealed = p.revealed
                   /\ Staked(p, n).mucked = p.mucked
                   /\ Returned(p, n).revealed = p.revealed
                   /\ Returned(p, n).mucked = p.mucked
                   /\ Prized(p, n).revealed = p.revealed
                   /\ Prized(p, n).mucked = p.mucked
  BY DEF Folded, Pooled, Staked, Returned, Prized, Player

\* A seat's player replaced by one that shows the same.
LEMMA SeatFaces ==
  ASSUME NEW g \in Hand, NEW s \in Seats, NEW p,
         p.revealed = g.pl[s].revealed, p.mucked = g.pl[s].mucked
  PROVE  SameFaces([g EXCEPT !.pl[s] = p], g)
<1> DEFINE c == [g EXCEPT !.pl[s] = p]
<1>1. \A t \in Seats : c.pl[t] = IF t = s THEN p ELSE g.pl[t]
  BY DEF Hand
<1>2. c.runout = g.runout /\ c.runTwice = g.runTwice
  BY DEF Hand
<1> HIDE DEF c
<1>3. SameFaces(c, g)
  BY <1>1, <1>2 DEF SameFaces
<1> QED BY <1>3 DEF c

\* Steps that turn no card join into one.
LEMMA FacesJoin ==
  ASSUME NEW c, NEW d, NEW g, SameFaces(c, d), SameFaces(d, g)
  PROVE  SameFaces(c, g)
  BY DEF SameFaces

\* An uncalled bet goes back without a card turned.
LEMMA ReturnUncalledFaces ==
  ASSUME NEW g \in Hand
  PROVE  SameFaces(ReturnUncalled(g), g)
<1> DEFINE top == TopBettor(g)
           n == Uncalled(g)
           q == Returned(g.pl[top], n)
           c == [g EXCEPT !.pl[top] = q]
<1>1. top \in Seats
  BY UncalledFacts
<1>2. g.pl[top] \in Player
  BY <1>1, HandFields
<1>3. ReturnUncalled(g) = IF n > 0 THEN c ELSE g
  BY DEF ReturnUncalled
<1>4. q.revealed = g.pl[top].revealed /\ q.mucked = g.pl[top].mucked
  BY <1>2, PlayerFaces
<1> HIDE DEF top, n, q
<1>5. SameFaces(c, g)
  BY <1>1, <1>4, SeatFaces
<1>6. SameFaces(g, g)
  BY DEF SameFaces
<1> QED BY <1>3, <1>5, <1>6

\* So do the bets into the pots.
LEMMA CollectFaces ==
  ASSUME NEW g \in Hand
  PROVE  SameFaces(Collect(g), g)
<1>1. /\ \A s \in Seats : Collect(g).pl[s] = Pooled(g.pl[s])
      /\ Collect(g).runout = g.runout /\ Collect(g).runTwice = g.runTwice
  BY DEF Collect, Hand
<1>2. \A s \in Seats : g.pl[s] \in Player
  BY HandFields
<1> QED BY <1>1, <1>2, PlayerFaces DEF SameFaces

\* A folded hand stays as it lies.
LEMMA FoldFaces ==
  ASSUME NEW g \in Hand, NEW s \in Seats
  PROVE  SameFaces(Fold(g, s), g)
<1> DEFINE q == Folded(g.pl[s])
<1>1. g.pl[s] \in Player
  BY HandFields
<1>2. q.revealed = g.pl[s].revealed /\ q.mucked = g.pl[s].mucked
  BY <1>1, PlayerFaces
<1> HIDE DEF q
<1>3. SameFaces([g EXCEPT !.pl[s] = q], g)
  BY <1>2, SeatFaces
<1> QED BY <1>3 DEF Fold, q

\* Chips put up turn no card.
LEMMA CommitFaces ==
  ASSUME NEW g \in Hand, NEW s \in Seats, NEW n
  PROVE  SameFaces(Commit(g, s, n), g)
<1> DEFINE q == Staked(g.pl[s], n)
<1>1. g.pl[s] \in Player
  BY HandFields
<1>2. q.revealed = g.pl[s].revealed /\ q.mucked = g.pl[s].mucked
  BY <1>1, PlayerFaces
<1> HIDE DEF q
<1>3. SameFaces([g EXCEPT !.pl[s] = q], g)
  BY <1>2, SeatFaces
<1> QED BY <1>3 DEF Commit, q

\* Nor does the mark that a seat has acted.
LEMMA ActedFaces ==
  ASSUME NEW g \in Hand, NEW s \in Seats
  PROVE  SameFaces(Acted(g, s), g)
<1> DEFINE q == [g.pl[s] EXCEPT !.hasActed = TRUE,
                                !.actedAtFullLevel = g.lastFullBetLevel]
<1>1. g.pl[s] \in Player
  BY HandFields
<1>2. q.revealed = g.pl[s].revealed /\ q.mucked = g.pl[s].mucked
  BY <1>1 DEF Player
<1> HIDE DEF q
<1>3. SameFaces([g EXCEPT !.pl[s] = q], g)
  BY <1>2, SeatFaces
<1> QED BY <1>3 DEF Acted, q

\* Nor a wager.
LEMMA WagerToFaces ==
  ASSUME NEW g \in Hand, NEW s \in Seats, NEW amount, NEW minTo,
         Commit(g, s, amount - g.pl[s].bet) \in Hand
  PROVE  SameFaces(WagerTo(g, s, amount, minTo), g)
<1> DEFINE k == Commit(g, s, amount - g.pl[s].bet)
           c == [k EXCEPT !.currentBet = amount, !.aggressor = s]
           d == [c EXCEPT !.lastRaiseSize = amount - g.currentBet,
                          !.lastFullBetLevel = amount]
<1>1. WagerTo(g, s, amount, minTo) = IF amount >= minTo THEN d ELSE c
  BY DEF WagerTo
<1>2. SameFaces(k, g) /\ k \in Hand
  BY CommitFaces
<1> HIDE DEF k
<1>3. /\ c.pl = k.pl /\ c.runout = k.runout /\ c.runTwice = k.runTwice
      /\ d.pl = k.pl /\ d.runout = k.runout /\ d.runTwice = k.runTwice
  BY <1>2 DEF Hand
<1> HIDE DEF c, d
<1> QED BY <1>1, <1>2, <1>3 DEF SameFaces

\* So no action of a player turns a card.
LEMMA PerformFaces ==
  ASSUME NEW g \in Hand, NEW s \in Seats, Price(g), NEW a \in Actions,
         Legal(g, s, Resolve(g, s, a))
  PROVE  SameFaces(Perform(g, s, Resolve(g, s, a)), g)
<1> DEFINE r == Resolve(g, s, a)
           c == Perform(g, s, r)
           n == r.amount - g.pl[s].bet
<1>1. /\ r.kind \in {"fold", "check", "call", "bet", "raise"}
      /\ r.amount \in Nat
      /\ r.kind = "bet" => g.currentBet = 0
  BY ResolveFacts
<1> HIDE DEF r
<1>2. /\ g.pl[s].bet \in Nat /\ g.pl[s].stack \in Nat /\ g.currentBet \in Nat
      /\ g.pl[s].bet <= g.currentBet
  BY HandFields DEF Player, Price
<1>3. CASE r.kind = "fold"
  BY <1>3, FoldFaces DEF Perform, r
<1>4. CASE r.kind = "check"
  <2>1. SameFaces(g, g)
    BY DEF SameFaces
  <2> QED BY <1>4, <2>1 DEF Perform, r
<1>5. CASE r.kind = "call"
  BY <1>5, CommitFaces DEF Perform, r
<1>6. ASSUME r.kind \in {"bet", "raise"} PROVE Commit(g, s, n) \in Hand
  <2>1. r.amount >= g.currentBet /\ r.amount <= MaxTo(g, s)
    <3>1. CASE r.kind = "bet"
      BY <1>1, <1>2, <3>1 DEF Legal, LegalBet, r
    <3>2. CASE r.kind = "raise"
      BY <1>1, <1>2, <3>2 DEF Legal, LegalRaise, MaxTo, r
    <3> QED BY <1>6, <3>1, <3>2
  <2>2. n \in Nat /\ n <= g.pl[s].stack
    BY <1>1, <1>2, <2>1 DEF MaxTo
  <2> HIDE DEF n
  <2> QED BY <2>2, CommitFacts
<1>7. CASE r.kind = "bet"
  <2>1. c = WagerTo(g, s, r.amount, cfg.bb)
    BY <1>7 DEF Perform
  <2>2. Commit(g, s, r.amount - g.pl[s].bet) \in Hand
    BY <1>6, <1>7
  <2>3. SameFaces(WagerTo(g, s, r.amount, cfg.bb), g)
    BY <2>2, WagerToFaces
  <2> QED BY <2>1, <2>3 DEF r
<1>8. CASE r.kind = "raise"
  <2>1. c = WagerTo(g, s, r.amount, MinRaiseTo(g))
    BY <1>8 DEF Perform
  <2>2. Commit(g, s, r.amount - g.pl[s].bet) \in Hand
    BY <1>6, <1>8
  <2>3. SameFaces(WagerTo(g, s, r.amount, MinRaiseTo(g)), g)
    BY <2>2, WagerToFaces
  <2> QED BY <2>1, <2>3 DEF r
<1> QED BY <1>1, <1>3, <1>4, <1>5, <1>7, <1>8

\* A new betting round keeps the cards as they lie.
LEMMA NewRoundFaces ==
  ASSUME NEW g \in Hand
  PROVE  SameFaces(NewRound(g), g)
<1> DEFINE Fresh(p) == [p EXCEPT !.hasActed = FALSE, !.actedAtFullLevel = 0]
<1>1. /\ \A s \in Seats : NewRound(g).pl[s] = Fresh(g.pl[s])
      /\ NewRound(g).runout = g.runout /\ NewRound(g).runTwice = g.runTwice
  BY DEF NewRound, Hand
<1>2. \A p \in Player : /\ Fresh(p).revealed = p.revealed
                        /\ Fresh(p).mucked = p.mucked
  BY DEF Player
<1> HIDE DEF Fresh
<1>3. \A s \in Seats : g.pl[s] \in Player
  BY HandFields
<1> QED BY <1>1, <1>2, <1>3 DEF SameFaces

-----------------------------------------------------------------------------
(* Cards stay hidden that need not be seen *)

Unmucked(g) == \A s \in Seats : ~g.pl[s].mucked
Unseen(g) == \A s \in Seats : ~g.pl[s].revealed

\* What NoCardLeaks says of a step from g to c.
ShowsFairly(c, g) ==
  /\ \A s \in Seats :
       /\ g.pl[s].revealed => c.pl[s].revealed
       /\ c.pl[s].revealed /\ ~g.pl[s].revealed => ~c.pl[s].folded
  /\ Cardinality(Live(c)) = 1 =>
       \A s \in Seats : c.pl[s].revealed = g.pl[s].revealed

\* The cards of a hand lie right.
CardsRight(g) ==
  /\ g.runTwice => g.runout
  /\ g.phase = "betting" => ~g.runout
  /\ g.phase \in {"betting", "deal_pending"} => Unmucked(g)
  /\ g.phase \in {"betting", "deal_pending"} /\ ~g.runout => Unseen(g)
  /\ g.phase = "deal_pending" /\ g.runout =>
       \A s \in Live(g) : g.pl[s].revealed
  /\ g.phase = "showdown" =>
       /\ ~g.runout /\ g.showIdx < Cardinality(Live(g))
       /\ \A s \in Seats, l \in DOMAIN PotsOf(g) :
            g.pl[s].mucked => s \notin Winners(g, PotsOf(g)[l], 1)
  /\ g.phase = "result" =>
       \A s \in Seats :
         /\ g.pl[s].mucked => g.pl[s].won = 0
         /\ Cardinality(Live(g)) >= 2 /\ g.pl[s].won > 0 => g.pl[s].revealed

\* Who wins no pot on the one board gets no prize.
LEMMA NoPrize ==
  ASSUME NEW g \in Hand, ~g.runTwice, NEW s,
         \A l \in DOMAIN PotsOf(g) : s \notin Winners(g, PotsOf(g)[l], 1)
  PROVE  Prize(g, PotsOf(g), s) = 0
<1> DEFINE pots == PotsOf(g)
           f == [l \in DOMAIN pots |-> PotShare(g, pots[l], s)]
<1>1. \A l \in DOMAIN pots : PotShare(g, pots[l], s) = 0
  BY DEF PotShare, Share
<1>2. IsFiniteSet(DOMAIN pots)
  BY PotsOfType DEF IsPots
<1>3. DOMAIN f = DOMAIN pots /\ \A l \in DOMAIN pots : f[l] = 0
  BY <1>1
<1>4. Prize(g, pots, s) = Total(f)
  BY DEF Prize
<1> HIDE DEF f, pots
<1>5. Total([l \in {} |-> f[l]]) = 0
  BY TotalOfNone
<1>6. Total(f) = Total([l \in {} |-> f[l]])
  BY <1>3, TotalOfSupport
<1> QED BY <1>4, <1>5, <1>6 DEF pots

\* Nor does who is on neither board.
LEMMA NoPotNoPrize ==
  ASSUME NEW g \in Hand, NEW s, ~WinsAPot(g, PotsOf(g), s)
  PROVE  Prize(g, PotsOf(g), s) = 0
<1> DEFINE pots == PotsOf(g)
           f == [l \in DOMAIN pots |-> PotShare(g, pots[l], s)]
<1>1. \A l \in DOMAIN pots : PotShare(g, pots[l], s) = 0
  <2>1. SUFFICES ASSUME NEW l \in DOMAIN pots PROVE PotShare(g, pots[l], s) = 0
    OBVIOUS
  <2>2. \A b \in Boards(g) : s \notin Winners(g, pots[l], b)
    BY DEF WinsAPot
  <2>3. \A W, n : s \notin W => Share(W, n, s) = 0
    BY DEF Share
  <2>4. CASE g.runTwice
    <3>1. /\ s \notin Winners(g, pots[l], 1)
          /\ s \notin Winners(g, pots[l], 2)
      BY <2>2, <2>4 DEF Boards
    <3> HIDE DEF pots
    <3> QED BY <2>3, <2>4, <3>1 DEF PotShare
  <2>5. CASE ~g.runTwice
    <3>1. s \notin Winners(g, pots[l], 1)
      BY <2>2, <2>5 DEF Boards
    <3> HIDE DEF pots
    <3> QED BY <2>3, <2>5, <3>1 DEF PotShare
  <2> QED BY <2>4, <2>5
<1>2. IsFiniteSet(DOMAIN pots)
  BY PotsOfType DEF IsPots
<1>3. DOMAIN f = DOMAIN pots /\ \A l \in DOMAIN pots : f[l] = 0
  BY <1>1
<1>4. Prize(g, pots, s) = Total(f)
  BY DEF Prize
<1> HIDE DEF f, pots
<1>5. Total([l \in {} |-> f[l]]) = 0
  BY TotalOfNone
<1>6. Total(f) = Total([l \in {} |-> f[l]])
  BY <1>3, TotalOfSupport
<1> QED BY <1>4, <1>5, <1>6 DEF pots

\* The award turns over winners, and nobody who mucked is one.
LEMMA AwardPotsShows ==
  ASSUME NEW g \in Hand, Books(g), Cardinality(Live(g)) >= 2,
         g.runTwice => g.runout,
         Unmucked(g) \/ ( /\ ~g.runTwice
                          /\ \A s \in Seats, l \in DOMAIN PotsOf(g) :
                               g.pl[s].mucked => s \notin Winners(g, PotsOf(g)[l], 1) )
  PROVE  CardsRight(AwardPots(g)) /\ ShowsFairly(AwardPots(g), g)
<1> DEFINE pots == PotsOf(g)
           n(s) == Prize(g, pots, s)
           Won(s) == Prized(g.pl[s], n(s))
           pl == [s \in Seats |->
                    IF s \in Live(g) /\ WinsAPot(g, pots, s) THEN Faced(Won(s))
                                                            ELSE Won(s)]
           c == [g EXCEPT !.pl = pl]
           f == Finish(c, pots)
<1>1. AwardPots(g) = f
  BY DEF AwardPots
<1>2. \A s \in Seats : n(s) \in Nat
  <2>1. IsPots(pots, Seats)
    BY PotsOfType
  <2> HIDE DEF pots
  <2> QED BY <2>1, PrizeType
<1>3. \A s \in Seats : g.pl[s].mucked => n(s) = 0
  BY NoPrize DEF Unmucked
<1>4. ASSUME NEW s \in Seats
      PROVE  /\ pl[s] \in Player /\ pl[s].won = g.pl[s].won + n(s)
             /\ pl[s].folded = g.pl[s].folded /\ pl[s].mucked = g.pl[s].mucked
             /\ pl[s].revealed => g.pl[s].revealed \/ s \in Live(g)
             /\ g.pl[s].revealed => pl[s].revealed
             /\ s \in Live(g) /\ WinsAPot(g, pots, s) => pl[s].revealed
  <2> DEFINE p == g.pl[s]
             q == Won(s)
             k == n(s)
  <2>1. q = Prized(p, k) /\ p \in Player /\ k \in Nat
    BY <1>2, HandFields
  <2>2. pl[s] = (IF s \in Live(g) /\ WinsAPot(g, pots, s) THEN Faced(q) ELSE q)
    OBVIOUS
  <2> HIDE DEF pl, Won, p, q, k
  <2>3. /\ q \in Player /\ q.won = p.won + k /\ q.folded = p.folded
        /\ Faced(q) \in Player /\ Faced(q).won = p.won + k
        /\ Faced(q).folded = p.folded
    BY <2>1, PrizedFields
  <2>4. q.revealed = p.revealed /\ q.mucked = p.mucked
    BY <2>1, PlayerFaces
  <2>5. Faced(q).mucked = q.mucked /\ Faced(q).revealed
    BY <2>3 DEF Faced, Player
  <2>6. CASE pl[s] = Faced(q) /\ s \in Live(g)
    BY <2>3, <2>4, <2>5, <2>6 DEF p, k
  <2>7. CASE pl[s] = q /\ ~(s \in Live(g) /\ WinsAPot(g, pots, s))
    BY <2>3, <2>4, <2>7 DEF p, k
  <2> QED BY <2>2, <2>6, <2>7
<1>5. /\ f.phase = "result" /\ f.runout = g.runout /\ f.runTwice = g.runTwice
      /\ \A s \in Seats : f.pl[s] = [pl[s] EXCEPT !.committed = 0]
  <2>1. /\ c.pl = pl /\ c.runout = g.runout /\ c.runTwice = g.runTwice
    BY DEF Hand
  <2> HIDE DEF pots, pl
  <2> QED BY <2>1 DEF Finish, Hand
<1> HIDE DEF pl, f, n
<1>6. \A p \in Player : LET z == [p EXCEPT !.committed = 0]
                        IN  /\ z.won = p.won /\ z.folded = p.folded
                            /\ z.mucked = p.mucked /\ z.revealed = p.revealed
  BY DEF Player
<1>7. \A s \in Seats : /\ f.pl[s].won = g.pl[s].won + n(s)
                       /\ f.pl[s].folded = g.pl[s].folded
                       /\ f.pl[s].mucked = g.pl[s].mucked
                       /\ f.pl[s].revealed => g.pl[s].revealed \/ s \in Live(g)
                       /\ g.pl[s].revealed => f.pl[s].revealed
                       /\ s \in Live(g) /\ WinsAPot(g, pots, s) => f.pl[s].revealed
  <2>1. SUFFICES ASSUME NEW s \in Seats
                 PROVE  /\ f.pl[s].won = g.pl[s].won + n(s)
                        /\ f.pl[s].folded = g.pl[s].folded
                        /\ f.pl[s].mucked = g.pl[s].mucked
                        /\ f.pl[s].revealed => g.pl[s].revealed \/ s \in Live(g)
                        /\ g.pl[s].revealed => f.pl[s].revealed
                        /\ s \in Live(g) /\ WinsAPot(g, pots, s) => f.pl[s].revealed
    OBVIOUS
  <2>2. /\ pl[s] \in Player /\ pl[s].won = g.pl[s].won + n(s)
        /\ pl[s].folded = g.pl[s].folded /\ pl[s].mucked = g.pl[s].mucked
        /\ pl[s].revealed => g.pl[s].revealed \/ s \in Live(g)
        /\ g.pl[s].revealed => pl[s].revealed
        /\ s \in Live(g) /\ WinsAPot(g, pots, s) => pl[s].revealed
    BY <1>4
  <2>3. /\ f.pl[s].won = pl[s].won /\ f.pl[s].folded = pl[s].folded
        /\ f.pl[s].mucked = pl[s].mucked /\ f.pl[s].revealed = pl[s].revealed
    BY <1>5, <1>6, <2>2
  <2> QED BY <2>2, <2>3
<1>8. \A s \in Seats : g.pl[s].won = 0
  BY DEF Books, Sound
<1>12. \A s \in Seats : f.pl[s].won > 0 => f.pl[s].revealed
  <2>1. SUFFICES ASSUME NEW s \in Seats, ~f.pl[s].revealed
                 PROVE  f.pl[s].won = 0
    BY <1>2, <1>7, <1>8
  <2>2. ~(s \in Live(g) /\ WinsAPot(g, pots, s))
    BY <1>7, <2>1
  <2>3. ~WinsAPot(g, pots, s)
    <3>1. \A l \in DOMAIN pots, b \in Boards(g) :
            s \in Winners(g, pots[l], b) => s \in pots[l].eligible
      BY DEF Winners
    <3>2. \A l \in DOMAIN pots : pots[l].eligible \subseteq Live(g)
      BY PotsOfHoldAll DEF FullPots
    <3> HIDE DEF pots
    <3> QED BY <2>2, <3>1, <3>2 DEF WinsAPot
  <2>4. n(s) = 0
    BY <2>3, NoPotNoPrize DEF n
  <2> QED BY <1>7, <1>8, <2>4
<1>9. CardsRight(f)
  BY <1>3, <1>5, <1>7, <1>8, <1>12 DEF CardsRight
<1>10. Live(f) = Live(g) /\ Cardinality(Live(g)) \in Nat
  BY <1>7, SameLive, LiveFacts
<1>11. ShowsFairly(f, g)
  <2>1. Cardinality(Live(f)) # 1
    BY <1>10
  <2>2. \A s \in Seats :
          /\ g.pl[s].revealed => f.pl[s].revealed
          /\ f.pl[s].revealed /\ ~g.pl[s].revealed => ~f.pl[s].folded
    BY <1>7 DEF Live
  <2> QED BY <2>1, <2>2 DEF ShowsFairly
<1> QED BY <1>1, <1>9, <1>11

\* A step that turns no card shows fairly, and one after it still does.
LEMMA FairAfter ==
  ASSUME NEW d, NEW g, SameFaces(d, g)
  PROVE  /\ ShowsFairly(d, g)
         /\ \A c : ShowsFairly(c, d) => ShowsFairly(c, g)
  BY DEF SameFaces, ShowsFairly

\* Nobody's cards are seen when everybody else folded.
LEMMA FinishUncontestedShows ==
  ASSUME NEW g \in Hand, Cardinality(Live(g)) = 1, Unmucked(g),
         g.runTwice => g.runout
  PROVE  /\ CardsRight(FinishUncontested(g))
         /\ ShowsFairly(FinishUncontested(g), g)
<1> DEFINE r      == ReturnUncalled(g)
           c      == Collect(r)
           pots   == PotsOf(c)
           winner == CHOOSE s \in Seats : s \in Live(c)
           n      == Total(AmountsOf(pots))
           q      == Prized(c.pl[winner], n)
           d      == [c EXCEPT !.pl[winner] = q]
           f      == Finish(d, pots)
<1>1. r \in Hand /\ SameHand(r, g) /\ SameFaces(r, g)
  BY ReturnUncalledFacts, ReturnUncalledFaces
<1> HIDE DEF r
<1>2. c \in Hand /\ SameHand(c, r) /\ SameFaces(c, r)
  BY <1>1, CollectFacts, CollectFaces
<1> HIDE DEF c
<1>3. Live(c) = Live(g)
  BY <1>1, <1>2, SameLive DEF SameHand
<1>17. Live(g) # {}
  BY FS_EmptySet
<1>4. winner \in Seats
  BY <1>3, <1>17 DEF Live
<1>5. FinishUncontested(g) = f
  BY DEF FinishUncontested, c, r
<1>6. IsPots(pots, Seats)
  BY <1>2, PotsOfType
<1> HIDE DEF winner, pots
<1>7. n \in Nat
  BY <1>6, AmountsType
<1> HIDE DEF n
<1>8. c.pl[winner] \in Player
  BY <1>2, <1>4, HandFields
<1>9. q \in Player /\ q.revealed = c.pl[winner].revealed
      /\ q.mucked = c.pl[winner].mucked /\ q.folded = c.pl[winner].folded
  BY <1>7, <1>8, PrizedType, PrizedFields, PlayerFaces
<1> HIDE DEF q
<1>10. d \in Hand /\ SameFaces(d, c)
  BY <1>2, <1>4, <1>9, SeatReplaced, SeatFaces
<1>18. \A s \in Seats : d.pl[s].folded = c.pl[s].folded
  <2>1. \A s \in Seats : d.pl[s] = IF s = winner THEN q ELSE c.pl[s]
    BY <1>2 DEF Hand
  <2> HIDE DEF d
  <2> QED BY <1>9, <2>1
<1> HIDE DEF d
<1>11. /\ f.phase = "result" /\ f.runout = d.runout /\ f.runTwice = d.runTwice
       /\ \A s \in Seats : f.pl[s] = [d.pl[s] EXCEPT !.committed = 0]
  BY <1>10 DEF Finish, Hand
<1>12. \A s \in Seats : d.pl[s] \in Player
  BY <1>10, HandFields
<1> HIDE DEF f
<1>13. \A p \in Player : /\ [p EXCEPT !.committed = 0].revealed = p.revealed
                         /\ [p EXCEPT !.committed = 0].mucked = p.mucked
                         /\ [p EXCEPT !.committed = 0].folded = p.folded
  BY DEF Player
<1>14. SameFaces(f, d)
  BY <1>11, <1>12, <1>13 DEF SameFaces
<1>15. SameFaces(f, g)
  BY <1>1, <1>2, <1>10, <1>14, FacesJoin
<1>19. ~(Cardinality(Live(f)) >= 2)
  <2>1. \A s \in Seats : f.pl[s].folded = c.pl[s].folded
    BY <1>11, <1>12, <1>13, <1>18
  <2> QED BY <1>3, <2>1, SameLive
<1>16. CardsRight(f)
  BY <1>11, <1>15, <1>19 DEF CardsRight, SameFaces, Unmucked
<1> QED BY <1>5, <1>15, <1>16, FairAfter

\* A showdown begins with every hand still to be shown, or pays at once.
LEMMA ShowdownShows ==
  ASSUME NEW g \in Hand, Books(g), Cardinality(Live(g)) >= 2, Unmucked(g),
         g.runTwice => g.runout,
         g.runout => \A s \in Live(g) : g.pl[s].revealed
  PROVE  CardsRight(Showdown(g)) /\ ShowsFairly(Showdown(g), g)
<1>1. CASE \A s \in Live(g) : g.pl[s].revealed
  <2>1. Showdown(g) = AwardPots(g)
    BY <1>1 DEF Showdown
  <2> QED BY <2>1, AwardPotsShows
<1>2. CASE ~\A s \in Live(g) : g.pl[s].revealed
  <2> DEFINE c == [g EXCEPT !.phase = "showdown", !.showIdx = 0,
                            !.toAct = NoSeat]
  <2>1. Showdown(g) = c
    BY <1>2 DEF Showdown
  <2>2. /\ c.phase = "showdown" /\ c.pl = g.pl /\ c.showIdx = 0
        /\ c.runout = g.runout /\ c.runTwice = g.runTwice
    BY DEF Hand
  <2> HIDE DEF c
  <2>3. Live(c) = Live(g) /\ SameFaces(c, g)
    BY <2>2, SameLive DEF SameFaces
  <2>4. c.showIdx < Cardinality(Live(c))
    <3>1. Cardinality(Live(g)) \in Nat
      BY LiveFacts
    <3> QED BY <2>2, <2>3, <3>1
  <2>5. CardsRight(c)
    BY <1>2, <2>2, <2>4 DEF CardsRight, Unmucked
  <2> QED BY <2>1, <2>3, <2>5, FairAfter
<1> QED BY <1>1, <1>2

\* A run-out puts the live hands on their backs and no other.
LEMMA RevealAllShows ==
  ASSUME NEW g \in Hand, Cardinality(Live(g)) >= 2, Unmucked(g), g.runout,
         g.phase = "deal_pending"
  PROVE  CardsRight(RevealAll(g)) /\ ShowsFairly(RevealAll(g), g)
<1> DEFINE c == RevealAll(g)
<1>1. /\ c.phase = "deal_pending" /\ c.runout = g.runout
      /\ \A s \in Seats : c.pl[s] = IF s \in Live(g) THEN Faced(g.pl[s])
                                                    ELSE g.pl[s]
  BY DEF RevealAll, Hand
<1>2. \A s \in Seats : g.pl[s] \in Player
  BY HandFields
<1>3. \A p \in Player : /\ Faced(p).revealed = TRUE /\ Faced(p).mucked = p.mucked
                        /\ Faced(p).folded = p.folded
  BY DEF Faced, Player
<1> HIDE DEF c
<1>4. \A s \in Seats : /\ c.pl[s].mucked = g.pl[s].mucked
                       /\ c.pl[s].folded = g.pl[s].folded
                       /\ s \in Live(g) => c.pl[s].revealed
                       /\ g.pl[s].revealed => c.pl[s].revealed
                       /\ s \notin Live(g) => c.pl[s].revealed = g.pl[s].revealed
  BY <1>1, <1>2, <1>3
<1>5. Live(c) = Live(g) /\ Live(g) \subseteq Seats /\ Cardinality(Live(g)) \in Nat
  BY <1>4, SameLive, LiveFacts
<1>6. CardsRight(c)
  BY <1>1, <1>4, <1>5 DEF CardsRight, Unmucked
<1>7. ShowsFairly(c, g)
  <2>1. Cardinality(Live(c)) # 1
    BY <1>5
  <2>2. \A s \in Seats :
          /\ g.pl[s].revealed => c.pl[s].revealed
          /\ c.pl[s].revealed /\ ~g.pl[s].revealed => ~c.pl[s].folded
    BY <1>4 DEF Live
  <2> QED BY <2>1, <2>2 DEF ShowsFairly
<1> QED BY <1>6, <1>7 DEF c

\* The end of a street shows what it has to.
LEMMA EndStreetShows ==
  ASSUME NEW g \in Hand, Books(g), Cardinality(Live(g)) >= 2, Unmucked(g),
         Unseen(g), ~g.runout, ~g.runTwice
  PROVE  CardsRight(EndStreet(g)) /\ ShowsFairly(EndStreet(g), g)
<1> DEFINE r == ReturnUncalled(g)
           k == Collect(r)
           c == [k EXCEPT !.toAct = NoSeat]
           d == [c EXCEPT !.phase = "deal_pending"]
           e == [d EXCEPT !.runout = TRUE]
<1>1. EndStreet(g) = IF c.street = River THEN Showdown(c)
                     ELSE IF Cardinality(Active(c)) < 2 THEN RevealAll(e) ELSE d
  BY DEF EndStreet
<1>2. r \in Hand /\ Books(r) /\ SameHand(r, g) /\ SameFaces(r, g)
  BY ReturnUncalledFacts, ReturnUncalledFaces
<1> HIDE DEF r
<1>3. k \in Hand /\ Books(k) /\ SameHand(k, r) /\ SameFaces(k, r)
  BY <1>2, CollectFacts, CollectFaces
<1> HIDE DEF k
<1>4. /\ c \in Hand /\ c.pl = k.pl /\ c.runout = k.runout
      /\ c.runTwice = k.runTwice
  BY <1>3 DEF Hand
<1>5. /\ d \in Hand /\ d.pl = k.pl /\ d.phase = "deal_pending"
      /\ d.runout = k.runout /\ d.runTwice = k.runTwice
  BY <1>3 DEF Hand, Phases
<1>6. /\ e \in Hand /\ e.pl = k.pl /\ e.phase = "deal_pending" /\ e.runout = TRUE
  BY <1>3 DEF Hand, Phases
<1> HIDE DEF c, d, e
<1>7. /\ Live(k) = Live(g) /\ SameFaces(k, g)
  BY <1>2, <1>3, SameLive, FacesJoin DEF SameHand
<1>8. Live(c) = Live(g) /\ Live(d) = Live(g) /\ Live(e) = Live(g)
  BY <1>4, <1>5, <1>6, <1>7 DEF Live
<1>9. SameFaces(c, g) /\ SameFaces(d, g)
  BY <1>4, <1>5, <1>7 DEF SameFaces
<1>10. Unmucked(c) /\ Unmucked(d) /\ Unmucked(e)
  BY <1>4, <1>5, <1>6, <1>7 DEF Unmucked, SameFaces
<1>11. CASE c.street = River
  <2>1. Books(c) /\ ~c.runout /\ ~c.runTwice
    BY <1>3, <1>4, <1>9 DEF Books, SameFaces
  <2>2. CardsRight(Showdown(c)) /\ ShowsFairly(Showdown(c), c)
    BY <1>4, <1>8, <1>10, <2>1, ShowdownShows
  <2> QED BY <1>1, <1>9, <1>11, <2>2, FairAfter
<1>12. CASE c.street # River /\ Cardinality(Active(c)) < 2
  <2>1. EndStreet(g) = RevealAll(e)
    BY <1>1, <1>12
  <2>2. CardsRight(RevealAll(e)) /\ ShowsFairly(RevealAll(e), e)
    BY <1>6, <1>8, <1>10, RevealAllShows
  <2>3. ShowsFairly(RevealAll(e), g)
    BY <1>6, <1>7, <2>2 DEF ShowsFairly, SameFaces
  <2> QED BY <2>1, <2>2, <2>3
<1>13. CASE c.street # River /\ ~(Cardinality(Active(c)) < 2)
  <2>1. EndStreet(g) = d
    BY <1>1, <1>13
  <2>2. CardsRight(d)
    BY <1>5, <1>9, <1>10 DEF CardsRight, SameFaces, Unseen
  <2> QED BY <1>9, <2>1, <2>2, FairAfter
<1> QED BY <1>11, <1>12, <1>13

\* So does a settled round.
LEMMA SettleShows ==
  ASSUME NEW g \in Hand, Books(g), Live(g) # {}, g.phase = "betting",
         Unmucked(g), Unseen(g), ~g.runout, ~g.runTwice, NEW start
  PROVE  CardsRight(Settle(g, start)) /\ ShowsFairly(Settle(g, start), g)
<1>1. CASE Cardinality(Live(g)) = 1
  <2>1. Settle(g, start) = FinishUncontested(g)
    BY <1>1 DEF Settle
  <2> QED BY <1>1, <2>1, FinishUncontestedShows
<1>2. CASE Cardinality(Live(g)) # 1 /\ RoundComplete(g)
  <2>1. Settle(g, start) = EndStreet(g)
    BY <1>2 DEF Settle
  <2>2. Cardinality(Live(g)) >= 2
    BY <1>2, LiveFacts
  <2> QED BY <2>1, <2>2, EndStreetShows
<1>3. CASE Cardinality(Live(g)) # 1 /\ ~RoundComplete(g)
  <2> DEFINE c == [g EXCEPT !.toAct = NextActor(g, start)]
  <2>1. Settle(g, start) = c
    BY <1>3 DEF Settle
  <2>2. /\ c.phase = "betting" /\ c.pl = g.pl /\ c.runout = g.runout
        /\ c.runTwice = g.runTwice
    BY DEF Hand
  <2> HIDE DEF c
  <2>3. SameFaces(c, g) /\ CardsRight(c)
    BY <2>2 DEF SameFaces, CardsRight, Unmucked, Unseen
  <2> QED BY <2>1, <2>3, FairAfter
<1> QED BY <1>1, <1>2, <1>3

\* The award folds nobody.
LEMMA AwardPotsFolds ==
  ASSUME NEW g \in Hand
  PROVE  \A s \in Seats : AwardPots(g).pl[s].folded = g.pl[s].folded
<1> DEFINE pots == PotsOf(g)
           Won(s) == Prized(g.pl[s], Prize(g, pots, s))
           pl == [s \in Seats |->
                    IF s \in Live(g) /\ WinsAPot(g, pots, s) THEN Faced(Won(s))
                                                            ELSE Won(s)]
           c == [g EXCEPT !.pl = pl]
           f == Finish(c, pots)
<1>1. AwardPots(g) = f
  BY DEF AwardPots
<1>2. IsPots(pots, Seats)
  BY PotsOfType
<1>3. ASSUME NEW s \in Seats
      PROVE  pl[s] \in Player /\ pl[s].folded = g.pl[s].folded
  <2> DEFINE p == g.pl[s]
             q == Won(s)
             k == Prize(g, pots, s)
  <2>1. k \in Nat
    <3> HIDE DEF pots
    <3> QED BY <1>2, PrizeType
  <2>2. q = Prized(p, k) /\ p \in Player
    BY HandFields
  <2>3. pl[s] = Faced(q) \/ pl[s] = q
    OBVIOUS
  <2> HIDE DEF pl, Won, p, q, k
  <2>4. /\ q \in Player /\ q.folded = p.folded
        /\ Faced(q) \in Player /\ Faced(q).folded = p.folded
    BY <2>1, <2>2, PrizedFields
  <2> QED BY <2>3, <2>4 DEF p
<1>4. \A s \in Seats : f.pl[s] = [pl[s] EXCEPT !.committed = 0]
  <2>1. c.pl = pl
    BY DEF Hand
  <2> HIDE DEF pots, pl
  <2> QED BY <2>1 DEF Finish, Hand
<1> HIDE DEF pl, f
<1>5. \A p \in Player : [p EXCEPT !.committed = 0].folded = p.folded
  BY DEF Player
<1> QED BY <1>1, <1>3, <1>4, <1>5

\* And a seat that leaves, in or out of turn.
LEMMA AfterForfeitShows ==
  ASSUME NEW g, Good(g), CardsRight(g), NEW s \in Live(g),
         g.phase \in {"betting", "deal_pending"}
  PROVE  /\ CardsRight(AfterForfeit(Fold(g, s), s))
         /\ ShowsFairly(AfterForfeit(Fold(g, s), s), g)
<1> DEFINE c == Fold(g, s)
           f == AfterForfeit(c, s)
<1>1. g \in Hand /\ s \in Seats /\ Books(g) /\ Cardinality(Live(g)) >= 2
  BY LiveFacts DEF Good
<1>2. /\ c \in Hand /\ SameTable(c, g) /\ Books(c) /\ SameFaces(c, g)
      /\ Live(c) = Live(g) \ {s}
  BY <1>1, FoldFacts, FoldFaces
<1> HIDE DEF c
<1>3. Live(c) # {}
  BY <1>1, <1>2, OneLeft
<1>4. Unmucked(c) /\ (c.runTwice => c.runout) /\ c.phase = g.phase
  BY <1>2 DEF CardsRight, Unmucked, SameFaces, SameTable
<1>5. SUFFICES CardsRight(f) /\ ShowsFairly(f, c)
  BY <1>2, FairAfter DEF c
<1>6. CASE Cardinality(Live(c)) = 1
  <2>1. f = FinishUncontested(c)
    BY <1>6 DEF AfterForfeit
  <2> QED BY <1>2, <1>4, <1>6, <2>1, FinishUncontestedShows
<1>7. CASE Cardinality(Live(c)) # 1 /\ g.phase = "deal_pending"
  <2>1. f = c
    BY <1>4, <1>7 DEF AfterForfeit
  <2>2. CardsRight(c)
    BY <1>2, <1>4, <1>7 DEF CardsRight, SameFaces, Unmucked, Unseen, Live
  <2>3. ShowsFairly(c, c)
    BY DEF ShowsFairly
  <2> HIDE DEF f
  <2> QED BY <2>1, <2>2, <2>3
<1>8. CASE Cardinality(Live(c)) # 1 /\ g.phase = "betting"
  <2>1. f = IF c.toAct = s THEN Settle(c, s + 1)
            ELSE IF RoundComplete(c) THEN EndStreet(c) ELSE c
    BY <1>4, <1>8 DEF AfterForfeit
  <2>2. ~c.runout /\ ~c.runTwice /\ Unseen(c)
    BY <1>2, <1>8 DEF CardsRight, SameFaces, Unseen
  <2>3. Cardinality(Live(c)) >= 2
    BY <1>3, <1>8, LiveFacts
  <2>4. CardsRight(Settle(c, s + 1)) /\ ShowsFairly(Settle(c, s + 1), c)
    BY <1>2, <1>3, <1>4, <1>8, <2>2, SettleShows
  <2>5. CardsRight(EndStreet(c)) /\ ShowsFairly(EndStreet(c), c)
    BY <1>2, <1>4, <2>2, <2>3, EndStreetShows
  <2>6. CardsRight(c) /\ ShowsFairly(c, c)
    BY <1>4, <1>8, <2>2 DEF CardsRight, ShowsFairly
  <2> HIDE DEF f
  <2> QED BY <2>1, <2>4, <2>5, <2>6
<1> QED BY <1>6, <1>7, <1>8

\* In the order from start every place is taken.
LEMMA PlaceTaken ==
  ASSUME NEW W \in SUBSET Seats, NEW start \in 0 .. MaxSeats,
         NEW k \in Nat, k < Cardinality(W)
  PROVE  \E s \in W : k = Before(W, start, s)
<1> DEFINE R(n) == {s \in W : Before(W, start, s) < n}
<1>1. IsFiniteSet(W) /\ Cardinality(W) \in Nat
  BY SeatsFacts
<1>2. k \in 0 .. Cardinality(W) /\ k + 1 \in 0 .. Cardinality(W)
  BY <1>1
<1>3. Cardinality(R(k)) = k /\ Cardinality(R(k + 1)) = k + 1
  BY <1>2, FirstOnes
<1>4. \A s \in W : Before(W, start, s) \in Nat
  <2>1. SUFFICES ASSUME NEW s \in W PROVE Before(W, start, s) \in Nat
    OBVIOUS
  <2> DEFINE S == {t \in W : Gap(start, t) < Gap(start, s)}
  <2>2. S \in SUBSET W
    OBVIOUS
  <2> HIDE DEF S
  <2>3. Cardinality(S) \in Nat
    BY <1>1, <2>2, FS_Subset, FS_CardinalityType
  <2> QED BY <2>3 DEF Before, S
<1>5. R(k) # R(k + 1)
  <2> HIDE DEF R
  <2> QED BY <1>3
<1>6. PICK s \in W : ~(Before(W, start, s) < k <=> Before(W, start, s) < k + 1)
  BY <1>5
<1>7. Before(W, start, s) = k
  BY <1>4, <1>6
<1> QED BY <1>7

\* There is a seat to show, and it is still in the hand.
LEMMA OnShowIsLive ==
  ASSUME cfg \in HandConfig, NEW g \in Hand, g.showIdx < Cardinality(Live(g))
  PROVE  OnShow(g) \in Live(g)
<1>1. Live(g) \in SUBSET Seats /\ g.showIdx \in Nat
  BY LiveFacts, HandFields
<1>2. Live(g) # {}
  <2>1. SUFFICES ASSUME Live(g) = {} PROVE FALSE
    OBVIOUS
  <2>2. Cardinality(Live(g)) = 0
    BY <2>1, FS_EmptySet
  <2> QED BY <1>1, <2>2
<1>3. ShowStart(g) \in Seats
  <2>1. cfg.button + 1 \in Int
    <3>1. cfg.button \in Seats /\ \A t \in Seats : t \in Int
      BY SeatsFacts DEF HandConfig
    <3> QED BY <3>1
  <2>2. FirstFrom(cfg.button + 1, Live(g)) \in Live(g)
    BY <1>1, <1>2, <2>1, FirstFromIn
  <2> QED BY <1>1, <2>2 DEF ShowStart
<1>4. ShowStart(g) \in 0 .. MaxSeats
  <2>1. \A t \in Seats : t \in 0 .. MaxSeats
    BY SeatsAssumption
  <2> QED BY <1>3, <2>1
<1>5. \E s \in Live(g) : g.showIdx = Before(Live(g), ShowStart(g), s)
  BY <1>1, <1>4, PlaceTaken
<1> QED BY <1>5 DEF OnShow, Before

\* A hand that need not be shown wins nothing.
LEMMA MayMuck ==
  ASSUME cfg \in HandConfig, NEW g, NEW s, ~MustShow(g, s),
         NEW l \in DOMAIN PotsOf(g)
  PROVE  s \notin Winners(g, PotsOf(g)[l], 1)
<1>1. cfg.reveal \in {"all", "winners_only", "in_order"}
  BY DEF HandConfig, RevealPolicies
<1>2. CASE cfg.reveal = "all"
  BY <1>2 DEF MustShow
<1>3. CASE cfg.reveal = "winners_only"
  BY <1>3 DEF MustShow
<1>4. CASE cfg.reveal = "in_order"
  <2> SUFFICES ASSUME s \in Winners(g, PotsOf(g)[l], 1) PROVE FALSE
    OBVIOUS
  <2>1. /\ s \in PotsOf(g)[l].eligible
        /\ \A t \in PotsOf(g)[l].eligible : g.strength[1][t] <= g.strength[1][s]
    BY DEF Winners
  <2>2. MustShow(g, s) = \E k \in DOMAIN PotsOf(g) :
               /\ s \in PotsOf(g)[k].eligible
               /\ \A t \in PotsOf(g)[k].eligible \ {s} :
                    g.pl[t].revealed => g.strength[1][t] <= g.strength[1][s]
    BY <1>4 DEF MustShow
  <2> QED BY <2>1, <2>2
<1> QED BY <1>1, <1>2, <1>3, <1>4

\* What the seat to show does: it shows, or it mucks a hand that loses.
LEMMA RevealStepShows ==
  ASSUME cfg \in HandConfig, NEW g, Good(g), g.phase = "showdown",
         CardsRight(g)
  PROVE  LET s == OnShow(g)
             q == g.pl[s]
             p == IF q.revealed THEN q
                  ELSE IF MustShow(g, s) THEN Faced(q)
                  ELSE [q EXCEPT !.mucked = TRUE]
             r == [g EXCEPT !.showIdx = g.showIdx + 1, !.pl[s] = p]
             f == IF r.showIdx >= Cardinality(Live(r)) THEN AwardPots(r) ELSE r
         IN  CardsRight(f) /\ ShowsFairly(f, g)
<1> DEFINE s == OnShow(g)
           q == g.pl[s]
           p == IF q.revealed THEN q
                ELSE IF MustShow(g, s) THEN Faced(q)
                ELSE [q EXCEPT !.mucked = TRUE]
           r == [g EXCEPT !.showIdx = g.showIdx + 1, !.pl[s] = p]
           Loses(t) == \A l \in DOMAIN PotsOf(g) : t \notin Winners(g, PotsOf(g)[l], 1)
<1>1. g \in Hand /\ Books(g) /\ Cardinality(Live(g)) >= 2
  BY DEF Good
<1>2. /\ ~g.runout /\ ~g.runTwice /\ g.showIdx < Cardinality(Live(g))
      /\ \A t \in Seats : g.pl[t].mucked => Loses(t)
  BY DEF CardsRight
<1>3. s \in Live(g) /\ s \in Seats /\ ~q.folded
  BY <1>1, <1>2, OnShowIsLive DEF Live
<1>4. ~MustShow(g, s) => Loses(s)
  BY MayMuck
<1>5. q \in Player /\ (q.mucked => Loses(s))
  BY <1>1, <1>2, <1>3, HandFields
<1> HIDE DEF s, q, Loses
<1>6. /\ p \in Player /\ (q \in Sound => p \in Sound)
      /\ p.folded = q.folded /\ p.bet = q.bet /\ p.allIn = q.allIn
      /\ p.committed = q.committed /\ (p.mucked => Loses(s))
      /\ q.revealed => p.revealed
  <2>1. \A x \in Player :
          LET m == [x EXCEPT !.mucked = TRUE]
          IN  /\ m \in Player /\ (x \in Sound => m \in Sound)
              /\ m.folded = x.folded /\ m.allIn = x.allIn
              /\ m.bet = x.bet /\ m.committed = x.committed
    BY DEF Player, Sound
  <2>2. \A x \in Player :
          /\ Faced(x) \in Player /\ (x \in Sound => Faced(x) \in Sound)
          /\ Faced(x).folded = x.folded /\ Faced(x).allIn = x.allIn
          /\ Faced(x).bet = x.bet /\ Faced(x).committed = x.committed
          /\ Faced(x).mucked = x.mucked /\ Faced(x).revealed
    BY DEF Faced, Player, Sound
  <2>3. CASE p = q
    BY <1>5, <2>3
  <2>4. CASE p = Faced(q)
    BY <1>5, <2>2, <2>4
  <2>5. CASE ~q.revealed /\ ~MustShow(g, s) /\ p = [q EXCEPT !.mucked = TRUE]
    BY <1>4, <1>5, <2>1, <2>5
  <2> QED BY <2>3, <2>4, <2>5
<1>7. \A t \in Seats : r.pl[t] = IF t = s THEN p ELSE g.pl[t]
  BY <1>1 DEF Hand
<1>8. /\ r.phase = g.phase /\ r.runout = g.runout /\ r.runTwice = g.runTwice
      /\ r.strength = g.strength
  BY <1>1 DEF Hand
<1> HIDE DEF p
<1>9. r \in Hand /\ Books(r) /\ Live(r) = Live(g)
  BY <1>1, <1>3, <1>6, RevealStepFacts DEF q
<1> HIDE DEF r
<1>10. PotsOf(r) = PotsOf(g)
  <2>1. \A t \in Seats : /\ r.pl[t].committed = g.pl[t].committed
                         /\ r.pl[t].folded = g.pl[t].folded
                         /\ r.pl[t].allIn = g.pl[t].allIn
    BY <1>6, <1>7 DEF q
  <2>2. Contributions(r) = Contributions(g)
    BY <2>1 DEF Contributions
  <2> QED BY <2>2 DEF PotsOf
<1>11. \A t \in Seats, l \in DOMAIN PotsOf(r) :
         r.pl[t].mucked => t \notin Winners(r, PotsOf(r)[l], 1)
  <2>1. \A t \in Seats : r.pl[t].mucked => Loses(t)
    BY <1>2, <1>6, <1>7
  <2>2. \A pot : Winners(r, pot, 1) = Winners(g, pot, 1)
    BY <1>8 DEF Winners
  <2> QED BY <1>10, <2>1, <2>2 DEF Loses
<1>12. ShowsFairly(r, g)
  <2>1. Cardinality(Live(r)) # 1
    BY <1>1, <1>9, LiveFacts
  <2>2. \A t \in Seats :
          /\ g.pl[t].revealed => r.pl[t].revealed
          /\ r.pl[t].revealed /\ ~g.pl[t].revealed => ~r.pl[t].folded
    BY <1>3, <1>6, <1>7 DEF q
  <2> QED BY <2>1, <2>2 DEF ShowsFairly
<1>13. CASE r.showIdx >= Cardinality(Live(r))
  <2>1. CardsRight(AwardPots(r)) /\ ShowsFairly(AwardPots(r), r)
    BY <1>1, <1>2, <1>8, <1>9, <1>11, AwardPotsShows
  <2>3. \A t \in Seats : AwardPots(r).pl[t].folded = r.pl[t].folded
    BY <1>9, AwardPotsFolds
  <2>4. ShowsFairly(AwardPots(r), g)
    <3>1. Live(AwardPots(r)) = Live(r)
      BY <2>3, SameLive
    <3> QED BY <1>9, <1>12, <2>1, <2>3, <3>1 DEF ShowsFairly
  <2> QED BY <1>13, <2>1, <2>4 DEF r, p, s, q
<1>14. CASE ~(r.showIdx >= Cardinality(Live(r)))
  <2>1. r.showIdx < Cardinality(Live(r))
    BY <1>9, <1>14, HandFields, LiveFacts
  <2>2. CardsRight(r)
    BY <1>2, <1>8, <1>11, <2>1 DEF CardsRight
  <2> QED BY <1>12, <1>14, <2>2 DEF r, p, s, q
<1> QED BY <1>13, <1>14

\* One step per action of Next.
LEMMA NextShows ==
  IInv /\ CardsRight(h) /\ Next => CardsRight(h') /\ NoCardLeaks
<1> SUFFICES ASSUME IInv, CardsRight(h), Next
             PROVE  CardsRight(h') /\ NoCardLeaks
  OBVIOUS
<1>1. cfg \in Configs /\ cfg \in HandConfig /\ Good(h) /\ h \in Hand
  BY IInvGivesGood DEF Good
<1> DEFINE Goal == CardsRight(h') /\ ShowsFairly(h', h)
<1>2. ASSUME NEW s \in Seats, NEW a \in Actions, Apply(s, a) PROVE Goal
  <2> DEFINE c == Perform(h, s, Resolve(h, s, a))
             d == Acted(c, s)
  <2>1. /\ h.phase = "betting" /\ Legal(h, s, Resolve(h, s, a))
        /\ h' = Settle(d, s + 1)
    BY <1>2 DEF Apply, OnTurn
  <2>2. Books(h) /\ Price(h) /\ Cardinality(Live(h)) >= 2
    BY <1>1, <2>1 DEF Good
  <2>3. Acting(c) /\ Live(h) \ {s} \subseteq Live(c) /\ SameFaces(c, h)
    BY <1>1, <2>1, <2>2, PerformFacts, PerformFaces
  <2> HIDE DEF c
  <2>4. d \in Hand /\ SameHand(d, c) /\ Books(d) /\ SameFaces(d, c)
    BY <2>3, ActedFacts, ActedFaces DEF Acting
  <2> HIDE DEF d
  <2>5. /\ d.phase = "betting" /\ Live(d) = Live(c) /\ SameFaces(d, h)
    BY <2>3, <2>4, SameLive, FacesJoin DEF SameHand, Acting
  <2>6. Live(d) # {}
    BY <2>2, <2>3, <2>5, OneLeft
  <2>7. Unmucked(d) /\ Unseen(d) /\ ~d.runout /\ ~d.runTwice
    BY <2>1, <2>5 DEF CardsRight, SameFaces, Unmucked, Unseen
  <2>8. CardsRight(h') /\ ShowsFairly(h', d)
    BY <2>1, <2>4, <2>5, <2>6, <2>7, SettleShows
  <2> QED BY <2>5, <2>8, FairAfter
<1>3. ASSUME NEW s \in Seats, Timeout(s) PROVE Goal
  <2> DEFINE c == IF h.pl[s].bet = h.currentBet THEN h ELSE Fold(h, s)
             d == Acted(c, s)
  <2>1. h.phase = "betting" /\ h' = Settle(d, s + 1)
    BY <1>3 DEF Timeout, OnTurn
  <2>2. Books(h) /\ Price(h) /\ Cardinality(Live(h)) >= 2
    BY <1>1, <2>1 DEF Good
  <2>3. /\ Acting(h) /\ Acting(Fold(h, s)) /\ Live(Fold(h, s)) = Live(h) \ {s}
        /\ SameFaces(Fold(h, s), h) /\ SameFaces(h, h)
    BY <1>1, <2>1, <2>2, FoldFacts, FoldFaces DEF Acting, SameTable, SameFaces
  <2>4. Acting(c) /\ Live(h) \ {s} \subseteq Live(c) /\ SameFaces(c, h)
    BY <2>3
  <2> HIDE DEF c
  <2>5. d \in Hand /\ SameHand(d, c) /\ Books(d) /\ SameFaces(d, c)
    BY <2>4, ActedFacts, ActedFaces DEF Acting
  <2> HIDE DEF d
  <2>6. /\ d.phase = "betting" /\ Live(d) = Live(c) /\ SameFaces(d, h)
    BY <2>4, <2>5, SameLive, FacesJoin DEF SameHand, Acting
  <2>7. Live(d) # {}
    BY <2>2, <2>4, <2>6, OneLeft
  <2>8. Unmucked(d) /\ Unseen(d) /\ ~d.runout /\ ~d.runTwice
    BY <2>1, <2>6 DEF CardsRight, SameFaces, Unmucked, Unseen
  <2>9. CardsRight(h') /\ ShowsFairly(h', d)
    BY <2>1, <2>5, <2>6, <2>7, <2>8, SettleShows
  <2> QED BY <2>6, <2>9, FairAfter
<1>4. ASSUME NEW s \in Seats, Forfeit(s) PROVE Goal
  <2>1. /\ s \in Live(h) /\ h.phase \in {"betting", "deal_pending"}
        /\ h' = AfterForfeit(Fold(h, s), s)
    BY <1>4 DEF Forfeit
  <2> QED BY <1>1, <2>1, AfterForfeitShows
<1>5. ASSUME NEW s1 \in DealtStrengths(1), NEW s2 \in DealtStrengths(2),
             Advance(s1, s2)
      PROVE  Goal
  <2> DEFINE d == Dealing(h, s1, s2)
             n == NewRound(d)
  <2>1. /\ h.phase = "deal_pending"
        /\ h' = IF ~h.runout THEN Settle(n, NextSeat(cfg.button))
                ELSE IF d.street = River THEN Showdown(d)
                ELSE d
    BY <1>5 DEF Advance
  <2>2. /\ Books(h) /\ Cardinality(Live(h)) >= 2 /\ Live(h) # {}
        /\ NothingInFront(h) /\ h.street < River
    <3>1. Books(h) /\ Cardinality(Live(h)) >= 2 /\ NothingInFront(h) /\ h.street < River
      BY <1>1, <2>1 DEF Good
    <3> QED BY <3>1, OneLeft
  <2>3. /\ d \in Hand /\ d.pl = h.pl /\ d.phase = "deal_pending"
    BY <1>1, <2>1, <2>2, DealtStrengthsType, DealingFacts
  <2>4. d.runout = h.runout /\ d.runTwice = h.runTwice
    BY <1>1 DEF Dealing, Hand
  <2> HIDE DEF d
  <2>5. /\ Books(d) /\ NothingInFront(d) /\ Live(d) = Live(h) /\ SameFaces(d, h)
    BY <2>2, <2>3, <2>4, SameLive DEF Books, NothingInFront, SameFaces
  <2>6. /\ Unmucked(d) /\ (d.runTwice => d.runout)
        /\ ~h.runout => Unseen(d)
    BY <2>1, <2>3, <2>4 DEF CardsRight, Unmucked, Unseen
  <2>7. CASE ~h.runout
    <3>1. /\ n \in Hand /\ Books(n) /\ n.phase = "betting" /\ Live(n) = Live(d)
          /\ SameFaces(n, d)
      BY <1>1, <2>3, <2>5, NewRoundFacts, NewRoundFaces
    <3> HIDE DEF n
    <3>2. /\ Unmucked(n) /\ Unseen(n) /\ ~n.runout /\ ~n.runTwice
          /\ SameFaces(n, h)
      BY <2>4, <2>5, <2>6, <2>7, <3>1, FacesJoin
         DEF SameFaces, Unmucked, Unseen
    <3>3. /\ CardsRight(Settle(n, NextSeat(cfg.button)))
          /\ ShowsFairly(Settle(n, NextSeat(cfg.button)), n)
      BY <2>2, <2>5, <3>1, <3>2, SettleShows
    <3> QED BY <2>1, <2>7, <3>2, <3>3, FairAfter
  <2>8. CASE h.runout /\ d.street = River
    <3>1. \A s \in Live(d) : d.pl[s].revealed
      BY <2>1, <2>3, <2>5, <2>8 DEF CardsRight
    <3>2. CardsRight(Showdown(d)) /\ ShowsFairly(Showdown(d), d)
      BY <2>2, <2>3, <2>5, <2>6, <3>1, ShowdownShows
    <3> QED BY <2>1, <2>5, <2>8, <3>2, FairAfter
  <2>9. CASE h.runout /\ d.street # River
    <3>1. CardsRight(d)
      BY <2>1, <2>3, <2>4, <2>5, <2>6 DEF CardsRight
    <3> QED BY <2>1, <2>5, <2>9, <3>1, FairAfter
  <2> QED BY <2>7, <2>8, <2>9
<1>6. ASSUME RunItTwice PROVE Goal
  <2> DEFINE c == [h EXCEPT !.runTwice = TRUE]
  <2>1. h.phase = "deal_pending" /\ h.runout /\ h' = c
    BY <1>6 DEF RunItTwice, CanRunItTwice
  <2>2. c.pl = h.pl /\ c.phase = h.phase /\ c.runout = h.runout
    BY <1>1 DEF Hand
  <2> HIDE DEF c
  <2>3. CardsRight(c)
    BY <2>1, <2>2 DEF CardsRight, Unmucked, Live
  <2>4. ShowsFairly(c, h)
    BY <2>2 DEF ShowsFairly
  <2> QED BY <2>1, <2>3, <2>4
<1>7. ASSUME RevealNext PROVE Goal
  <2>1. h.phase = "showdown"
    BY <1>7 DEF RevealNext
  <2> QED BY <1>1, <1>7, <2>1, RevealStepShows DEF RevealNext
<1>8. ASSUME NEW s \in Seats, NEW cards \in SUBSET {1, 2}, ShowCards(s, cards)
      PROVE  CardsRight(h') /\ NoCardLeaks
  <2> DEFINE q == h.pl[s]
             p == Exposed(q, cards)
             c == [h EXCEPT !.pl[s] = p]
  <2>1. h.phase = "result" /\ s \in Live(h) /\ ~q.revealed /\ h' = c
    BY <1>8 DEF ShowCards
  <2>2. q \in Player /\ ~q.folded
    BY <1>1, <2>1, HandFields DEF Live
  <2>3. p.won = q.won /\ p.folded = q.folded /\ p.mucked = q.mucked
    BY <2>2 DEF Exposed, Player
  <2>4. /\ \A t \in Seats : c.pl[t] = IF t = s THEN p ELSE h.pl[t]
        /\ c.phase = h.phase /\ c.runout = h.runout /\ c.runTwice = h.runTwice
    BY <1>1 DEF Hand
  <2> HIDE DEF c, p
  <2>7. Live(c) = Live(h)
    BY <2>3, <2>4 DEF Live
  <2>5. CardsRight(c)
    BY <2>1, <2>3, <2>4, <2>7 DEF CardsRight
  <2>6. \A t \in Seats :
          /\ h.pl[t].revealed => c.pl[t].revealed
          /\ c.pl[t].revealed /\ ~h.pl[t].revealed => ~c.pl[t].folded
    BY <2>1, <2>2, <2>3, <2>4
  <2> QED BY <2>1, <2>5, <2>6 DEF NoCardLeaks
<1>9. ASSUME Over PROVE Goal
  BY <1>9 DEF Over, vars, ShowsFairly
<1>10. Goal => CardsRight(h') /\ NoCardLeaks
  BY DEF ShowsFairly, NoCardLeaks
<1> HIDE DEF Goal
<1> QED BY <1>2, <1>3, <1>4, <1>5, <1>6, <1>7, <1>8, <1>9, <1>10 DEF Next

\* A new hand lies face down.
LEMMA NewHandShows ==
  ASSUME cfg \in Configs, NEW stacks \in [Seats -> StartStacks]
  PROVE  CardsRight(NewHand(stacks))
<1>1. PICK g, first : /\ first \in Int /\ Opening(g)
                      /\ NewHand(stacks) = Settle(g, first)
  BY NewHandOpens
<1>2. /\ g \in Hand /\ Books(g) /\ Live(g) # {} /\ g.phase = "betting"
      /\ ~g.runout /\ ~g.runTwice /\ Unmucked(g) /\ Unseen(g)
  BY <1>1, SeatsFacts, FS_EmptySet DEF Opening, DealtIn, Unmucked, Unseen
<1> QED BY <1>1, <1>2, SettleShows

ShowInv == IInv /\ CardsRight(h)

\* Settings do not change during a hand, nor does an idle step turn a card.
LEMMA ShowInvStep ==
  ShowInv /\ [Next]_vars =>
    ShowInv' /\ [WinnersShow' /\ NoCardLeaks]_vars
<1> SUFFICES ASSUME ShowInv, [Next]_vars
             PROVE  ShowInv' /\ [WinnersShow' /\ NoCardLeaks]_vars
  OBVIOUS
<1>1. IInv'
  BY NextPreserves DEF ShowInv
<1>2. CASE Next
  <2>1. CardsRight(h') /\ NoCardLeaks
    BY <1>2, NextShows DEF ShowInv
  <2>2. CardsRight(h') <=> CardsRight(h)'
    BY DEF CardsRight, Unmucked, Unseen, Live, PotsOf, Contributions, Winners
  <2>3. h' \in Hand
    BY <1>1 DEF IInv, TypeOK
  <2>4. \A s \in Seats : h'.phase # "result" => h'.pl[s].won = 0
    BY <1>1 DEF IInv, OwnChips
  <2>6. \A s \in Seats : h'.pl[s].won \in Nat
    BY <2>3, HandFields DEF Player
  <2>5. WinnersShow'
    <3>1. \A s \in Seats :
            /\ h'.pl[s].mucked => h'.pl[s].won = 0
            /\ h'.phase = "result" /\ Cardinality(Live(h')) >= 2
                 /\ h'.pl[s].won > 0
               => h'.pl[s].revealed
      BY <2>1, <2>4 DEF CardsRight
    <3>2. AtShowdown' => h'.phase = "result" /\ Cardinality(Live(h')) >= 2
      BY DEF AtShowdown, Live
    <3> QED BY <3>1, <3>2 DEF WinnersShow
  <2> QED BY <1>1, <2>1, <2>2, <2>5 DEF ShowInv
<1>3. CASE UNCHANGED vars
  <2>1. CardsRight(h)'
    BY <1>3 DEF ShowInv, vars, CardsRight, Unmucked, Unseen, Live, PotsOf,
                Contributions, Winners
  <2> QED BY <1>1, <1>3, <2>1 DEF ShowInv
<1> QED BY <1>2, <1>3

(***************************************************************************)
(* CardsShownRight: at no step does a hole card show that need not, what   *)
(* shows stays on the table, whoever mucked has won nothing, and whoever   *)
(* wins at a showdown has shown.                                           *)
(***************************************************************************)
THEOREM CardsAreShownRight == Spec => CardsShownRight
<1>1. Init => ShowInv
  <2> SUFFICES ASSUME Init PROVE ShowInv
    OBVIOUS
  <2>1. PICK stacks \in [Seats -> StartStacks] : h = NewHand(stacks)
    BY DEF Init
  <2>2. CardsRight(h)
    BY <2>1, NewHandShows DEF Init
  <2> QED BY <2>2, InitEstablishes DEF ShowInv
<1>2. ShowInv /\ [Next]_vars =>
        ShowInv' /\ [WinnersShow' /\ NoCardLeaks]_vars
  BY ShowInvStep
<1> QED BY <1>1, <1>2, PTL DEF Spec, CardsShownRight

-----------------------------------------------------------------------------
(* What the table sees of a hand *)

\* The parts of a table hand.
Picture(d, l, a, ph, to, st, ru, tw, sh, co, br) ==
  [dealt |-> d, live |-> l, allIn |-> a, phase |-> ph, toAct |-> to,
   street |-> st, runout |-> ru, twice |-> tw, toShow |-> sh,
   contested |-> co, broke |-> br]

\* A table hand has the parts it is made of.
LEMMA PictureFields ==
  ASSUME NEW d, NEW l, NEW a, NEW ph, NEW to, NEW st, NEW ru, NEW tw, NEW sh,
         NEW co, NEW br
  PROVE  LET v == Picture(d, l, a, ph, to, st, ru, tw, sh, co, br)
         IN  /\ v.live = l /\ v.allIn = a /\ v.phase = ph /\ v.toAct = to
             /\ v.street = st /\ v.runout = ru /\ v.twice = tw
             /\ v.toShow = sh
  BY DEF Picture

\* HandPhases counts seats with the same operator.
LEMMA TableCounts == \A S : Table!Cardinality(S) = Cardinality(S)
  BY DEF Table!Cardinality, Cardinality

\* An uncalled bet may go back to a seat that is all-in, unless others are
\* left that have called it.
LEMMA UncalledPicture ==
  ASSUME NEW d, NEW l, NEW a, NEW ph, NEW to, NEW st, NEW ru, NEW tw, NEW sh,
         NEW co, NEW br
  PROVE  LET v == Picture(d, l, a, ph, to, st, ru, tw, sh, co, br)
         IN  /\ v \in Table!UncalledBack(v)
             /\ ~(Cardinality(l) > 1 /\ l \ a # {}) =>
                  \A s \in a : Picture(d, l, a \ {s}, ph, to, st, ru, tw, sh, co, br)
                                \in Table!UncalledBack(v)
<1>1. PICK v : v = Picture(d, l, a, ph, to, st, ru, tw, sh, co, br)
  OBVIOUS
<1>2. v.live = l /\ v.allIn = a
  BY <1>1 DEF Picture
<1>3. v \in Table!UncalledBack(v)
  BY DEF Table!UncalledBack
<1>4. ASSUME ~(Cardinality(l) > 1 /\ l \ a # {}), NEW s \in a
      PROVE  Picture(d, l, a \ {s}, ph, to, st, ru, tw, sh, co, br)
               \in Table!UncalledBack(v)
  <2>1. [v EXCEPT !.allIn = a \ {s}] = Picture(d, l, a \ {s}, ph, to, st, ru, tw, sh, co, br)
    BY <1>1 DEF Picture
  <2>2. Table!UncalledBack(v) = {v} \cup {[v EXCEPT !.allIn = @ \ {t}] : t \in v.allIn}
    BY <1>2, <1>4, TableCounts DEF Table!UncalledBack, Table!Active
  <2>3. [v EXCEPT !.allIn = v.allIn \ {s}] \in Table!UncalledBack(v)
    BY <1>2, <1>4, <2>2
  <2> QED BY <1>2, <2>1, <2>3
<1> QED BY <1>1, <1>3, <1>4

\* The last live seat takes everything.
LEMMA UncontestedPicture ==
  ASSUME NEW d, NEW l, NEW a, NEW ph, NEW to, NEW st, NEW ru, NEW tw, NEW sh,
         NEW co, NEW br,
         NEW B, Picture(d, l, B, ph, to, st, ru, tw, sh, co, br)
                  \in Table!UncalledBack(Picture(d, l, a, ph, to, st, ru, tw, sh, co, br))
  PROVE  Picture(d, l, B, "result", NoSeat, st, ru, tw, sh, co, B \ l)
           \in Table!Uncontested(Picture(d, l, a, ph, to, st, ru, tw, sh, co, br))
<1>1. PICK v : v = Picture(d, l, B, ph, to, st, ru, tw, sh, co, br)
  OBVIOUS
<1>2. PICK k1 : k1 = [v EXCEPT !.phase = "result"]
  OBVIOUS
<1>3. k1 = Picture(d, l, B, "result", to, st, ru, tw, sh, co, br)
  BY <1>1, <1>2 DEF Picture
<1>4. PICK k2 : k2 = [k1 EXCEPT !.toAct = NoSeat]
  OBVIOUS
<1>5. k2 = Picture(d, l, B, "result", NoSeat, st, ru, tw, sh, co, br)
  BY <1>3, <1>4 DEF Picture
<1>6. PICK k3 : k3 = [k2 EXCEPT !.broke = B \ l]
  OBVIOUS
<1>7. k3 = Picture(d, l, B, "result", NoSeat, st, ru, tw, sh, co, B \ l)
  BY <1>5, <1>6 DEF Picture
<1>8. [v EXCEPT !.phase = "result", !.toAct = NoSeat, !.broke = B \ l] = k3
  BY <1>2, <1>4, <1>6
<1>9. v.allIn = B /\ v.live = l
  BY <1>1 DEF Picture
<1>10. [v EXCEPT !.phase = "result", !.toAct = NoSeat, !.broke = v.allIn \ v.live]
         \in Table!Uncontested(Picture(d, l, a, ph, to, st, ru, tw, sh, co, br))
  BY <1>1 DEF Table!Uncontested
<1> QED BY <1>7, <1>8, <1>9, <1>10

\* An award as the table expects it.
LEMMA AwardedPicture ==
  ASSUME NEW d, NEW l, NEW a, NEW ph, NEW to, NEW st, NEW ru, NEW tw, NEW sh,
         NEW co, NEW br,
         NEW b \in SUBSET a, a \ l \subseteq b, ~(l \subseteq b)
  PROVE  Picture(d, l, a, "result", NoSeat, st, ru, tw, sh, TRUE, b)
           \in Table!Awarded(Picture(d, l, a, ph, to, st, ru, tw, sh, co, br))
<1>1. PICK v : v = Picture(d, l, a, ph, to, st, ru, tw, sh, co, br)
  OBVIOUS
<1>2. PICK yes : yes = TRUE
  OBVIOUS
<1>3. PICK k1 : k1 = [v EXCEPT !.phase = "result"]
  OBVIOUS
<1>4. k1 = Picture(d, l, a, "result", to, st, ru, tw, sh, co, br)
  BY <1>1, <1>3 DEF Picture
<1>5. PICK k2 : k2 = [k1 EXCEPT !.toAct = NoSeat]
  OBVIOUS
<1>6. k2 = Picture(d, l, a, "result", NoSeat, st, ru, tw, sh, co, br)
  BY <1>4, <1>5 DEF Picture
<1>7. PICK k3 : k3 = [k2 EXCEPT !.contested = yes]
  OBVIOUS
<1>8. k3 = Picture(d, l, a, "result", NoSeat, st, ru, tw, sh, yes, br)
  BY <1>6, <1>7 DEF Picture
<1>9. PICK k4 : k4 = [k3 EXCEPT !.broke = b]
  OBVIOUS
<1>10. k4 = Picture(d, l, a, "result", NoSeat, st, ru, tw, sh, yes, b)
  BY <1>8, <1>9 DEF Picture
<1>11. [v EXCEPT !.phase = "result", !.toAct = NoSeat, !.contested = yes, !.broke = b] = k4
  BY <1>3, <1>5, <1>7, <1>9
<1>12. v.allIn = a /\ v.live = l
  BY <1>1 DEF Picture
<1>13. [v EXCEPT !.phase = "result", !.toAct = NoSeat, !.contested = TRUE, !.broke = b]
         \in Table!Awarded(v)
  BY <1>12 DEF Table!Awarded
<1> QED BY <1>1, <1>2, <1>10, <1>11, <1>13

\* After the river the hands are shown.
LEMMA ShowdownPicture ==
  ASSUME NEW d, NEW l, NEW a, NEW ph, NEW to, NEW st, NEW ru, NEW tw, NEW sh,
         NEW co, NEW br,
         NEW B, Picture(d, l, B, ph, to, st, ru, tw, sh, co, br)
                  \in Table!UncalledBack(Picture(d, l, a, ph, to, st, ru, tw, sh, co, br)),
         st = River
  PROVE  Picture(d, l, B, "showdown", NoSeat, st, ru, tw, Cardinality(l), co, br)
           \in Table!RoundOver(Picture(d, l, a, ph, to, st, ru, tw, sh, co, br))
<1>1. PICK v : v = Picture(d, l, B, ph, to, st, ru, tw, sh, co, br)
  OBVIOUS
<1>2. PICK k1 : k1 = [v EXCEPT !.phase = "showdown"]
  OBVIOUS
<1>3. k1 = Picture(d, l, B, "showdown", to, st, ru, tw, sh, co, br)
  BY <1>1, <1>2 DEF Picture
<1>4. PICK k2 : k2 = [k1 EXCEPT !.toAct = NoSeat]
  OBVIOUS
<1>5. k2 = Picture(d, l, B, "showdown", NoSeat, st, ru, tw, sh, co, br)
  BY <1>3, <1>4 DEF Picture
<1>6. PICK k3 : k3 = [k2 EXCEPT !.toShow = Cardinality(l)]
  OBVIOUS
<1>7. k3 = Picture(d, l, B, "showdown", NoSeat, st, ru, tw, Cardinality(l), co, br)
  BY <1>5, <1>6 DEF Picture
<1>8. [v EXCEPT !.phase = "showdown", !.toAct = NoSeat, !.toShow = Cardinality(l)] = k3
  BY <1>2, <1>4, <1>6
<1>9. v.street = River /\ v.live = l
  BY <1>1 DEF Picture
<1>10. k3 \in Table!ToShowdown(v)
  BY <1>8, <1>9, TableCounts DEF Table!ToShowdown
<1>11. Table!ToShowdown(v) \subseteq Table!RoundOver(Picture(d, l, a, ph, to, st, ru, tw, sh, co, br))
  BY <1>1, <1>9 DEF Table!RoundOver
<1> QED BY <1>7, <1>10, <1>11

\* Before the river the next street is dealt, or the board run out.
LEMMA DealPicture ==
  ASSUME NEW d, NEW l, NEW a, NEW ph, NEW to, NEW st, NEW ru, NEW tw, NEW sh,
         NEW co, NEW br,
         NEW B, Picture(d, l, B, ph, to, st, ru, tw, sh, co, br)
                  \in Table!UncalledBack(Picture(d, l, a, ph, to, st, ru, tw, sh, co, br)),
         st # River, NEW few, few = (Cardinality(l \ B) < 2)
  PROVE  Picture(d, l, B, "deal_pending", NoSeat, st, few, tw, sh, co, br)
           \in Table!RoundOver(Picture(d, l, a, ph, to, st, ru, tw, sh, co, br))
<1>1. PICK v : v = Picture(d, l, B, ph, to, st, ru, tw, sh, co, br)
  OBVIOUS
<1>2. v.street = st /\ v.live = l /\ v.allIn = B
  BY <1>1 DEF Picture
<1>3. PICK k1 : k1 = [v EXCEPT !.phase = "deal_pending"]
  OBVIOUS
<1>4. k1 = Picture(d, l, B, "deal_pending", to, st, ru, tw, sh, co, br)
  BY <1>1, <1>3 DEF Picture
<1>5. PICK k2 : k2 = [k1 EXCEPT !.toAct = NoSeat]
  OBVIOUS
<1>6. k2 = Picture(d, l, B, "deal_pending", NoSeat, st, ru, tw, sh, co, br)
  BY <1>4, <1>5 DEF Picture
<1>7. PICK k3 : k3 = [k2 EXCEPT !.runout = few]
  OBVIOUS
<1>8. k3 = Picture(d, l, B, "deal_pending", NoSeat, st, few, tw, sh, co, br)
  BY <1>6, <1>7 DEF Picture
<1>9. [v EXCEPT !.phase = "deal_pending", !.toAct = NoSeat, !.runout = few] = k3
  BY <1>3, <1>5, <1>7
<1>10. Cardinality(Table!Active(v)) < 2 <=> few
  BY <1>2 DEF Table!Active
<1>11. k3 \in {[v EXCEPT !.phase = "deal_pending", !.toAct = NoSeat,
                      !.runout = (Table!Cardinality(Table!Active(v)) < 2)]}
  BY <1>9, <1>2, TableCounts DEF Table!Active
<1>12. {[v EXCEPT !.phase = "deal_pending", !.toAct = NoSeat,
                !.runout = (Table!Cardinality(Table!Active(v)) < 2)]}
         \subseteq Table!RoundOver(Picture(d, l, a, ph, to, st, ru, tw, sh, co, br))
  BY <1>1, <1>2 DEF Table!RoundOver
<1> QED BY <1>8, <1>11, <1>12

\* The turn goes to a seat that can bet and is not s.
LEMMA TurnPicture ==
  ASSUME NEW d, NEW l, NEW a, NEW ph, NEW to, NEW st, NEW ru, NEW tw, NEW sh,
         NEW co, NEW br, NEW s,
         Cardinality(l) # 1, NEW t \in (l \ a) \ {s}
  PROVE  Picture(d, l, a, "betting", t, st, ru, tw, sh, co, br)
           \in Table!Settled(Picture(d, l, a, ph, to, st, ru, tw, sh, co, br), s)
<1>1. PICK v : v = Picture(d, l, a, ph, to, st, ru, tw, sh, co, br)
  OBVIOUS
<1>2. PICK k1 : k1 = [v EXCEPT !.phase = "betting"]
  OBVIOUS
<1>3. k1 = Picture(d, l, a, "betting", to, st, ru, tw, sh, co, br)
  BY <1>1, <1>2 DEF Picture
<1>4. PICK k2 : k2 = [k1 EXCEPT !.toAct = t]
  OBVIOUS
<1>5. k2 = Picture(d, l, a, "betting", t, st, ru, tw, sh, co, br)
  BY <1>3, <1>4 DEF Picture
<1>6. [v EXCEPT !.phase = "betting", !.toAct = t] = k2
  BY <1>2, <1>4
<1>7. v.live = l /\ v.allIn = a
  BY <1>1 DEF Picture
<1>8. [v EXCEPT !.phase = "betting", !.toAct = t] \in Table!Settled(v, s)
  BY <1>7, TableCounts DEF Table!Settled, Table!Active
<1> QED BY <1>1, <1>5, <1>6, <1>8

\* A settled hand goes uncontested to its last live seat, or the round ends.
LEMMA SettledPicture ==
  ASSUME NEW d, NEW l, NEW a, NEW ph, NEW to, NEW st, NEW ru, NEW tw, NEW sh,
         NEW co, NEW br, NEW s
  PROVE  LET v == Picture(d, l, a, ph, to, st, ru, tw, sh, co, br)
         IN  /\ Cardinality(l) = 1 => Table!Settled(v, s) = Table!Uncontested(v)
             /\ Cardinality(l) # 1 => Table!RoundOver(v) \subseteq Table!Settled(v, s)
<1>1. PICK v : v = Picture(d, l, a, ph, to, st, ru, tw, sh, co, br)
  OBVIOUS
<1>2. v.live = l
  BY <1>1 DEF Picture
<1> QED BY <1>1, <1>2, TableCounts DEF Table!Settled

\* The seat to act folds, stays, or stays with its last chips.
LEMMA AppliedPicture ==
  ASSUME NEW d, NEW l, NEW a, NEW ph, NEW to, NEW st, NEW ru, NEW tw, NEW sh,
         NEW co, NEW br
  PROVE  LET v == Picture(d, l, a, ph, to, st, ru, tw, sh, co, br)
             f == Picture(d, l \ {to}, a, ph, to, st, ru, tw, sh, co, br)
             k == Picture(d, l, a \cup {to}, ph, to, st, ru, tw, sh, co, br)
         IN  /\ Table!Settled(f, to) \subseteq Table!Applied(v) \cap Table!TimedOut(v)
             /\ Table!Settled(v, to) \subseteq Table!Applied(v) \cap Table!TimedOut(v)
             /\ Table!Settled(k, to) \subseteq Table!Applied(v)
<1>1. PICK v : v = Picture(d, l, a, ph, to, st, ru, tw, sh, co, br)
  OBVIOUS
<1>2. v.live = l /\ v.allIn = a /\ v.toAct = to
  BY <1>1 DEF Picture
<1>3. [v EXCEPT !.live = l \ {to}] = Picture(d, l \ {to}, a, ph, to, st, ru, tw, sh, co, br)
  BY <1>1 DEF Picture
<1>4. [v EXCEPT !.allIn = a \cup {to}] = Picture(d, l, a \cup {to}, ph, to, st, ru, tw, sh, co, br)
  BY <1>1 DEF Picture
<1>5. Table!Applied(v) = Table!Settled([v EXCEPT !.live = l \ {to}], to)
                           \cup Table!Settled(v, to)
                           \cup Table!Settled([v EXCEPT !.allIn = a \cup {to}], to)
  BY <1>2 DEF Table!Applied
<1>6. Table!TimedOut(v) = Table!Settled([v EXCEPT !.live = l \ {to}], to)
                            \cup Table!Settled(v, to)
  BY <1>2 DEF Table!TimedOut
<1> QED BY <1>1, <1>3, <1>4, <1>5, <1>6

\* A live seat leaves before the showdown.
LEMMA ForfeitedPicture ==
  ASSUME NEW d, NEW l, NEW a, NEW ph, NEW to, NEW st, NEW ru, NEW tw, NEW sh,
         NEW co, NEW br,
         NEW s \in l, ph \in {"betting", "deal_pending"}
  PROVE  LET v == Picture(d, l, a, ph, to, st, ru, tw, sh, co, br)
             f == Picture(d, l \ {s}, a, ph, to, st, ru, tw, sh, co, br)
         IN  /\ Cardinality(l \ {s}) = 1 => Table!Forfeited(v, s) = Table!Uncontested(f)
             /\ Cardinality(l \ {s}) # 1 =>
                  /\ ph = "deal_pending" => f \in Table!Forfeited(v, s)
                  /\ ph = "betting" =>
                       IF to = s THEN Table!Forfeited(v, s) = Table!Settled(f, s)
                       ELSE /\ f \in Table!Forfeited(v, s)
                            /\ Table!RoundOver(f) \subseteq Table!Forfeited(v, s)
<1>1. PICK v : v = Picture(d, l, a, ph, to, st, ru, tw, sh, co, br)
  OBVIOUS
<1>2. v.live = l /\ v.toAct = to /\ v.phase = ph
  BY <1>1 DEF Picture
<1>3. PICK f : f = [v EXCEPT !.live = v.live \ {s}]
  OBVIOUS
<1>4. f = Picture(d, l \ {s}, a, ph, to, st, ru, tw, sh, co, br)
  BY <1>1, <1>2, <1>3 DEF Picture
<1>5. f.live = l \ {s}
  BY <1>4 DEF Picture
<1>6. Table!Forfeited(v, s) =
        IF Cardinality(f.live) = 1 THEN Table!Uncontested(f)
        ELSE IF v.phase = "deal_pending" THEN {f}
        ELSE IF v.toAct = s THEN Table!Settled(f, s)
        ELSE {f} \cup Table!RoundOver(f)
  BY <1>2, <1>3, TableCounts DEF Table!Forfeited
<1> QED BY <1>1, <1>2, <1>4, <1>5, <1>6

\* The next street is dealt.
LEMMA AdvancedPicture ==
  ASSUME NEW d, NEW l, NEW a, NEW ph, NEW to, NEW st, NEW ru, NEW tw, NEW sh,
         NEW co, NEW br
  PROVE  LET v == Picture(d, l, a, ph, to, st, ru, tw, sh, co, br)
             n == Picture(d, l, a, ph, to, st + 1, ru, tw, sh, co, br)
         IN  /\ ru = FALSE => Table!Settled(n, NoSeat) \subseteq Table!Advanced(v)
             /\ ru = TRUE /\ st + 1 = River => Table!Awarded(n) \subseteq Table!Advanced(v)
             /\ ru = TRUE /\ st + 1 # River => n \in Table!Advanced(v)
<1>1. PICK v : v = Picture(d, l, a, ph, to, st, ru, tw, sh, co, br)
  OBVIOUS
<1>2. v.street = st /\ v.runout = ru
  BY <1>1 DEF Picture
<1>3. PICK n : n = [v EXCEPT !.street = v.street + 1]
  OBVIOUS
<1>4. n = Picture(d, l, a, ph, to, st + 1, ru, tw, sh, co, br)
  BY <1>1, <1>2, <1>3 DEF Picture
<1>5. n.street = st + 1
  BY <1>4 DEF Picture
<1>6. Table!Advanced(v) = IF ~v.runout THEN Table!Settled(n, NoSeat)
                          ELSE IF n.street = River THEN Table!Awarded(n)
                          ELSE {n}
  BY <1>3 DEF Table!Advanced
<1> QED BY <1>1, <1>2, <1>4, <1>5, <1>6

\* The rest of the board is dealt twice.
LEMMA RanTwicePicture ==
  ASSUME NEW d, NEW l, NEW a, NEW ph, NEW to, NEW st, NEW ru, NEW tw, NEW sh,
         NEW co, NEW br, NEW yes
  PROVE  yes = TRUE =>
           Picture(d, l, a, ph, to, st, ru, yes, sh, co, br)
             \in {Table!RanTwice(Picture(d, l, a, ph, to, st, ru, tw, sh, co, br))}
<1>1. PICK v : v = Picture(d, l, a, ph, to, st, ru, tw, sh, co, br)
  OBVIOUS
<1>2. [v EXCEPT !.twice = yes] = Picture(d, l, a, ph, to, st, ru, yes, sh, co, br)
  BY <1>1 DEF Picture
<1>3. yes = TRUE => Table!RanTwice(v) = [v EXCEPT !.twice = yes]
  BY DEF Table!RanTwice
<1> QED BY <1>1, <1>2, <1>3

\* One more seat has shown.
LEMMA RevealedPicture ==
  ASSUME NEW d, NEW l, NEW a, NEW ph, NEW to, NEW st, NEW ru, NEW tw, NEW sh,
         NEW co, NEW br
  PROVE  LET v == Picture(d, l, a, ph, to, st, ru, tw, sh, co, br)
             n == Picture(d, l, a, ph, to, st, ru, tw, sh - 1, co, br)
         IN  /\ sh - 1 = 0 => Table!Awarded(n) \subseteq Table!Revealed(v)
             /\ sh - 1 # 0 => n \in Table!Revealed(v)
<1>1. PICK v : v = Picture(d, l, a, ph, to, st, ru, tw, sh, co, br)
  OBVIOUS
<1>2. v.toShow = sh
  BY <1>1 DEF Picture
<1>3. PICK n : n = [v EXCEPT !.toShow = v.toShow - 1]
  OBVIOUS
<1>4. n = Picture(d, l, a, ph, to, st, ru, tw, sh - 1, co, br)
  BY <1>1, <1>2, <1>3 DEF Picture
<1>5. n.toShow = sh - 1
  BY <1>4 DEF Picture
<1>6. Table!Revealed(v) = IF n.toShow = 0 THEN Table!Awarded(n) ELSE {n}
  BY <1>3 DEF Table!Revealed
<1> QED BY <1>1, <1>4, <1>5, <1>6

-----------------------------------------------------------------------------
(* The hand in the table's eyes *)

AllIn(g)  == {s \in Seats : g.pl[s].allIn}
Funded(g) == \A s \in Seats : g.pl[s].startStack > 0

\* The refinement mapping of Table.
View(g) ==
  Picture(Seats, Live(g), AllIn(g), g.phase, g.toAct, g.street, g.runout, g.runTwice,
          IF g.phase = "showdown" THEN Cardinality(Live(g)) - g.showIdx ELSE 0,
          g.phase = "result" /\ Cardinality(Live(g)) >= 2,
          {s \in Seats : g.phase = "result" /\ g.pl[s].stack = 0})

\* The table hand of a hand that nobody shows in and that has no result yet.
Midway(g, A, p, t) ==
  Picture(Seats, Live(g), A, p, t, g.street, g.runout, g.runTwice, 0, FALSE, {})

\* A hand that is being played is such a hand.
LEMMA PlayingView ==
  ASSUME NEW g, g.phase \in {"betting", "deal_pending"}
  PROVE  View(g) = Midway(g, AllIn(g), g.phase, g.toAct)
  BY DEF View, Midway

\* The same seats in the same state.
SameSeats(c, g) ==
  /\ Live(c) = Live(g) /\ AllIn(c) = AllIn(g)
  /\ c.street = g.street /\ c.runout = g.runout /\ c.runTwice = g.runTwice

\* Hands with the same seats are the same to the table.
LEMMA SameSeatsView ==
  ASSUME NEW c, NEW g, SameSeats(c, g), NEW p, NEW t
  PROVE  Midway(c, AllIn(c), p, t) = Midway(g, AllIn(g), p, t)
  BY DEF SameSeats, Midway

\* Returned chips take their seat off the all-in list and nobody else; no
\* seat that has chips to bet with is covered when the round is complete.
LEMMA UncalledSeats ==
  ASSUME NEW g \in Hand
  PROVE  LET r == ReturnUncalled(g)
         IN  /\ Live(r) = Live(g)
             /\ AllIn(r) = AllIn(g) \/ \E s \in AllIn(g) : AllIn(r) = AllIn(g) \ {s}
             /\ Active(g) # {} /\ Price(g) /\ RoundComplete(g) => AllIn(r) = AllIn(g)
             /\ r.phase = g.phase /\ r.street = g.street /\ r.runout = g.runout
             /\ r.runTwice = g.runTwice /\ r.showIdx = g.showIdx
<1> DEFINE top == TopBettor(g)
           n == Uncalled(g)
           r == ReturnUncalled(g)
<1>1. /\ top \in Seats /\ r \in Hand
      /\ \A t \in Seats : g.pl[t].bet <= g.pl[top].bet
      /\ \A t \in Seats \ {top} : r.pl[t] = g.pl[t]
      /\ n > 0 => /\ r.pl[top] = Returned(g.pl[top], n)
                  /\ \A t \in Seats \ {top} : g.pl[t].bet < g.pl[top].bet
      /\ ~(n > 0) => r = g
  BY UncalledIsTheExcess
<1>2. SameHand(r, g) /\ r.runout = g.runout /\ r.runTwice = g.runTwice /\ r.showIdx = g.showIdx
  BY ReturnUncalledFacts DEF ReturnUncalled, Hand
<1>3. Live(r) = Live(g)
  BY <1>2, SameLive DEF SameHand
<1>4. Returned(g.pl[top], n).allIn = FALSE
  BY <1>1, HandFields DEF Returned, Player
<1> HIDE DEF r, top, n
<1>5. CASE ~(n > 0)
  BY <1>1, <1>2, <1>3, <1>5 DEF SameHand, r
<1>6. CASE n > 0
  <2>1. AllIn(r) = AllIn(g) \ {top}
    BY <1>1, <1>4, <1>6 DEF AllIn
  <2>2. AllIn(r) = AllIn(g) \/ \E s \in AllIn(g) : AllIn(r) = AllIn(g) \ {s}
    BY <2>1
  <2>3. ASSUME Active(g) # {}, Price(g), RoundComplete(g)
        PROVE  AllIn(r) = AllIn(g)
    <3>1. PICK s \in Active(g) : g.pl[s].bet = g.currentBet
      BY <2>3 DEF RoundComplete
    <3>2. s \in Seats /\ s \notin AllIn(g)
      BY LiveFacts DEF Active, AllIn, Live
    <3>3. g.pl[s].bet \in Nat /\ g.pl[top].bet \in Nat /\ g.pl[top].bet <= g.pl[s].bet
      BY <1>1, <2>3, <3>1, <3>2, HandFields DEF Price, Player
    <3>4. s = top
      BY <1>1, <1>6, <3>2, <3>3
    <3> QED BY <2>1, <3>2, <3>4
  <2> QED BY <1>2, <1>3, <2>2, <2>3 DEF SameHand, r
<1> QED BY <1>5, <1>6

\* Collecting the bets changes nobody's standing.
LEMMA CollectSeats ==
  ASSUME NEW g \in Hand
  PROVE  SameSeats(Collect(g), g) /\ Collect(g).phase = g.phase
<1> DEFINE pl == [s \in Seats |-> Pooled(g.pl[s])]
<1>1. \A s \in Seats : /\ pl[s].allIn = g.pl[s].allIn
                       /\ pl[s].folded = g.pl[s].folded
  BY HandFields, PooledSound
<1> HIDE DEF pl
<1>2. /\ Collect(g).pl = pl /\ Collect(g).street = g.street
      /\ Collect(g).runout = g.runout /\ Collect(g).runTwice = g.runTwice
      /\ Collect(g).phase = g.phase
  BY DEF Collect, Hand, pl
<1> HIDE DEF Collect
<1> QED BY <1>1, <1>2 DEF SameSeats, Live, AllIn

\* The uncalled bet goes back as the table expects it.
LEMMA UncalledView ==
  ASSUME NEW g \in Hand,
         Cardinality(Live(g)) = 1 \/ (Price(g) /\ RoundComplete(g)), NEW p, NEW t
  PROVE  LET c == Collect(ReturnUncalled(g))
         IN  /\ Live(c) = Live(g) /\ c.street = g.street /\ c.runout = g.runout
             /\ c.runTwice = g.runTwice /\ c.phase = g.phase
             /\ Midway(g, AllIn(c), p, t)
                  \in Table!UncalledBack(Midway(g, AllIn(g), p, t))
<1> DEFINE r == ReturnUncalled(g)
           c == Collect(r)
<1>1. r \in Hand
  BY ReturnUncalledFacts
<1>2. /\ Live(r) = Live(g)
      /\ AllIn(r) = AllIn(g) \/ \E s \in AllIn(g) : AllIn(r) = AllIn(g) \ {s}
      /\ Active(g) # {} /\ Price(g) /\ RoundComplete(g) => AllIn(r) = AllIn(g)
      /\ r.phase = g.phase /\ r.street = g.street /\ r.runout = g.runout
      /\ r.runTwice = g.runTwice
  BY UncalledSeats
<1> HIDE DEF r
<1>3. SameSeats(c, r) /\ c.phase = r.phase
  BY <1>1, CollectSeats
<1> HIDE DEF c
<1>4. Active(g) = Live(g) \ AllIn(g)
  BY DEF Active, AllIn, Live
<1>5. /\ Midway(g, AllIn(g), p, t) \in Table!UncalledBack(Midway(g, AllIn(g), p, t))
      /\ ~(Cardinality(Live(g)) > 1 /\ Active(g) # {}) =>
           \A s \in AllIn(g) : Midway(g, AllIn(g) \ {s}, p, t)
                                \in Table!UncalledBack(Midway(g, AllIn(g), p, t))
  BY <1>4, UncalledPicture DEF Midway
<1>6. Midway(g, AllIn(r), p, t) \in Table!UncalledBack(Midway(g, AllIn(g), p, t))
  BY <1>2, <1>5
<1> QED BY <1>2, <1>3, <1>6 DEF SameSeats, c, r

\* finish leaves every seat where it was.
LEMMA FinishSeats ==
  ASSUME NEW g \in Hand, NEW pots
  PROVE  LET f == Finish(g, pots)
         IN  /\ SameSeats(f, g) /\ f.phase = "result" /\ f.toAct = NoSeat
             /\ \A s \in Seats : f.pl[s].stack = g.pl[s].stack
<1> DEFINE f == Finish(g, pots)
           pl == [s \in Seats |-> [g.pl[s] EXCEPT !.committed = 0]]
<1>1. \A s \in Seats : /\ pl[s].folded = g.pl[s].folded
                       /\ pl[s].allIn = g.pl[s].allIn
                       /\ pl[s].stack = g.pl[s].stack
  <2>1. \A p \in Player : /\ [p EXCEPT !.committed = 0].folded = p.folded
                          /\ [p EXCEPT !.committed = 0].allIn = p.allIn
                          /\ [p EXCEPT !.committed = 0].stack = p.stack
    BY DEF Player
  <2> QED BY <2>1, HandFields
<1> HIDE DEF pl
<1>2. /\ f.pl = pl /\ f.phase = "result" /\ f.toAct = NoSeat
      /\ f.street = g.street /\ f.runout = g.runout /\ f.runTwice = g.runTwice
  BY DEF Finish, Hand, pl
<1> HIDE DEF f
<1>3. Live(f) = Live(g) /\ AllIn(f) = AllIn(g)
  BY <1>1, <1>2 DEF Live, AllIn
<1> QED BY <1>1, <1>2, <1>3 DEF SameSeats, f

\* When the pots have been paid somebody who is still in the hand has chips:
\* everybody brought some, and what they put in is in the pots.
LEMMA SomebodyHasChips ==
  ASSUME NEW g \in Hand, Books(g), NothingInFront(g), Funded(g),
         NEW w \in Live(g), NEW prize, IsAmounts(prize, Seats),
         Total(prize) = Total(AmountsOf(PotsOf(g))),
         \A s \in Seats \ Live(g) : prize[s] = 0
  PROVE  \E s \in Live(g) : g.pl[s].stack + prize[s] > 0
<1> SUFFICES ASSUME ~\E s \in Live(g) : g.pl[s].stack + prize[s] > 0 PROVE FALSE
  OBVIOUS
<1> DEFINE paid == [s \in Seats |-> g.pl[s].committed]
<1>1. Live(g) \subseteq Seats
  BY DEF Live
<1>2. \A s \in Seats : prize[s] \in Nat /\ g.pl[s].stack \in Nat
  BY HandFields DEF IsAmounts, Player
<1>3. \A s \in Live(g) : g.pl[s].stack = 0 /\ prize[s] = 0
  BY <1>1, <1>2
<1>4. DOMAIN prize = Seats /\ \A s \in Seats : prize[s] = 0
  BY <1>1, <1>3 DEF IsAmounts
<1>5. Total(prize) = 0
  <2>1. Total(prize) = Total([s \in {} |-> prize[s]])
    BY <1>4, TotalOfSupport
  <2>2. DOMAIN [s \in {} |-> prize[s]] = {}
    OBVIOUS
  <2>3. Total([s \in {} |-> prize[s]]) = 0
    BY <2>2, TotalOfNone
  <2> QED BY <2>1, <2>3
<1>6. IsAmounts(paid, Seats) /\ w \in Seats
  BY <1>1, AmountsOfHand
<1>7. Total(paid) = 0
  BY <1>5, PotsOfHoldAll DEF FullPots
<1>8. paid[w] > 0
  <2>1. /\ g.pl[w].stack + g.pl[w].bet + g.pl[w].committed = g.pl[w].startStack
        /\ g.pl[w].bet = 0 /\ g.pl[w].startStack > 0 /\ g.pl[w].stack = 0
        /\ g.pl[w].committed \in Nat
    BY <1>3, <1>6, HandFields DEF Books, Sound, NothingInFront, Funded, Player
  <2> QED BY <1>6, <2>1
<1> HIDE DEF paid
<1>9. Total(paid) = paid[w] + Total([s \in Seats \ {w} |-> paid[s]])
      /\ IsAmounts([s \in Seats \ {w} |-> paid[s]], Seats \ {w})
  BY <1>6, TotalSplit
<1>10. Total([s \in Seats \ {w} |-> paid[s]]) \in Nat
  BY <1>9, ChipsFinite
<1>11. paid[w] \in Nat
  BY <1>6 DEF IsAmounts
<1> QED BY <1>7, <1>8, <1>9, <1>10, <1>11

\* The pots of g are paid out to c: who is out of chips then.
LEMMA BrokeAfter ==
  ASSUME NEW g \in Hand, Books(g), NothingInFront(g), Funded(g),
         Live(g) # {}, NEW prize, IsAmounts(prize, Seats),
         Total(prize) = Total(AmountsOf(PotsOf(g))),
         \A s \in Seats \ Live(g) : prize[s] = 0
  PROVE  LET b == {s \in Seats : g.pl[s].stack + prize[s] = 0}
         IN  /\ b \in SUBSET AllIn(g) /\ AllIn(g) \ Live(g) \subseteq b
             /\ ~(Live(g) \subseteq b)
<1> DEFINE b == {s \in Seats : g.pl[s].stack + prize[s] = 0}
<1>1. PICK w : w \in Live(g)
  OBVIOUS
<1>2. PICK s \in Live(g) : g.pl[s].stack + prize[s] > 0
  BY <1>1, SomebodyHasChips
<1>3. s \notin b
  BY <1>2
<1>4. \A t \in Seats : /\ prize[t] \in Nat /\ g.pl[t].stack \in Nat
                       /\ t \in AllIn(g) <=> g.pl[t].stack = 0
  <2>1. \A t \in Seats : g.pl[t].allIn <=> g.pl[t].stack = 0
    BY DEF Books, Sound
  <2>2. \A t \in Seats : t \in AllIn(g) <=> g.pl[t].allIn
    BY DEF AllIn
  <2>3. \A t \in Seats : prize[t] \in Nat /\ g.pl[t].stack \in Nat
    BY HandFields DEF IsAmounts, Player
  <2> QED BY <2>1, <2>2, <2>3
<1>7. \A t \in Seats : t \in b <=> g.pl[t].stack = 0 /\ prize[t] = 0
  <2>1. \A t \in Seats : t \in b <=> g.pl[t].stack + prize[t] = 0
    OBVIOUS
  <2> HIDE DEF b
  <2>2. SUFFICES ASSUME NEW t \in Seats
                 PROVE  t \in b <=> g.pl[t].stack = 0 /\ prize[t] = 0
    OBVIOUS
  <2>3. prize[t] \in Nat /\ g.pl[t].stack \in Nat
    BY <1>4
  <2>4. g.pl[t].stack + prize[t] = 0 <=> g.pl[t].stack = 0 /\ prize[t] = 0
    BY <2>3
  <2> QED BY <2>1, <2>4
<1>8. b \subseteq Seats /\ AllIn(g) \subseteq Seats
  BY DEF AllIn
<1> HIDE DEF b
<1>5. b \in SUBSET AllIn(g)
  BY <1>4, <1>7, <1>8
<1>6. AllIn(g) \ Live(g) \subseteq b
  <2>1. SUFFICES ASSUME NEW t \in AllIn(g) \ Live(g) PROVE t \in b
    OBVIOUS
  <2>2. t \in Seats \ Live(g)
    BY <1>8
  <2>3. prize[t] = 0
    BY <2>2
  <2> QED BY <1>4, <1>7, <2>2, <2>3
<1> QED BY <1>2, <1>3, <1>5, <1>6 DEF b

\* awardPots is an award.
LEMMA AwardView ==
  ASSUME cfg \in HandConfig, NEW g \in Hand, Books(g), NothingInFront(g),
         Funded(g), Cardinality(Live(g)) >= 2, NEW p, NEW t
  PROVE  View(AwardPots(g)) \in Table!Awarded(Midway(g, AllIn(g), p, t))
<1> DEFINE pots == PotsOf(g)
           prize == [s \in Seats |-> Prize(g, pots, s)]
           Won(s) == Prized(g.pl[s], Prize(g, pots, s))
           pl == [s \in Seats |->
                    IF s \in Live(g) /\ WinsAPot(g, pots, s) THEN Faced(Won(s))
                                                            ELSE Won(s)]
           c == [g EXCEPT !.pl = pl]
           f == Finish(c, pots)
           b == {s \in Seats : g.pl[s].stack + prize[s] = 0}
<1>1. AwardPots(g) = f
  BY DEF AwardPots
<1>0. Live(g) # {}
  BY OneLeft
<1>2. WonPots(pots) /\ FullPots(Contributions(g), pots)
      /\ LiveIn(Contributions(g)) = Live(g)
  BY <1>0, PotsOfHoldAll
<1>3. /\ IsAmounts(prize, Seats) /\ Total(prize) = Total(AmountsOf(pots))
      /\ \A s \in Seats :
           (\A l \in DOMAIN pots : s \notin pots[l].eligible) => prize[s] = 0
  <2> HIDE DEF pots
  <2> QED BY <1>2, PrizesAreThePots
<1>4. \A s \in Seats \ Live(g) : prize[s] = 0
  BY <1>2, <1>3 DEF FullPots
<1>5. \A s \in Seats : prize[s] = Prize(g, pots, s) /\ prize[s] \in Nat
  BY <1>3 DEF IsAmounts
<1>6. ASSUME NEW s \in Seats
      PROVE  /\ pl[s] \in Player
             /\ pl[s].stack = g.pl[s].stack + prize[s]
             /\ pl[s].folded = g.pl[s].folded /\ pl[s].allIn = g.pl[s].allIn
  <2> DEFINE n == prize[s]
             q == Won(s)
  <2>1. q = Prized(g.pl[s], n) /\ g.pl[s] \in Player /\ n \in Nat
    BY <1>5, HandFields
  <2>2. pl[s] = Faced(q) \/ pl[s] = q
    OBVIOUS
  <2> HIDE DEF pl, Won, prize, n, q
  <2>3. /\ q \in Player /\ q.stack = g.pl[s].stack + n
        /\ q.folded = g.pl[s].folded
        /\ Faced(q) \in Player /\ Faced(q).stack = g.pl[s].stack + n
        /\ Faced(q).folded = g.pl[s].folded
    BY <2>1, PrizedFields
  <2>4. q.allIn = g.pl[s].allIn
    BY <2>1 DEF Prized, Player
  <2>5. Faced(q).allIn = q.allIn
    BY <2>3 DEF Faced, Player
  <2> QED BY <2>2, <2>3, <2>4, <2>5 DEF n
<1>7. pl \in [Seats -> Player]
  <2>1. pl = [s \in Seats |-> pl[s]]
    OBVIOUS
  <2> HIDE DEF pl
  <2> QED BY <1>6, <2>1
<1>8. b \in SUBSET AllIn(g) /\ AllIn(g) \ Live(g) \subseteq b /\ ~(Live(g) \subseteq b)
  <2> HIDE DEF prize
  <2> QED BY <1>0, <1>3, <1>4, BrokeAfter
<1> HIDE DEF pl, prize, pots
<1>9. /\ c \in Hand /\ c.pl = pl /\ c.street = g.street
      /\ c.runout = g.runout /\ c.runTwice = g.runTwice
  BY <1>7 DEF Hand
<1> HIDE DEF c
<1>10. SameSeats(c, g) /\ \A s \in Seats : c.pl[s].stack = g.pl[s].stack + prize[s]
  BY <1>6, <1>9 DEF SameSeats, Live, AllIn
<1>11. /\ SameSeats(f, c) /\ f.phase = "result" /\ f.toAct = NoSeat
       /\ \A s \in Seats : f.pl[s].stack = c.pl[s].stack
  BY <1>9, FinishSeats
<1> HIDE DEF f
<1>12. {s \in Seats : f.phase = "result" /\ f.pl[s].stack = 0} = b
  BY <1>10, <1>11
<1> HIDE DEF b
<1>13. View(f) = Picture(Seats, Live(g), AllIn(g), "result", NoSeat, g.street,
                         g.runout, g.runTwice, 0, TRUE, b)
  BY <1>10, <1>11, <1>12 DEF View, SameSeats
<1>14. Picture(Seats, Live(g), AllIn(g), "result", NoSeat, g.street,
               g.runout, g.runTwice, 0, TRUE, b)
         \in Table!Awarded(Midway(g, AllIn(g), p, t))
  BY <1>8, AwardedPicture DEF Midway
<1> QED BY <1>1, <1>13, <1>14

\* finishUncontested leaves all chips to the one seat that did not fold.
LEMMA FinishView ==
  ASSUME NEW g \in Hand, Books(g), Funded(g), Cardinality(Live(g)) = 1,
         NEW p, NEW t
  PROVE  View(FinishUncontested(g)) \in Table!Uncontested(Midway(g, AllIn(g), p, t))
<1> DEFINE r      == ReturnUncalled(g)
           c      == Collect(r)
           pots   == PotsOf(c)
           winner == CHOOSE s \in Seats : s \in Live(c)
           n      == Total(AmountsOf(pots))
           d      == [c EXCEPT !.pl[winner] = Prized(c.pl[winner], n)]
           f      == Finish(d, pots)
           prize  == [s \in Seats |-> IF s \in {winner} THEN n ELSE 0]
           b      == {s \in Seats : c.pl[s].stack + prize[s] = 0}
<1>1. r \in Hand /\ SameHand(r, g) /\ Books(r) /\ Trace(r, g)
  BY ReturnUncalledFacts, ReturnUncalledTrace
<1>2. /\ c.runout = g.runout /\ c.runTwice = g.runTwice /\ c.street = g.street
      /\ Live(c) = Live(g)
      /\ Midway(g, AllIn(c), p, t)
           \in Table!UncalledBack(Midway(g, AllIn(g), p, t))
  BY UncalledView
<1> HIDE DEF r
<1>3. /\ c \in Hand /\ Books(c) /\ NothingInFront(c) /\ Trace(c, r)
  BY <1>1, CollectFacts, CollectTrace
<1>4. Funded(c)
  BY <1>1, <1>3 DEF Trace, Funded
<1> HIDE DEF c
<1>5. PICK x : Live(c) = {x}
  BY <1>2, LiveFacts, FS_Singleton
<1>6. winner \in Seats /\ Live(c) = {winner}
  BY <1>5 DEF Live
<1> HIDE DEF winner
<1>7. n \in Nat
  <2>1. IsPots(pots, Seats)
    BY <1>3, PotsOfType
  <2> HIDE DEF pots
  <2> QED BY <2>1, AmountsType
<1>8. FinishUncontested(g) = f
  BY DEF FinishUncontested, c, r, winner
<1>9. /\ IsAmounts(prize, Seats) /\ Total(prize) = Total(AmountsOf(PotsOf(c)))
      /\ \A s \in Seats \ Live(c) : prize[s] = 0
      /\ \A s \in Seats : prize[s] = IF s = winner THEN n ELSE 0
  <2> HIDE DEF n
  <2>1. /\ DOMAIN prize = Seats
        /\ \A s \in Seats : prize[s] = IF s \in {winner} THEN n ELSE 0
    OBVIOUS
  <2>2. IsFiniteSet(Seats) /\ {winner} \in SUBSET Seats
    BY <1>6, SeatsFacts
  <2>3. Cardinality({winner}) = 1
    BY FS_Singleton, Zenon
  <2> HIDE DEF prize
  <2>4. IsAmounts(prize, Seats)
    BY <1>7, <2>1, <2>2 DEF IsAmounts
  <2>5. Total(prize) = Cardinality({winner}) * n
    BY <1>7, <2>1, <2>2, TotalOfEqual
  <2>6. Total(prize) = n
    BY <1>7, <2>3, <2>5
  <2> QED BY <1>6, <2>1, <2>4, <2>6 DEF n
<1>10. /\ b \in SUBSET AllIn(c) /\ AllIn(c) \ Live(c) \subseteq b
       /\ ~(Live(c) \subseteq b)
  <2> HIDE DEF prize
  <2> QED BY <1>3, <1>4, <1>6, <1>9, BrokeAfter
<1>11. b = AllIn(c) \ Live(c)
  BY <1>6, <1>10
<1> HIDE DEF n, prize, pots
<1> DEFINE q == Prized(c.pl[winner], n)
<1>12. /\ c.pl[winner] \in Player /\ c.pl[winner].stack \in Nat
  BY <1>3, <1>6, HandFields DEF Player
<1>13. /\ q \in Player /\ q.stack = c.pl[winner].stack + n
       /\ q.folded = c.pl[winner].folded /\ q.allIn = c.pl[winner].allIn
  <2>1. q.allIn = c.pl[winner].allIn
    BY <1>7, <1>12 DEF Prized, Player
  <2> QED BY <1>7, <1>12, <2>1, PrizedFields
<1>14. d = [c EXCEPT !.pl[winner] = q]
  OBVIOUS
<1> HIDE DEF q
<1>15. /\ d \in Hand /\ d.pl[winner] = q
       /\ \A s \in Seats \ {winner} : d.pl[s] = c.pl[s]
  BY <1>3, <1>6, <1>13, SeatReplaced DEF q
<1>16. d.street = c.street /\ d.runout = c.runout /\ d.runTwice = c.runTwice
  BY <1>3, <1>14 DEF Hand
<1> HIDE DEF d
<1>17. SameSeats(d, c)
  BY <1>13, <1>15, <1>16 DEF SameSeats, Live, AllIn
<1>18. \A s \in Seats : d.pl[s].stack = c.pl[s].stack + prize[s]
  <2>1. \A s \in Seats : c.pl[s].stack \in Nat
    BY <1>3, HandFields DEF Player
  <2> QED BY <1>9, <1>13, <1>15, <2>1
<1>19. /\ SameSeats(f, d) /\ f.phase = "result" /\ f.toAct = NoSeat
       /\ \A s \in Seats : f.pl[s].stack = d.pl[s].stack
  BY <1>15, FinishSeats
<1> HIDE DEF f
<1>20. {s \in Seats : f.phase = "result" /\ f.pl[s].stack = 0} = AllIn(c) \ Live(c)
  BY <1>11, <1>18, <1>19
<1> HIDE DEF b
<1>21. Live(f) = Live(g) /\ AllIn(f) = AllIn(c)
       /\ f.street = g.street /\ f.runout = g.runout /\ f.runTwice = g.runTwice
  BY <1>2, <1>17, <1>19 DEF SameSeats
<1>22. View(f) = Picture(Seats, Live(g), AllIn(c), "result", NoSeat, g.street,
                         g.runout, g.runTwice, 0, FALSE, AllIn(c) \ Live(g))
  <2>1. (f.phase = "result" /\ Cardinality(Live(f)) >= 2) = FALSE
    BY <1>21
  <2>2. (IF f.phase = "showdown" THEN Cardinality(Live(f)) - f.showIdx ELSE 0) = 0
    BY <1>19
  <2>3. {s \in Seats : f.phase = "result" /\ f.pl[s].stack = 0} = AllIn(c) \ Live(g)
    BY <1>2, <1>20
  <2> QED BY <1>19, <1>21, <2>1, <2>2, <2>3 DEF View
<1>23. Picture(Seats, Live(g), AllIn(c), "result", NoSeat, g.street,
               g.runout, g.runTwice, 0, FALSE, AllIn(c) \ Live(g))
         \in Table!Uncontested(Midway(g, AllIn(g), p, t))
  BY <1>2, UncontestedPicture DEF Midway
<1> QED BY <1>8, <1>22, <1>23

\* Turning the hands over leaves every seat where it was.
LEMMA RevealAllSeats ==
  ASSUME NEW g \in Hand
  PROVE  LET r == RevealAll(g)
         IN  SameSeats(r, g) /\ r.phase = g.phase /\ r.toAct = g.toAct
<1> DEFINE r == RevealAll(g)
           pl == [s \in Seats |-> IF s \in Live(g) THEN Faced(g.pl[s]) ELSE g.pl[s]]
<1>1. \A s \in Seats : pl[s].folded = g.pl[s].folded /\ pl[s].allIn = g.pl[s].allIn
  <2>1. \A q \in Player : Faced(q).folded = q.folded /\ Faced(q).allIn = q.allIn
    BY DEF Faced, Player
  <2> QED BY <2>1, HandFields
<1> HIDE DEF pl
<1>2. /\ r.pl = pl /\ r.phase = g.phase /\ r.toAct = g.toAct
      /\ r.street = g.street /\ r.runout = g.runout /\ r.runTwice = g.runTwice
  BY DEF RevealAll, Hand, pl
<1> HIDE DEF r
<1> QED BY <1>1, <1>2 DEF SameSeats, Live, AllIn, r

\* The end of a street is a round over: the hands are shown after the river,
\* before it the next street is dealt or the board run out.
LEMMA EndStreetView ==
  ASSUME NEW g \in Hand, Cardinality(Live(g)) >= 2, Price(g), RoundComplete(g),
         Unseen(g), ~g.runout, NEW p, NEW t
  PROVE  View(EndStreet(g)) \in Table!RoundOver(Midway(g, AllIn(g), p, t))
<1> DEFINE r == ReturnUncalled(g)
           k == Collect(r)
           c == [k EXCEPT !.toAct = NoSeat]
           d == [c EXCEPT !.phase = "deal_pending"]
           e == [d EXCEPT !.runout = TRUE]
           A == AllIn(k)
           over == Table!RoundOver(Midway(g, AllIn(g), p, t))
<1>1. EndStreet(g) = IF c.street = River THEN Showdown(c)
                     ELSE IF Cardinality(Active(c)) < 2 THEN RevealAll(e) ELSE d
  BY DEF EndStreet
<1>2. /\ k.runout = g.runout /\ k.runTwice = g.runTwice /\ k.street = g.street
      /\ Live(k) = Live(g)
      /\ Midway(g, A, p, t) \in Table!UncalledBack(Midway(g, AllIn(g), p, t))
  BY UncalledView
<1>3. r \in Hand /\ SameFaces(r, g)
  BY ReturnUncalledFacts, ReturnUncalledFaces
<1> HIDE DEF r
<1>4. k \in Hand /\ SameFaces(k, r)
  BY <1>3, CollectFacts, CollectFaces
<1>5. \A s \in Seats : ~k.pl[s].revealed
  BY <1>3, <1>4 DEF SameFaces, Unseen
<1>6. g.runout = FALSE
  BY DEF Hand
<1> HIDE DEF k
<1>7. /\ c \in Hand /\ c.pl = k.pl /\ c.toAct = NoSeat /\ c.street = g.street
      /\ c.runout = g.runout /\ c.runTwice = g.runTwice
  BY <1>2, <1>4 DEF Hand
<1> HIDE DEF c
<1>8. /\ Live(c) = Live(g) /\ AllIn(c) = A /\ Active(c) = Live(g) \ A
  BY <1>2, <1>7 DEF Live, AllIn, Active
<1>9. CASE c.street = River
  <2> DEFINE w == [c EXCEPT !.phase = "showdown", !.showIdx = 0, !.toAct = NoSeat]
  <2>1. PICK x : x \in Live(g)
    BY OneLeft
  <2>2. ~\A s \in Live(c) : c.pl[s].revealed
    BY <1>5, <1>7, <1>8, <2>1 DEF Live
  <2>3. EndStreet(g) = w
    BY <1>1, <1>9, <2>2 DEF Showdown
  <2>4. /\ w.pl = c.pl /\ w.phase = "showdown" /\ w.showIdx = 0 /\ w.toAct = NoSeat
        /\ w.street = g.street /\ w.runout = g.runout /\ w.runTwice = g.runTwice
    BY <1>7 DEF Hand
  <2> HIDE DEF w
  <2>5. Live(w) = Live(g) /\ AllIn(w) = A
    BY <1>8, <2>4 DEF Live, AllIn
  <2>6. Cardinality(Live(g)) \in Nat
    BY LiveFacts
  <2>7. View(w) = Picture(Seats, Live(g), A, "showdown", NoSeat, g.street, g.runout,
                          g.runTwice, Cardinality(Live(g)), FALSE, {})
    <3>1. (w.phase = "result" /\ Cardinality(Live(w)) >= 2) = FALSE
      BY <2>4
    <3>2. (IF w.phase = "showdown" THEN Cardinality(Live(w)) - w.showIdx ELSE 0)
            = Cardinality(Live(g))
      BY <2>4, <2>5, <2>6
    <3>3. {s \in Seats : w.phase = "result" /\ w.pl[s].stack = 0} = {}
      BY <2>4
    <3> QED BY <2>4, <2>5, <3>1, <3>2, <3>3 DEF View
  <2>8. Picture(Seats, Live(g), A, "showdown", NoSeat, g.street, g.runout,
                g.runTwice, Cardinality(Live(g)), FALSE, {}) \in over
    BY <1>2, <1>7, <1>9, ShowdownPicture DEF Midway
  <2> QED BY <2>3, <2>7, <2>8
<1>10. CASE c.street # River
  <2>1. PICK few : few = (Cardinality(Live(g) \ A) < 2)
    OBVIOUS
  <2>2. Picture(Seats, Live(g), A, "deal_pending", NoSeat, g.street, few,
                g.runTwice, 0, FALSE, {}) \in over
    BY <1>2, <1>7, <1>10, <2>1, DealPicture DEF Midway
  <2>3. /\ d \in Hand /\ d.pl = c.pl /\ d.phase = "deal_pending" /\ d.toAct = NoSeat
        /\ d.street = g.street /\ d.runout = FALSE /\ d.runTwice = g.runTwice
    BY <1>6, <1>7 DEF Hand, Phases
  <2> HIDE DEF d
  <2>4. Live(d) = Live(g) /\ AllIn(d) = A
    BY <1>8, <2>3 DEF Live, AllIn
  <2>5. CASE ~(Cardinality(Active(c)) < 2)
    <3>1. EndStreet(g) = d
      BY <1>1, <1>10, <2>5
    <3>2. few = FALSE
      <4>1. (Cardinality(Live(g) \ A) < 2) = FALSE
        BY <1>8, <2>5
      <4> QED BY <2>1, <4>1
    <3>3. View(d) = Picture(Seats, Live(g), A, "deal_pending", NoSeat, g.street, FALSE,
                            g.runTwice, 0, FALSE, {})
      <4>1. View(d) = Midway(d, AllIn(d), d.phase, d.toAct)
        BY <2>3, PlayingView
      <4> QED BY <2>3, <2>4, <4>1 DEF Midway
    <3> QED BY <2>2, <3>1, <3>2, <3>3
  <2>6. CASE Cardinality(Active(c)) < 2
    <3>1. EndStreet(g) = RevealAll(e)
      BY <1>1, <1>10, <2>6
    <3>2. few = TRUE
      BY <1>8, <2>1, <2>6
    <3>3. /\ e \in Hand /\ e.pl = d.pl /\ e.phase = "deal_pending" /\ e.toAct = NoSeat
          /\ e.street = g.street /\ e.runout = TRUE /\ e.runTwice = g.runTwice
      BY <2>3 DEF Hand
    <3> HIDE DEF e
    <3>4. Live(e) = Live(g) /\ AllIn(e) = A
      BY <2>3, <2>4, <3>3 DEF Live, AllIn
    <3>5. /\ SameSeats(RevealAll(e), e) /\ RevealAll(e).phase = "deal_pending"
          /\ RevealAll(e).toAct = NoSeat
      BY <3>3, RevealAllSeats
    <3>6. View(RevealAll(e))
            = Picture(Seats, Live(g), A, "deal_pending", NoSeat, g.street, TRUE,
                      g.runTwice, 0, FALSE, {})
      <4> DEFINE f == RevealAll(e)
      <4>1. /\ f.phase = "deal_pending" /\ f.toAct = NoSeat /\ Live(f) = Live(g)
            /\ AllIn(f) = A /\ f.street = g.street /\ f.runout = TRUE
            /\ f.runTwice = g.runTwice
        BY <3>3, <3>4, <3>5 DEF SameSeats
      <4> HIDE DEF f
      <4>2. View(f) = Midway(f, AllIn(f), f.phase, f.toAct)
        BY <4>1, PlayingView
      <4>3. View(f) = Picture(Seats, Live(g), A, "deal_pending", NoSeat, g.street, TRUE,
                              g.runTwice, 0, FALSE, {})
        BY <4>1, <4>2 DEF Midway
      <4> QED BY <4>3 DEF f
    <3> QED BY <2>2, <3>1, <3>2, <3>6
  <2> QED BY <2>5, <2>6
<1> QED BY <1>9, <1>10

\* settle as the table expects it: the turn goes to a seat that can bet, and
\* not to one that owes nothing.
LEMMA SettleView ==
  ASSUME NEW g \in Hand, Books(g), Price(g), Funded(g), g.phase = "betting",
         Live(g) # {}, Unseen(g), ~g.runout, NEW start \in Int,
         NEW s, s \notin Owing(g), NEW p, NEW t
  PROVE  View(Settle(g, start)) \in Table!Settled(Midway(g, AllIn(g), p, t), s)
<1> DEFINE v == Midway(g, AllIn(g), p, t)
<1>1. /\ Cardinality(Live(g)) = 1 => Table!Settled(v, s) = Table!Uncontested(v)
      /\ Cardinality(Live(g)) # 1 => Table!RoundOver(v) \subseteq Table!Settled(v, s)
  BY SettledPicture DEF Midway
<1>2. CASE Cardinality(Live(g)) = 1
  <2>1. Settle(g, start) = FinishUncontested(g)
    BY <1>2 DEF Settle
  <2> QED BY <1>1, <1>2, <2>1, FinishView
<1>3. CASE Cardinality(Live(g)) # 1 /\ RoundComplete(g)
  <2>1. Cardinality(Live(g)) >= 2
    BY <1>3, LiveFacts
  <2>2. Settle(g, start) = EndStreet(g)
    BY <1>3 DEF Settle
  <2> QED BY <1>1, <1>3, <2>1, <2>2, EndStreetView
<1>4. CASE Cardinality(Live(g)) # 1 /\ ~RoundComplete(g)
  <2> DEFINE n == FirstFrom(start, Owing(g))
             c == [g EXCEPT !.toAct = n]
  <2>1. Owing(g) # {} /\ Owing(g) \in SUBSET Seats
    BY <1>4, SomebodyOwes, LiveFacts
  <2>2. Settle(g, start) = c
    BY <1>4, <2>1 DEF Settle, NextActor
  <2>3. n \in Owing(g)
    BY <2>1, FirstFromIn
  <2> HIDE DEF n
  <2>4. /\ c.pl = g.pl /\ c.toAct = n /\ c.phase = "betting" /\ c.street = g.street
        /\ c.runout = g.runout /\ c.runTwice = g.runTwice
    BY DEF Hand
  <2> HIDE DEF c
  <2>5. Live(c) = Live(g) /\ AllIn(c) = AllIn(g)
    BY <2>4 DEF Live, AllIn
  <2>6. n \in (Live(g) \ AllIn(g)) \ {s}
    BY <2>3 DEF Owing, Active, AllIn, Live
  <2>7. View(c) = Picture(Seats, Live(g), AllIn(g), "betting", n, g.street, g.runout,
                          g.runTwice, 0, FALSE, {})
    <3>1. View(c) = Midway(c, AllIn(c), c.phase, c.toAct)
      BY <2>4, PlayingView
    <3> QED BY <2>4, <2>5, <3>1 DEF Midway
  <2>8. Picture(Seats, Live(g), AllIn(g), "betting", n, g.street, g.runout,
                g.runTwice, 0, FALSE, {}) \in Table!Settled(v, s)
    BY <1>4, <2>6, TurnPicture DEF Midway
  <2> QED BY <2>2, <2>7, <2>8
<1> QED BY <1>2, <1>3, <1>4

-----------------------------------------------------------------------------
(* What a seat's move is to the table *)

\* The seat s folds, stays, or stays with its last chips.
Moves(c, g, s) ==
  \/ Live(c) = Live(g) \ {s} /\ AllIn(c) = AllIn(g)
  \/ Live(c) = Live(g) /\ AllIn(c) \in {AllIn(g), AllIn(g) \cup {s}}

\* Nothing more is asked of s in this round.
Done(c, s) == c.pl[s].folded \/ c.pl[s].allIn \/ c.pl[s].bet >= c.currentBet

\* A seat that folds is done.
LEMMA FoldMoves ==
  ASSUME NEW g \in Hand, NEW s \in Seats
  PROVE  LET c == Fold(g, s)
         IN  /\ Live(c) = Live(g) \ {s} /\ AllIn(c) = AllIn(g)
             /\ c.pl[s].folded /\ c.street = g.street
             /\ c.runout = g.runout /\ c.runTwice = g.runTwice
<1> DEFINE c == Fold(g, s)
           q == Folded(g.pl[s])
<1>1. g.pl[s] \in Player
  BY HandFields
<1>2. q.folded = TRUE /\ q.allIn = g.pl[s].allIn
  BY <1>1 DEF Folded, Player
<1>3. c = [g EXCEPT !.pl[s] = q]
  BY DEF Fold
<1> HIDE DEF q
<1>4. /\ \A t \in Seats : c.pl[t] = IF t = s THEN q ELSE g.pl[t]
      /\ c.street = g.street /\ c.runout = g.runout /\ c.runTwice = g.runTwice
  BY <1>3 DEF Hand
<1> HIDE DEF c
<1>5. AllIn(c) = AllIn(g)
  BY <1>2, <1>4 DEF AllIn
<1>6. Live(c) = Live(g) \ {s}
  BY <1>2, <1>4 DEF Live
<1> QED BY <1>2, <1>4, <1>5, <1>6 DEF c

\* Putting chips in front may be putting in the last ones.
LEMMA CommitMoves ==
  ASSUME NEW g \in Hand, NEW s \in Active(g), NEW n
  PROVE  LET c == Commit(g, s, n)
         IN  Moves(c, g, s) /\ (g.pl[s].stack = n => c.pl[s].allIn)
             /\ c.street = g.street
<1> DEFINE c == Commit(g, s, n)
           q == Staked(g.pl[s], n)
<1>1. s \in Seats /\ g.pl[s] \in Player /\ ~g.pl[s].allIn
  BY HandFields DEF Active, Live
<1>2. q.folded = g.pl[s].folded /\ q.allIn = (g.pl[s].stack = n)
  BY <1>1 DEF Staked, Player
<1>3. c = [g EXCEPT !.pl[s] = q]
  BY DEF Commit
<1> HIDE DEF q
<1>4. /\ \A t \in Seats : c.pl[t] = IF t = s THEN q ELSE g.pl[t]
      /\ c.street = g.street
  BY <1>3 DEF Hand
<1> HIDE DEF c
<1>5. Live(c) = Live(g)
  BY <1>2, <1>4 DEF Live
<1>6. CASE g.pl[s].stack = n
  <2>1. AllIn(c) = AllIn(g) \cup {s}
    BY <1>1, <1>2, <1>4, <1>6 DEF AllIn
  <2> QED BY <1>1, <1>2, <1>4, <1>5, <1>6, <2>1 DEF Moves, c
<1>7. CASE ~(g.pl[s].stack = n)
  <2>1. AllIn(c) = AllIn(g)
    BY <1>1, <1>2, <1>4, <1>7 DEF AllIn
  <2> QED BY <1>4, <1>5, <1>7, <2>1 DEF Moves, c
<1> QED BY <1>6, <1>7

\* A wager is a commitment that sets the price.
LEMMA WagerMoves ==
  ASSUME NEW g \in Hand, NEW s \in Active(g), NEW amount \in Nat, NEW minTo,
         g.pl[s].bet <= amount, amount <= MaxTo(g, s)
  PROVE  LET c == WagerTo(g, s, amount, minTo)
         IN  Moves(c, g, s) /\ Done(c, s) /\ c.street = g.street
<1> DEFINE n == amount - g.pl[s].bet
           k == Commit(g, s, n)
           d == [k EXCEPT !.currentBet = amount, !.aggressor = s]
           e == [d EXCEPT !.lastRaiseSize = amount - g.currentBet,
                          !.lastFullBetLevel = amount]
<1>1. s \in Seats
  BY DEF Active, Live
<1>2. g.pl[s].bet \in Nat /\ g.pl[s].stack \in Nat
  BY <1>1, HandFields DEF Player
<1>3. n \in Nat /\ n <= g.pl[s].stack /\ g.pl[s].bet + n = amount
  BY <1>2 DEF MaxTo
<1>4. WagerTo(g, s, amount, minTo) = IF amount >= minTo THEN e ELSE d
  BY DEF WagerTo
<1> HIDE DEF n
<1>5. k \in Hand /\ k.pl[s].bet = amount /\ Moves(k, g, s) /\ k.street = g.street
  BY <1>1, <1>3, CommitFacts, CommitMoves
<1> HIDE DEF k
<1>6. /\ d.pl = k.pl /\ d.currentBet = amount /\ d.street = k.street
      /\ e.pl = k.pl /\ e.currentBet = amount /\ e.street = k.street
  BY <1>5 DEF Hand
<1> HIDE DEF d, e
<1>7. Moves(d, g, s) /\ Moves(e, g, s)
  BY <1>5, <1>6 DEF Moves, Live, AllIn
<1>8. Done(d, s) /\ Done(e, s)
  BY <1>5, <1>6 DEF Done
<1> QED BY <1>4, <1>5, <1>6, <1>7, <1>8

\* Whatever a seat does on its turn, it is done with it.
LEMMA PerformMoves ==
  ASSUME NEW g \in Hand, NEW s \in Active(g), Price(g), NEW a \in Actions,
         Legal(g, s, Resolve(g, s, a))
  PROVE  LET c == Perform(g, s, Resolve(g, s, a))
         IN  Moves(c, g, s) /\ Done(c, s) /\ c.street = g.street
<1> DEFINE r == Resolve(g, s, a)
           c == Perform(g, s, r)
<1>0. s \in Seats
  BY DEF Active, Live
<1>1. /\ r.kind \in {"fold", "check", "call", "bet", "raise"}
      /\ r.amount \in Nat
      /\ r.kind = "bet" => g.currentBet = 0
  BY <1>0, ResolveFacts
<1> HIDE DEF r
<1>2. /\ g.pl[s].bet \in Nat /\ g.pl[s].stack \in Nat /\ g.currentBet \in Nat
      /\ g.pl[s].bet <= g.currentBet
  BY <1>0, HandFields DEF Player, Price
<1>3. CASE r.kind = "fold"
  <2>1. c = Fold(g, s)
    BY <1>3 DEF Perform
  <2> HIDE DEF c
  <2>2. Live(c) = Live(g) \ {s} /\ AllIn(c) = AllIn(g) /\ c.pl[s].folded /\ c.street = g.street
    BY <1>0, <2>1, FoldMoves
  <2> QED BY <2>2 DEF Moves, Done, r, c
<1>4. CASE r.kind = "check"
  <2>1. c = g
    BY <1>4 DEF Perform
  <2>2. g.pl[s].bet >= g.currentBet
    BY <1>2, <1>4 DEF Legal, ToCall, r
  <2> HIDE DEF c
  <2> QED BY <2>1, <2>2 DEF Moves, Done, r, c
<1>5. CASE r.kind = "call"
  <2> DEFINE n == CallAmount(g, s)
  <2>1. ToCall(g, s) > 0
    BY <1>5 DEF Legal, r
  <2>2. n \in Nat /\ n <= g.pl[s].stack /\ (n = g.pl[s].stack \/ g.pl[s].bet + n = g.currentBet)
    BY <1>2, <2>1 DEF CallAmount, ToCall, Min2
  <2>3. c = Commit(g, s, n)
    BY <1>5 DEF Perform
  <2> HIDE DEF n, c
  <2>4. /\ c.pl[s].bet = g.pl[s].bet + n /\ c.currentBet = g.currentBet
    BY <1>0, <2>2, <2>3, CommitFacts
  <2>5. Moves(c, g, s) /\ (g.pl[s].stack = n => c.pl[s].allIn) /\ c.street = g.street
    BY <2>3, CommitMoves
  <2>6. Done(c, s)
    BY <1>2, <2>2, <2>4, <2>5 DEF Done
  <2> QED BY <2>5, <2>6 DEF r, c
<1>6. CASE r.kind = "bet"
  <2>1. r.amount > g.currentBet /\ r.amount <= MaxTo(g, s)
    BY <1>1, <1>2, <1>6 DEF Legal, LegalBet, r
  <2>2. c = WagerTo(g, s, r.amount, cfg.bb)
    BY <1>6 DEF Perform
  <2>3. g.pl[s].bet <= r.amount
    BY <1>1, <1>2, <2>1
  <2> HIDE DEF c
  <2>4. Moves(c, g, s) /\ Done(c, s) /\ c.street = g.street
    BY <1>1, <2>1, <2>2, <2>3, WagerMoves
  <2> QED BY <2>4 DEF r, c
<1>7. CASE r.kind = "raise"
  <2>1. r.amount > g.currentBet /\ r.amount <= MaxTo(g, s)
    BY <1>1, <1>2, <1>7 DEF Legal, LegalRaise, r
  <2>2. c = WagerTo(g, s, r.amount, MinRaiseTo(g))
    BY <1>7 DEF Perform
  <2>3. g.pl[s].bet <= r.amount
    BY <1>1, <1>2, <2>1
  <2> HIDE DEF c
  <2>4. Moves(c, g, s) /\ Done(c, s) /\ c.street = g.street
    BY <1>1, <2>1, <2>2, <2>3, WagerMoves
  <2> QED BY <2>4 DEF r, c
<1> QED BY <1>1, <1>3, <1>4, <1>5, <1>6, <1>7

\* Marked as having acted, a seat that is done owes nothing.
LEMMA ActedDone ==
  ASSUME NEW g \in Hand, NEW s \in Seats, Done(g, s)
  PROVE  LET c == Acted(g, s)
         IN  Live(c) = Live(g) /\ AllIn(c) = AllIn(g) /\ c.street = g.street
             /\ s \notin Owing(c)
<1> DEFINE c == Acted(g, s)
           q == [g.pl[s] EXCEPT !.hasActed = TRUE,
                                !.actedAtFullLevel = g.lastFullBetLevel]
<1>1. g.pl[s] \in Player /\ g.currentBet \in Nat /\ g.pl[s].bet \in Nat
  BY HandFields DEF Player
<1>2. /\ q.folded = g.pl[s].folded /\ q.allIn = g.pl[s].allIn /\ q.bet = g.pl[s].bet
      /\ q.hasActed = TRUE
  BY <1>1 DEF Player
<1>3. c = [g EXCEPT !.pl[s] = q]
  BY DEF Acted
<1> HIDE DEF q
<1>4. /\ \A t \in Seats : c.pl[t] = IF t = s THEN q ELSE g.pl[t]
      /\ c.street = g.street /\ c.currentBet = g.currentBet
  BY <1>3 DEF Hand
<1> HIDE DEF c
<1>5. Live(c) = Live(g) /\ AllIn(c) = AllIn(g)
  BY <1>2, <1>4 DEF Live, AllIn
<1>6. s \notin Owing(c)
  BY <1>1, <1>2, <1>4 DEF Done, Owing, Active, Live
<1> QED BY <1>4, <1>5, <1>6 DEF c

\* A turn taken, as the table expects it of a player or of the clock.
LEMMA ActView ==
  ASSUME NEW g \in Hand, CardsRight(g), Funded(g), g.phase = "betting",
         Cardinality(Live(g)) >= 2, NEW s \in Seats, g.toAct = s,
         NEW c, Acting(c), Moves(c, g, s), Done(c, s), c.street = g.street,
         SameFaces(c, g), Trace(c, g)
  PROVE  LET w == View(Settle(Acted(c, s), s + 1))
         IN  /\ w \in Table!Applied(View(g))
             /\ AllIn(c) = AllIn(g) => w \in Table!TimedOut(View(g))
<1> DEFINE d == Acted(c, s)
           w == View(Settle(d, s + 1))
           A == AllIn(g)
<1>1. /\ c \in Hand /\ d \in Hand /\ SameHand(d, c) /\ Books(d) /\ Price(d)
  BY ActedFacts DEF Acting
<1>2. SameFaces(d, c) /\ Trace(d, c)
  BY <1>1, ActedFaces, ActedTrace
<1>3. /\ Live(d) = Live(c) /\ AllIn(d) = AllIn(c) /\ d.street = c.street
      /\ s \notin Owing(d)
  BY <1>1, ActedDone
<1> HIDE DEF d
<1>4. d.phase = "betting" /\ SameFaces(d, g) /\ Funded(d) /\ d.street = g.street
  BY <1>1, <1>2, <1>3, FacesJoin DEF SameHand, Acting, Trace, Funded
<1>5. Unseen(d) /\ ~d.runout /\ d.runout = g.runout /\ d.runTwice = g.runTwice
  BY <1>4 DEF CardsRight, SameFaces, Unseen
<1>6. Live(d) # {}
  BY <1>3, OneLeft DEF Moves
<1>7. s + 1 \in Int
  BY SeatsFacts
<1>8. w \in Table!Settled(Midway(d, AllIn(d), "betting", s), s)
  BY <1>1, <1>3, <1>4, <1>5, <1>6, <1>7, SettleView
<1> HIDE DEF w
<1> DEFINE P(l, a) == Picture(Seats, l, a, "betting", s, g.street, g.runout,
                              g.runTwice, 0, FALSE, {})
<1>9. Midway(d, AllIn(d), "betting", s) = P(Live(d), AllIn(d))
  BY <1>4, <1>5 DEF Midway
<1>10. View(g) = P(Live(g), A)
  <2>1. View(g) = Midway(g, AllIn(g), g.phase, g.toAct)
    BY PlayingView
  <2> QED BY <2>1 DEF Midway
<1>11. /\ Table!Settled(P(Live(g) \ {s}, A), s)
            \subseteq Table!Applied(P(Live(g), A)) \cap Table!TimedOut(P(Live(g), A))
       /\ Table!Settled(P(Live(g), A), s)
            \subseteq Table!Applied(P(Live(g), A)) \cap Table!TimedOut(P(Live(g), A))
       /\ Table!Settled(P(Live(g), A \cup {s}), s) \subseteq Table!Applied(P(Live(g), A))
  <2> HIDE DEF A
  <2>1. PICK st, ru, tw, co : st = g.street /\ ru = g.runout /\ tw = g.runTwice /\ co = FALSE
    OBVIOUS
  <2> DEFINE Q(l, a) == Picture(Seats, l, a, "betting", s, st, ru, tw, 0, co, {})
  <2>2. \A l, a : Q(l, a) = P(l, a)
    BY <2>1
  <2>3. \A l, a : /\ Table!Settled(Q(l \ {s}, a), s)
                        \subseteq Table!Applied(Q(l, a)) \cap Table!TimedOut(Q(l, a))
                  /\ Table!Settled(Q(l, a), s)
                        \subseteq Table!Applied(Q(l, a)) \cap Table!TimedOut(Q(l, a))
                  /\ Table!Settled(Q(l, a \cup {s}), s) \subseteq Table!Applied(Q(l, a))
    BY AppliedPicture
  <2> HIDE DEF P, Q
  <2> QED BY <2>2, <2>3
<1> HIDE DEF P, A
<1>12. CASE Live(d) = Live(g) \ {s} /\ AllIn(d) = A
  BY <1>8, <1>9, <1>10, <1>11, <1>12 DEF w, d
<1>13. CASE Live(d) = Live(g) /\ AllIn(d) = A
  BY <1>8, <1>9, <1>10, <1>11, <1>13 DEF w, d
<1>14. CASE Live(d) = Live(g) /\ AllIn(d) = A \cup {s}
  <2>1. w \in Table!Applied(View(g))
    BY <1>8, <1>9, <1>10, <1>11, <1>14 DEF w
  <2>2. AllIn(c) = A => AllIn(d) = A
    BY <1>3
  <2>3. AllIn(c) = A => w \in Table!TimedOut(View(g))
    BY <1>8, <1>9, <1>10, <1>11, <1>14, <2>2 DEF w
  <2> QED BY <2>1, <2>3 DEF w, A, d
<1> QED BY <1>3, <1>12, <1>13, <1>14 DEF Moves, w, A, d

-----------------------------------------------------------------------------
(* What the other calls are to the table *)

\* A live seat leaves, on its turn or out of it.
LEMMA ForfeitView ==
  ASSUME NEW g, Good(g), CardsRight(g), Funded(g), NEW s \in Live(g),
         g.phase \in {"betting", "deal_pending"}
  PROVE  View(AfterForfeit(Fold(g, s), s)) \in Table!Forfeited(View(g), s)
<1> DEFINE c == Fold(g, s)
           A == AllIn(g)
           f == Midway(c, AllIn(c), g.phase, g.toAct)
           Goal == View(AfterForfeit(c, s)) \in Table!Forfeited(View(g), s)
<1>1. g \in Hand /\ s \in Seats /\ Books(g) /\ Cardinality(Live(g)) >= 2
  BY LiveFacts DEF Good
<1>2. /\ c \in Hand /\ SameTable(c, g) /\ Books(c)
      /\ Price(g) => Price(c)
      /\ Live(c) = Live(g) \ {s}
  BY <1>1, FoldFacts
<1>3. /\ AllIn(c) = A /\ c.street = g.street
      /\ c.runout = g.runout /\ c.runTwice = g.runTwice
  BY <1>1, FoldMoves
<1>4. SameFaces(c, g) /\ Trace(c, g)
  BY <1>1, FoldFaces, FoldTrace
<1> HIDE DEF c
<1>5. Live(c) # {}
  BY <1>1, <1>2, OneLeft
<1>6. Funded(c)
  BY <1>4 DEF Trace, Funded
<1>7. View(g) = Picture(Seats, Live(g), A, g.phase, g.toAct, g.street, g.runout,
                        g.runTwice, 0, FALSE, {})
  <2>1. View(g) = Midway(g, AllIn(g), g.phase, g.toAct)
    BY PlayingView
  <2> QED BY <2>1 DEF Midway
<1>8. f = Picture(Seats, Live(g) \ {s}, A, g.phase, g.toAct, g.street, g.runout,
                  g.runTwice, 0, FALSE, {})
  BY <1>2, <1>3 DEF Midway
<1>9. /\ Cardinality(Live(c)) = 1 => Table!Forfeited(View(g), s) = Table!Uncontested(f)
      /\ Cardinality(Live(c)) # 1 =>
           /\ g.phase = "deal_pending" => f \in Table!Forfeited(View(g), s)
           /\ g.phase = "betting" =>
                IF g.toAct = s THEN Table!Forfeited(View(g), s) = Table!Settled(f, s)
                ELSE /\ f \in Table!Forfeited(View(g), s)
                     /\ Table!RoundOver(f) \subseteq Table!Forfeited(View(g), s)
  <2> DEFINE v == Picture(Seats, Live(g), A, g.phase, g.toAct, g.street, g.runout,
                          g.runTwice, 0, FALSE, {})
             k == Picture(Seats, Live(g) \ {s}, A, g.phase, g.toAct, g.street, g.runout,
                          g.runTwice, 0, FALSE, {})
  <2>1. /\ Cardinality(Live(g) \ {s}) = 1 => Table!Forfeited(v, s) = Table!Uncontested(k)
        /\ Cardinality(Live(g) \ {s}) # 1 =>
             /\ g.phase = "deal_pending" => k \in Table!Forfeited(v, s)
             /\ g.phase = "betting" =>
                  IF g.toAct = s THEN Table!Forfeited(v, s) = Table!Settled(k, s)
                  ELSE /\ k \in Table!Forfeited(v, s)
                       /\ Table!RoundOver(k) \subseteq Table!Forfeited(v, s)
    BY ForfeitedPicture
  <2>2. View(g) = v /\ f = k
    BY <1>7, <1>8
  <2> HIDE DEF f, k, v, A
  <2> QED BY <1>2, <2>1, <2>2
<1>10. c.phase = g.phase /\ c.toAct = g.toAct
  BY <1>2 DEF SameTable
<1>11. CASE Cardinality(Live(c)) = 1
  <2>1. AfterForfeit(c, s) = FinishUncontested(c)
    BY <1>11 DEF AfterForfeit
  <2>2. View(FinishUncontested(c)) \in Table!Uncontested(f)
    BY <1>2, <1>6, <1>11, FinishView
  <2>3. Goal
    BY <1>9, <1>11, <2>1, <2>2
  <2> QED BY <2>3 DEF c
<1>12. CASE Cardinality(Live(c)) # 1 /\ g.phase = "deal_pending"
  <2>1. AfterForfeit(c, s) = c
    BY <1>10, <1>12 DEF AfterForfeit
  <2>2. View(c) = f
    BY <1>10, PlayingView
  <2>3. Goal
    BY <1>9, <1>12, <2>1, <2>2
  <2> QED BY <2>3 DEF c
<1>13. CASE Cardinality(Live(c)) # 1 /\ g.phase = "betting"
  <2>1. Cardinality(Live(c)) >= 2
    BY <1>5, <1>13, LiveFacts
  <2>2. /\ Price(c) /\ c.phase = "betting" /\ ~c.runout /\ Unseen(c)
    <3>1. Price(c) /\ c.phase = "betting" /\ ~c.runout
      BY <1>2, <1>3, <1>10, <1>13 DEF Good, CardsRight
    <3>2. Unseen(c)
      BY <1>4, <1>13 DEF CardsRight, SameFaces, Unseen
    <3> QED BY <3>1, <3>2
  <2>3. CASE g.toAct = s
    <3>1. AfterForfeit(c, s) = Settle(c, s + 1)
      BY <1>10, <1>13, <2>3 DEF AfterForfeit
    <3>2. s + 1 \in Int
      BY <1>1, SeatsFacts
    <3>3. s \notin Owing(c)
      BY <1>2 DEF Owing, Active
    <3>4. View(Settle(c, s + 1)) \in Table!Settled(f, s)
      BY <1>2, <1>5, <1>6, <2>2, <3>2, <3>3, SettleView
    <3>5. Goal
      BY <1>9, <1>13, <2>3, <3>1, <3>4
    <3> QED BY <3>5 DEF c
  <2>4. CASE g.toAct # s /\ RoundComplete(c)
    <3>1. AfterForfeit(c, s) = EndStreet(c)
      BY <1>10, <1>13, <2>4 DEF AfterForfeit
    <3>2. View(EndStreet(c)) \in Table!RoundOver(f)
      BY <1>2, <2>1, <2>2, <2>4, EndStreetView
    <3>3. Goal
      BY <1>9, <1>13, <2>4, <3>1, <3>2
    <3> QED BY <3>3 DEF c
  <2>5. CASE g.toAct # s /\ ~RoundComplete(c)
    <3>1. AfterForfeit(c, s) = c
      BY <1>10, <1>13, <2>5 DEF AfterForfeit
    <3>2. View(c) = f
      BY <1>10, PlayingView
    <3>3. Goal
      BY <1>9, <1>13, <2>5, <3>1, <3>2
    <3> QED BY <3>3 DEF c
  <2> QED BY <2>3, <2>4, <2>5
<1> QED BY <1>11, <1>12, <1>13

\* A new betting round leaves the seats as they are.
LEMMA NewRoundSeats ==
  ASSUME NEW g \in Hand
  PROVE  SameSeats(NewRound(g), g)
<1> DEFINE Fresh(p) == [p EXCEPT !.hasActed = FALSE, !.actedAtFullLevel = 0]
           c == NewRound(g)
<1>1. /\ \A s \in Seats : c.pl[s] = Fresh(g.pl[s])
      /\ c.street = g.street /\ c.runout = g.runout /\ c.runTwice = g.runTwice
  BY DEF NewRound, Hand
<1>2. \A p \in Player : Fresh(p).folded = p.folded /\ Fresh(p).allIn = p.allIn
  BY DEF Player
<1> HIDE DEF Fresh, c
<1>3. \A s \in Seats : g.pl[s] \in Player
  BY HandFields
<1>4. \A s \in Seats : c.pl[s].folded = g.pl[s].folded /\ c.pl[s].allIn = g.pl[s].allIn
  BY <1>1, <1>2, <1>3
<1>5. SameSeats(c, g)
  BY <1>1, <1>4 DEF SameSeats, Live, AllIn
<1> QED BY <1>5 DEF c

\* The next street opens a round, pays a hand run out, or runs it further.
LEMMA AdvanceView ==
  ASSUME cfg \in HandConfig, NEW g, Good(g), CardsRight(g), Funded(g),
         g.phase = "deal_pending",
         NEW s1 \in [Seats -> Ranks], NEW s2 \in [Seats -> Ranks]
  PROVE  LET d == Dealing(g, s1, s2)
             c == IF ~g.runout THEN Settle(NewRound(d), NextSeat(cfg.button))
                  ELSE IF d.street = River THEN Showdown(d)
                  ELSE d
         IN  View(c) \in Table!Advanced(View(g))
<1> DEFINE d == Dealing(g, s1, s2)
           A == AllIn(g)
           n == Midway(d, AllIn(d), "deal_pending", NoSeat)
<1>1. /\ g \in Hand /\ Books(g) /\ Cardinality(Live(g)) >= 2 /\ NothingInFront(g)
      /\ g.street < River /\ g.toAct = NoSeat /\ Live(g) # {}
  <2>1. /\ g \in Hand /\ Books(g) /\ Cardinality(Live(g)) >= 2 /\ NothingInFront(g)
        /\ g.street < River /\ g.toAct = NoSeat
    BY DEF Good
  <2> QED BY <2>1, OneLeft
<1>2. /\ d \in Hand /\ d.pl = g.pl /\ d.phase = "deal_pending" /\ d.toAct = NoSeat
      /\ d.street = g.street + 1
  BY <1>1, DealingFacts
<1>3. d.runout = g.runout /\ d.runTwice = g.runTwice
  BY <1>1 DEF Dealing, Hand
<1> HIDE DEF d
<1>4. /\ Books(d) /\ NothingInFront(d) /\ Live(d) = Live(g) /\ AllIn(d) = A
      /\ Funded(d) /\ Trace(d, g)
  BY <1>1, <1>2, SameLive DEF Books, NothingInFront, AllIn, Funded, Trace
<1>5. View(g) = Picture(Seats, Live(g), A, "deal_pending", NoSeat, g.street, g.runout,
                        g.runTwice, 0, FALSE, {})
  <2>1. View(g) = Midway(g, AllIn(g), g.phase, g.toAct)
    BY PlayingView
  <2> QED BY <1>1, <2>1 DEF Midway
<1>6. n = Picture(Seats, Live(g), A, "deal_pending", NoSeat, g.street + 1, g.runout,
                  g.runTwice, 0, FALSE, {})
  BY <1>2, <1>3, <1>4 DEF Midway
<1>7. /\ ~g.runout => Table!Settled(n, NoSeat) \subseteq Table!Advanced(View(g))
      /\ g.runout /\ g.street + 1 = River => Table!Awarded(n) \subseteq Table!Advanced(View(g))
      /\ g.runout /\ g.street + 1 # River => n \in Table!Advanced(View(g))
  <2>0. PICK st, ru : st = g.street /\ ru = g.runout
    OBVIOUS
  <2> DEFINE v == Picture(Seats, Live(g), A, "deal_pending", NoSeat, st, ru,
                          g.runTwice, 0, FALSE, {})
             k == Picture(Seats, Live(g), A, "deal_pending", NoSeat, st + 1, ru,
                          g.runTwice, 0, FALSE, {})
  <2> HIDE DEF A
  <2>1. /\ ru = FALSE => Table!Settled(k, NoSeat) \subseteq Table!Advanced(v)
        /\ ru = TRUE /\ st + 1 = River => Table!Awarded(k) \subseteq Table!Advanced(v)
        /\ ru = TRUE /\ st + 1 # River => k \in Table!Advanced(v)
    BY AdvancedPicture
  <2>2. View(g) = v /\ n = k
    BY <1>5, <1>6, <2>0
  <2> HIDE DEF n, k, v
  <2>3. /\ g.runout => ru = TRUE
        /\ ~g.runout => ru = FALSE
    BY <1>1, <2>0 DEF Hand
  <2> QED BY <2>0, <2>1, <2>2, <2>3
<1>8. CASE ~g.runout
  <2> DEFINE r == NewRound(d)
             start == NextSeat(cfg.button)
  <2>1. /\ r \in Hand /\ Books(r) /\ Price(r) /\ r.phase = "betting"
        /\ Live(r) = Live(d)
    BY <1>2, <1>4, NewRoundFacts
  <2>2. SameSeats(r, d) /\ SameFaces(r, d) /\ Trace(r, d)
    BY <1>2, NewRoundSeats, NewRoundFaces, NewRoundTrace
  <2>3. start \in Int
    <3>1. cfg.button \in Seats
      BY DEF HandConfig
    <3>2. start \in Seats
      BY <3>1, NextSeatFacts
    <3> HIDE DEF start
    <3> QED BY <3>2, SeatsFacts
  <2> HIDE DEF r, start
  <2>4. /\ Funded(r) /\ Unseen(r) /\ ~r.runout
    <3>1. Unseen(g)
      BY <1>8 DEF CardsRight
    <3> QED BY <1>2, <1>3, <1>4, <1>8, <2>2, <3>1
            DEF Funded, Trace, Unseen, SameFaces, SameSeats
  <2>5. NoSeat \notin Owing(r)
    <3>1. NoSeat \notin Seats
      BY SeatsFacts DEF NoSeat
    <3> QED BY <3>1, LiveFacts
  <2>6. View(Settle(r, start))
          \in Table!Settled(Midway(r, AllIn(r), "deal_pending", NoSeat), NoSeat)
    BY <1>1, <1>4, <2>1, <2>3, <2>4, <2>5, SettleView
  <2>7. Midway(r, AllIn(r), "deal_pending", NoSeat) = n
    BY <2>2, SameSeatsView
  <2>8. View(Settle(r, start)) \in Table!Advanced(View(g))
    BY <1>7, <1>8, <2>6, <2>7
  <2> QED BY <1>8, <2>8 DEF r, start, d
<1>9. CASE g.runout /\ d.street = River
  <2>1. \A s \in Live(d) : d.pl[s].revealed
    BY <1>2, <1>4, <1>9 DEF CardsRight
  <2>2. Showdown(d) = AwardPots(d)
    BY <2>1 DEF Showdown
  <2>3. View(AwardPots(d)) \in Table!Awarded(n)
    BY <1>1, <1>2, <1>4, AwardView
  <2>4. View(Showdown(d)) \in Table!Advanced(View(g))
    BY <1>2, <1>7, <1>9, <2>2, <2>3
  <2> QED BY <1>9, <2>4 DEF d
<1>10. CASE g.runout /\ d.street # River
  <2>1. View(d) = n
    <3>1. View(d) = Midway(d, AllIn(d), d.phase, d.toAct)
      BY <1>2, PlayingView
    <3> QED BY <1>2, <3>1
  <2>2. View(d) \in Table!Advanced(View(g))
    BY <1>2, <1>7, <1>10, <2>1
  <2> QED BY <1>10, <2>2 DEF d
<1> QED BY <1>8, <1>9, <1>10

-----------------------------------------------------------------------------
(* Showing, running it twice and the first turn *)

\* One more hand is shown or mucked; the last one pays the pots.
LEMMA RevealView ==
  ASSUME cfg \in HandConfig, NEW g, Good(g), CardsRight(g), Funded(g),
         g.phase = "showdown"
  PROVE  LET s == OnShow(g)
             q == g.pl[s]
             p == IF q.revealed THEN q
                  ELSE IF MustShow(g, s) THEN Faced(q)
                  ELSE [q EXCEPT !.mucked = TRUE]
             r == [g EXCEPT !.showIdx = g.showIdx + 1, !.pl[s] = p]
             c == IF r.showIdx >= Cardinality(Live(r)) THEN AwardPots(r) ELSE r
         IN  View(c) \in Table!Revealed(View(g))
<1> DEFINE s == OnShow(g)
           q == g.pl[s]
           p == IF q.revealed THEN q
                ELSE IF MustShow(g, s) THEN Faced(q)
                ELSE [q EXCEPT !.mucked = TRUE]
           r == [g EXCEPT !.showIdx = g.showIdx + 1, !.pl[s] = p]
           pl == [g.pl EXCEPT ![s] = p]
           A == AllIn(g)
           m == Cardinality(Live(g))
<1>1. /\ g \in Hand /\ Books(g) /\ m >= 2 /\ NothingInFront(g) /\ g.toAct = NoSeat
      /\ m \in Nat /\ g.showIdx \in Nat /\ g.showIdx < m
  <2>1. g \in Hand /\ Books(g) /\ m >= 2 /\ NothingInFront(g) /\ g.toAct = NoSeat
    BY DEF Good
  <2> QED BY <2>1, LiveFacts, HandFields DEF CardsRight
<1>2. s \in Live(g) /\ s \in Seats
  BY <1>1, OnShowIsLive DEF Live
<1>3. /\ p \in Player /\ (q \in Sound => p \in Sound)
      /\ p.folded = q.folded /\ p.bet = q.bet /\ p.allIn = q.allIn
      /\ p.startStack = q.startStack
  <2>1. \A x \in Player :
          LET k == [x EXCEPT !.mucked = TRUE]
          IN  /\ k \in Player /\ (x \in Sound => k \in Sound)
              /\ k.folded = x.folded /\ k.bet = x.bet /\ k.allIn = x.allIn
              /\ k.startStack = x.startStack
    BY DEF Player, Sound
  <2>2. \A x \in Player : /\ Faced(x).allIn = x.allIn
                          /\ Faced(x).startStack = x.startStack
    BY DEF Faced, Player
  <2>3. q \in Player
    BY <1>1, <1>2, HandFields
  <2> HIDE DEF s, q
  <2> QED BY <2>1, <2>2, <2>3, FacedSound
<1> HIDE DEF p, s
<1>4. /\ r \in Hand /\ r.phase = "showdown" /\ r.toAct = NoSeat /\ Books(r)
      /\ NothingInFront(r) /\ Live(r) = Live(g)
  BY <1>1, <1>3, RevealStepFacts
<1>5. r = [g EXCEPT !.showIdx = g.showIdx + 1, !.pl = pl]
  BY <1>1 DEF Hand
<1>6. \A t \in Seats : pl[t] = IF t = s THEN p ELSE g.pl[t]
  BY <1>1, HandFields
<1> HIDE DEF pl, r
<1>7. /\ r.pl = pl /\ r.showIdx = g.showIdx + 1 /\ r.street = g.street
      /\ r.runout = g.runout /\ r.runTwice = g.runTwice
  BY <1>1, <1>5 DEF Hand
<1>8. AllIn(r) = A
  BY <1>3, <1>6, <1>7 DEF AllIn
<1>9. Funded(r)
  BY <1>3, <1>6, <1>7 DEF Funded
<1>10. PICK w : w = m - g.showIdx
  OBVIOUS
<1>11. w \in Nat /\ (w - 1 = 0 <=> r.showIdx >= Cardinality(Live(r)))
       /\ w - 1 = Cardinality(Live(r)) - r.showIdx
  BY <1>1, <1>4, <1>7, <1>10
<1> DEFINE P(n) == Picture(Seats, Live(g), A, "showdown", NoSeat, g.street, g.runout,
                           g.runTwice, n, FALSE, {})
<1>12. View(g) = P(w)
  <2>1. (g.phase = "result" /\ Cardinality(Live(g)) >= 2) = FALSE
    OBVIOUS
  <2>2. (IF g.phase = "showdown" THEN Cardinality(Live(g)) - g.showIdx ELSE 0) = w
    BY <1>10
  <2>3. {t \in Seats : g.phase = "result" /\ g.pl[t].stack = 0} = {}
    OBVIOUS
  <2> QED BY <1>1, <2>1, <2>2, <2>3 DEF View
<1>13. /\ w - 1 = 0 => Table!Awarded(P(w - 1)) \subseteq Table!Revealed(P(w))
       /\ w - 1 # 0 => P(w - 1) \in Table!Revealed(P(w))
  <2> HIDE DEF A
  <2> QED BY RevealedPicture
<1>14. CASE w - 1 = 0
  <2>1. Midway(r, AllIn(r), "showdown", NoSeat) = P(w - 1)
    BY <1>4, <1>7, <1>8, <1>14 DEF Midway
  <2>2. View(AwardPots(r)) \in Table!Awarded(Midway(r, AllIn(r), "showdown", NoSeat))
    BY <1>1, <1>4, <1>9, AwardView
  <2> HIDE DEF P
  <2>3. View(AwardPots(r)) \in Table!Revealed(View(g))
    BY <1>12, <1>13, <1>14, <2>1, <2>2
  <2> QED BY <1>11, <1>14, <2>3 DEF r, p, s
<1>15. CASE w - 1 # 0
  <2>1. View(r) = P(w - 1)
    <3>1. (r.phase = "result" /\ Cardinality(Live(r)) >= 2) = FALSE
      BY <1>4
    <3>2. (IF r.phase = "showdown" THEN Cardinality(Live(r)) - r.showIdx ELSE 0) = w - 1
      BY <1>4, <1>11
    <3>3. {t \in Seats : r.phase = "result" /\ r.pl[t].stack = 0} = {}
      BY <1>4
    <3> QED BY <1>4, <1>7, <1>8, <3>1, <3>2, <3>3 DEF View
  <2> HIDE DEF P
  <2>2. View(r) \in Table!Revealed(View(g))
    BY <1>12, <1>13, <1>15, <2>1
  <2> QED BY <1>11, <1>15, <2>2 DEF r, p, s
<1> QED BY <1>14, <1>15

\* The rest of the board may be run twice when the table would offer it.
LEMMA RunTwiceView ==
  ASSUME NEW g, Good(g), CanRunItTwice(g)
  PROVE  LET c == [g EXCEPT !.runTwice = TRUE]
         IN  Table!CanRunItTwice(View(g)) /\ View(c) = Table!RanTwice(View(g))
<1> DEFINE c == [g EXCEPT !.runTwice = TRUE]
           A == AllIn(g)
           P(tw) == Picture(Seats, Live(g), A, "deal_pending", g.toAct, g.street,
                            g.runout, tw, 0, FALSE, {})
<1>1. g \in Hand /\ g.phase = "deal_pending" /\ g.runout /\ ~g.runTwice
  BY DEF Good, CanRunItTwice
<1>2. /\ c.pl = g.pl /\ c.phase = g.phase /\ c.toAct = g.toAct /\ c.street = g.street
      /\ c.runout = g.runout /\ c.runTwice = TRUE
  BY <1>1 DEF Hand
<1> HIDE DEF c
<1>3. Live(c) = Live(g) /\ AllIn(c) = A
  BY <1>2 DEF Live, AllIn
<1>4. View(g) = P(g.runTwice)
  <2>1. View(g) = Midway(g, AllIn(g), g.phase, g.toAct)
    BY <1>1, PlayingView
  <2> QED BY <1>1, <2>1 DEF Midway
<1>5. View(c) = P(TRUE)
  <2>1. View(c) = Midway(c, AllIn(c), c.phase, c.toAct)
    BY <1>1, <1>2, PlayingView
  <2> QED BY <1>1, <1>2, <1>3, <2>1 DEF Midway
<1>6. PICK yes : yes = TRUE
  OBVIOUS
<1>7. P(yes) \in {Table!RanTwice(P(g.runTwice))}
  <2> HIDE DEF A
  <2> QED BY <1>6, RanTwicePicture
<1>8. View(g).phase = g.phase /\ View(g).runout = g.runout /\ View(g).twice = g.runTwice
  BY DEF View, Picture
<1>9. Table!CanRunItTwice(View(g))
  BY <1>1, <1>8 DEF Table!CanRunItTwice
<1>10. View(c) = P(yes)
  BY <1>5, <1>6
<1> HIDE DEF P
<1> QED BY <1>4, <1>7, <1>9, <1>10 DEF c

\* Cards shown after the hand change nothing the table sees.
LEMMA ShowCardsView ==
  ASSUME NEW g \in Hand, NEW s \in Seats, NEW cards
  PROVE  View([g EXCEPT !.pl[s] = Exposed(g.pl[s], cards)]) = View(g)
<1> DEFINE q == g.pl[s]
           p == Exposed(q, cards)
           c == [g EXCEPT !.pl[s] = p]
<1>1. q \in Player
  BY HandFields
<1>2. p.folded = q.folded /\ p.allIn = q.allIn /\ p.stack = q.stack
  BY <1>1 DEF Exposed, Player
<1> HIDE DEF p
<1>3. /\ \A t \in Seats : c.pl[t] = IF t = s THEN p ELSE g.pl[t]
      /\ c.phase = g.phase /\ c.toAct = g.toAct /\ c.street = g.street
      /\ c.runout = g.runout /\ c.runTwice = g.runTwice /\ c.showIdx = g.showIdx
  BY DEF Hand
<1> HIDE DEF c
<1>4. Live(c) = Live(g) /\ AllIn(c) = AllIn(g)
  BY <1>2, <1>3 DEF Live, AllIn
<1>5. {t \in Seats : c.phase = "result" /\ c.pl[t].stack = 0}
        = {t \in Seats : g.phase = "result" /\ g.pl[t].stack = 0}
  BY <1>2, <1>3
<1>6. View(c) = View(g)
  BY <1>3, <1>4, <1>5 DEF View
<1> QED BY <1>6 DEF c, p

\* A new hand is one the table may be given, everybody with chips.
LEMMA NewHandView ==
  ASSUME cfg \in Configs, NEW stacks \in [Seats -> StartStacks]
  PROVE  View(NewHand(stacks)) \in Table!Opened(Seats) /\ Funded(NewHand(stacks))
<1>1. PICK g, first : /\ first \in Int /\ Opening(g)
                      /\ NewHand(stacks) = Settle(g, first)
  BY NewHandOpens
<1>2. /\ g \in Hand /\ Books(g) /\ Price(g) /\ g.phase = "betting" /\ g.street = 0
      /\ Live(g) = Seats /\ Funded(g) /\ Unseen(g)
      /\ g.runout = FALSE /\ g.runTwice = FALSE
  BY <1>1 DEF Opening, DealtIn, Funded, Unseen, Preflop, Hand
<1>3. Live(g) # {} /\ NoSeat \notin Owing(g) /\ AllIn(g) \in SUBSET Seats
  <2>1. NoSeat \notin Seats /\ Seats # {}
    BY SeatsFacts, FS_EmptySet DEF NoSeat
  <2> QED BY <1>2, <2>1, LiveFacts DEF AllIn
<1>4. View(Settle(g, first))
        \in Table!Settled(Midway(g, AllIn(g), "betting", NoSeat), NoSeat)
  BY <1>1, <1>2, <1>3, SettleView
<1>5. Midway(g, AllIn(g), "betting", NoSeat)
        = [dealt |-> Seats, live |-> Seats, allIn |-> AllIn(g), phase |-> "betting",
           toAct |-> NoSeat, street |-> 0, runout |-> FALSE, twice |-> FALSE,
           toShow |-> 0, contested |-> FALSE, broke |-> {}]
  BY <1>2 DEF Midway, Picture
<1>6. View(Settle(g, first)) \in Table!Opened(Seats)
  BY <1>3, <1>4, <1>5 DEF Table!Opened
<1>7. cfg \in HandConfig
  BY ConfigAssumption
<1>8. Funded(Settle(g, first))
  <2>1. Trace(Settle(g, first), g)
    BY <1>2, <1>3, <1>7, SettleKeeps DEF Keeps
  <2> QED BY <1>2, <2>1 DEF Trace, Funded
<1> QED BY <1>1, <1>6, <1>8

-----------------------------------------------------------------------------
(* The hand implements the table's hand *)

\* The proofs' name for the mapping.
LEMMA ViewIsTableView == TableView = View(h)
  BY DEF TableView, View, Picture, AllIn, AtShowdown

\* The first state of a hand is a first state of the table's.
LEMMA ViewStart == Init => Table!Init /\ Funded(h)
<1> SUFFICES ASSUME Init PROVE Table!Init /\ Funded(h)
  OBVIOUS
<1>1. PICK stacks \in [Seats -> StartStacks] : h = NewHand(stacks)
  BY DEF Init
<1>2. View(h) \in Table!Opened(Seats) /\ Funded(h)
  BY <1>1, NewHandView DEF Init
<1>3. Table!Cardinality(Seats) >= 2
  BY SeatsFacts, TableCounts
<1>4. TableView = View(h)
  BY ViewIsTableView
<1> QED BY <1>2, <1>3, <1>4 DEF Table!Init

\* One step of the table's hand from g to c.
TableStep(c, g) ==
  \/ /\ g.phase = "betting"
     /\ View(c) \in Table!Applied(View(g)) \cup Table!TimedOut(View(g))
  \/ \E s \in Seats : View(c) \in Table!Forfeited(View(g), s)
  \/ g.phase = "deal_pending" /\ View(c) \in Table!Advanced(View(g))
  \/ Table!CanRunItTwice(View(g)) /\ View(c) = Table!RanTwice(View(g))
  \/ g.phase = "showdown" /\ View(c) \in Table!Revealed(View(g))
  \/ View(c) = View(g)

\* Every call of the engine is a step of the table's hand or changes nothing
\* the table sees.
LEMMA NextView ==
  IInv /\ CardsRight(h) /\ Funded(h) /\ Next => TableStep(h', h)
<1> SUFFICES ASSUME IInv, CardsRight(h), Funded(h), Next PROVE TableStep(h', h)
  OBVIOUS
<1>1. cfg \in Configs /\ cfg \in HandConfig /\ Good(h) /\ h \in Hand
  BY IInvGivesGood DEF Good
<1>2. ASSUME NEW s \in Seats, NEW a \in Actions, Apply(s, a) PROVE TableStep(h', h)
  <2> DEFINE c == Perform(h, s, Resolve(h, s, a))
  <2>1. /\ h.phase = "betting" /\ h.toAct = s /\ Legal(h, s, Resolve(h, s, a))
        /\ h' = Settle(Acted(c, s), s + 1)
    BY <1>2 DEF Apply, OnTurn
  <2>2. /\ Books(h) /\ Price(h) /\ Cardinality(Live(h)) >= 2 /\ s \in Active(h)
    BY <1>1, <2>1, LiveFacts DEF Good
  <2>3. Acting(c) /\ SameFaces(c, h) /\ Trace(c, h)
    BY <1>1, <2>1, <2>2, PerformFacts, PerformFaces, PerformTrace
  <2>4. Moves(c, h, s) /\ Done(c, s) /\ c.street = h.street
    BY <1>1, <2>1, <2>2, PerformMoves
  <2> HIDE DEF c
  <2>5. View(h') \in Table!Applied(View(h))
    BY <1>1, <2>1, <2>2, <2>3, <2>4, ActView
  <2> QED BY <2>1, <2>5 DEF TableStep
<1>3. ASSUME NEW s \in Seats, Timeout(s) PROVE TableStep(h', h)
  <2> DEFINE c == IF h.pl[s].bet = h.currentBet THEN h ELSE Fold(h, s)
  <2>1. /\ h.phase = "betting" /\ h.toAct = s /\ h' = Settle(Acted(c, s), s + 1)
    BY <1>3 DEF Timeout, OnTurn
  <2>2. /\ Books(h) /\ Price(h) /\ Cardinality(Live(h)) >= 2
    BY <1>1, <2>1 DEF Good
  <2>3. /\ Acting(h) /\ Acting(Fold(h, s)) /\ SameFaces(Fold(h, s), h) /\ SameFaces(h, h)
        /\ Trace(Fold(h, s), h) /\ Trace(h, h)
    BY <1>1, <2>1, <2>2, FoldFacts, FoldFaces, FoldTrace
       DEF Acting, SameTable, SameFaces, Trace
  <2>4. Acting(c) /\ SameFaces(c, h) /\ Trace(c, h)
    BY <2>3
  <2>5. /\ Moves(c, h, s) /\ Done(c, s) /\ c.street = h.street /\ AllIn(c) = AllIn(h)
    <3>1. CASE h.pl[s].bet = h.currentBet
      <4>1. h.currentBet \in Nat
        BY <1>1, HandFields
      <4> QED BY <3>1, <4>1 DEF Moves, Done
    <3>2. CASE ~(h.pl[s].bet = h.currentBet)
      <4>1. /\ Live(Fold(h, s)) = Live(h) \ {s} /\ AllIn(Fold(h, s)) = AllIn(h)
            /\ Fold(h, s).pl[s].folded /\ Fold(h, s).street = h.street
        BY <1>1, FoldMoves
      <4> QED BY <3>2, <4>1 DEF Moves, Done
    <3> QED BY <3>1, <3>2
  <2> HIDE DEF c
  <2>6. View(h') \in Table!TimedOut(View(h))
    BY <1>1, <2>1, <2>2, <2>4, <2>5, ActView
  <2> QED BY <2>1, <2>6 DEF TableStep
<1>4. ASSUME NEW s \in Seats, Forfeit(s) PROVE TableStep(h', h)
  <2>1. /\ s \in Live(h) /\ h.phase \in {"betting", "deal_pending"}
        /\ h' = AfterForfeit(Fold(h, s), s)
    BY <1>4 DEF Forfeit
  <2>2. View(h') \in Table!Forfeited(View(h), s)
    BY <1>1, <2>1, ForfeitView
  <2> QED BY <2>2 DEF TableStep
<1>5. ASSUME NEW s1 \in DealtStrengths(1), NEW s2 \in DealtStrengths(2),
             Advance(s1, s2)
      PROVE  TableStep(h', h)
  <2>1. h.phase = "deal_pending"
    BY <1>5 DEF Advance
  <2>2. s1 \in [Seats -> Ranks] /\ s2 \in [Seats -> Ranks]
    BY DealtStrengthsType
  <2>3. View(h') \in Table!Advanced(View(h))
    BY <1>1, <1>5, <2>1, <2>2, AdvanceView DEF Advance
  <2> QED BY <2>1, <2>3 DEF TableStep
<1>6. ASSUME RunItTwice PROVE TableStep(h', h)
  BY <1>1, <1>6, RunTwiceView DEF RunItTwice, TableStep
<1>7. ASSUME RevealNext PROVE TableStep(h', h)
  <2>1. h.phase = "showdown"
    BY <1>7 DEF RevealNext
  <2>2. View(h') \in Table!Revealed(View(h))
    BY <1>1, <1>7, <2>1, RevealView DEF RevealNext
  <2> QED BY <2>1, <2>2 DEF TableStep
<1>8. ASSUME NEW s \in Seats, NEW cards \in SUBSET {1, 2}, ShowCards(s, cards)
      PROVE  TableStep(h', h)
  BY <1>1, <1>8, ShowCardsView DEF ShowCards, TableStep
<1>9. ASSUME Over PROVE TableStep(h', h)
  BY <1>9 DEF Over, vars, TableStep
<1> QED BY <1>2, <1>3, <1>4, <1>5, <1>6, <1>7, <1>8, <1>9 DEF Next

(***************************************************************************)
(* What the steps of a hand need to be steps of the table's: the hand is   *)
(* accounted for, its cards lie right and every seat came with chips.      *)
(***************************************************************************)
PhaseInv == AccountInv /\ ShowInv /\ Funded(h)

\* PhaseInv holds in every state of every hand.
LEMMA PhaseInvHolds == Spec => []PhaseInv
<1>1. Init => PhaseInv
  <2> SUFFICES ASSUME Init PROVE PhaseInv
    OBVIOUS
  <2>1. PICK stacks \in [Seats -> StartStacks] : h = NewHand(stacks)
    BY DEF Init
  <2>2. cfg \in Configs
    BY DEF Init
  <2>3. Accounted(h) /\ CardsRight(h) /\ Funded(h)
    BY <2>1, <2>2, NewHandKeeps, NewHandShows, NewHandView
  <2> QED BY <2>3, InitEstablishes DEF PhaseInv, AccountInv, ShowInv
<1>2. PhaseInv /\ [Next]_vars => PhaseInv'
  <2> SUFFICES ASSUME PhaseInv, [Next]_vars PROVE PhaseInv'
    OBVIOUS
  <2>1. ShowInv'
    BY ShowInvStep DEF PhaseInv
  <2>2. CASE Next
    <3>1. Accounted(h') /\ Trace(h', h)
      BY <2>2, NextKeeps DEF PhaseInv, AccountInv, Keeps
    <3>2. Funded(h')
      BY <3>1 DEF PhaseInv, Funded, Trace
    <3> QED BY <2>1, <3>1, <3>2 DEF PhaseInv, AccountInv, ShowInv
  <2>3. CASE UNCHANGED vars
    <3>1. Accounted(h') /\ Funded(h')
      BY <2>3 DEF PhaseInv, AccountInv, vars
    <3> QED BY <2>1, <3>1 DEF PhaseInv, AccountInv, ShowInv
  <2> QED BY <2>2, <2>3
<1> QED BY <1>1, <1>2, PTL DEF Spec

\* Every step of the engine is a step of the table's hand or none at all.
LEMMA ViewStep == PhaseInv /\ [Next]_vars => [Table!Next]_TableView
<1> SUFFICES ASSUME PhaseInv, [Next]_vars PROVE [Table!Next]_TableView
  OBVIOUS
<1>1. TableView = View(h)
  BY ViewIsTableView
<1>2. TableView' = View(h')
  BY DEF TableView, View, Picture, AllIn, AtShowdown, Live
<1>3. CASE Next
  <2>1. TableStep(h', h)
    BY <1>3, NextView DEF PhaseInv, ShowInv
  <2>2. View(h).phase = h.phase
    BY DEF View, Picture
  <2>3. CASE View(h') = View(h)
    BY <1>1, <1>2, <2>3
  <2>4. CASE View(h') # View(h)
    <3>1. \/ /\ TableView.phase = "betting"
             /\ TableView' \in Table!Applied(TableView) \cup Table!TimedOut(TableView)
          \/ \E s \in Seats : TableView' \in Table!Forfeited(TableView, s)
          \/ TableView.phase = "deal_pending" /\ TableView' \in Table!Advanced(TableView)
          \/ Table!CanRunItTwice(TableView) /\ TableView' = Table!RanTwice(TableView)
          \/ TableView.phase = "showdown" /\ TableView' \in Table!Revealed(TableView)
      BY <1>1, <1>2, <2>1, <2>2, <2>4 DEF TableStep
    <3> QED BY <3>1 DEF Table!Next
  <2> QED BY <2>3, <2>4
<1>4. CASE UNCHANGED vars
  <2>1. View(h') = View(h)
    BY <1>4 DEF vars
  <2> QED BY <1>1, <1>2, <2>1
<1> QED BY <1>3, <1>4

(***************************************************************************)
(* To its table the engine plays a hand of TableHand: whoever bets, leaves *)
(* or times out, whatever the cards, the amounts and the settings, a call  *)
(* leads to a state HandPhases foresees for it.  TableActor plays its      *)
(* hands with these steps.                                                 *)
(***************************************************************************)
THEOREM PhasesAreShown == Spec => ShowsItsPhases
<1>1. Init => Table!Init
  BY ViewStart
<1>2. []PhaseInv /\ [][Next]_vars => [][Table!Next]_TableView
  BY ViewStep, PTL
<1> QED BY <1>1, <1>2, PhaseInvHolds, PTL
        DEF Spec, ShowsItsPhases, Table!TableHandSpec

-----------------------------------------------------------------------------
(* The cards of a hand *)

\* A record that has what the cards of a hand are.
HasCards(g) == {"street", "deckPos", "runTwice", "strength"} \subseteq DOMAIN g

\* The street, the cards drawn, the boards and the strengths are as in g.
SameCards(c, g) ==
  /\ HasCards(c)
  /\ c.street = g.street /\ c.deckPos = g.deckPos
  /\ c.runTwice = g.runTwice /\ c.strength = g.strength

\* Steps that leave the cards alone join into one.
LEMMA SameCardsJoin ==
  ASSUME NEW c, NEW d, NEW g, SameCards(c, d), SameCards(d, g)
  PROVE  SameCards(c, g)
  BY DEF SameCards

\* The methods that only touch the players leave the cards alone.
LEMMA PlayersKeepCards ==
  ASSUME NEW g, HasCards(g)
  PROVE  /\ SameCards(g, g)
         /\ SameCards(Collect(g), g)
         /\ SameCards(RevealAll(g), g)
         /\ SameCards(ReturnUncalled(g), g)
         /\ \A s : SameCards(Fold(g, s), g) /\ SameCards(Acted(g, s), g)
         /\ \A s, n : SameCards(Commit(g, s, n), g)
         /\ \A pots : SameCards(Finish(g, pots), g)
         /\ SameCards(NewRound(g), g)
<1>1. SameCards(g, g)
  BY DEF SameCards, HasCards
<1>2. SameCards(Collect(g), g)
  BY DEF SameCards, HasCards, Collect
<1>3. SameCards(RevealAll(g), g)
  BY DEF SameCards, HasCards, RevealAll
<1>4. \A s : SameCards(Fold(g, s), g) /\ SameCards(Acted(g, s), g)
  BY DEF SameCards, HasCards, Fold, Acted
<1>5. \A s, n : SameCards(Commit(g, s, n), g)
  BY DEF SameCards, HasCards, Commit
<1>6. SameCards(ReturnUncalled(g), g)
  BY <1>1 DEF SameCards, HasCards, ReturnUncalled
<1>7. \A pots : SameCards(Finish(g, pots), g)
  BY DEF SameCards, HasCards, Finish
<1>8. SameCards(NewRound(g), g)
  BY DEF SameCards, HasCards, NewRound
<1> QED BY <1>1, <1>2, <1>3, <1>4, <1>5, <1>6, <1>7, <1>8

\* So does paying the pots.
LEMMA PayingKeepsCards ==
  ASSUME NEW g, HasCards(g)
  PROVE  SameCards(FinishUncontested(g), g) /\ SameCards(AwardPots(g), g)
<1>1. SameCards(FinishUncontested(g), g)
  <2> DEFINE r == ReturnUncalled(g)
             c == Collect(r)
             pots == PotsOf(c)
             w == CHOOSE s \in Seats : s \in Live(c)
             d == [c EXCEPT !.pl[w] = Prized(@, Total(AmountsOf(pots)))]
  <2>1. FinishUncontested(g) = Finish(d, pots)
    BY DEF FinishUncontested
  <2>2. SameCards(r, g)
    BY PlayersKeepCards
  <2> HIDE DEF r
  <2>3. SameCards(c, r)
    BY <2>2, PlayersKeepCards DEF SameCards
  <2> HIDE DEF c
  <2>4. SameCards(d, c)
    BY <2>3 DEF SameCards, HasCards
  <2> HIDE DEF d, pots
  <2>5. SameCards(Finish(d, pots), d)
    BY <2>4, PlayersKeepCards DEF SameCards
  <2> QED BY <2>1, <2>2, <2>3, <2>4, <2>5 DEF SameCards
<1>2. SameCards(AwardPots(g), g)
  <2> DEFINE pots == PotsOf(g)
             Won(s) == Prized(g.pl[s], Prize(g, pots, s))
             d == [g EXCEPT !.pl = [s \in Seats |->
                     IF s \in Live(g) /\ WinsAPot(g, pots, s) THEN Faced(Won(s))
                                                             ELSE Won(s)]]
  <2>1. AwardPots(g) = Finish(d, pots)
    BY DEF AwardPots
  <2> HIDE DEF pots
  <2>2. SameCards(d, g)
    BY DEF SameCards, HasCards
  <2> HIDE DEF d
  <2>3. SameCards(Finish(d, pots), d)
    BY <2>2, PlayersKeepCards DEF SameCards
  <2> QED BY <2>1, <2>2, <2>3, SameCardsJoin
<1> QED BY <1>1, <1>2

\* And the end of a street, which never deals.
LEMMA EndStreetKeepsCards ==
  ASSUME NEW g, HasCards(g)
  PROVE  SameCards(Showdown(g), g) /\ SameCards(EndStreet(g), g)
<1>1. ASSUME NEW x, HasCards(x) PROVE SameCards(Showdown(x), x)
  <2> DEFINE w == [x EXCEPT !.phase = "showdown", !.showIdx = 0, !.toAct = NoSeat]
  <2>1. Showdown(x) = w \/ Showdown(x) = AwardPots(x)
    BY DEF Showdown
  <2>2. SameCards(w, x)
    BY <1>1 DEF SameCards, HasCards
  <2> QED BY <1>1, <2>1, <2>2, PayingKeepsCards
<1>2. SameCards(EndStreet(g), g)
  <2> DEFINE r == ReturnUncalled(g)
             k == Collect(r)
             c == [k EXCEPT !.toAct = NoSeat]
             d == [c EXCEPT !.phase = "deal_pending"]
             e == [d EXCEPT !.runout = TRUE]
  <2>1. EndStreet(g) = IF c.street = River THEN Showdown(c)
                       ELSE IF Cardinality(Active(c)) < 2 THEN RevealAll(e) ELSE d
    BY DEF EndStreet
  <2>2. SameCards(r, g)
    BY PlayersKeepCards
  <2> HIDE DEF r
  <2>3. SameCards(k, r)
    BY <2>2, PlayersKeepCards DEF SameCards
  <2> HIDE DEF k
  <2>4. SameCards(c, k) /\ SameCards(d, k) /\ SameCards(e, k)
    BY <2>3 DEF SameCards, HasCards
  <2> HIDE DEF c, d, e
  <2>5. SameCards(Showdown(c), c)
    BY <1>1, <2>4 DEF SameCards
  <2>6. SameCards(RevealAll(e), e)
    BY <2>4, PlayersKeepCards DEF SameCards
  <2> QED BY <2>1, <2>2, <2>3, <2>4, <2>5, <2>6 DEF SameCards
<1> QED BY <1>1, <1>2

LEMMA SettleKeepsCards ==
  ASSUME NEW g, HasCards(g)
  PROVE  /\ \A start : SameCards(Settle(g, start), g)
         /\ \A s : SameCards(AfterForfeit(g, s), g)
<1>1. SameCards(FinishUncontested(g), g) /\ SameCards(EndStreet(g), g)
  BY PayingKeepsCards, EndStreetKeepsCards
<1>2. \A start : SameCards(Settle(g, start), g)
  <2> TAKE start
  <2> DEFINE c == [g EXCEPT !.toAct = NextActor(g, start)]
  <2>1. SameCards(c, g)
    BY DEF SameCards, HasCards
  <2> HIDE DEF c
  <2>2. \/ Settle(g, start) = FinishUncontested(g)
        \/ Settle(g, start) = EndStreet(g)
        \/ Settle(g, start) = c
    BY DEF Settle, c
  <2> QED BY <1>1, <2>1, <2>2
<1>3. \A s : SameCards(AfterForfeit(g, s), g)
  <2> TAKE s
  <2>1. \/ AfterForfeit(g, s) = FinishUncontested(g)
        \/ AfterForfeit(g, s) = EndStreet(g)
        \/ AfterForfeit(g, s) = Settle(g, s + 1)
        \/ AfterForfeit(g, s) = g
    BY DEF AfterForfeit
  <2>2. SameCards(g, g)
    BY PlayersKeepCards
  <2> QED BY <1>1, <1>2, <2>1, <2>2
<1> QED BY <1>2, <1>3

\* What a player does leaves the cards alone.
LEMMA PerformKeepsCards ==
  ASSUME NEW g, HasCards(g), NEW s, NEW a,
         a.kind \in {"fold", "check", "call", "bet", "raise"}
  PROVE  SameCards(Perform(g, s, a), g)
<1>1. \A amount, minTo : SameCards(WagerTo(g, s, amount, minTo), g)
  <2> TAKE amount, minTo
  <2> DEFINE k == Commit(g, s, amount - g.pl[s].bet)
             c == [k EXCEPT !.currentBet = amount, !.aggressor = s]
             d == [c EXCEPT !.lastRaiseSize = amount - g.currentBet,
                            !.lastFullBetLevel = amount]
  <2>1. WagerTo(g, s, amount, minTo) = d \/ WagerTo(g, s, amount, minTo) = c
    BY DEF WagerTo
  <2>2. SameCards(k, g)
    BY PlayersKeepCards
  <2> HIDE DEF k
  <2>3. SameCards(c, k) /\ SameCards(d, k)
    BY <2>2 DEF SameCards, HasCards
  <2> HIDE DEF c, d
  <2> QED BY <2>1, <2>2, <2>3, SameCardsJoin
<1>2. /\ SameCards(g, g) /\ SameCards(Fold(g, s), g)
      /\ SameCards(Commit(g, s, CallAmount(g, s)), g)
  BY PlayersKeepCards
<1>3. \/ Perform(g, s, a) = g
      \/ Perform(g, s, a) = Fold(g, s)
      \/ Perform(g, s, a) = Commit(g, s, CallAmount(g, s))
      \/ Perform(g, s, a) = WagerTo(g, s, a.amount, cfg.bb)
      \/ Perform(g, s, a) = WagerTo(g, s, a.amount, MinRaiseTo(g))
  BY DEF Perform
<1> QED BY <1>1, <1>2, <1>3

\* Cards are compared when the last street has been dealt.
ShownLast(g) == g.phase = "showdown" \/ Contested(g) => g.street = River

\* Hands that are neither shown nor compared.
LEMMA NothingShown ==
  ASSUME NEW g, g.phase \in {"betting", "deal_pending"}
  PROVE  ShownLast(g)
  BY DEF ShownLast, Contested

LEMMA UncontestedShownLast ==
  ASSUME NEW g \in Hand, Books(g), Cardinality(Live(g)) = 1
  PROVE  ShownLast(FinishUncontested(g))
<1> DEFINE f == FinishUncontested(g)
<1>1. Live(g) # {}
  BY LiveFacts
<1>2. f.phase = "result" /\ Live(f) \subseteq Live(g)
  BY <1>1, FinishUncontestedFacts, FinishUncontestedPays, TraceLive
<1> HIDE DEF f
<1>3. Cardinality(Live(f)) \in Nat /\ Cardinality(Live(f)) <= 1
  <2>1. IsFiniteSet(Live(g)) /\ Live(f) \in SUBSET Live(g)
    BY <1>2, LiveFacts
  <2>2. Cardinality(Live(f)) <= Cardinality(Live(g))
    BY <2>1, FS_Subset
  <2> QED BY <2>2, LiveFacts
<1>4. ShownLast(f)
  BY <1>2, <1>3 DEF ShownLast, Contested
<1> QED BY <1>4 DEF f

\* A street that ends before the last one is followed by another.
LEMMA EndStreetShownLast ==
  ASSUME NEW g \in Hand
  PROVE  ShownLast(EndStreet(g))
<1> DEFINE r == ReturnUncalled(g)
           k == Collect(r)
           c == [k EXCEPT !.toAct = NoSeat]
           d == [c EXCEPT !.phase = "deal_pending"]
           e == [d EXCEPT !.runout = TRUE]
<1>1. EndStreet(g) = IF c.street = River THEN Showdown(c)
                     ELSE IF Cardinality(Active(c)) < 2 THEN RevealAll(e) ELSE d
  BY DEF EndStreet
<1>2. r \in Hand
  BY ReturnUncalledFacts
<1> HIDE DEF r
<1>3. k \in Hand
  BY <1>2, CollectFacts
<1> HIDE DEF k
<1>4. HasCards(c)
  BY <1>3 DEF HasCards, Hand
<1>5. d.phase = "deal_pending" /\ RevealAll(e).phase = "deal_pending"
  BY <1>3 DEF Hand, RevealAll
<1> HIDE DEF c, d, e
<1>6. c.street = River => Showdown(c).street = River
  BY <1>4, EndStreetKeepsCards DEF SameCards
<1> QED BY <1>1, <1>5, <1>6, NothingShown DEF ShownLast

LEMMA SettleShownLast ==
  ASSUME NEW g \in Hand, Books(g), g.phase = "betting", NEW start
  PROVE  ShownLast(Settle(g, start))
<1> DEFINE c == [g EXCEPT !.toAct = NextActor(g, start)]
<1>1. c.phase = "betting"
  BY DEF Hand
<1>2. \/ Cardinality(Live(g)) = 1 /\ Settle(g, start) = FinishUncontested(g)
      \/ Settle(g, start) = EndStreet(g)
      \/ Settle(g, start) = c
  BY DEF Settle
<1> HIDE DEF c
<1> QED BY <1>1, <1>2, UncontestedShownLast, EndStreetShownLast, NothingShown

LEMMA AfterForfeitShownLast ==
  ASSUME NEW g \in Hand, Books(g), g.phase \in {"betting", "deal_pending"}, NEW s
  PROVE  ShownLast(AfterForfeit(g, s))
<1>1. \/ Cardinality(Live(g)) = 1 /\ AfterForfeit(g, s) = FinishUncontested(g)
      \/ AfterForfeit(g, s) = EndStreet(g)
      \/ g.phase = "betting" /\ AfterForfeit(g, s) = Settle(g, s + 1)
      \/ AfterForfeit(g, s) = g
  BY DEF AfterForfeit
<1> QED BY <1>1, UncontestedShownLast, EndStreetShownLast, SettleShownLast, NothingShown

\* Every call but the two that deal leaves the cards alone.
Undealing ==
  \/ \E s \in Seats, a \in Actions : Apply(s, a)
  \/ \E s \in Seats : Timeout(s) \/ Forfeit(s)
  \/ RevealNext
  \/ \E s \in Seats, cards \in SUBSET {1, 2} : ShowCards(s, cards)
  \/ Over

LEMMA UndealingKeepsCards ==
  IInv /\ ShownLast(h) /\ Undealing => SameCards(h', h) /\ ShownLast(h')
<1> SUFFICES ASSUME IInv, ShownLast(h), Undealing
             PROVE  SameCards(h', h) /\ ShownLast(h')
  OBVIOUS
<1>1. cfg \in HandConfig /\ Good(h) /\ h \in Hand
  BY IInvGivesGood DEF Good
<1>2. HasCards(h)
  BY <1>1 DEF Hand, HasCards
<1>3. ASSUME NEW s \in Seats, NEW a \in Actions, Apply(s, a)
      PROVE  SameCards(h', h) /\ ShownLast(h')
  <2> DEFINE b == Resolve(h, s, a)
             c == Perform(h, s, b)
             d == Acted(c, s)
  <2>1. /\ h.phase = "betting" /\ Legal(h, s, b)
        /\ h.toAct = s /\ h' = Settle(d, s + 1)
    BY <1>3 DEF Apply, OnTurn
  <2>2. Books(h) /\ Price(h) /\ Cardinality(Live(h)) >= 2 /\ s \in Active(h)
    BY <1>1, <2>1 DEF Good, Owing
  <2>3. Acting(c)
    BY <1>1, <2>1, <2>2, PerformFacts
  <2>4. b.kind \in {"fold", "check", "call", "bet", "raise"}
    BY <2>1 DEF Legal
  <2> HIDE DEF b
  <2>5. SameCards(c, h)
    BY <1>2, <2>4, PerformKeepsCards
  <2> HIDE DEF c
  <2>6. d \in Hand /\ Books(d) /\ d.phase = "betting"
    BY <2>3, ActedFacts DEF Acting, SameHand
  <2>7. SameCards(d, c)
    BY <2>5, PlayersKeepCards DEF SameCards
  <2> HIDE DEF d
  <2>8. SameCards(Settle(d, s + 1), d)
    BY <2>7, SettleKeepsCards DEF SameCards
  <2>9. ShownLast(Settle(d, s + 1))
    BY <2>6, SettleShownLast
  <2> QED BY <2>1, <2>5, <2>7, <2>8, <2>9 DEF SameCards
<1>4. ASSUME NEW s \in Seats, Timeout(s)
      PROVE  SameCards(h', h) /\ ShownLast(h')
  <2> DEFINE c == IF h.pl[s].bet = h.currentBet THEN h ELSE Fold(h, s)
             d == Acted(c, s)
  <2>1. h.phase = "betting" /\ h' = Settle(d, s + 1)
    BY <1>4 DEF Timeout, OnTurn
  <2>2. Books(h) /\ Price(h) /\ Cardinality(Live(h)) >= 2
    BY <1>1, <2>1 DEF Good
  <2>3. Acting(h) /\ Acting(Fold(h, s))
    BY <1>1, <2>1, <2>2, FoldFacts DEF Acting, SameTable
  <2>4. SameCards(h, h) /\ SameCards(Fold(h, s), h)
    BY <1>2, PlayersKeepCards
  <2>5. Acting(c) /\ SameCards(c, h)
    BY <2>3, <2>4
  <2> HIDE DEF c
  <2>6. d \in Hand /\ Books(d) /\ d.phase = "betting"
    BY <2>5, ActedFacts DEF Acting, SameHand
  <2>7. SameCards(d, c)
    BY <2>5, PlayersKeepCards DEF SameCards
  <2> HIDE DEF d
  <2>8. SameCards(Settle(d, s + 1), d)
    BY <2>7, SettleKeepsCards DEF SameCards
  <2>9. ShownLast(Settle(d, s + 1))
    BY <2>6, SettleShownLast
  <2> QED BY <2>1, <2>5, <2>7, <2>8, <2>9 DEF SameCards
<1>5. ASSUME NEW s \in Seats, Forfeit(s)
      PROVE  SameCards(h', h) /\ ShownLast(h')
  <2> DEFINE c == Fold(h, s)
  <2>1. h.phase \in {"betting", "deal_pending"} /\ h' = AfterForfeit(c, s)
    BY <1>5 DEF Forfeit
  <2>2. Books(h)
    BY <1>1, <2>1 DEF Good
  <2>3. c \in Hand /\ Books(c) /\ c.phase = h.phase
    BY <1>1, <2>2, FoldFacts DEF SameTable
  <2>4. SameCards(c, h)
    BY <1>2, PlayersKeepCards
  <2> HIDE DEF c
  <2>5. SameCards(AfterForfeit(c, s), c)
    BY <2>4, SettleKeepsCards DEF SameCards
  <2>6. ShownLast(AfterForfeit(c, s))
    BY <2>1, <2>3, AfterForfeitShownLast
  <2> QED BY <2>1, <2>4, <2>5, <2>6, SameCardsJoin
<1>6. ASSUME RevealNext PROVE SameCards(h', h) /\ ShownLast(h')
  <2> DEFINE s == OnShow(h)
             p == IF h.pl[s].revealed THEN h.pl[s]
                  ELSE IF MustShow(h, s) THEN Faced(h.pl[s])
                  ELSE [h.pl[s] EXCEPT !.mucked = TRUE]
             r == [h EXCEPT !.showIdx = h.showIdx + 1, !.pl[s] = p]
  <2>1. h.phase = "showdown" /\ (h' = AwardPots(r) \/ h' = r)
    BY <1>6 DEF RevealNext
  <2> HIDE DEF p, s
  <2>2. SameCards(r, h)
    BY <1>2 DEF SameCards, HasCards
  <2> HIDE DEF r
  <2>3. SameCards(AwardPots(r), r)
    BY <2>2, PayingKeepsCards DEF SameCards
  <2>4. SameCards(h', h)
    BY <2>1, <2>2, <2>3, SameCardsJoin
  <2>5. h'.street = River
    BY <2>1, <2>4 DEF ShownLast, SameCards
  <2> QED BY <2>4, <2>5 DEF ShownLast
<1>7. ASSUME NEW s \in Seats, NEW cards \in SUBSET {1, 2}, ShowCards(s, cards)
      PROVE  SameCards(h', h) /\ ShownLast(h')
  <2> DEFINE q == Exposed(h.pl[s], cards)
             c == [h EXCEPT !.pl[s] = q]
  <2>1. h.phase = "result" /\ h' = c
    BY <1>7 DEF ShowCards
  <2>2. q.folded = h.pl[s].folded
    <3>1. h.pl[s] \in Player
      BY <1>1, HandFields
    <3> QED BY <3>1 DEF Exposed, Player
  <2> HIDE DEF q
  <2>3. /\ c.phase = h.phase
        /\ \A t \in Seats : c.pl[t] = IF t = s THEN q ELSE h.pl[t]
    BY <1>1 DEF Hand
  <2>4. SameCards(c, h)
    BY <1>2 DEF SameCards, HasCards
  <2> HIDE DEF c
  <2>5. Live(c) = Live(h)
    BY <2>2, <2>3, SameLive
  <2>6. ShownLast(c)
    BY <2>3, <2>4, <2>5 DEF ShownLast, Contested, SameCards
  <2> QED BY <2>1, <2>4, <2>6
<1>8. ASSUME Over PROVE SameCards(h', h) /\ ShownLast(h')
  <2>1. h' = h
    BY <1>8 DEF Over, vars
  <2>2. SameCards(h, h)
    BY <1>2, PlayersKeepCards
  <2> QED BY <2>1, <2>2
<1> QED BY <1>3, <1>4, <1>5, <1>6, <1>7, <1>8 DEF Undealing

-----------------------------------------------------------------------------
(* The deck and the boards *)

\* The cards of the deck by their place below the hole cards.
CardsAt(d, places) == {d.rest[i] : i \in places}
Stretch(d, k, n)   == {d.rest[k + j] : j \in 1 .. n}

\* What a deal is.
LEMMA DealFacts ==
  ASSUME NEW d \in Deals
  PROVE  /\ Cardinality(Seats) \in Nat /\ DeckSize \in Nat
         /\ 2 * Cardinality(Seats) + 5 <= DeckSize
         /\ DOMAIN d.rest = 1 .. DeckSize - 2 * Cardinality(Seats)
         /\ \A i, j \in DOMAIN d.rest : d.rest[i] = d.rest[j] => i = j
         /\ \A i \in DOMAIN d.rest : /\ d.rest[i] \in Deck
                                    /\ \A s \in Seats : d.rest[i] \notin HoleOf(d, s)
         /\ \A s \in Seats : HoleOf(d, s) \subseteq Deck
<1> DEFINE holes == UNION {HoleOf(d, t) : t \in Seats}
           size == DeckSize - 2 * Cardinality(Seats)
<1>1. /\ holes \subseteq Deck /\ d.rest \in Seq(Deck \ holes)
      /\ IsInjective(d.rest) /\ Len(d.rest) = size
  BY DealsAssumption
<1>2. Cardinality(Seats) \in Nat
  BY SeatsFacts, FS_CardinalityType
<1>3. \A s \in Seats : HoleOf(d, s) \subseteq holes
  OBVIOUS
<1> HIDE DEF holes, size
<1>4. DOMAIN d.rest = 1 .. size /\ \A i \in DOMAIN d.rest : d.rest[i] \in Deck \ holes
  BY <1>1
<1>5. \A i, j \in DOMAIN d.rest : d.rest[i] = d.rest[j] => i = j
  BY <1>1 DEF IsInjective
<1> QED BY <1>1, <1>2, <1>3, <1>4, <1>5, CardAssumption DEF size

\* Different things in n places are n things.
LEMMA AsManyAsPlaces ==
  ASSUME NEW n \in Nat, NEW S, NEW g \in [1 .. n -> S],
         \A i, j \in 1 .. n : g[i] = g[j] => i = j,
         \A x \in S : \E i \in 1 .. n : g[i] = x
  PROVE  IsFiniteSet(S) /\ Cardinality(S) = n
<1>1. IsFiniteSet(1 .. n) /\ Cardinality(1 .. n) = n
  BY FS_Interval
<1>2. g \in Bijection(1 .. n, S)
  BY DEF Bijection, Injection, IsInjective, Surjection
<1> QED BY <1>1, <1>2, FS_Bijection DEF ExistsBijection

\* Cards drawn in a row are as many as drawn, and none was drawn before.
LEMMA StretchFacts ==
  ASSUME NEW d \in Deals, NEW k \in Nat, NEW n \in Nat,
         k + n <= DeckSize - 2 * Cardinality(Seats)
  PROVE  /\ IsFiniteSet(Stretch(d, k, n)) /\ Cardinality(Stretch(d, k, n)) = n
         /\ Stretch(d, k, n) \cap CardsAt(d, 1 .. k) = {}
         /\ Stretch(d, k, n) \subseteq CardsAt(d, 1 .. k + n)
         /\ CardsAt(d, 1 .. k) \subseteq CardsAt(d, 1 .. k + n)
<1> DEFINE S == Stretch(d, k, n)
           row == [j \in 1 .. n |-> d.rest[k + j]]
<1>1. /\ DOMAIN d.rest = 1 .. DeckSize - 2 * Cardinality(Seats)
      /\ \A i, j \in DOMAIN d.rest : d.rest[i] = d.rest[j] => i = j
      /\ Cardinality(Seats) \in Nat /\ DeckSize \in Nat
  BY DealFacts
<1>2. \A i \in 1 .. k + n : i \in DOMAIN d.rest
  BY <1>1
<1>3. \A i \in 1 .. n : k + i \in 1 .. k + n
  OBVIOUS
<1>4. \A i, j \in 1 .. n : row[i] = row[j] => i = j
  <2> SUFFICES ASSUME NEW i \in 1 .. n, NEW j \in 1 .. n, row[i] = row[j]
               PROVE  i = j
    OBVIOUS
  <2>1. k + i = k + j
    BY <1>1, <1>2, <1>3
  <2> QED BY <2>1
<1>5. S = {row[i] : i \in 1 .. n}
  BY DEF Stretch
<1>6. IsFiniteSet(S) /\ Cardinality(S) = n
  <2>1. row \in [1 .. n -> S] /\ \A x \in S : \E i \in 1 .. n : row[i] = x
    BY <1>5
  <2> HIDE DEF row, S
  <2> QED BY <1>4, <2>1, AsManyAsPlaces
<1>7. S \cap CardsAt(d, 1 .. k) = {}
  <2> SUFFICES ASSUME NEW x \in S, x \in CardsAt(d, 1 .. k) PROVE FALSE
    OBVIOUS
  <2>1. PICK j \in 1 .. n : x = d.rest[k + j]
    BY DEF Stretch
  <2>2. PICK i \in 1 .. k : x = d.rest[i]
    BY DEF CardsAt
  <2>3. i \in 1 .. k + n
    OBVIOUS
  <2>4. i = k + j
    BY <1>1, <1>2, <1>3, <2>1, <2>2, <2>3
  <2> QED BY <2>4
<1>8. S \subseteq CardsAt(d, 1 .. k + n)
  BY <1>3 DEF Stretch, CardsAt
<1>9. CardsAt(d, 1 .. k) \subseteq CardsAt(d, 1 .. k + n)
  <2>1. \A i \in 1 .. k : i \in 1 .. k + n
    OBVIOUS
  <2> QED BY <2>1 DEF CardsAt
<1> QED BY <1>6, <1>7, <1>8, <1>9

\* Cards that are not on a board yet add up with those that are.
LEMMA BoardGrows ==
  ASSUME NEW b, IsFiniteSet(b), NEW more, IsFiniteSet(more), b \cap more = {}
  PROVE  /\ IsFiniteSet(b \cup more)
         /\ Cardinality(b \cup more) = Cardinality(b) + Cardinality(more)
<1>1. /\ IsFiniteSet(b \cup more)
      /\ Cardinality(b \cup more)
           = Cardinality(b) + Cardinality(more) - Cardinality(b \cap more)
  BY FS_Union
<1>2. Cardinality(b \cap more) = 0
  BY FS_EmptySet
<1>3. Cardinality(b) \in Nat /\ Cardinality(more) \in Nat
  BY FS_CardinalityType
<1> QED BY <1>1, <1>2, <1>3

\* The boards hold cards drawn so far, as many as the street says.  Run once
\* nothing else was drawn; run twice the boards share what lay when it was
\* decided, and the deck has enough for both.
Laid(d, street, pos, twice, b1, b2) ==
  /\ pos \in Nat /\ 2 * Cardinality(Seats) <= pos /\ pos <= DeckSize
  /\ b1 \cup b2 \subseteq CardsAt(d, 1 .. pos - 2 * Cardinality(Seats))
  /\ IsFiniteSet(b1) /\ IsFiniteSet(b2)
  /\ Cardinality(b1) = BoardCards(street)
  /\ ~twice => pos = 2 * Cardinality(Seats) + BoardCards(street)
  /\ twice => /\ Cardinality(b2) = BoardCards(street)
              /\ Cardinality(b1 \cap b2) \in {0, 3, 4}
              /\ pos + 2 * (5 - BoardCards(street)) <= DeckSize

\* The next street keeps it so.
LEMMA StreetIsLaid ==
  ASSUME NEW d \in Deals, NEW street \in 0 .. 2, NEW pos, NEW twice \in BOOLEAN,
         NEW b1, NEW b2, Laid(d, street, pos, twice, b1, b2)
  PROVE  LET k == pos - 2 * Cardinality(Seats)
             n == StreetCards(street + 1)
         IN  Laid(d, street + 1, pos + (IF twice THEN 2 ELSE 1) * n, twice,
                  b1 \cup Stretch(d, k, n),
                  IF twice THEN b2 \cup Stretch(d, k + n, n) ELSE b2)
<1> DEFINE C == 2 * Cardinality(Seats)
           k == pos - C
           n == StreetCards(street + 1)
           m == IF twice THEN 2 * n ELSE n
           D == Stretch(d, k, n)
           E == Stretch(d, k + n, n)
           c1 == b1 \cup D
           c2 == IF twice THEN b2 \cup E ELSE b2
<1>1. /\ C \in Nat /\ Cardinality(Seats) \in Nat
      /\ DeckSize \in Nat /\ C + 5 <= DeckSize
  BY DealFacts
<1>2. n \in Nat /\ BoardCards(street + 1) = BoardCards(street) + n
      /\ BoardCards(street) \in Nat /\ BoardCards(street) + n <= 5
  BY DEF StreetCards, BoardCards, Flop, Preflop
<1>0. C = 2 * Cardinality(Seats)
  OBVIOUS
<1> HIDE DEF C, n
<1>3. /\ pos \in Nat /\ C <= pos /\ pos <= DeckSize
      /\ b1 \cup b2 \subseteq CardsAt(d, 1 .. k)
      /\ IsFiniteSet(b1) /\ IsFiniteSet(b2)
      /\ Cardinality(b1) = BoardCards(street)
      /\ ~twice => pos = C + BoardCards(street)
      /\ twice => /\ Cardinality(b2) = BoardCards(street)
                  /\ Cardinality(b1 \cap b2) \in {0, 3, 4}
                  /\ pos + 2 * (5 - BoardCards(street)) <= DeckSize
  BY DEF Laid, C
<1>4. k \in Nat /\ k + m <= DeckSize - C /\ k + n <= DeckSize - C
      /\ (twice => k + n + n <= DeckSize - C) /\ k + n \in Nat /\ m \in Nat
  BY <1>1, <1>2, <1>3
<1> HIDE DEF k
<1>5. /\ IsFiniteSet(D) /\ Cardinality(D) = n
      /\ D \cap CardsAt(d, 1 .. k) = {}
      /\ D \subseteq CardsAt(d, 1 .. k + n)
      /\ CardsAt(d, 1 .. k) \subseteq CardsAt(d, 1 .. k + n)
  BY <1>2, <1>4, StretchFacts DEF C
<1>6. twice => /\ IsFiniteSet(E) /\ Cardinality(E) = n
               /\ E \cap CardsAt(d, 1 .. k + n) = {}
               /\ E \subseteq CardsAt(d, 1 .. k + n + n)
               /\ CardsAt(d, 1 .. k + n) \subseteq CardsAt(d, 1 .. k + n + n)
  BY <1>2, <1>4, StretchFacts DEF C
<1> HIDE DEF D, E
<1>7. /\ IsFiniteSet(c1) /\ Cardinality(c1) = BoardCards(street + 1)
  <2>1. b1 \cap D = {}
    BY <1>3, <1>5
  <2>2. IsFiniteSet(b1 \cup D)
        /\ Cardinality(b1 \cup D) = Cardinality(b1) + Cardinality(D)
    BY <1>3, <1>5, <2>1, BoardGrows
  <2> QED BY <1>2, <1>3, <1>5, <2>2
<1>8. CASE twice
  <2>1. c2 = b2 \cup E /\ m = n + n
    BY <1>2, <1>8
  <2>2. b2 \cap E = {} /\ c1 \cap c2 = b1 \cap b2
    BY <1>3, <1>5, <1>6, <1>8
  <2>3. IsFiniteSet(b2 \cup E)
        /\ Cardinality(b2 \cup E) = Cardinality(b2) + Cardinality(E)
    BY <1>3, <1>6, <1>8, <2>2, BoardGrows
  <2>4. c1 \cup c2 \subseteq CardsAt(d, 1 .. k + n + n)
    BY <1>3, <1>5, <1>6, <1>8
  <2>5. IsFiniteSet(c2) /\ Cardinality(c2) = BoardCards(street + 1)
    BY <1>2, <1>3, <1>6, <1>8, <2>1, <2>3
  <2>6. /\ k + n + n = pos + m - C /\ pos + m \in Nat /\ C <= pos + m /\ pos + m <= DeckSize
        /\ pos + m + 2 * (5 - BoardCards(street + 1)) <= DeckSize
    BY <1>1, <1>2, <1>3, <1>4, <1>8 DEF k
  <2>7. CardsAt(d, 1 .. k + n + n) = CardsAt(d, 1 .. pos + m - C)
    BY <2>6
  <2> HIDE DEF c1, c2, m
  <2>8. Cardinality(c1 \cap c2) \in {0, 3, 4}
    BY <1>3, <1>8, <2>2
  <2>9. Laid(d, street + 1, pos + m, twice, c1, c2)
    <3>1. pos + m \in Nat /\ 2 * Cardinality(Seats) <= pos + m /\ pos + m <= DeckSize
      BY <1>0, <2>6
    <3>2. c1 \cup c2 \subseteq CardsAt(d, 1 .. (pos + m) - 2 * Cardinality(Seats))
      <4>1. (pos + m) - 2 * Cardinality(Seats) = pos + m - C
        BY <1>0, <1>1, <1>3, <1>4
      <4> QED BY <2>4, <2>7, <4>1, Zenon
    <3>3. (pos + m) + 2 * (5 - BoardCards(street + 1)) <= DeckSize
      BY <2>6
    <3> QED BY <1>7, <1>8, <2>5, <2>8, <3>1, <3>2, <3>3 DEF Laid
  <2>10. m = (IF twice THEN 2 ELSE 1) * n
    BY <1>8 DEF m
  <2> QED BY <2>9, <2>10 DEF c1, c2, D, E, k, n, C
<1>9. CASE ~twice
  <2>1. c2 = b2 /\ m = n
    BY <1>9
  <2>2. c1 \cup c2 \subseteq CardsAt(d, 1 .. k + n)
    BY <1>3, <1>5, <2>1
  <2>3. /\ k + n = pos + m - C /\ pos + m \in Nat /\ C <= pos + m /\ pos + m <= DeckSize
        /\ pos + m = C + BoardCards(street + 1)
    BY <1>1, <1>2, <1>3, <1>4, <1>9 DEF k
  <2>4. CardsAt(d, 1 .. k + n) = CardsAt(d, 1 .. pos + m - C)
    BY <2>3
  <2>5. IsFiniteSet(c2)
    BY <1>3, <2>1
  <2> HIDE DEF c1, c2, m
  <2>6. Laid(d, street + 1, pos + m, twice, c1, c2)
    <3>1. pos + m \in Nat /\ 2 * Cardinality(Seats) <= pos + m /\ pos + m <= DeckSize
          /\ pos + m = 2 * Cardinality(Seats) + BoardCards(street + 1)
      BY <1>0, <2>3
    <3>2. c1 \cup c2 \subseteq CardsAt(d, 1 .. (pos + m) - 2 * Cardinality(Seats))
      <4>1. (pos + m) - 2 * Cardinality(Seats) = pos + m - C
        BY <1>0, <1>1, <1>3, <1>4
      <4> QED BY <2>2, <2>4, <4>1, Zenon
    <3> QED BY <1>7, <1>9, <2>5, <3>1, <3>2 DEF Laid
  <2>7. m = (IF twice THEN 2 ELSE 1) * n
    BY <1>2, <1>9 DEF m
  <2> QED BY <2>6, <2>7 DEF c1, c2, D, E, k, n, C
<1> QED BY <1>8, <1>9

-----------------------------------------------------------------------------
(* The hand with its cards *)

\* The river decides how strong the seats are, on each board there is.
Ranked5(g, d, b1, b2) ==
  g.street = River =>
    g.strength[1] = ValuesOf(d, b1) /\ (g.runTwice => g.strength[2] = ValuesOf(d, b2))

CardInv ==
  /\ PayInv /\ ShownLast(h) /\ deal \in Deals
  /\ Laid(deal, h.street, h.deckPos, h.runTwice, board1, board2)
  /\ Ranked5(h, deal, board1, board2)

\* A hand of five or more cards has a value, one of those of five of them.
LEMMA EvaluateFacts ==
  ASSUME NEW cards \in SUBSET Deck, IsFiniteSet(cards), Cardinality(cards) >= 5
  PROVE  /\ Evaluate(cards) \in Ranks
         /\ \E five \in Fives(cards) : Evaluate(cards) = Evaluated[five]
         /\ \A five \in Fives(cards) : /\ Evaluated[five] \in Nat
                                      /\ Evaluated[five] <= Evaluate(cards)
         /\ Fives(cards) \subseteq Fives(Deck)
<1> DEFINE F == Fives(cards)
           V == {Evaluated[five] : five \in F}
<1>1. F \subseteq Fives(Deck)
  BY DEF Fives, kSubset
<1>2. \A five \in F : Evaluated[five] \in Ranks
  BY <1>1, StrengthsAssumption
<1>3. \A five \in F : Evaluated[five] \in Nat
  <2> HIDE DEF F
  <2> QED BY <1>2, CardAssumption
<1>4. IsFiniteSet(F)
  <2>1. IsFiniteSet(SUBSET cards)
    BY FS_SUBSET
  <2>2. F \in SUBSET SUBSET cards
    BY DEF Fives, kSubset
  <2> QED BY <2>1, <2>2, FS_Subset
<1>5. F # {}
  <2> DEFINE all == Cardinality(cards)
  <2>0. PICK n \in Nat : n = 5
    OBVIOUS
  <2>1. PICK f : f \in Bijection(1 .. all, cards)
    BY FS_CardinalityType DEF ExistsBijection
  <2>2. f \in [1 .. all -> cards] /\ \A i, j \in 1 .. all : f[i] = f[j] => i = j
    BY <2>1 DEF Bijection, Injection, IsInjective
  <2>3. \A i \in 1 .. n : i \in 1 .. all
    BY <2>0, FS_CardinalityType
  <2> HIDE DEF all
  <2> DEFINE S == {f[i] : i \in 1 .. n}
             g == [i \in 1 .. n |-> f[i]]
  <2>4. Cardinality(S) = n
    <3>1. g \in [1 .. n -> S] /\ \A x \in S : \E i \in 1 .. n : g[i] = x
      OBVIOUS
    <3>2. \A i, j \in 1 .. n : g[i] = g[j] => i = j
      BY <2>2, <2>3
    <3> HIDE DEF S, g
    <3> QED BY <3>1, <3>2, AsManyAsPlaces
  <2>5. S \in SUBSET cards
    BY <2>2, <2>3
  <2> HIDE DEF S
  <2> QED BY <2>0, <2>4, <2>5 DEF Fives, kSubset
<1>6. V \subseteq Int /\ V # {} /\ IsFiniteSet(V)
  <2>1. V # {}
    BY <1>5
  <2>2. V \subseteq Int
    BY <1>3
  <2>3. IsFiniteSet(V)
    BY <1>4, ImageFinite
  <2> QED BY <2>1, <2>2, <2>3
<1>7. Max(V) \in V /\ \A y \in V : y <= Max(V)
  <2> HIDE DEF V
  <2> QED BY <1>6, MaxOfFinite
<1>8. Evaluate(cards) = Max(V)
  BY DEF Evaluate
<1> QED BY <1>1, <1>2, <1>3, <1>7, <1>8, CardAssumption

-----------------------------------------------------------------------------
(* Dealing *)

\* Cards of the deck are finitely many.
LEMMA DeckIsFinite == \A S \in SUBSET Deck : IsFiniteSet(S)
<1>1. IsFiniteSet(0 .. 51)
  <2>1. 0 \in Int /\ 51 \in Int
    OBVIOUS
  <2> QED BY <2>1, FS_Interval
<1>2. \A S \in SUBSET Deck : S \in SUBSET (0 .. 51)
  BY DeckAssumption
<1> QED BY <1>1, <1>2, FS_Subset

\* What was drawn are cards of the deck that nobody holds.
LEMMA DrawnFacts ==
  ASSUME NEW d \in Deals, NEW pos \in Nat, pos <= DeckSize,
         NEW on, on \subseteq CardsAt(d, 1 .. pos - 2 * Cardinality(Seats))
  PROVE  on \subseteq Deck /\ \A s \in Seats : HoleOf(d, s) \cap on = {}
<1>1. /\ Cardinality(Seats) \in Nat /\ DeckSize \in Nat
      /\ DOMAIN d.rest = 1 .. DeckSize - 2 * Cardinality(Seats)
      /\ \A i \in DOMAIN d.rest : /\ d.rest[i] \in Deck
                                  /\ \A s \in Seats : d.rest[i] \notin HoleOf(d, s)
  BY DealFacts
<1>2. \A i \in 1 .. pos - 2 * Cardinality(Seats) : i \in DOMAIN d.rest
  BY <1>1
<1>3. \A c \in on : \E i \in DOMAIN d.rest : c = d.rest[i]
  BY <1>2 DEF CardsAt
<1> QED BY <1>1, <1>3

\* On a full board every seat has a value.
LEMMA ValuesFacts ==
  ASSUME NEW d \in Deals, NEW on \in SUBSET Deck, Cardinality(on) = 5
  PROVE  /\ ValuesOf(d, on) \in Strengths
         /\ \A s \in Seats : /\ ValuesOf(d, on)[s] = Evaluate(HoleOf(d, s) \cup on)
                             /\ HoleOf(d, s) \cup on \in SUBSET Deck
                             /\ IsFiniteSet(HoleOf(d, s) \cup on)
                             /\ Cardinality(HoleOf(d, s) \cup on) >= 5
<1>1. ASSUME NEW s \in Seats
      PROVE  /\ HoleOf(d, s) \cup on \in SUBSET Deck
             /\ IsFiniteSet(HoleOf(d, s) \cup on)
             /\ Cardinality(HoleOf(d, s) \cup on) >= 5
             /\ Evaluate(HoleOf(d, s) \cup on) \in Ranks
  <2> DEFINE cards == HoleOf(d, s) \cup on
  <2>1. cards \in SUBSET Deck
    BY DealFacts
  <2>2. on \in SUBSET cards
    OBVIOUS
  <2> HIDE DEF cards
  <2>3. IsFiniteSet(cards)
    BY <2>1, DeckIsFinite
  <2>4. Cardinality(cards) \in Nat /\ 5 <= Cardinality(cards)
    BY <2>2, <2>3, FS_Subset, FS_CardinalityType
  <2>5. Evaluate(cards) \in Ranks
    BY <2>1, <2>3, <2>4, EvaluateFacts
  <2>6. Cardinality(cards) >= 5
    BY <2>4
  <2> QED BY <2>1, <2>3, <2>5, <2>6 DEF cards
<1>2. ValuesOf(d, on) \in [Seats -> Ranks]
  BY <1>1 DEF ValuesOf
<1> QED BY <1>1, <1>2, StrengthsAssumption DEF ValuesOf

\* The board of the next street gives the seats strengths they may have.
LEMMA StrengthOnBoard ==
  ASSUME deal \in Deals, NEW street \in 0 .. 2, NEW on \in SUBSET Deck,
         Cardinality(on) = BoardCards(street + 1)
  PROVE  IF street + 1 = River
         THEN StrengthOn(on) = ValuesOf(deal, on) /\ StrengthOn(on) \in Strengths
         ELSE StrengthOn(on) = NoStrength
<1>1. CASE street + 1 = River
  <2>1. Cardinality(on) = 5
    BY <1>1 DEF BoardCards, River, Preflop
  <2>2. ValuesOf(deal, on) \in Strengths
    BY <2>1, ValuesFacts
  <2> QED BY <1>1, <2>1, <2>2 DEF StrengthOn, Values
<1>2. CASE street + 1 # River
  <2>1. Cardinality(on) # 5
    BY <1>2 DEF BoardCards, River, Preflop
  <2> QED BY <1>2, <2>1 DEF StrengthOn
<1> QED BY <1>1, <1>2

\* The next street lies on the boards, and the hand goes on with it.
LEMMA AdvanceKeepsCards ==
  ASSUME IInv, NEW s1 \in [Seats -> Ranks], NEW s2 \in [Seats -> Ranks], Advance(s1, s2)
  PROVE  /\ h.street \in 0 .. 2
         /\ h'.street = h.street + 1 /\ h'.runTwice = h.runTwice
         /\ h'.deckPos = h.deckPos + (IF h.runTwice THEN 2 ELSE 1) * StreetCards(h.street + 1)
         /\ h'.strength[1] = s1 /\ h'.strength[2] = s2
         /\ ShownLast(h')
<1> DEFINE d == Dealing(h, s1, s2)
           r == NewRound(d)
<1>1. cfg \in HandConfig /\ Good(h) /\ h \in Hand
  BY IInvGivesGood DEF Good
<1>2. /\ h.phase = "deal_pending"
      /\ h' = IF ~h.runout THEN Settle(r, NextSeat(cfg.button))
              ELSE IF d.street = River THEN Showdown(d)
              ELSE d
  BY DEF Advance
<1>3. h.street < River /\ Books(h) /\ NothingInFront(h) /\ h.street \in 0 .. 2
  BY <1>1, <1>2, HandFields DEF Good, Streets, River
<1>4. /\ d \in Hand /\ d.pl = h.pl /\ d.phase = h.phase /\ d.street = h.street + 1
  BY <1>1, <1>3, DealingFacts
<1>5. Books(d) /\ NothingInFront(d)
  BY <1>3, <1>4 DEF Books, NothingInFront
<1>6. /\ d.runTwice = h.runTwice
      /\ d.deckPos = h.deckPos + (IF h.runTwice THEN 2 ELSE 1) * StreetCards(h.street + 1)
      /\ d.strength[1] = s1 /\ d.strength[2] = s2
  BY <1>1 DEF Hand, Dealing
<1>7. HasCards(d)
  BY <1>4 DEF Hand, HasCards
<1> HIDE DEF d
<1>8. r \in Hand /\ Books(r) /\ r.phase = "betting"
  BY <1>1, <1>4, <1>5, NewRoundFacts
<1>9. SameCards(r, d) /\ SameCards(d, d)
  BY <1>7, PlayersKeepCards
<1> HIDE DEF r
<1>10. /\ SameCards(Settle(r, NextSeat(cfg.button)), r)
       /\ ShownLast(Settle(r, NextSeat(cfg.button)))
  BY <1>8, <1>9, SettleKeepsCards, SettleShownLast DEF SameCards
<1>11. SameCards(Showdown(d), d)
  BY <1>7, EndStreetKeepsCards
<1>12. SameCards(h', d)
  BY <1>2, <1>9, <1>10, <1>11, SameCardsJoin
<1>13. ShownLast(h')
  <2>1. d.street = River => ShownLast(Showdown(d))
    BY <1>11 DEF ShownLast, SameCards
  <2>2. ShownLast(d)
    BY <1>2, <1>4, NothingShown
  <2> QED BY <1>2, <1>10, <2>1, <2>2
<1> QED BY <1>3, <1>4, <1>6, <1>12, <1>13 DEF SameCards

-----------------------------------------------------------------------------
(* The cards through the hand *)

\* A new hand is settled with nothing drawn.
LEMMA NewHandDeals ==
  ASSUME NEW stacks
  PROVE  \E g, first : /\ NewHand(stacks) = Settle(g, first) /\ HasCards(g)
                       /\ g.street = Preflop /\ g.deckPos = 2 * Cardinality(Seats)
                       /\ g.runTwice = FALSE
<1> DEFINE pl       == Blinded(stacks)
           utg      == NextSeat(BBSeat)
           straddle == Straddles(pl)
           full     == straddle /\ pl[utg].stack >= cfg.straddle
           level    == IF full THEN cfg.straddle ELSE cfg.bb
           posted   == IF straddle THEN Min2(cfg.straddle, pl[utg].stack) ELSE 0
           first    == IF straddle THEN NextSeat(utg)
                       ELSE IF Cardinality(Seats) = 2 THEN cfg.button ELSE utg
           seated   == IF straddle
                       THEN [pl EXCEPT ![utg] = PostBlind(@, cfg.straddle)] ELSE pl
           price    == Max({level, posted})
           g == [pl |-> seated, phase |-> "betting", street |-> Preflop,
                 runout |-> FALSE, runTwice |-> FALSE, toAct |-> NoSeat,
                 currentBet |-> price, lastFullBetLevel |-> level,
                 lastRaiseSize |-> level, aggressor |-> NoSeat, showIdx |-> 0,
                 deckPos |-> 2 * Cardinality(Seats),
                 strength |-> [b \in {1, 2} |-> NoStrength],
                 finalPots |-> {}]
<1>1. NewHand(stacks) = Settle(g, first)
  BY DEF NewHand
<1> HIDE DEF seated, price, level, first
<1>2. /\ HasCards(g) /\ g.street = Preflop
      /\ g.deckPos = 2 * Cardinality(Seats) /\ g.runTwice = FALSE
  BY DEF HasCards
<1> QED BY <1>1, <1>2

\* A new hand has nothing on its board.
LEMMA CardStart == CardInit => CardInv
<1> SUFFICES ASSUME CardInit PROVE CardInv
  OBVIOUS
<1>1. PICK stacks \in [Seats -> StartStacks] : h = NewHand(stacks)
  BY DEF CardInit, Init
<1>2. cfg \in Configs /\ deal \in Deals /\ board1 = {} /\ board2 = {}
  BY DEF CardInit, Init
<1>3. PayInv
  BY PayStart DEF CardInit
<1>4. ShownLast(h)
  <2>1. PICK g, first : /\ first \in Int /\ Opening(g)
                        /\ NewHand(stacks) = Settle(g, first)
    BY <1>2, NewHandOpens
  <2>2. ShownLast(Settle(g, first))
    BY <2>1, SettleShownLast DEF Opening
  <2> QED BY <1>1, <2>1, <2>2
<1>5. h.street = Preflop /\ h.deckPos = 2 * Cardinality(Seats) /\ h.runTwice = FALSE
  <2>1. PICK g, first : /\ NewHand(stacks) = Settle(g, first) /\ HasCards(g)
                        /\ g.street = Preflop /\ g.deckPos = 2 * Cardinality(Seats)
                        /\ g.runTwice = FALSE
    BY NewHandDeals
  <2>2. SameCards(Settle(g, first), g)
    BY <2>1, SettleKeepsCards
  <2> QED BY <1>1, <2>1, <2>2 DEF SameCards
<1>6. Laid(deal, h.street, h.deckPos, h.runTwice, board1, board2)
  <2>1. /\ Cardinality(Seats) \in Nat /\ DeckSize \in Nat
        /\ 2 * Cardinality(Seats) + 5 <= DeckSize
    BY <1>2, DealFacts
  <2>2. IsFiniteSet({}) /\ Cardinality({}) = 0
    BY FS_EmptySet
  <2>3. BoardCards(Preflop) = 0
    BY DEF BoardCards
  <2>4. /\ h.deckPos \in Nat /\ 2 * Cardinality(Seats) <= h.deckPos
        /\ h.deckPos <= DeckSize /\ h.deckPos = 2 * Cardinality(Seats) + 0
    BY <1>5, <2>1
  <2> QED BY <1>2, <1>5, <2>2, <2>3, <2>4 DEF Laid
<1>7. Ranked5(h, deal, board1, board2)
  BY <1>5 DEF Ranked5, Preflop, River
<1> QED BY <1>2, <1>3, <1>4, <1>6, <1>7 DEF CardInv

\* A step that deals nothing leaves the boards as they were laid.
LEMMA UndealingStep ==
  CardInv /\ Undealing /\ UNCHANGED layout =>
    /\ Next
    /\ ShownLast(h') /\ deal' \in Deals
    /\ Laid(deal', h'.street, h'.deckPos, h'.runTwice, board1', board2')
    /\ Ranked5(h', deal', board1', board2')
<1> SUFFICES ASSUME CardInv, Undealing, UNCHANGED layout
             PROVE  /\ Next
                    /\ ShownLast(h') /\ deal' \in Deals
                    /\ Laid(deal', h'.street, h'.deckPos, h'.runTwice, board1', board2')
                    /\ Ranked5(h', deal', board1', board2')
  OBVIOUS
<1>1. Next
  BY DEF Undealing, Next
<1>2. SameCards(h', h) /\ ShownLast(h')
  BY UndealingKeepsCards DEF CardInv, PayInv, MatchInv
<1>3. deal' = deal /\ board1' = board1 /\ board2' = board2
  BY DEF layout
<1>4. /\ h'.street = h.street /\ h'.deckPos = h.deckPos
      /\ h'.runTwice = h.runTwice /\ h'.strength = h.strength
  BY <1>2 DEF SameCards
<1>5. Ranked5(h', deal, board1, board2)
  BY <1>4 DEF CardInv, Ranked5
<1> QED BY <1>1, <1>2, <1>3, <1>4, <1>5 DEF CardInv

\* The street that is dealt is a street with strengths the seats may have.
LEMMA DealStreetStep ==
  CardInv /\ h.phase = "deal_pending" /\ DealStreet /\ UNCHANGED deal =>
    /\ Next
    /\ ShownLast(h') /\ deal' \in Deals
    /\ Laid(deal', h'.street, h'.deckPos, h'.runTwice, board1', board2')
    /\ Ranked5(h', deal', board1', board2')
<1> SUFFICES ASSUME CardInv, h.phase = "deal_pending", DealStreet, UNCHANGED deal
             PROVE  /\ Next
                    /\ ShownLast(h') /\ deal' \in Deals
                    /\ Laid(deal', h'.street, h'.deckPos, h'.runTwice, board1', board2')
                    /\ Ranked5(h', deal', board1', board2')
  OBVIOUS
<1> DEFINE n == StreetCards(h.street + 1)
           k == h.deckPos - 2 * Cardinality(Seats)
           pos == h.deckPos + (IF h.runTwice THEN 2 ELSE 1) * n
<1>1. IInv /\ deal \in Deals /\ Good(h) /\ h \in Hand
      /\ Laid(deal, h.street, h.deckPos, h.runTwice, board1, board2)
  BY IInvGivesGood DEF CardInv, PayInv, MatchInv, Good
<1>2. h.street \in 0 .. 2 /\ h.deckPos \in Nat /\ h.runTwice \in BOOLEAN
      /\ Cardinality(Seats) \in Nat
  BY <1>1, HandFields, DealFacts DEF Good, Streets, River, Hand
<1>3. PICK c1, c2 : c1 = board1' /\ c2 = board2'
  OBVIOUS
<1>4. c1 = board1 \cup Stretch(deal, k, n)
  <2>1. Drawn(0, n) = Stretch(deal, k, n)
    BY <1>2 DEF Drawn, Stretch
  <2> QED BY <1>3, <2>1 DEF DealStreet
<1>5. c2 = IF h.runTwice THEN board2 \cup Stretch(deal, k + n, n) ELSE board2
  <2>1. n \in Nat
    BY DEF StreetCards
  <2>2. Drawn(n, n) = Stretch(deal, k + n, n)
    BY <1>2, <2>1 DEF Drawn, Stretch
  <2> QED BY <1>3, <2>2 DEF DealStreet
<1>6. Laid(deal, h.street + 1, pos, h.runTwice, c1, c2)
  BY <1>1, <1>2, <1>4, <1>5, StreetIsLaid
<1> HIDE DEF k
<1>7. /\ pos \in Nat /\ pos <= DeckSize
      /\ c1 \subseteq CardsAt(deal, 1 .. pos - 2 * Cardinality(Seats))
      /\ c2 \subseteq CardsAt(deal, 1 .. pos - 2 * Cardinality(Seats))
      /\ Cardinality(c1) = BoardCards(h.street + 1)
      /\ h.runTwice => Cardinality(c2) = BoardCards(h.street + 1)
  BY <1>6 DEF Laid
<1>8. c1 \in SUBSET Deck /\ c2 \in SUBSET Deck
  BY <1>1, <1>7, DrawnFacts
<1> DEFINE s1 == StrengthOn(c1)
           s2 == IF h.runTwice THEN StrengthOn(c2) ELSE NoStrength
<1>9. Advance(s1, s2)
  BY <1>3 DEF DealStreet
<1>10. /\ s1 \in DealtStrengths(1)
       /\ h.street + 1 = River => s1 = ValuesOf(deal, c1)
  BY <1>1, <1>2, <1>7, <1>8, StrengthOnBoard DEF DealtStrengths
<1>11. /\ s2 \in DealtStrengths(2)
       /\ h.street + 1 = River /\ h.runTwice => s2 = ValuesOf(deal, c2)
  BY <1>1, <1>2, <1>7, <1>8, StrengthOnBoard DEF DealtStrengths
<1> HIDE DEF s1, s2, pos
<1>12. Next
  BY <1>9, <1>10, <1>11 DEF Next
<1>13. s1 \in [Seats -> Ranks] /\ s2 \in [Seats -> Ranks]
  BY <1>10, <1>11, DealtStrengthsType
<1>14. /\ h'.street = h.street + 1 /\ h'.runTwice = h.runTwice
       /\ h'.deckPos = pos
       /\ h'.strength[1] = s1 /\ h'.strength[2] = s2
       /\ ShownLast(h')
  BY <1>1, <1>9, <1>13, AdvanceKeepsCards DEF pos
<1>15. Ranked5(h', deal, c1, c2)
  BY <1>10, <1>11, <1>14 DEF Ranked5
<1>16. Laid(deal, h'.street, h'.deckPos, h'.runTwice, c1, c2)
  BY <1>6, <1>14
<1> QED BY <1>1, <1>3, <1>12, <1>14, <1>15, <1>16

\* Run twice the boards part where they are.
LEMMA RunTwoBoardsStep ==
  CardInv /\ RunTwoBoards =>
    /\ Next
    /\ ShownLast(h') /\ deal' \in Deals
    /\ Laid(deal', h'.street, h'.deckPos, h'.runTwice, board1', board2')
    /\ Ranked5(h', deal', board1', board2')
<1> SUFFICES ASSUME CardInv, RunTwoBoards
             PROVE  /\ Next
                    /\ ShownLast(h') /\ deal' \in Deals
                    /\ Laid(deal', h'.street, h'.deckPos, h'.runTwice, board1', board2')
                    /\ Ranked5(h', deal', board1', board2')
  OBVIOUS
<1>1. h \in Hand /\ deal \in Deals
      /\ Laid(deal, h.street, h.deckPos, h.runTwice, board1, board2)
  BY IInvGivesGood DEF CardInv, PayInv, MatchInv, Good
<1>2. RunItTwice /\ deal' = deal /\ board1' = board1 /\ board2' = board1
  BY DEF RunTwoBoards
<1>3. /\ h.phase = "deal_pending" /\ Missing(h) > 0
      /\ h.deckPos + 2 * Missing(h) <= DeckSize
      /\ h' = [h EXCEPT !.runTwice = TRUE]
  BY <1>2 DEF RunItTwice, CanRunItTwice
<1>4. /\ h'.street = h.street /\ h'.deckPos = h.deckPos /\ h'.runTwice = TRUE
      /\ h'.phase = "deal_pending"
  BY <1>1, <1>3 DEF Hand
<1>5. h.street \in 0 .. 3 /\ BoardCards(h.street) \in {0, 3, 4}
      /\ h.street # River /\ Missing(h) = 5 - BoardCards(h.street)
  BY <1>1, <1>3, HandFields DEF Streets, Missing, BoardCards, Preflop, River
<1>6. Laid(deal, h.street, h.deckPos, TRUE, board1, board1)
  BY <1>1, <1>3, <1>5 DEF Laid
<1>7. Next
  BY <1>2 DEF Next
<1>8. ShownLast(h')
  BY <1>4, NothingShown
<1>9. Ranked5(h', deal, board1, board1)
  BY <1>4, <1>5 DEF Ranked5
<1> QED BY <1>1, <1>2, <1>4, <1>6, <1>7, <1>8, <1>9

\* CardInv is inductive, and a step of the hand with its cards is one of the
\* hand engine.
LEMMA CardStep == CardInv /\ [CardNext]_cardVars => CardInv' /\ [Next]_vars
<1> SUFFICES ASSUME CardInv, [CardNext]_cardVars PROVE CardInv' /\ [Next]_vars
  OBVIOUS
<1>1. /\ [Next]_vars
      /\ ShownLast(h') /\ deal' \in Deals
      /\ Laid(deal', h'.street, h'.deckPos, h'.runTwice, board1', board2')
      /\ Ranked5(h', deal', board1', board2')
  <2>1. CASE Undealing /\ UNCHANGED layout
    BY <2>1, UndealingStep
  <2>2. CASE h.phase = "deal_pending" /\ DealStreet /\ UNCHANGED deal
    BY <2>2, DealStreetStep
  <2>3. CASE RunTwoBoards
    BY <2>3, RunTwoBoardsStep
  <2>4. CASE UNCHANGED cardVars
    BY <2>4 DEF cardVars, vars, CardInv
  <2> QED BY <2>1, <2>2, <2>3, <2>4 DEF CardNext, Undealing
<1>2. PayInv'
  BY <1>1, PayStep DEF CardInv
<1>3. /\ ShownLast(h)' <=> ShownLast(h')
      /\ Ranked5(h, deal, board1, board2)' <=> Ranked5(h', deal', board1', board2')
      /\ Laid(deal, h.street, h.deckPos, h.runTwice, board1, board2)'
           <=> Laid(deal', h'.street, h'.deckPos, h'.runTwice, board1', board2')
  BY DEF ShownLast, Contested, Live, Ranked5, Laid
<1> QED BY <1>1, <1>2, <1>3 DEF CardInv

\* CardInv holds in every state of every hand with its cards.
LEMMA CardInvHolds == CardSpec => []CardInv
  BY CardStart, CardStep, PTL DEF CardSpec

(***************************************************************************)
(* A hand played with its cards is a hand of the engine: the numbers of    *)
(* the evaluator are among the strengths that PokerHand leaves open, so    *)
(* what holds of every hand there holds of every deal.                     *)
(***************************************************************************)
THEOREM CardsArePlayed == CardSpec => Spec
<1>1. CardInit => Init
  BY DEF CardInit
<1> QED BY <1>1, CardStart, CardStep, PTL DEF CardSpec, Spec

(***************************************************************************)
(* BoardsAreApart in every hand: the street on the board, no card of it in *)
(* anybody's hand, and the two boards of a hand run twice share no card    *)
(* dealt after it was decided (hand.go: draw, RunItTwice, Advance).        *)
(***************************************************************************)
THEOREM TheBoardsAreApart == CardSpec => []BoardsAreApart
<1>1. CardInv => BoardsAreApart
  <2> SUFFICES ASSUME CardInv PROVE BoardsAreApart
    OBVIOUS
  <2>1. deal \in Deals /\ Laid(deal, h.street, h.deckPos, h.runTwice, board1, board2)
    BY DEF CardInv
  <2>2. /\ h.deckPos \in Nat /\ h.deckPos <= DeckSize
        /\ board1 \cup board2 \subseteq CardsAt(deal, 1 .. h.deckPos - 2 * Cardinality(Seats))
        /\ Cardinality(board1) = BoardCards(h.street)
        /\ h.runTwice => /\ Cardinality(board2) = BoardCards(h.street)
                         /\ Cardinality(board1 \cap board2) \in {0, 3, 4}
    BY <2>1 DEF Laid
  <2>3. \A s \in Seats : HoleOf(deal, s) \cap (board1 \cup board2) = {}
    BY <2>1, <2>2, DrawnFacts
  <2> QED BY <2>2, <2>3 DEF BoardsAreApart, DeckSuffices, Hole
<1> QED BY <1>1, CardInvHolds, PTL

\* When the numbers of the evaluator order the hands of five by the rules, the
\* stronger of two hands of seven has the higher value.
LEMMA StrongerIsWorthMore ==
  ASSUME OrderedByTheRules,
         NEW a \in SUBSET Deck, IsFiniteSet(a), Cardinality(a) >= 5,
         NEW b \in SUBSET Deck, IsFiniteSet(b), Cardinality(b) >= 5,
         Stronger(a, b)
  PROVE  Evaluate(b) < Evaluate(a)
<1>1. PICK x \in Fives(a) : \A y \in Fives(b) : Beats(Shape(x), Shape(y))
  BY DEF Stronger
<1>2. /\ Evaluated[x] \in Nat /\ Evaluated[x] <= Evaluate(a)
      /\ Evaluate(a) \in Ranks /\ x \in Fives(Deck)
  BY <1>1, EvaluateFacts
<1>3. PICK y \in Fives(b) : Evaluate(b) = Evaluated[y]
  BY EvaluateFacts
<1>4. Evaluated[y] \in Nat /\ y \in Fives(Deck)
  BY <1>3, EvaluateFacts
<1>5. Evaluated[x] > Evaluated[y]
  <2> DEFINE Value(five) == <<Shape(five), Evaluated[five]>>
             values == {Value(five) : five \in Fives(Deck)}
  <2>1. \A v \in values, w \in values : v[2] > w[2] <=> Beats(v[1], w[1])
    BY DEF OrderedByTheRules
  <2>2. Value(x) \in values /\ Value(y) \in values
    BY <1>2, <1>4
  <2>3. /\ Value(x)[1] = Shape(x) /\ Value(x)[2] = Evaluated[x]
        /\ Value(y)[1] = Shape(y) /\ Value(y)[2] = Evaluated[y]
    OBVIOUS
  <2> HIDE DEF values, Value
  <2>4. Value(x)[2] > Value(y)[2] <=> Beats(Value(x)[1], Value(y)[1])
    BY <2>1, <2>2
  <2> QED BY <1>1, <2>3, <2>4
<1>6. Evaluate(a) \in Nat
  BY <1>2, CardAssumption
<1> QED BY <1>2, <1>3, <1>4, <1>5, <1>6

(***************************************************************************)
(* ShowdownByTheRules in every hand, for an evaluator that orders all      *)
(* hands of five by the rules: a seat whose cards are beaten on every      *)
(* board by a seat that paid as much wins nothing, whatever was folded,    *)
(* all-in, run twice or paid in side pots (docs/rules.md 7.8).             *)
(***************************************************************************)
THEOREM TheShowdownIsByTheRules ==
  CardSpec => [](OrderedByTheRules => ShowdownByTheRules)
<1>1. CardInv => (OrderedByTheRules => ShowdownByTheRules)
  <2> SUFFICES ASSUME CardInv, OrderedByTheRules, AtShowdown,
                      NEW s \in Live(h), NEW t \in Live(h), Paid(t) >= Paid(s),
                      \A on \in BoardsDealt : Stronger(Hole(t) \cup on, Hole(s) \cup on)
               PROVE  h.pl[s].won = 0
    BY DEF ShowdownByTheRules
  <2>1. /\ deal \in Deals /\ ShownLast(h) /\ PaysRight(h) /\ h \in Hand
        /\ Laid(deal, h.street, h.deckPos, h.runTwice, board1, board2)
        /\ Ranked5(h, deal, board1, board2)
    BY IInvGivesGood DEF CardInv, PayInv, MatchInv, Good
  <2>2. Contested(h) /\ h.street = River
    BY <2>1 DEF AtShowdown, Contested, ShownLast
  <2>3. s \in Seats /\ t \in Seats
    BY <2>1, LiveFacts
  <2>4. \A on \in BoardsDealt :
          on \in SUBSET Deck /\ Cardinality(on) = 5
            => ValuesOf(deal, on)[s] < ValuesOf(deal, on)[t]
    <3> SUFFICES ASSUME NEW on \in BoardsDealt, on \in SUBSET Deck, Cardinality(on) = 5
                 PROVE  ValuesOf(deal, on)[s] < ValuesOf(deal, on)[t]
      OBVIOUS
    <3>1. Stronger(HoleOf(deal, t) \cup on, HoleOf(deal, s) \cup on)
      BY DEF Hole
    <3>2. \A u \in Seats : /\ ValuesOf(deal, on)[u] = Evaluate(HoleOf(deal, u) \cup on)
                           /\ HoleOf(deal, u) \cup on \in SUBSET Deck
                           /\ IsFiniteSet(HoleOf(deal, u) \cup on)
                           /\ Cardinality(HoleOf(deal, u) \cup on) >= 5
      BY <2>1, ValuesFacts
    <3>3. Evaluate(HoleOf(deal, s) \cup on) < Evaluate(HoleOf(deal, t) \cup on)
      BY <2>3, <3>1, <3>2, StrongerIsWorthMore
    <3> QED BY <2>3, <3>2, <3>3
  <2>5. /\ Cardinality(board1) = 5
        /\ h.runTwice => Cardinality(board2) = 5
        /\ board1 \in SUBSET Deck /\ board2 \in SUBSET Deck
    <3>1. /\ h.deckPos \in Nat /\ h.deckPos <= DeckSize
          /\ board1 \subseteq CardsAt(deal, 1 .. h.deckPos - 2 * Cardinality(Seats))
          /\ board2 \subseteq CardsAt(deal, 1 .. h.deckPos - 2 * Cardinality(Seats))
          /\ Cardinality(board1) = BoardCards(h.street)
          /\ h.runTwice => Cardinality(board2) = BoardCards(h.street)
      BY <2>1 DEF Laid
    <3>2. BoardCards(River) = 5
      BY DEF BoardCards, River, Preflop
    <3> QED BY <2>1, <2>2, <3>1, <3>2, DrawnFacts
  <2>6. \A b \in Boards(h) : h.strength[b][s] < h.strength[b][t]
    <3>0. board1 \in BoardsDealt /\ (h.runTwice => board2 \in BoardsDealt)
      BY DEF BoardsDealt
    <3>1. h.strength[1][s] < h.strength[1][t]
      <4>1. ValuesOf(deal, board1)[s] < ValuesOf(deal, board1)[t]
        BY <2>4, <2>5, <3>0
      <4> QED BY <2>1, <2>2, <4>1 DEF Ranked5
    <3>2. h.runTwice => h.strength[2][s] < h.strength[2][t]
      <4>1. h.runTwice => ValuesOf(deal, board2)[s] < ValuesOf(deal, board2)[t]
        BY <2>4, <2>5, <3>0
      <4> QED BY <2>1, <2>2, <4>1 DEF Ranked5
    <3> QED BY <3>1, <3>2 DEF Boards
  <2>7. PaidTo(h, s) <= PaidTo(h, t)
    BY DEF Paid, PaidTo
  <2> QED BY <2>1, <2>2, <2>6, <2>7 DEF PaysRight, BeatenWinsNothing
<1> QED BY <1>1, CardInvHolds, PTL

================================================================================
