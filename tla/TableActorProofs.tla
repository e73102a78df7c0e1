--------------------------- MODULE TableActorProofs ---------------------------
(***************************************************************************)
(* Proofs about the table actor, for any number of seats, any settings and *)
(* any mix of commands.  TableInv relates the hand, the players, what was  *)
(* put off, the vote and the timer; every function of the actor that plays *)
(* on, ends or clears a hand is shown to keep it, and every command and    *)
(* callback after it.                                                      *)
(***************************************************************************)
EXTENDS TableActor, FiniteSetTheorems, WellFoundedInduction, TLAPS

-----------------------------------------------------------------------------
(* The invariant *)

\* A vote that is open is about a hand that is not over.
VoteInHand(u) == u.votes # NoVote => ~HandDone(u)

\* Who may get a turn before the hand is over: nobody once the board is run
\* out, when an uncalled bet may come back to a seat that has sat out.
Turns(g) ==
  IF g.phase = "betting" \/ (g.phase = "deal_pending" /\ ~g.runout)
  THEN Active(g) ELSE {}

\* A hand the engine may come to.
HandSound(g) ==
  /\ g \in HandView
  /\ g.live \subseteq g.dealt
  /\ g.phase # "result" => Cardinality(g.live) >= 2
  /\ g.phase = "betting" => g.toAct \in Active(g)
  /\ g.phase = "deal_pending" => g.street < LastStreet
  /\ g.phase = "showdown" => g.toShow >= 1

\* What a status says of a player, and what an empty seat has left.
PlayerSound(p) ==
  /\ p.status = "active" => p.chips
  /\ p.status = "busted" => ~p.chips
  /\ p.status = "empty" => ~p.bank /\ ~p.inHand /\ ~p.leaving

Playable(p) == p.inHand /\ ~p.leaving /\ p.chips /\ p.status = "active"

\* A seat that was dealt in had chips and keeps its player.
HeldIn(p) == p.chips /\ p.status \in {"active", "sitting_out"}

\* Hand and players, until the hand is done.
HandHeld(u) ==
  HandInProgress(u) =>
    /\ HandSound(u.hand)
    /\ InHand(u) = u.hand.dealt
    /\ \A s \in u.hand.dealt : HeldIn(u.pl[s])
    /\ \A s \in Turns(u.hand) : Playable(u.pl[s])
    /\ u.sitOutPending \subseteq u.hand.dealt

\* What was put off.
PutOff(u) ==
  /\ \A s \in Seats : u.pl[s].leaving => HandInProgress(u) /\ u.pl[s].inHand
  /\ BetweenHands(u) /\ u.state # "ended" =>
       u.sitOutPending = {} /\ u.pendingChips = {}
  /\ u.endAfterHand => u.hand # NoHand \/ u.state = "ended"

\* Nobody is in a hand that is not there, and an ended table has none.
NoHandLeft(u) ==
  /\ u.hand = NoHand => InHand(u) = {}
  /\ u.state = "ended" => u.hand = NoHand

\* A vote is open in a run-out, and in its result when everybody else left.
\* It outlives a table that ends.
VotesFit(u) ==
  u.votes # NoVote =>
    /\ \E r \in u.bounds.settings : r.runItTwice
    /\ u.hand # NoHand =>
         /\ u.hand.phase \in {"deal_pending", "result"}
         /\ u.hand.phase = "deal_pending" => u.hand.runout

\* The timer of the phase, whatever happens, while the hand is not done.
TimerHeld(u) ==
  IF u.hand = NoHand THEN u.timer.kind \in {"none", "start"}
  ELSE /\ u.hand.phase = "betting" =>
            u.timer = [kind |-> "turn", seat |-> u.hand.toAct]
       /\ u.hand.phase = "deal_pending" =>
            \/ u.timer.kind = "deal"
            \/ u.timer.kind = "vote" /\ u.votes # NoVote
       /\ u.hand.phase = "showdown" => u.timer.kind = "reveal"

\* The timer of a result, which an answer to a vote may replace.
ResultTimed(u) == HandDone(u) => u.timer.kind \in {"result", "clear"}

\* The bank that runs is that of the player to act, who has it and used it.
BankRuns(u) ==
  Betting(u) /\ u.bankUsing =>
    u.pl[u.hand.toAct].bank /\ u.pl[u.hand.toAct].usedBank

Noted(u) ==
  u.state = "running" /\ u.hand = NoHand /\ Cardinality(Eligible(u)) >= 2
    => u.startPending

TableInv(u) ==
  /\ u \in Table /\ u.settings \in u.bounds.settings
  /\ \A s \in Seats : PlayerSound(u.pl[s])
  /\ HandHeld(u) /\ PutOff(u) /\ NoHandLeft(u) /\ VotesFit(u)
  /\ TimerHeld(u) /\ Noted(u)

-----------------------------------------------------------------------------
(* The hands the engine may come to *)

\* The hand goes on for the seats D, not before street st, and turns are for P.
Within(g, D, st, P) ==
  HandSound(g) /\ g.dealt = D /\ g.street >= st /\ Turns(g) \subseteq P

\* A table has finitely many seats.
LEMMA SeatsFinite ==
  \A S \in SUBSET Seats : /\ IsFiniteSet(S)
                          /\ Cardinality(S) \in 0 .. Cardinality(Seats)
<1> TAKE S \in SUBSET Seats
<1>1. IsFiniteSet(Seats)
  BY HandPhasesAssumption
<1>2. IsFiniteSet(S) /\ Cardinality(S) <= Cardinality(Seats)
  BY <1>1, FS_Subset
<1>3. Cardinality(S) \in Nat /\ Cardinality(Seats) \in Nat
  BY <1>1, <1>2, FS_CardinalityType
<1> QED BY <1>2, <1>3

\* One seat less is one less to count.
LEMMA SeatLess ==
  ASSUME NEW S \in SUBSET Seats, NEW s
  PROVE  /\ Cardinality(S \ {s}) \in Nat /\ Cardinality(S) \in Nat
         /\ Cardinality(S \ {s}) >= Cardinality(S) - 1
<1>1. IsFiniteSet(S)
  BY SeatsFinite
<1>2. Cardinality(S \ {s}) \in Nat /\ Cardinality(S) \in Nat
  BY <1>1, FS_Subset, FS_CardinalityType
<1>3. Cardinality(S \ {s}) = IF s \in S THEN Cardinality(S) - 1 ELSE Cardinality(S)
  BY <1>1, FS_RemoveElement
<1> QED BY <1>2, <1>3

\* At most one seat is no two.
LEMMA AtMostOne ==
  ASSUME NEW S, NEW s, S \subseteq {s}
  PROVE  Cardinality(S) < 2
<1>1. CASE S = {}
  BY <1>1, FS_EmptySet
<1>2. CASE S = {s}
  BY <1>2, FS_Singleton
<1> QED BY <1>1, <1>2

\* Chips that go back leave the hand as it was, but for a seat that was all-in.
LEMMA UncalledFacts ==
  ASSUME NEW g \in HandView, NEW u \in UncalledBack(g)
  PROVE  /\ u \in HandView
         /\ u.dealt = g.dealt /\ u.live = g.live /\ u.street = g.street
         /\ Cardinality(g.live) > 1 => u = g \/ Cardinality(Active(u)) < 2
<1>1. CASE u = g
  BY <1>1
<1>2. CASE /\ u \in {[g EXCEPT !.allIn = @ \ {s}] : s \in g.allIn}
           /\ ~(Cardinality(g.live) > 1 /\ Active(g) # {})
  <2>1. PICK s \in g.allIn : u = [g EXCEPT !.allIn = @ \ {s}]
    BY <1>2
  <2>2. /\ u \in HandView /\ u.allIn = g.allIn \ {s}
        /\ u.dealt = g.dealt /\ u.live = g.live /\ u.street = g.street
    BY <2>1 DEF HandView
  <2>3. ASSUME Cardinality(g.live) > 1 PROVE Cardinality(Active(u)) < 2
    <3>1. Active(u) \subseteq {s}
      BY <1>2, <2>2, <2>3 DEF Active
    <3> QED BY <3>1, AtMostOne
  <2> QED BY <2>2, <2>3
<1> QED BY <1>1, <1>2 DEF UncalledBack

\* A hand that is over is sound.
LEMMA UncontestedFacts ==
  ASSUME NEW g \in HandView, g.live \subseteq g.dealt, NEW P, NEW v \in Uncontested(g)
  PROVE  Within(v, g.dealt, g.street, P)
<1>1. PICK u \in UncalledBack(g) :
        v = [u EXCEPT !.phase = "result", !.toAct = NoSeat, !.broke = u.allIn \ u.live]
  BY DEF Uncontested
<1>2. u \in HandView /\ u.dealt = g.dealt /\ u.live = g.live /\ u.street = g.street
  BY UncalledFacts
<1>3. v \in HandView /\ v.phase = "result" /\ v.dealt = u.dealt /\ v.live = u.live
      /\ v.street = u.street
  BY <1>1, <1>2 DEF HandView, Phases
<1> QED BY <1>2, <1>3 DEF Within, HandSound, Turns, HandView

\* So is one that was paid out.
LEMMA AwardedFacts ==
  ASSUME NEW g \in HandView, g.live \subseteq g.dealt, NEW P, NEW v \in Awarded(g)
  PROVE  Within(v, g.dealt, g.street, P)
<1>1. PICK B \in SUBSET g.allIn :
        v = [g EXCEPT !.phase = "result", !.toAct = NoSeat, !.contested = TRUE, !.broke = B]
  BY DEF Awarded
<1>2. v \in HandView /\ v.phase = "result" /\ v.dealt = g.dealt /\ v.live = g.live
      /\ v.street = g.street
  BY <1>1 DEF HandView, Phases
<1> QED BY <1>2 DEF Within, HandSound, Turns, HandView

\* After a round the board goes on, and betting with it only for those who
\* could bet before.
LEMMA RoundOverFacts ==
  ASSUME NEW g \in HandView, g.live \subseteq g.dealt, Cardinality(g.live) >= 2,
         NEW P, Active(g) \subseteq P, NEW v \in RoundOver(g)
  PROVE  Within(v, g.dealt, g.street, P)
<1>1. PICK u \in UncalledBack(g) :
        v \in IF u.street = LastStreet THEN ToShowdown(u)
              ELSE {[u EXCEPT !.phase = "deal_pending", !.toAct = NoSeat,
                              !.runout = (Cardinality(Active(u)) < 2)]}
  BY DEF RoundOver
<1>2. /\ u \in HandView /\ u.dealt = g.dealt /\ u.live = g.live /\ u.street = g.street
      /\ u = g \/ Cardinality(Active(u)) < 2
  <2>1. Cardinality(g.live) > 1
    BY SeatsFinite DEF HandView
  <2> QED BY <2>1, UncalledFacts
<1>3. u.live \in SUBSET Seats /\ Cardinality(u.live) \in 0 .. Cardinality(Seats)
  BY <1>2, SeatsFinite DEF HandView
<1>4. CASE u.street = LastStreet
  <2>1. v = [u EXCEPT !.phase = "showdown", !.toAct = NoSeat, !.toShow = Cardinality(u.live)]
    BY <1>1, <1>4 DEF ToShowdown
  <2>2. v \in HandView /\ v.phase = "showdown" /\ v.dealt = u.dealt /\ v.live = u.live
        /\ v.street = u.street /\ v.toShow = Cardinality(u.live)
    BY <1>2, <1>3, <2>1 DEF HandView, Phases
  <2> QED BY <1>2, <1>3, <2>2 DEF Within, HandSound, Turns, HandView
<1>5. CASE u.street # LastStreet
  <2>1. PICK yes \in BOOLEAN : yes = (Cardinality(Active(u)) < 2)
    <3>1. (Cardinality(Active(u)) < 2) \in BOOLEAN
      OBVIOUS
    <3> QED BY <3>1, Zenon
  <2>2. v = [u EXCEPT !.phase = "deal_pending", !.toAct = NoSeat, !.runout = yes]
    BY <1>1, <1>5, <2>1
  <2>3. v \in HandView /\ v.phase = "deal_pending" /\ v.dealt = u.dealt /\ v.live = u.live
        /\ v.street = u.street /\ v.runout = yes /\ v.allIn = u.allIn
    BY <1>2, <2>2 DEF HandView, Phases
  <2>4. v.street < LastStreet
    BY <1>2, <1>5, <2>3, HandPhasesAssumption DEF HandView
  <2>5. Turns(v) \subseteq P
    <3>1. CASE yes
      BY <2>3, <3>1 DEF Turns
    <3>2. CASE ~yes
      BY <1>2, <2>1, <2>3, <3>2 DEF Turns, Active
    <3> QED BY <3>1, <3>2
  <2> QED BY <1>2, <2>3, <2>4, <2>5 DEF Within, HandSound, HandView
<1> QED BY <1>4, <1>5

\* Somebody acted or a round opened.
LEMMA SettledFacts ==
  ASSUME NEW g \in HandView, g.live \subseteq g.dealt, Cardinality(g.live) >= 1,
         NEW P, Active(g) \subseteq P, NEW s, NEW v \in Settled(g, s)
  PROVE  Within(v, g.dealt, g.street, P)
<1>1. Cardinality(g.live) \in Nat
  BY SeatLess DEF HandView
<1>2. CASE Cardinality(g.live) = 1
  BY <1>2, UncontestedFacts DEF Settled
<1>0. Cardinality(g.live) = 1 \/ Cardinality(g.live) >= 2
  BY <1>1
<1>3. CASE Cardinality(g.live) >= 2 /\ v \in RoundOver(g)
  BY <1>3, RoundOverFacts
<1>4. CASE /\ Cardinality(g.live) >= 2
           /\ v \in {[g EXCEPT !.phase = "betting", !.toAct = x] : x \in Active(g) \ {s}}
  <2>1. PICK x \in Active(g) : v = [g EXCEPT !.phase = "betting", !.toAct = x]
    BY <1>4
  <2>2. v \in HandView /\ v.phase = "betting" /\ v.toAct = x /\ v.dealt = g.dealt
        /\ v.live = g.live /\ v.allIn = g.allIn /\ v.street = g.street
    BY <2>1 DEF HandView, Phases, Active
  <2>3. Active(v) = Active(g) /\ Turns(v) = Active(v) /\ x \in Active(v)
    BY <2>2 DEF Active, Turns
  <2>4. Cardinality(v.live) >= 2
    BY <1>4, <2>2
  <2> QED BY <2>2, <2>3, <2>4 DEF Within, HandSound, HandView
<1> QED BY <1>0, <1>2, <1>3, <1>4 DEF Settled

\* The seat to act folds, stays, or stays with its last chips.
LEMMA AppliedFacts ==
  ASSUME NEW g, HandSound(g), g.phase = "betting", NEW P, Active(g) \subseteq P,
         NEW v \in Applied(g) \cup TimedOut(g)
  PROVE  Within(v, g.dealt, g.street, P)
<1> DEFINE s == g.toAct
           f == [g EXCEPT !.live = @ \ {s}]
           k == [g EXCEPT !.allIn = @ \cup {s}]
<1>1. g \in HandView /\ s \in Seats /\ g.live \subseteq g.dealt /\ g.live \in SUBSET Seats
      /\ g.phase # "result"
  BY DEF HandSound, Active, HandView
<1>2. Cardinality(g.live \ {s}) >= 1 /\ Cardinality(g.live) >= 1
  <2>1. Cardinality(g.live) >= 2
    BY <1>1 DEF HandSound
  <2>2. /\ Cardinality(g.live \ {s}) \in Nat /\ Cardinality(g.live) \in Nat
        /\ Cardinality(g.live \ {s}) >= Cardinality(g.live) - 1
    BY <1>1, SeatLess
  <2> QED BY <2>1, <2>2
<1>3. /\ f \in HandView /\ f.live = g.live \ {s} /\ f.allIn = g.allIn
      /\ f.dealt = g.dealt /\ f.street = g.street
  BY <1>1 DEF HandView
<1>4. /\ k \in HandView /\ k.live = g.live /\ k.allIn = g.allIn \cup {s}
      /\ k.dealt = g.dealt /\ k.street = g.street
  BY <1>1 DEF HandView
<1>5. Active(f) \subseteq P /\ Active(k) \subseteq P
  BY <1>3, <1>4 DEF Active
<1>6. v \in Settled(f, s) \cup Settled(g, s) \cup Settled(k, s)
  BY DEF Applied, TimedOut
<1> HIDE DEF f, k, s
<1>7. CASE v \in Settled(f, s)
  <2>1. Within(v, f.dealt, f.street, P)
    BY <1>1, <1>2, <1>3, <1>5, <1>7, SettledFacts
  <2> QED BY <1>3, <2>1
<1>8. CASE v \in Settled(g, s)
  BY <1>1, <1>2, <1>8, SettledFacts
<1>9. CASE v \in Settled(k, s)
  <2>1. Within(v, k.dealt, k.street, P)
    BY <1>1, <1>2, <1>4, <1>5, <1>9, SettledFacts
  <2> QED BY <1>4, <2>1
<1> QED BY <1>6, <1>7, <1>8, <1>9

\* A seat that leaves has no turn any more.
LEMMA ForfeitedFacts ==
  ASSUME NEW g, HandSound(g), NEW s \in Seats, NEW P, Turns(g) \ {s} \subseteq P,
         NEW v \in Forfeited(g, s)
  PROVE  Within(v, g.dealt, g.street, P)
<1> DEFINE f == [g EXCEPT !.live = @ \ {s}]
<1>1. g \in HandView /\ g.live \subseteq g.dealt /\ g.live \in SUBSET Seats /\ g.street \in Int
  BY DEF HandSound, HandView
<1>2. CASE s \notin g.live \/ g.phase \in {"showdown", "result"}
  <2>1. v = g
    BY <1>2 DEF Forfeited
  <2>2. s \notin Turns(g)
    BY <1>2 DEF Turns, Active
  <2> QED BY <1>1, <2>1, <2>2 DEF Within
<1>3. CASE s \in g.live /\ g.phase \in {"betting", "deal_pending"}
  <2>1. /\ f \in HandView /\ f.live = g.live \ {s} /\ f.allIn = g.allIn
        /\ f.dealt = g.dealt /\ f.street = g.street /\ f.phase = g.phase
        /\ f.toAct = g.toAct /\ f.runout = g.runout
    BY <1>1 DEF HandView
  <2>2. /\ Cardinality(f.live) \in Nat /\ Cardinality(f.live) >= 1
        /\ f.live \subseteq f.dealt /\ Turns(f) \subseteq P
    <3>1. Cardinality(g.live \ {s}) \in Nat /\ Cardinality(g.live \ {s}) >= 1
      <4>1. Cardinality(g.live) >= 2
        BY <1>3 DEF HandSound
      <4>2. /\ Cardinality(g.live \ {s}) \in Nat /\ Cardinality(g.live) \in Nat
            /\ Cardinality(g.live \ {s}) >= Cardinality(g.live) - 1
        BY <1>1, SeatLess
      <4> QED BY <4>1, <4>2
    <3>2. Turns(f) \subseteq P
      BY <2>1 DEF Turns, Active
    <3> QED BY <1>1, <2>1, <3>1, <3>2
  <2>3. CASE Cardinality(f.live) = 1
    <3>1. v \in Uncontested(f)
      BY <1>3, <2>3 DEF Forfeited
    <3> HIDE DEF f
    <3>2. Within(v, f.dealt, f.street, P)
      BY <2>1, <2>2, <3>1, UncontestedFacts
    <3> QED BY <2>1, <3>2
  <2>4. CASE Cardinality(f.live) # 1
    <3>1. /\ v \in Settled(f, s) \cup {f} \cup RoundOver(f)
          /\ g.phase = "deal_pending" => v = f
          /\ v = f => g.phase = "deal_pending" \/ g.toAct # s \/ v \in Settled(f, s)
      BY <1>3, <2>4 DEF Forfeited
    <3> HIDE DEF f
    <3>2. Cardinality(f.live) >= 2
      BY <2>2, <2>4
    <3>3. CASE v = f /\ (g.phase = "deal_pending" \/ g.toAct # s)
      <4>1. f.phase = "betting" => f.toAct \in Active(f)
        BY <2>1, <3>3 DEF HandSound, Active
      <4>2. f.phase = "deal_pending" => f.street < LastStreet
        BY <2>1 DEF HandSound
      <4>3. HandSound(f)
        BY <1>3, <2>1, <2>2, <3>2, <4>1, <4>2 DEF HandSound
      <4> QED BY <1>1, <2>1, <2>2, <3>3, <4>3 DEF Within
    <3>4. CASE g.phase = "betting" /\ v \in Settled(f, s) \cup RoundOver(f)
      <4>1. Active(f) \subseteq P
        BY <2>1, <2>2, <3>4 DEF Turns
      <4>2. Within(v, f.dealt, f.street, P)
        BY <2>1, <2>2, <3>2, <3>4, <4>1, SettledFacts, RoundOverFacts
      <4> QED BY <2>1, <4>2
    <3> QED BY <1>3, <3>1, <3>3, <3>4
  <2> QED BY <2>3, <2>4
<1>4. g.phase \in Phases
  BY <1>1 DEF HandView
<1> QED BY <1>2, <1>3, <1>4 DEF Phases

\* The next street, with bets for whoever could bet before.
LEMMA AdvancedFacts ==
  ASSUME NEW g, HandSound(g), g.phase = "deal_pending", NEW P, Turns(g) \subseteq P,
         NEW v \in Advanced(g)
  PROVE  Within(v, g.dealt, g.street, P)
<1> DEFINE d == [g EXCEPT !.street = @ + 1]
<1>1. /\ g \in HandView /\ g.live \subseteq g.dealt /\ g.live \in SUBSET Seats
      /\ g.street \in Int /\ g.street < LastStreet /\ Cardinality(g.live) >= 2
      /\ g.runout \in BOOLEAN /\ g.street \in 0 .. LastStreet
  BY DEF HandSound, HandView
<1>2. g.street + 1 \in 0 .. LastStreet /\ g.street + 1 >= g.street
  BY <1>1, HandPhasesAssumption
<1>3. /\ d \in HandView /\ d.live = g.live /\ d.allIn = g.allIn /\ d.dealt = g.dealt
      /\ d.street = g.street + 1 /\ d.runout = g.runout /\ d.phase = g.phase
  BY <1>1, <1>2 DEF HandView
<1>4. Cardinality(g.live) >= 1
  BY <1>1, SeatsFinite
<1>5. \A w : Within(w, d.dealt, d.street, P) => Within(w, g.dealt, g.street, P)
  <2> TAKE w
  <2> HAVE Within(w, d.dealt, d.street, P)
  <2>1. w.street \in Int /\ w.street >= g.street + 1
    BY <1>3 DEF Within, HandSound, HandView
  <2> QED BY <1>1, <1>3, <2>1 DEF Within
<1>6. CASE ~g.runout /\ v \in Settled(d, NoSeat)
  <2> HIDE DEF d
  <2>1. Active(d) \subseteq P
    BY <1>3, <1>6 DEF Turns, Active
  <2>2. Within(v, d.dealt, d.street, P)
    BY <1>1, <1>3, <1>4, <1>6, <2>1, SettledFacts
  <2> QED BY <1>5, <2>2
<1>7. CASE v \in Awarded(d)
  <2> HIDE DEF d
  <2>1. Within(v, d.dealt, d.street, P)
    BY <1>1, <1>3, <1>7, AwardedFacts
  <2> QED BY <1>5, <2>1
<1>8. CASE g.runout /\ d.street # LastStreet /\ v = d
  <2> HIDE DEF d
  <2>1. Turns(d) = {} /\ d.street < LastStreet
    <3>1. Turns(d) = {}
      BY <1>3, <1>8 DEF Turns
    <3>2. d.street < LastStreet
      BY <1>1, <1>2, <1>3, <1>8, HandPhasesAssumption
    <3> QED BY <3>1, <3>2
  <2>2. HandSound(d)
    BY <1>1, <1>3, <2>1 DEF HandSound
  <2>3. d.street >= d.street
    BY <1>1, <1>3
  <2>4. Within(d, d.dealt, d.street, P)
    BY <2>1, <2>2, <2>3 DEF Within
  <2> QED BY <1>5, <1>8, <2>4
<1> QED BY <1>6, <1>7, <1>8 DEF Advanced

\* One hand more is shown, and the last one pays the pots.
LEMMA RevealedFacts ==
  ASSUME NEW g, HandSound(g), g.phase = "showdown", NEW P, NEW v \in Revealed(g)
  PROVE  Within(v, g.dealt, g.street, P)
<1> DEFINE r == [g EXCEPT !.toShow = @ - 1]
<1>1. /\ g \in HandView /\ g.live \subseteq g.dealt /\ g.street \in Int
      /\ g.toShow \in 0 .. Cardinality(Seats) /\ g.toShow >= 1 /\ Cardinality(g.live) >= 2
  BY DEF HandSound, HandView
<1>2. g.toShow - 1 \in 0 .. Cardinality(Seats)
  BY <1>1, SeatsFinite
<1>3. /\ r \in HandView /\ r.live = g.live /\ r.dealt = g.dealt /\ r.street = g.street
      /\ r.toShow = g.toShow - 1 /\ r.phase = g.phase
  BY <1>1, <1>2 DEF HandView
<1>4. v \in Awarded(r) \/ (r.toShow # 0 /\ v = r)
  BY DEF Revealed
<1> HIDE DEF r
<1>5. CASE v \in Awarded(r)
  <2>1. Within(v, r.dealt, r.street, P)
    BY <1>1, <1>3, <1>5, AwardedFacts
  <2> QED BY <1>3, <2>1
<1>6. CASE r.toShow # 0 /\ v = r
  <2>1. r.toShow >= 1
    BY <1>1, <1>3, <1>6
  <2>2. Turns(r) = {} /\ r.street >= g.street
    BY <1>1, <1>3 DEF Turns
  <2>3. HandSound(r)
    BY <1>1, <1>3, <2>1 DEF HandSound
  <2> QED BY <1>3, <1>6, <2>2, <2>3 DEF Within
<1> QED BY <1>4, <1>5, <1>6

\* The deal is run twice.
LEMMA RanTwiceFacts ==
  ASSUME NEW g, HandSound(g), CanRunItTwice(g)
  PROVE  /\ Within(RanTwice(g), g.dealt, g.street, {})
         /\ RanTwice(g).phase = "deal_pending"
<1>1. PICK v : v = RanTwice(g)
  OBVIOUS
<1>2. g \in HandView /\ g.phase = "deal_pending" /\ g.runout = TRUE /\ g.street \in Int
  BY DEF HandSound, HandView, CanRunItTwice
<1>3. /\ v \in HandView /\ v.live = g.live /\ v.dealt = g.dealt /\ v.street = g.street
      /\ v.phase = g.phase /\ v.runout = g.runout
  BY <1>1, <1>2 DEF RanTwice, HandView
<1>4. Turns(v) = {} /\ v.street >= g.street
  BY <1>2, <1>3 DEF Turns
<1>5. HandSound(v)
  BY <1>2, <1>3 DEF HandSound
<1> QED BY <1>1, <1>2, <1>3, <1>4, <1>5 DEF Within

\* A hand is opened for the seats dealt in.
LEMMA OpenedFacts ==
  ASSUME NEW D \in SUBSET Seats, Cardinality(D) >= 2, NEW v \in Opened(D)
  PROVE  Within(v, D, 0, D)
<1>1. PICK A \in SUBSET D, no \in {FALSE} :
        v \in Settled([dealt |-> D, live |-> D, allIn |-> A, phase |-> "betting",
                       toAct |-> NoSeat, street |-> 0, runout |-> no,
                       twice |-> no, toShow |-> 0, contested |-> no,
                       broke |-> {}], NoSeat)
  BY DEF Opened
<1>2. PICK g : g = [dealt |-> D, live |-> D, allIn |-> A, phase |-> "betting",
                    toAct |-> NoSeat, street |-> 0, runout |-> no,
                    twice |-> no, toShow |-> 0, contested |-> no, broke |-> {}]
  OBVIOUS
<1>3. 0 \in 0 .. LastStreet /\ 0 \in 0 .. Cardinality(Seats) /\ Cardinality(D) >= 1
  BY SeatsFinite, SeatLess, HandPhasesAssumption
<1>4. g \in HandView /\ g.live = D /\ g.dealt = D /\ g.street = 0 /\ Active(g) \subseteq D
  BY <1>2, <1>3 DEF HandView, Phases, Active
<1>5. Within(v, g.dealt, g.street, D)
  BY <1>1, <1>2, <1>3, <1>4, SettledFacts
<1> QED BY <1>4, <1>5

-----------------------------------------------------------------------------
(* Turns that are played at once *)

\* Induction up to n, with the property given as the set of those that have it.
LEMMA UpTo ==
  ASSUME NEW n \in Nat, NEW M, 0 \in M, \A k \in 0 .. (n - 1) : k \in M => k + 1 \in M
  PROVE  0 .. n \subseteq M
<1> DEFINE R == {k \in 0 .. n : k \notin M}
           Less == OpToRel(<, Nat)
<1>1. SUFFICES ASSUME R # {} PROVE FALSE
  OBVIOUS
<1>2. R \subseteq Nat
  OBVIOUS
<1>3. PICK k \in R : \A j \in R : <<j, k>> \notin Less
  <2>1. IsWellFoundedOn(Less, Nat)
    BY NatLessThanWellFounded
  <2> HIDE DEF R, Less
  <2> QED BY <1>1, <1>2, <2>1, WFMin
<1>4. k \in 1 .. n /\ k - 1 \in 0 .. (n - 1) /\ k - 1 + 1 = k
  OBVIOUS
<1>5. <<k - 1, k>> \in Less
  BY <1>4 DEF OpToRel
<1>6. k - 1 \notin R
  BY <1>3, <1>5
<1> QED BY <1>4, <1>6

\* A turn that is played without asking.
AtOnce(u, g) == g.phase = "betting" /\ u.pl[g.toAct].pre

\* The hands of G played on stay within F when every such turn does, and end
\* with a turn for somebody who chose nothing.
LEMMA AutoPlayedFacts ==
  ASSUME NEW u, NEW G, NEW F, G \subseteq F,
         \A g \in F : AtOnce(u, g) => Applied(g) \subseteq F
  PROVE  \A g \in AutoPlayed(u, G) : g \in F /\ ~AtOnce(u, g)
<1> DEFINE N == Cardinality(Seats)
           Played(X) == UNION {IF g.phase = "betting" /\ u.pl[g.toAct].pre
                               THEN Applied(g) ELSE {g} : g \in X}
           Row(f, m) == [n \in 0 .. m |-> IF n = 0 THEN G ELSE Played(f[n - 1])]
           M == {m \in 0 .. N : \E f : f = Row(f, m)}
           after == CHOOSE f : f = Row(f, N)
           Good == {m \in 0 .. N : after[m] \subseteq F}
<1>1. N \in Nat
  BY SeatsFinite
<1>2. \A X : X \subseteq F => Played(X) \subseteq F
  BY DEF AtOnce
<1>3. AutoPlayed(u, G) = {g \in after[N] : ~AtOnce(u, g)}
  BY DEF AutoPlayed, AtOnce
<1> HIDE DEF Played
<1>4. 0 .. N \subseteq M
  <2>1. 0 \in M
    <3>1. PICK f : f = [n \in 0 .. 0 |-> G]
      OBVIOUS
    <3>2. f = Row(f, 0)
      BY <3>1
    <3> QED BY <1>1, <3>2
  <2>2. ASSUME NEW k \in 0 .. (N - 1), k \in M PROVE k + 1 \in M
    <3>1. PICK f : f = Row(f, k)
      BY <2>2
    <3>2. PICK e : e = [n \in 0 .. (k + 1) |-> IF n <= k THEN f[n] ELSE Played(f[k])]
      OBVIOUS
    <3>3. ASSUME NEW n \in 0 .. (k + 1)
          PROVE  e[n] = IF n = 0 THEN G ELSE Played(e[n - 1])
      <4>1. CASE n = 0
        BY <3>1, <3>2, <4>1
      <4>2. CASE n \in 1 .. k
        BY <3>1, <3>2, <4>2
      <4>3. CASE n = k + 1
        BY <3>1, <3>2, <4>3
      <4> QED BY <4>1, <4>2, <4>3
    <3>4. e = Row(e, k + 1)
      BY <3>2, <3>3
    <3> QED BY <1>1, <3>4
  <2> HIDE DEF M
  <2> QED BY <1>1, <2>1, <2>2, UpTo
<1>5. after = Row(after, N)
  <2>1. \E f : f = Row(f, N)
    BY <1>1, <1>4
  <2> HIDE DEF Row
  <2> QED BY <2>1
<1> HIDE DEF after
<1>6. 0 .. N \subseteq Good
  <2>1. 0 \in Good
    BY <1>1, <1>5
  <2>2. ASSUME NEW k \in 0 .. (N - 1), k \in Good PROVE k + 1 \in Good
    <3>1. after[k + 1] = Played(after[k])
      BY <1>1, <1>5
    <3> QED BY <1>1, <1>2, <2>2, <3>1
  <2> HIDE DEF Good
  <2> QED BY <1>1, <2>1, <2>2, UpTo
<1> QED BY <1>1, <1>3, <1>6

-----------------------------------------------------------------------------
(* Parts of a table that a function leaves alone *)

\* Nothing but the timer.
SameButTimer(v, u) ==
  /\ v.bounds = u.bounds /\ v.state = u.state /\ v.settings = u.settings
  /\ v.pl = u.pl /\ v.hand = u.hand /\ v.startPending = u.startPending
  /\ v.endAfterHand = u.endAfterHand /\ v.votes = u.votes
  /\ v.ritDecided = u.ritDecided /\ v.bankUsing = u.bankUsing
  /\ v.sitOutPending = u.sitOutPending /\ v.pendingChips = u.pendingChips
  /\ v.late = u.late

\* Nothing that is fixed before the hand or belongs to the table around it.
SameTable(v, u) ==
  v.bounds = u.bounds /\ v.state = u.state /\ v.settings = u.settings

\* The types of a table's parts.
LEMMA TableParts ==
  ASSUME NEW u \in Table
  PROVE  /\ u.bounds \in Instances /\ u.state \in States /\ u.settings \in TableSettings
         /\ u.pl \in [Seats -> Player] /\ u.hand \in HandView \cup {NoHand}
         /\ u.timer \in Timer /\ u.superseded \in Timer
         /\ u.startPending \in BOOLEAN /\ u.endAfterHand \in BOOLEAN
         /\ u.votes \in (SUBSET Seats) \cup {NoVote} /\ u.ritDecided \in BOOLEAN
         /\ u.bankUsing \in BOOLEAN /\ u.sitOutPending \in SUBSET Seats
         /\ u.pendingChips \in SUBSET Seats /\ u.late \in 0 .. MaxLate
  BY DEF Table

\* A hand is one of the engine's or none.
LEMMA HandKinds ==
  /\ NoHand \notin HandView /\ NoHand.phase = "none"
  /\ \A g \in HandView : g # NoHand /\ g.phase \in Phases /\ g.phase # "none"
<1>1. NoHand.phase = "none"
  BY DEF NoHand
<1>2. \A g \in HandView : g.phase \in Phases
  BY DEF HandView
<1> QED BY <1>1, <1>2 DEF Phases

\* No vote is no set of seats.
LEMMA VoteKinds == NoVote \notin SUBSET Seats /\ NoVote # {}
  BY HandPhasesAssumption DEF NoVote

\* Arming and cancelling change the timer and the callback on its way.
LEMMA ScheduleFacts ==
  ASSUME NEW u \in Table, NEW kind \in Kinds,
         kind = "turn" => u.hand \in HandView
  PROVE  LET v == Schedule(u, kind)
         IN  /\ v \in Table /\ SameButTimer(v, u) /\ v.timer.kind = kind
             /\ kind = "turn" => v.timer = [kind |-> "turn", seat |-> u.hand.toAct]
<1>1. PICK seat : seat = IF kind = "turn" THEN u.hand.toAct ELSE NoSeat
  OBVIOUS
<1>2. PICK old : old = Superseded(u)
  OBVIOUS
<1>3. PICK timer : timer = [kind |-> kind, seat |-> seat]
  OBVIOUS
<1>4. PICK v : v = [u EXCEPT !.superseded = old, !.timer = timer]
  OBVIOUS
<1>5. Schedule(u, kind) = v
  BY <1>1, <1>2, <1>3, <1>4 DEF Schedule
<1>6. seat \in Seats \cup {NoSeat} /\ timer \in Timer /\ old \in Timer
  <2>1. seat \in Seats \cup {NoSeat}
    BY <1>1 DEF HandView
  <2>2. old \in Timer
    BY <1>2, TableParts DEF Superseded
  <2> QED BY <1>3, <2>1, <2>2 DEF Timer
<1>7. v \in Table
  BY <1>4, <1>6 DEF Table
<1>8. SameButTimer(v, u) /\ v.timer = timer
  BY <1>4 DEF SameButTimer, Table
<1> QED BY <1>1, <1>3, <1>5, <1>7, <1>8

\* A cancelled timer leaves everything else as it was.
LEMMA CancelFacts ==
  ASSUME NEW u \in Table
  PROVE  /\ CancelTimer(u) \in Table /\ SameButTimer(CancelTimer(u), u)
         /\ CancelTimer(u).timer.kind = "none"
<1>1. PICK old : old = Superseded(u)
  OBVIOUS
<1>2. PICK v : v = [u EXCEPT !.superseded = old, !.timer = NoTimer]
  OBVIOUS
<1>3. old \in Timer /\ NoTimer \in Timer /\ NoTimer.kind = "none"
  BY <1>1, TableParts DEF Superseded, NoTimer, Timer, Kinds
<1>4. v \in Table /\ SameButTimer(v, u) /\ v.timer = NoTimer
  <2>1. v \in Table
    BY <1>2, <1>3 DEF Table
  <2> QED BY <1>2, <2>1 DEF SameButTimer, Table
<1> QED BY <1>1, <1>2, <1>3, <1>4 DEF CancelTimer

\* The players in the hand are told from their records.
LEMMA SamePlayers ==
  ASSUME NEW u, NEW v, v.pl = u.pl
  PROVE  /\ Seated(v) = Seated(u) /\ Eligible(v) = Eligible(u) /\ InHand(v) = InHand(u)
  BY DEF Seated, Eligible, InHand

-----------------------------------------------------------------------------
(* Players *)

\* The types of a player's parts.
LEMMA PlayerParts ==
  ASSUME NEW p \in Player
  PROVE  /\ p.status \in {"empty", "active", "sitting_out", "busted"}
         /\ p.chips \in BOOLEAN /\ p.inHand \in BOOLEAN /\ p.leaving \in BOOLEAN
         /\ p.missed \in 0 .. SitOutAfter /\ p.bank \in BOOLEAN
         /\ p.usedBank \in BOOLEAN /\ p.pre \in BOOLEAN /\ p.connected \in BOOLEAN
  BY DEF Player

\* A free seat and a new player.
LEMMA NewPlayers ==
  /\ Empty \in Player /\ PlayerSound(Empty)
  /\ Empty.status = "empty" /\ Empty.inHand = FALSE /\ Empty.leaving = FALSE
  /\ Empty.bank = FALSE /\ Empty.missed = 0
<1>1. 0 \in 0 .. SitOutAfter
  BY BoundsAssumption
<1>2. PICK e : e = Empty
  OBVIOUS
<1>3. /\ e.status = "empty" /\ e.inHand = FALSE /\ e.leaving = FALSE /\ e.bank = FALSE
      /\ e.missed = 0 /\ e \in Player
  BY <1>1, <1>2 DEF Empty, Player
<1> QED BY <1>2, <1>3 DEF PlayerSound

\* What finishHand does to a player who was dealt in.
LEMMA FinishedFacts ==
  ASSUME NEW u \in Table, u.hand \in HandView, NEW p \in Player, HeldIn(p), NEW s
  PROVE  LET q == Finished(u, p, s)
         IN  /\ q \in Player /\ PlayerSound(q) /\ q.leaving = p.leaving
             /\ q.inHand = p.inHand /\ q.status # "empty"
             /\ p.bank => q.bank
             /\ p.usedBank /\ q.bank => p.bank
             /\ q.missed \in {p.missed, 0}
<1>1. PICK chips \in BOOLEAN : chips = (s \notin u.hand.broke)
  <2>1. (s \notin u.hand.broke) \in BOOLEAN
    OBVIOUS
  <2> QED BY <2>1, Zenon
<1>2. PICK bank \in BOOLEAN :
        bank = (p.bank \/ (u.settings.bank /\ u.settings.refill /\ ~p.usedBank))
  <2>1. (p.bank \/ (u.settings.bank /\ u.settings.refill /\ ~p.usedBank)) \in BOOLEAN
    OBVIOUS
  <2> QED BY <2>1, Zenon
<1>3. PICK missed : missed = IF s \in u.sitOutPending THEN 0 ELSE p.missed
  OBVIOUS
<1>4. PICK status : status = IF p.status # "active" THEN p.status
                             ELSE IF ~chips THEN "busted"
                             ELSE IF s \in u.sitOutPending THEN "sitting_out" ELSE p.status
  OBVIOUS
<1>5. PICK q : q = [p EXCEPT !.chips = chips, !.pre = FALSE, !.usedBank = FALSE,
                             !.bank = bank, !.missed = missed, !.status = status]
  OBVIOUS
<1>6. Finished(u, p, s) = q
  BY <1>1, <1>2, <1>3, <1>4, <1>5 DEF Finished, Player
<1>7. /\ missed \in 0 .. SitOutAfter
      /\ status \in {"active", "sitting_out", "busted"}
      /\ status = "active" => chips
      /\ status = "busted" => ~chips
  BY <1>3, <1>4, BoundsAssumption, PlayerParts DEF HeldIn
<1>8. q \in Player
  <2>1. status \in {"empty", "active", "sitting_out", "busted"}
    BY <1>7
  <2> QED BY <1>5, <1>7, <2>1 DEF Player
<1>9. /\ q.chips = chips /\ q.status = status /\ q.bank = bank
      /\ q.leaving = p.leaving /\ q.inHand = p.inHand /\ q.missed = missed
  BY <1>5 DEF Player
<1>10. q.missed \in {p.missed, 0} /\ (p.usedBank /\ q.bank => p.bank)
  BY <1>2, <1>3, <1>9
<1> QED BY <1>2, <1>6, <1>7, <1>8, <1>9, <1>10 DEF PlayerSound

-----------------------------------------------------------------------------
(* Seats that become free, stacks that change *)

\* Everything but the players and what was put off.
SameCourse(v, u) ==
  /\ v.bounds = u.bounds /\ v.state = u.state /\ v.settings = u.settings
  /\ v.hand = u.hand /\ v.timer = u.timer /\ v.superseded = u.superseded
  /\ v.startPending = u.startPending /\ v.votes = u.votes
  /\ v.ritDecided = u.ritDecided /\ v.bankUsing = u.bankUsing /\ v.late = u.late

\* Freed seats are empty, and what was put off for them is forgotten.
LEMMA FreeSeatsFacts ==
  ASSUME NEW u \in Table, NEW S \in SUBSET Seats
  PROVE  LET v == FreeSeats(u, S)
         IN  /\ v \in Table /\ SameCourse(v, u)
             /\ v.pendingChips = u.pendingChips /\ v.endAfterHand = u.endAfterHand
             /\ v.sitOutPending = u.sitOutPending \ S
             /\ \A s \in Seats : v.pl[s] = IF s \in S THEN Empty ELSE u.pl[s]
<1>1. PICK pl : pl = [s \in Seats |-> IF s \in S THEN Empty ELSE u.pl[s]]
  OBVIOUS
<1>2. PICK v : v = [u EXCEPT !.pl = pl, !.sitOutPending = @ \ S]
  OBVIOUS
<1>3. pl \in [Seats -> Player]
  BY <1>1, NewPlayers DEF Table
<1>4. v \in Table /\ v.pl = pl
  BY <1>2, <1>3 DEF Table
<1>5. /\ SameCourse(v, u) /\ v.sitOutPending = u.sitOutPending \ S
      /\ v.pendingChips = u.pendingChips /\ v.endAfterHand = u.endAfterHand
  BY <1>2 DEF SameCourse, Table
<1> QED BY <1>1, <1>2, <1>4, <1>5 DEF FreeSeats

\* A stack that the host changes.
Adjusted(p, s, C) ==
  [p EXCEPT !.chips = (s \in C),
            !.status = IF @ = "active" /\ s \notin C THEN "busted"
                       ELSE IF @ = "busted" /\ s \in C THEN "active" ELSE @]

\* A player whose stack was adjusted is sound.
LEMMA AdjustedFacts ==
  ASSUME NEW p \in Player, PlayerSound(p), p.status # "empty", NEW s, NEW C
  PROVE  LET q == Adjusted(p, s, C)
         IN  /\ q \in Player /\ PlayerSound(q) /\ q.status # "empty"
             /\ q.leaving = p.leaving /\ q.inHand = p.inHand /\ q.bank = p.bank
             /\ q.missed = p.missed
<1>1. PICK chips \in BOOLEAN : chips = (s \in C)
  <2>1. (s \in C) \in BOOLEAN
    OBVIOUS
  <2> QED BY <2>1, Zenon
<1>2. PICK status : status = IF p.status = "active" /\ ~chips THEN "busted"
                             ELSE IF p.status = "busted" /\ chips THEN "active"
                             ELSE p.status
  OBVIOUS
<1>3. PICK q : q = [p EXCEPT !.chips = chips, !.status = status]
  OBVIOUS
<1>4. q = Adjusted(p, s, C)
  BY <1>1, <1>2, <1>3 DEF Adjusted, Player
<1>5. /\ status \in {"empty", "active", "sitting_out", "busted"} /\ status # "empty"
      /\ status = "active" => chips
      /\ status = "busted" => ~chips
  BY <1>2, PlayerParts DEF PlayerSound
<1>6. q \in Player
  BY <1>3, <1>5 DEF Player
<1>7. /\ q.chips = chips /\ q.status = status /\ q.bank = p.bank
      /\ q.leaving = p.leaving /\ q.inHand = p.inHand /\ q.missed = p.missed
  BY <1>3 DEF Player
<1> QED BY <1>4, <1>5, <1>6, <1>7 DEF PlayerSound

\* Adjusted stacks change who has chips, and the status with it.
LEMMA ApplyChipsFacts ==
  ASSUME NEW u \in Table, \A s \in Seats : PlayerSound(u.pl[s]),
         NEW S \in SUBSET Seated(u), NEW C
  PROVE  LET v == ApplyChips(u, S, C)
         IN  /\ v \in Table /\ SameCourse(v, u)
             /\ v.pendingChips = u.pendingChips /\ v.endAfterHand = u.endAfterHand
             /\ v.sitOutPending = u.sitOutPending
             /\ \A s \in Seats :
                  /\ PlayerSound(v.pl[s]) /\ v.pl[s].leaving = u.pl[s].leaving
                  /\ v.pl[s].inHand = u.pl[s].inHand /\ v.pl[s].bank = u.pl[s].bank
                  /\ v.pl[s].missed = u.pl[s].missed
<1> DEFINE To(s) == Adjusted(u.pl[s], s, C)
<1>1. PICK pl : pl = [s \in Seats |-> IF s \notin S THEN u.pl[s] ELSE To(s)]
  OBVIOUS
<1>2. PICK v : v = [u EXCEPT !.pl = pl]
  OBVIOUS
<1>3. ApplyChips(u, S, C) = v
  BY <1>1, <1>2 DEF ApplyChips, Adjusted
<1>4. \A s \in Seats : u.pl[s] \in Player
  BY DEF Table
<1>5. ASSUME NEW s \in S
      PROVE  /\ s \in Seats /\ To(s) \in Player /\ PlayerSound(To(s))
             /\ To(s).leaving = u.pl[s].leaving /\ To(s).inHand = u.pl[s].inHand
             /\ To(s).bank = u.pl[s].bank /\ To(s).missed = u.pl[s].missed
  <2>1. PICK p : p = u.pl[s]
    OBVIOUS
  <2>2. s \in Seats /\ p \in Player /\ p.status # "empty" /\ PlayerSound(p)
    BY <1>4, <2>1 DEF Seated
  <2>3. PICK q : q = Adjusted(p, s, C)
    OBVIOUS
  <2>4. /\ q \in Player /\ PlayerSound(q) /\ q.status # "empty"
        /\ q.leaving = p.leaving /\ q.inHand = p.inHand /\ q.bank = p.bank
        /\ q.missed = p.missed
    BY <2>2, <2>3, AdjustedFacts
  <2>5. To(s) = q
    BY <2>1, <2>3
  <2> HIDE DEF To
  <2> QED BY <2>1, <2>2, <2>4, <2>5
<1> HIDE DEF To
<1>6. pl \in [Seats -> Player]
  BY <1>1, <1>4, <1>5
<1>7. v \in Table /\ v.pl = pl
  BY <1>2, <1>6 DEF Table
<1>8. /\ SameCourse(v, u) /\ v.sitOutPending = u.sitOutPending
      /\ v.pendingChips = u.pendingChips /\ v.endAfterHand = u.endAfterHand
  BY <1>2 DEF SameCourse, Table
<1> QED BY <1>1, <1>3, <1>5, <1>7, <1>8

-----------------------------------------------------------------------------
(* The end of a hand *)

\* What has become of a player's bank and missed turns.
BankKept(v, u) ==
  \A s \in Seats : /\ u.pl[s].bank => v.pl[s].bank \/ v.pl[s].status = "empty"
                   /\ v.pl[s].missed \in {u.pl[s].missed, 0}

\* A bank used in the hand is not refilled after it.
UsedUp(v, u) ==
  \A s \in Seats : u.pl[s].usedBank /\ v.pl[s].bank => u.pl[s].bank

\* Nothing that was put off is left when a hand is finished.
LEMMA FinishHandFacts ==
  ASSUME NEW u \in Table, u.hand \in HandView, \A s \in Seats : PlayerSound(u.pl[s]),
         \A s \in InHand(u) : HeldIn(u.pl[s]), u.sitOutPending \subseteq InHand(u),
         \A s \in Seats : u.pl[s].leaving => u.pl[s].inHand,
         NEW v \in FinishHand(u)
  PROVE  /\ v \in Table /\ SameCourse(v, u)
         /\ v.sitOutPending = {} /\ v.pendingChips = {}
         /\ \A s \in Seats : PlayerSound(v.pl[s]) /\ v.pl[s].leaving = FALSE
         /\ BankKept(v, u) /\ UsedUp(v, u)
<1> DEFINE played == [u EXCEPT !.pl = [s \in Seats |->
                         IF u.pl[s].inHand THEN Finished(u, u.pl[s], s)
                         ELSE u.pl[s]],
                       !.sitOutPending = @ \ InHand(u)]
           leavers == {s \in InHand(u) : u.pl[s].leaving}
           freed == FreeSeats(played, leavers)
           queued == freed.pendingChips \cap Seated(freed)
<1>5. PICK w \in {[ApplyChips(freed, queued, C) EXCEPT !.pendingChips = {}] :
                    C \in SUBSET queued} :
        v = [w EXCEPT !.endAfterHand =
               @ \/ (~w.settings.rebuy /\ Cardinality(Seated(w)) >= 2
                                       /\ Cardinality(WithChips(w)) <= 1)]
  BY DEF FinishHand
<1> HIDE DEF freed, queued
<1>1. PICK pl : pl = [s \in Seats |-> IF u.pl[s].inHand THEN Finished(u, u.pl[s], s)
                                      ELSE u.pl[s]]
  OBVIOUS
<1>2. played = [u EXCEPT !.pl = pl, !.sitOutPending = @ \ InHand(u)]
  BY <1>1
<1> HIDE DEF played
<1>6. PICK C : w = [ApplyChips(freed, queued, C) EXCEPT !.pendingChips = {}]
  BY <1>5
<1>7. PICK x : x = ApplyChips(freed, queued, C)
  OBVIOUS
<1>8. PICK end \in BOOLEAN :
        end = (w.endAfterHand \/ (~w.settings.rebuy /\ Cardinality(Seated(w)) >= 2
                                    /\ Cardinality(WithChips(w)) <= 1))
  <2>1. (w.endAfterHand \/ (~w.settings.rebuy /\ Cardinality(Seated(w)) >= 2
                              /\ Cardinality(WithChips(w)) <= 1)) \in BOOLEAN
    OBVIOUS
  <2> QED BY <2>1, Zenon
<1>9. ASSUME NEW s \in Seats
      PROVE  /\ pl[s] \in Player /\ PlayerSound(pl[s])
             /\ pl[s].leaving = u.pl[s].leaving
             /\ u.pl[s].bank => pl[s].bank
             /\ u.pl[s].usedBank /\ pl[s].bank => u.pl[s].bank
             /\ pl[s].missed \in {u.pl[s].missed, 0}
  <2>1. u.pl[s] \in Player
    BY DEF Table
  <2>2. CASE u.pl[s].inHand
    <3>1. HeldIn(u.pl[s])
      BY <2>2 DEF InHand
    <3>2. PICK p : p = u.pl[s]
      OBVIOUS
    <3>3. PICK q : q = Finished(u, p, s)
      OBVIOUS
    <3>4. /\ q \in Player /\ PlayerSound(q) /\ q.leaving = p.leaving
          /\ p.bank => q.bank
          /\ p.usedBank /\ q.bank => p.bank
          /\ q.missed \in {p.missed, 0}
      BY <2>1, <3>1, <3>2, <3>3, FinishedFacts
    <3>5. pl[s] = q
      BY <1>1, <2>2, <3>2, <3>3
    <3> QED BY <3>2, <3>4, <3>5
  <2>3. CASE ~u.pl[s].inHand
    BY <1>1, <2>1, <2>3
  <2> QED BY <2>2, <2>3
<1>10. pl \in [Seats -> Player] /\ InHand(u) \in SUBSET Seats /\ leavers \in SUBSET Seats
  <2>1. pl \in [Seats -> Player]
    BY <1>1, <1>9
  <2> QED BY <2>1 DEF InHand
<1>11. played \in Table /\ SameCourse(played, u) /\ played.pl = pl
       /\ played.sitOutPending = {}
  <2>1. played \in Table
    BY <1>2, <1>10 DEF Table
  <2>2. played.sitOutPending = u.sitOutPending \ InHand(u) /\ played.pl = pl
    BY <1>2 DEF Table
  <2>3. SameCourse(played, u)
    BY <1>2 DEF SameCourse, Table
  <2> QED BY <2>1, <2>2, <2>3
<1> HIDE DEF leavers
<1>12. /\ freed \in Table /\ SameCourse(freed, played) /\ freed.sitOutPending = {}
       /\ \A s \in Seats : freed.pl[s] = IF s \in leavers THEN Empty ELSE pl[s]
  <2>1. /\ freed \in Table /\ SameCourse(freed, played)
        /\ freed.sitOutPending = played.sitOutPending \ leavers
        /\ \A s \in Seats : freed.pl[s] = IF s \in leavers THEN Empty ELSE played.pl[s]
    BY <1>10, <1>11, FreeSeatsFacts DEF freed
  <2> QED BY <1>11, <2>1
<1>13. ASSUME NEW s \in Seats
       PROVE  /\ PlayerSound(freed.pl[s]) /\ freed.pl[s].leaving = FALSE
              /\ u.pl[s].bank => freed.pl[s].bank \/ s \in leavers
              /\ u.pl[s].usedBank /\ freed.pl[s].bank => u.pl[s].bank
              /\ freed.pl[s].missed \in {u.pl[s].missed, 0}
  <2>1. CASE s \in leavers
    BY <1>12, <2>1, NewPlayers
  <2>2. CASE s \notin leavers
    <3>1. freed.pl[s] = pl[s]
      BY <1>12, <2>2
    <3>2. ~u.pl[s].leaving
      BY <2>2 DEF leavers, InHand
    <3>3. pl[s].leaving \in BOOLEAN /\ pl[s].leaving = u.pl[s].leaving
      BY <1>9 DEF Player
    <3> QED BY <1>9, <3>1, <3>2, <3>3
  <2> QED BY <2>1, <2>2
<1>14. /\ x \in Table /\ SameCourse(x, freed) /\ x.sitOutPending = {}
       /\ \A s \in Seats : /\ PlayerSound(x.pl[s]) /\ x.pl[s].leaving = freed.pl[s].leaving
                           /\ x.pl[s].bank = freed.pl[s].bank
                           /\ x.pl[s].missed = freed.pl[s].missed
                           /\ s \in leavers => x.pl[s] = freed.pl[s]
  <2>1. queued \in SUBSET Seated(freed)
    BY DEF queued
  <2>2. \A s \in Seats : PlayerSound(freed.pl[s])
    BY <1>13
  <2>3. /\ x \in Table /\ SameCourse(x, freed) /\ x.sitOutPending = freed.sitOutPending
        /\ \A s \in Seats : /\ PlayerSound(x.pl[s]) /\ x.pl[s].leaving = freed.pl[s].leaving
                            /\ x.pl[s].bank = freed.pl[s].bank
                            /\ x.pl[s].missed = freed.pl[s].missed
    BY <1>7, <1>12, <2>1, <2>2, ApplyChipsFacts
  <2>4. ASSUME NEW s \in leavers PROVE s \in Seats /\ x.pl[s] = freed.pl[s]
    <3>1. s \in Seats /\ freed.pl[s] = Empty
      BY <1>10, <1>12, <2>4
    <3>2. s \notin queued
      BY <3>1, NewPlayers DEF queued, Seated
    <3> QED BY <1>7, <1>12, <3>1, <3>2 DEF ApplyChips, Table
  <2> QED BY <1>12, <2>3, <2>4
<1>15. /\ w \in Table /\ SameCourse(w, x) /\ w.pl = x.pl /\ w.sitOutPending = x.sitOutPending
       /\ w.pendingChips = {}
  <2>1. w = [x EXCEPT !.pendingChips = {}]
    BY <1>6, <1>7
  <2>2. w \in Table
    BY <1>14, <2>1 DEF Table
  <2> QED BY <1>14, <2>1, <2>2 DEF SameCourse, Table
<1>16. /\ v \in Table /\ SameCourse(v, w) /\ v.pl = w.pl /\ v.sitOutPending = w.sitOutPending
       /\ v.pendingChips = w.pendingChips
  <2>1. v = [w EXCEPT !.endAfterHand = end]
    BY <1>5, <1>8, <1>15 DEF Table
  <2>2. v \in Table
    BY <1>15, <2>1 DEF Table
  <2> QED BY <1>15, <2>1, <2>2 DEF SameCourse, Table
<1>17. SameCourse(v, u)
  BY <1>11, <1>12, <1>14, <1>15, <1>16 DEF SameCourse
<1>18. ASSUME NEW s \in Seats
       PROVE  /\ PlayerSound(v.pl[s]) /\ v.pl[s].leaving = FALSE
              /\ u.pl[s].bank => v.pl[s].bank \/ v.pl[s].status = "empty"
              /\ u.pl[s].usedBank /\ v.pl[s].bank => u.pl[s].bank
              /\ v.pl[s].missed \in {u.pl[s].missed, 0}
  <2>1. v.pl[s] = x.pl[s]
    BY <1>15, <1>16
  <2>2. s \in leavers => x.pl[s].status = "empty"
    BY <1>12, <1>14, NewPlayers
  <2> QED BY <1>13, <1>14, <2>1, <2>2
<1>19. BankKept(v, u) /\ UsedUp(v, u)
  BY <1>18 DEF BankKept, UsedUp
<1> QED BY <1>14, <1>15, <1>16, <1>17, <1>18, <1>19

-----------------------------------------------------------------------------
(* After the engine played *)

Playing(u) == {s \in Seats : Playable(u.pl[s])}

\* A table whose engine plays for the seats D.
Ready(u, D) ==
  /\ u \in Table /\ u.settings \in u.bounds.settings /\ u.state # "ended"
  /\ InHand(u) = D /\ u.sitOutPending \subseteq D
  /\ \A s \in D : HeldIn(u.pl[s])
  /\ \A s \in Seats : PlayerSound(u.pl[s])
  /\ \A s \in Seats : u.pl[s].leaving => u.pl[s].inHand
  /\ u.votes # NoVote => \E r \in u.bounds.settings : r.runItTwice

\* Under an open vote the board is run out or the hand is over.
FitsVote(g, u) ==
  u.votes # NoVote =>
    /\ g.phase \in {"deal_pending", "result"}
    /\ g.phase = "deal_pending" => g.runout

\* A turn that comes has the plain clock, a result the timer of a result.
Fresh(v) == (Betting(v) => ~v.bankUsing) /\ ResultTimed(v)

\* Whatever phase the engine has come to, the table is armed for it.
LEMMA ArmedFacts ==
  ASSUME NEW D, NEW u, Ready(u, D), NEW st, Within(u.hand, D, st, Playing(u)),
         FitsVote(u.hand, u), NEW v \in Armed(u)
  PROVE  /\ TableInv(v) /\ SameTable(v, u) /\ v.hand = u.hand
         /\ BankKept(v, u) /\ UsedUp(v, u) /\ Fresh(v)
<1> DEFINE g == u.hand
<1>1. /\ g \in HandView /\ g # NoHand /\ g.phase \in Phases /\ g.dealt = D
      /\ HandSound(g) /\ Turns(g) \subseteq Playing(u)
  BY HandKinds DEF Within, HandSound
<1>2. u \in Table
  BY DEF Ready
<1>3. ASSUME NEW w, w \in Table, g.phase # "result", SameTable(w, u), w.hand = g,
             w.pl = u.pl, w.sitOutPending = u.sitOutPending, VotesFit(w), TimerHeld(w),
             g.phase = "betting" => ~w.bankUsing
      PROVE  /\ TableInv(w) /\ SameTable(w, u) /\ w.hand = g
             /\ BankKept(w, u) /\ UsedUp(w, u) /\ Fresh(w)
  <2>1. HandInProgress(w) /\ ~BetweenHands(w) /\ w.hand # NoHand /\ w.state # "ended"
    BY <1>1, <1>3 DEF HandInProgress, BetweenHands, SameTable, Ready
  <2>2. InHand(w) = D
    BY <1>3, SamePlayers DEF Ready
  <2>3. HandHeld(w)
    BY <1>1, <1>3, <2>2 DEF HandHeld, Ready, Playing
  <2>4. PutOff(w)
    BY <1>3, <2>1 DEF PutOff, Ready
  <2>5. NoHandLeft(w) /\ Noted(w)
    BY <2>1 DEF NoHandLeft, Noted
  <2>6. \A s \in Seats : PlayerSound(w.pl[s])
    BY <1>3 DEF Ready
  <2>7. w.settings \in w.bounds.settings /\ BankKept(w, u) /\ UsedUp(w, u)
    BY <1>3 DEF SameTable, Ready, BankKept, UsedUp
  <2>8. Fresh(w)
    BY <1>3 DEF Fresh, ResultTimed, Betting, HandDone
  <2> QED BY <1>3, <2>3, <2>4, <2>5, <2>6, <2>7, <2>8 DEF TableInv
<1>4. CASE g.phase = "betting"
  <2>1. PICK w : w = [u EXCEPT !.bankUsing = FALSE]
    OBVIOUS
  <2>2. /\ w \in Table /\ SameTable(w, u) /\ w.hand = g /\ w.pl = u.pl
        /\ w.sitOutPending = u.sitOutPending /\ w.votes = u.votes
        /\ w.bankUsing = FALSE
    BY <1>2, <2>1 DEF Table, SameTable
  <2>3. v = Schedule(w, "turn")
    BY <1>4, <2>1 DEF Armed, OnTheClock
  <2>4. /\ v \in Table /\ SameButTimer(v, w)
        /\ v.timer = [kind |-> "turn", seat |-> w.hand.toAct]
    BY <1>1, <2>2, <2>3, ScheduleFacts DEF Kinds
  <2>5. v.votes = NoVote
    BY <1>4, <2>2, <2>4 DEF FitsVote, SameButTimer
  <2>6. VotesFit(v) /\ TimerHeld(v)
    BY <1>1, <1>4, <2>2, <2>4, <2>5 DEF VotesFit, TimerHeld, SameButTimer
  <2> QED BY <1>3, <1>4, <2>2, <2>4, <2>6 DEF SameButTimer, SameTable
<1>5. CASE g.phase = "deal_pending"
  <2>1. CASE VoteIsDue(u) /\ v = Schedule([u EXCEPT !.votes = {}], "vote")
    <3>1. PICK w : w = [u EXCEPT !.votes = {}]
      OBVIOUS
    <3>2. /\ w \in Table /\ SameTable(w, u) /\ w.hand = g /\ w.pl = u.pl
          /\ w.sitOutPending = u.sitOutPending /\ w.votes = {}
      BY <1>2, <3>1 DEF Table, SameTable
    <3>3. v \in Table /\ SameButTimer(v, w) /\ v.timer.kind = "vote"
      BY <2>1, <3>1, <3>2, ScheduleFacts DEF Kinds
    <3>4. u.settings \in u.bounds.settings /\ u.settings.runItTwice /\ g.runout
      BY <2>1 DEF VoteIsDue, CanRunItTwice, Ready
    <3>5. VotesFit(v)
      BY <1>5, <3>2, <3>3, <3>4 DEF VotesFit, SameButTimer, SameTable
    <3>6. TimerHeld(v)
      BY <1>1, <1>5, <3>2, <3>3, VoteKinds DEF TimerHeld, SameButTimer
    <3> QED BY <1>3, <1>5, <3>2, <3>3, <3>5, <3>6 DEF SameButTimer, SameTable
  <2>2. CASE v = Schedule(u, "deal")
    <3>1. v \in Table /\ SameButTimer(v, u) /\ v.timer.kind = "deal"
      BY <1>2, <2>2, ScheduleFacts DEF Kinds
    <3>2. VotesFit(v)
      BY <1>5, <3>1 DEF VotesFit, FitsVote, Ready, SameButTimer
    <3>3. TimerHeld(v)
      BY <1>1, <1>5, <3>1 DEF TimerHeld, SameButTimer
    <3> QED BY <1>3, <1>5, <3>1, <3>2, <3>3 DEF SameButTimer, SameTable
  <2> QED BY <1>5, <2>1, <2>2 DEF Armed
<1>6. CASE g.phase = "showdown"
  <2>1. v = Schedule(u, "reveal")
    BY <1>6 DEF Armed
  <2>2. v \in Table /\ SameButTimer(v, u) /\ v.timer.kind = "reveal"
    BY <1>2, <2>1, ScheduleFacts DEF Kinds
  <2>3. v.votes = NoVote
    BY <1>6, <2>2 DEF FitsVote, SameButTimer
  <2>4. VotesFit(v) /\ TimerHeld(v)
    BY <1>1, <1>6, <2>2, <2>3 DEF VotesFit, TimerHeld, SameButTimer
  <2> QED BY <1>3, <1>6, <2>2, <2>4 DEF SameButTimer, SameTable
<1>7. CASE g.phase = "result"
  <2>1. PICK w \in FinishHand(u) :
          v = Schedule(w, IF w.hand.contested THEN "result" ELSE "clear")
    BY <1>7 DEF Armed
  <2>2. /\ w \in Table /\ SameCourse(w, u)
        /\ w.sitOutPending = {} /\ w.pendingChips = {}
        /\ \A s \in Seats : PlayerSound(w.pl[s]) /\ w.pl[s].leaving = FALSE
        /\ BankKept(w, u) /\ UsedUp(w, u)
    BY <1>1, <1>2, FinishHandFacts DEF Ready
  <2>3. v \in Table /\ SameButTimer(v, w) /\ v.timer.kind \in {"result", "clear"}
    <3>1. CASE w.hand.contested
      BY <2>1, <2>2, <3>1, ScheduleFacts DEF Kinds
    <3>2. CASE ~w.hand.contested
      BY <2>1, <2>2, <3>2, ScheduleFacts DEF Kinds
    <3> QED BY <3>1, <3>2
  <2>4. /\ v.hand = g /\ SameTable(v, u) /\ v.votes = u.votes /\ v.pl = w.pl
        /\ v.sitOutPending = {} /\ v.pendingChips = {}
    BY <2>2, <2>3 DEF SameButTimer, SameCourse, SameTable
  <2>5. ~HandInProgress(v) /\ v.hand # NoHand /\ v.state # "ended"
    BY <1>1, <1>7, <2>4 DEF HandInProgress, SameTable, Ready
  <2>6. HandHeld(v) /\ NoHandLeft(v) /\ Noted(v)
    BY <2>5 DEF HandHeld, NoHandLeft, Noted
  <2>7. PutOff(v)
    BY <2>2, <2>4, <2>5 DEF PutOff
  <2>8. VotesFit(v)
    BY <1>7, <2>4 DEF VotesFit, Ready, SameTable
  <2>9. TimerHeld(v)
    BY <1>1, <1>7, <2>3, <2>4 DEF TimerHeld
  <2>10. BankKept(v, u) /\ UsedUp(v, u)
    BY <2>2, <2>4 DEF BankKept, UsedUp
  <2>12. Fresh(v)
    BY <1>7, <2>3, <2>4 DEF Fresh, ResultTimed, Betting
  <2>11. v.settings \in v.bounds.settings
    BY <2>4 DEF SameTable, Ready
  <2> QED BY <2>2, <2>3, <2>4, <2>6, <2>7, <2>8, <2>9, <2>10, <2>11, <2>12 DEF TableInv
<1> QED BY <1>1, <1>4, <1>5, <1>6, <1>7 DEF Phases

\* The engine may have come to any hand of G; turns chosen ahead are played
\* on from there.
LEMMA AfterEngineFacts ==
  ASSUME NEW D, NEW u, Ready(u, D), NEW st \in Int, NEW G,
         \A g \in G : Within(g, D, st, Playing(u)) /\ FitsVote(g, u),
         NEW v \in AfterEngine(u, G)
  PROVE  /\ TableInv(v) /\ SameTable(v, u)
         /\ BankKept(v, u) /\ UsedUp(v, u) /\ Fresh(v)
         /\ v.hand # NoHand /\ v.hand.dealt = D /\ v.hand.street >= st
<1> DEFINE F == {g \in HandView : Within(g, D, st, Playing(u)) /\ FitsVote(g, u)}
<1>1. PICK g \in AutoPlayed(u, G) : v \in Armed([u EXCEPT !.hand = g])
  BY DEF AfterEngine
<1>2. G \subseteq F
  BY DEF Within, HandSound
<1>3. ASSUME NEW e \in F, AtOnce(u, e) PROVE Applied(e) \subseteq F
  <2>1. e.phase = "betting" /\ HandSound(e) /\ Active(e) \subseteq Playing(u)
        /\ e.street \in Int /\ e.street >= st /\ e.dealt = D
    BY <1>3 DEF AtOnce, Within, Turns, HandView
  <2>2. u.votes = NoVote
    BY <1>3, <2>1 DEF FitsVote
  <2>3. ASSUME NEW w \in Applied(e) PROVE w \in F
    <3>1. Within(w, D, e.street, Playing(u))
      BY <2>1, AppliedFacts
    <3>2. w \in HandView /\ w.street \in Int /\ w.street >= e.street
      BY <3>1 DEF Within, HandSound, HandView
    <3>3. w.street >= st
      BY <2>1, <3>2
    <3>4. Within(w, D, st, Playing(u))
      BY <3>1, <3>3 DEF Within
    <3> QED BY <2>2, <3>2, <3>4 DEF FitsVote
  <2> QED BY <2>3
<1>4. g \in F
  <2> HIDE DEF F
  <2> QED BY <1>1, <1>2, <1>3, AutoPlayedFacts
<1>5. PICK w : w = [u EXCEPT !.hand = g]
  OBVIOUS
<1>6. u \in Table /\ g \in HandView /\ Within(g, D, st, Playing(u)) /\ FitsVote(g, u)
  BY <1>4 DEF Ready
<1>7. /\ w \in Table /\ w.hand = g /\ w.pl = u.pl /\ w.votes = u.votes
      /\ SameTable(w, u) /\ w.sitOutPending = u.sitOutPending
  BY <1>5, <1>6 DEF Table, SameTable
<1>8. Ready(w, D) /\ Playing(w) = Playing(u) /\ FitsVote(g, w)
  <2>1. InHand(w) = InHand(u)
    BY <1>7, SamePlayers
  <2>2. Playing(w) = Playing(u) /\ FitsVote(g, w)
    BY <1>6, <1>7 DEF Playing, FitsVote
  <2> QED BY <1>7, <2>1, <2>2 DEF Ready, SameTable
<1>9. /\ TableInv(v) /\ SameTable(v, w) /\ v.hand = g
      /\ BankKept(v, w) /\ UsedUp(v, w) /\ Fresh(v)
  BY <1>1, <1>5, <1>6, <1>7, <1>8, ArmedFacts
<1>10. BankKept(v, u) /\ UsedUp(v, u) /\ SameTable(v, u)
  BY <1>7, <1>9 DEF BankKept, UsedUp, SameTable
<1>11. g # NoHand /\ g.dealt = D /\ g.street >= st
  BY <1>6, HandKinds DEF Within
<1> QED BY <1>9, <1>10, <1>11

-----------------------------------------------------------------------------
(* Tables without a hand *)

\* A table without a hand, whatever its timer and its note of a start.
Idle(u) ==
  /\ u \in Table /\ u.settings \in u.bounds.settings /\ u.hand = NoHand
  /\ \A s \in Seats : PlayerSound(u.pl[s])
  /\ \A s \in Seats : ~u.pl[s].inHand /\ ~u.pl[s].leaving
  /\ u.state # "ended" => u.sitOutPending = {} /\ u.pendingChips = {}
  /\ u.endAfterHand => u.state = "ended"
  /\ u.votes # NoVote => \E r \in u.bounds.settings : r.runItTwice

\* At a table without a hand the invariant says that it is idle.
LEMMA IdleInv ==
  ASSUME NEW u
  PROVE  /\ Idle(u) /\ u.timer.kind \in {"none", "start"} /\ Noted(u) => TableInv(u)
         /\ TableInv(u) /\ u.hand = NoHand => Idle(u) /\ u.timer.kind \in {"none", "start"}
<1>1. ASSUME Idle(u), u.timer.kind \in {"none", "start"}, Noted(u) PROVE TableInv(u)
  <2>1. ~HandInProgress(u)
    BY <1>1 DEF Idle, HandInProgress
  <2>2. HandHeld(u) /\ PutOff(u) /\ NoHandLeft(u)
    BY <1>1, <2>1 DEF HandHeld, PutOff, NoHandLeft, Idle, InHand
  <2>3. VotesFit(u) /\ TimerHeld(u)
    BY <1>1 DEF VotesFit, TimerHeld, Idle
  <2> QED BY <1>1, <2>2, <2>3 DEF TableInv, Idle
<1>2. ASSUME TableInv(u), u.hand = NoHand
      PROVE  Idle(u) /\ u.timer.kind \in {"none", "start"}
  <2>1. ~HandInProgress(u) /\ BetweenHands(u)
    BY <1>2 DEF HandInProgress, BetweenHands
  <2>2. u.timer.kind \in {"none", "start"}
    BY <1>2 DEF TableInv, TimerHeld
  <2>3. \A s \in Seats : ~u.pl[s].inHand /\ ~u.pl[s].leaving
    BY <1>2, <2>1 DEF TableInv, PutOff, NoHandLeft, InHand
  <2>4. /\ u.state # "ended" => u.sitOutPending = {} /\ u.pendingChips = {}
        /\ u.endAfterHand => u.state = "ended"
    BY <1>2, <2>1 DEF TableInv, PutOff
  <2>5. u.votes # NoVote => \E r \in u.bounds.settings : r.runItTwice
    BY <1>2 DEF TableInv, VotesFit
  <2> QED BY <1>2, <2>2, <2>3, <2>4, <2>5 DEF TableInv, Idle
<1> QED BY <1>1, <1>2

\* A player is dealt in.
LEMMA DealtInFacts ==
  ASSUME NEW p \in Player
  PROVE  LET q == DealtIn(p)
         IN  /\ q \in Player /\ q.inHand = TRUE /\ q.leaving = p.leaving
             /\ q.status = p.status /\ q.chips = p.chips /\ q.bank = p.bank
             /\ q.missed = p.missed
<1>1. PICK q : q = [p EXCEPT !.inHand = TRUE, !.usedBank = FALSE]
  OBVIOUS
<1>2. q \in Player
  BY <1>1 DEF Player
<1>3. /\ q.inHand = TRUE /\ q.leaving = p.leaving /\ q.status = p.status
      /\ q.chips = p.chips /\ q.bank = p.bank /\ q.missed = p.missed
  BY <1>1 DEF Player
<1> QED BY <1>1, <1>2, <1>3 DEF DealtIn

\* A hand is dealt to the eligible players.
LEMMA StartHandFacts ==
  ASSUME NEW u, Idle(u), u.state = "running", Cardinality(Eligible(u)) >= 2,
         NEW v \in StartHand(u)
  PROVE  /\ TableInv(v) /\ SameTable(v, u) /\ BankKept(v, u) /\ Fresh(v)
         /\ v.hand # NoHand
<1> DEFINE D == Eligible(u)
<1>1. PICK pl : pl = [s \in Seats |-> IF s \in D THEN DealtIn(u.pl[s]) ELSE u.pl[s]]
  OBVIOUS
<1>2. PICK w : w = [u EXCEPT !.pl = pl, !.votes = NoVote, !.ritDecided = FALSE,
                             !.bankUsing = FALSE, !.late = 0]
  OBVIOUS
<1>3. v \in AfterEngine(w, Opened(D))
  BY <1>1, <1>2 DEF StartHand
<1>4. u \in Table /\ D \in SUBSET Seats /\ 0 \in 0 .. MaxLate
  BY BoundsAssumption DEF Idle, Eligible
<1>5. ASSUME NEW s \in Seats
      PROVE  /\ pl[s] \in Player /\ PlayerSound(pl[s]) /\ ~pl[s].leaving
             /\ s \in D => Playable(pl[s]) /\ HeldIn(pl[s])
             /\ s \notin D => ~pl[s].inHand
             /\ pl[s].bank = u.pl[s].bank /\ pl[s].missed = u.pl[s].missed
  <2>1. PICK p : p = u.pl[s]
    OBVIOUS
  <2>2. p \in Player /\ PlayerSound(p) /\ ~p.inHand /\ ~p.leaving
    BY <1>4, <2>1 DEF Table, Idle
  <2>3. CASE s \notin D
    BY <1>1, <2>1, <2>2, <2>3
  <2>4. CASE s \in D
    <3>1. PICK q : q = DealtIn(p)
      OBVIOUS
    <3>2. p.status = "active" /\ p.chips
      BY <2>1, <2>4 DEF Eligible
    <3>3. /\ q \in Player /\ q.inHand = TRUE /\ q.leaving = p.leaving
          /\ q.status = p.status /\ q.chips = p.chips /\ q.bank = p.bank
          /\ q.missed = p.missed
      BY <2>2, <3>1, DealtInFacts
    <3>4. pl[s] = q
      BY <1>1, <2>1, <2>4, <3>1
    <3>5. PlayerSound(q) /\ Playable(q) /\ HeldIn(q) /\ ~q.leaving
      BY <2>2, <3>2, <3>3 DEF PlayerSound, Playable, HeldIn
    <3> QED BY <2>1, <2>4, <3>3, <3>4, <3>5
  <2> QED BY <2>3, <2>4
<1>6. /\ w \in Table /\ w.pl = pl /\ w.votes = NoVote /\ SameTable(w, u)
      /\ w.sitOutPending = u.sitOutPending
  <2>1. pl \in [Seats -> Player]
    BY <1>1, <1>5
  <2>2. PICK a : a = [u EXCEPT !.pl = pl]
    OBVIOUS
  <2>3. PICK b : b = [a EXCEPT !.votes = NoVote]
    OBVIOUS
  <2>4. a \in Table /\ a.pl = pl /\ SameTable(a, u) /\ a.sitOutPending = u.sitOutPending
    BY <1>4, <2>1, <2>2 DEF Table, SameTable
  <2>5. NoVote \in (SUBSET Seats) \cup {NoVote}
    OBVIOUS
  <2>6. /\ b \in Table /\ b.pl = pl /\ b.votes = NoVote /\ SameTable(b, u)
        /\ b.sitOutPending = u.sitOutPending
    BY <2>3, <2>4, <2>5 DEF Table, SameTable
  <2>7. w = [b EXCEPT !.ritDecided = FALSE, !.bankUsing = FALSE, !.late = 0]
    BY <1>2, <1>4, <2>2, <2>3 DEF Table
  <2> QED BY <1>4, <2>6, <2>7 DEF Table, SameTable
<1>7. InHand(w) = D /\ D \subseteq Playing(w)
  BY <1>4, <1>5, <1>6 DEF InHand, Playing, Playable
<1>8. Ready(w, D)
  <2>1. w.sitOutPending = {} /\ w.state # "ended" /\ w.settings \in w.bounds.settings
    BY <1>6 DEF Idle, SameTable
  <2> QED BY <1>4, <1>5, <1>6, <1>7, <2>1 DEF Ready
<1>9. \A g \in Opened(D) : Within(g, D, 0, Playing(w)) /\ FitsVote(g, w)
  BY <1>4, <1>6, <1>7, OpenedFacts DEF Within, FitsVote
<1>10. /\ TableInv(v) /\ SameTable(v, w) /\ BankKept(v, w) /\ Fresh(v)
       /\ v.hand # NoHand
  BY <1>3, <1>8, <1>9, AfterEngineFacts
<1> QED BY <1>5, <1>6, <1>10 DEF SameTable, BankKept

\* A hand is dealt only at a running table, which it may have made so.
LEMMA MaybeStartHandFacts ==
  ASSUME NEW u, Idle(u), u.timer.kind \in {"none", "start"},
         NEW v \in MaybeStartHand(u)
  PROVE  /\ TableInv(v) /\ BankKept(v, u)
         /\ v.bounds = u.bounds
         /\ v = u \/ (v.state = "running" /\ v.hand # NoHand /\ Fresh(v))
<1> DEFINE w == IF u.state = "waiting" /\ u.settings.autoStart
                THEN [u EXCEPT !.state = "running"] ELSE u
<1>1. CASE Cardinality(Eligible(u)) >= 2 /\ w.state = "running" /\ v \in StartHand(w)
  <2>1. /\ w \in Table /\ w.bounds = u.bounds /\ w.settings = u.settings /\ w.pl = u.pl
        /\ w.hand = u.hand /\ w.votes = u.votes /\ w.endAfterHand = u.endAfterHand
        /\ w.sitOutPending = u.sitOutPending /\ w.pendingChips = u.pendingChips
        /\ u.state # "ended"
    <3>1. CASE u.state = "waiting" /\ u.settings.autoStart
      <4>1. w = [u EXCEPT !.state = "running"] /\ "running" \in States
        BY <3>1 DEF States
      <4> HIDE DEF w
      <4> QED BY <3>1, <4>1 DEF Idle, Table
    <3>2. CASE ~(u.state = "waiting" /\ u.settings.autoStart)
      <4>1. w = u
        BY <3>2
      <4> HIDE DEF w
      <4> QED BY <1>1, <4>1 DEF Idle
    <3> QED BY <3>1, <3>2
  <2> HIDE DEF w
  <2>2. Idle(w) /\ Eligible(w) = Eligible(u)
    BY <1>1, <2>1, SamePlayers DEF Idle
  <2>3. /\ TableInv(v) /\ SameTable(v, w) /\ BankKept(v, w) /\ Fresh(v)
        /\ v.hand # NoHand
    BY <1>1, <2>2, StartHandFacts
  <2> QED BY <1>1, <2>1, <2>3 DEF SameTable, BankKept
<1>2. CASE v = u /\ (Cardinality(Eligible(u)) < 2 \/ w.state # "running")
  <2>1. Cardinality(Eligible(u)) \in Int
    <3>1. Eligible(u) \in SUBSET Seats
      BY DEF Eligible
    <3> QED BY <3>1, SeatsFinite
  <2>2. Noted(u)
    BY <1>2, <2>1 DEF Noted, Idle, Table
  <2>3. TableInv(u)
    BY <2>2, IdleInv
  <2> QED BY <1>2, <2>3 DEF BankKept
<1>3. u.hand = NoHand /\ Cardinality(Eligible(u)) \in Int
  <2>1. Eligible(u) \in SUBSET Seats
    BY DEF Eligible
  <2> QED BY <2>1, SeatsFinite DEF Idle
<1> QED BY <1>1, <1>2, <1>3 DEF MaybeStartHand

\* Whatever made players eligible, a start is noted when one is due.
LEMMA ScheduleStartFacts ==
  ASSUME NEW u, Idle(u), u.timer.kind \in {"none", "start"}
  PROVE  LET v == ScheduleStart(u)
         IN  TableInv(v) /\ SameTable(v, u) /\ v.pl = u.pl /\ v.hand = u.hand
<1>1. u \in Table /\ u.hand = NoHand
  BY DEF Idle
<1>2. CASE /\ u.hand = NoHand /\ ~u.startPending
           /\ \/ u.state = "running"
              \/ u.state = "waiting" /\ u.settings.autoStart
           /\ Cardinality(Eligible(u)) >= 2
  <2>1. PICK w : w = [u EXCEPT !.startPending = TRUE]
    OBVIOUS
  <2>2. PICK v : v = Schedule(w, "start")
    OBVIOUS
  <2>3. ScheduleStart(u) = v
    BY <1>2, <2>1, <2>2 DEF ScheduleStart
  <2>4. w \in Table
    BY <1>1, <2>1 DEF Table
  <2>5. /\ SameTable(w, u) /\ w.pl = u.pl /\ w.hand = u.hand /\ w.startPending = TRUE
        /\ w.votes = u.votes /\ w.endAfterHand = u.endAfterHand
        /\ w.sitOutPending = u.sitOutPending /\ w.pendingChips = u.pendingChips
    BY <1>1, <2>1 DEF Table, SameTable
  <2>6. v \in Table /\ SameButTimer(v, w) /\ v.timer.kind = "start"
    BY <2>2, <2>4, ScheduleFacts DEF Kinds
  <2>7. Idle(v)
    BY <2>5, <2>6 DEF Idle, SameButTimer, SameTable
  <2>8. Noted(v)
    BY <2>5, <2>6 DEF Noted, SameButTimer
  <2>9. TableInv(v)
    BY <2>6, <2>7, <2>8, IdleInv
  <2> QED BY <2>3, <2>5, <2>6, <2>9 DEF SameButTimer, SameTable
<1>3. CASE ~(/\ u.hand = NoHand /\ ~u.startPending
             /\ \/ u.state = "running"
                \/ u.state = "waiting" /\ u.settings.autoStart
             /\ Cardinality(Eligible(u)) >= 2)
  <2>1. ScheduleStart(u) = u
    BY <1>3 DEF ScheduleStart
  <2>2. Noted(u)
    BY <1>3 DEF Noted
  <2>3. TableInv(u)
    BY <2>2, IdleInv
  <2> QED BY <2>1, <2>3 DEF SameTable
<1> QED BY <1>2, <1>3

\* With a hand on the table nothing is scheduled.
LEMMA NoStartNow ==
  ASSUME NEW u, u.hand # NoHand
  PROVE  ScheduleStart(u) = u
  BY DEF ScheduleStart

-----------------------------------------------------------------------------
(* What a step may do *)

\* The four parts of HandsEndInResults, of a step from c to v.
EndsWell(v, c) ==
  /\ HandInProgress(c) /\ ~HandInProgress(v) => HandDone(v) \/ v.state = "ended"
  /\ HandInProgress(c) /\ HandInProgress(v) =>
       v.hand.dealt = c.hand.dealt /\ v.hand.street >= c.hand.street
  /\ c.hand = NoHand /\ v.hand # NoHand => v.state = "running"
  /\ HandDone(c) /\ HandInProgress(v) => v.state = "running" /\ ~c.endAfterHand

\* A seat whose time bank may run out now.
BankOpen(c, s) == c.bankUsing /\ Betting(c) /\ c.hand.toAct = s

\* A turn of seat s that its clock ended, in a step from c to v.
MissedTurn(v, c, s) ==
  /\ Betting(c) /\ c.hand.toAct = s /\ c.timer = [kind |-> "turn", seat |-> s]
  /\ v.pl[s].missed = c.pl[s].missed + 1
  /\ c.pl[s].connected /\ c.pl[s].bank => c.bankUsing
  /\ BankRuns(c) /\ c.bankUsing => ~v.pl[s].bank

\* The parts of TurnsAreCharged, of a step from c to v.
Charges(v, c) ==
  /\ \A s \in Seats :
       /\ c.pl[s].bank /\ ~v.pl[s].bank /\ s \in Seated(v) /\ v.state = c.state
            => BankOpen(c, s)
       /\ v.pl[s].missed \in {c.pl[s].missed, 0} \/ MissedTurn(v, c, s)
  /\ BankRuns(c) => BankRuns(v)

\* The timer of a result is not replaced but by an answer to an old vote.
Timed(v, c) == ResultTimed(c) /\ VoteInHand(c) => ResultTimed(v)

Goes(v, c) == TableInv(v) /\ EndsWell(v, c) /\ Charges(v, c) /\ Timed(v, c)

\* Whoever keeps his bank is charged nothing.
LEMMA NotCharged ==
  ASSUME NEW c, NEW v, BankKept(v, c), BankRuns(c) => BankRuns(v)
  PROVE  Charges(v, c)
  BY DEF Charges, BankKept, Seated

\* Without a hand nobody has a turn, and no result is timed.
LEMMA HandGone ==
  ASSUME NEW v, v.hand = NoHand
  PROVE  BankRuns(v) /\ ResultTimed(v)
  BY DEF BankRuns, ResultTimed, Betting, HandDone

\* A fresh turn has no bank that runs.
LEMMA FreshFacts ==
  ASSUME NEW v, Fresh(v)
  PROVE  BankRuns(v) /\ ResultTimed(v)
  BY DEF Fresh, BankRuns

\* A step that leaves the hand alone.
LEMMA QuietStep ==
  ASSUME NEW c, TableInv(c), NEW v, TableInv(v), v.hand = c.hand,
         BankKept(v, c), BankRuns(c) => BankRuns(v), Timed(v, c)
  PROVE  Goes(v, c)
<1>1. HandInProgress(c) => c.hand.street \in Int
  BY DEF TableInv, HandHeld, HandSound, HandView
<1>2. EndsWell(v, c)
  BY <1>1 DEF EndsWell, HandInProgress, HandDone
<1>3. Charges(v, c)
  BY NotCharged
<1> QED BY <1>2, <1>3 DEF Goes

\* A step that ends the table.
LEMMA EndingStep ==
  ASSUME NEW c, c.state # "ended", NEW v, TableInv(v), v.state = "ended",
         \A s \in Seats : v.pl[s].missed \in {c.pl[s].missed, 0}
  PROVE  Goes(v, c)
<1>1. v.hand = NoHand
  BY DEF TableInv, NoHandLeft
<1>2. EndsWell(v, c)
  BY <1>1 DEF EndsWell, HandInProgress
<1>3. Charges(v, c) /\ Timed(v, c)
  BY <1>1, HandGone DEF Charges, Timed
<1> QED BY <1>2, <1>3 DEF Goes

\* A turn that is being missed: its bank, if it ran, is empty by now.
Missing(u, c, s) ==
  /\ Betting(c) /\ c.hand.toAct = s /\ c.timer = [kind |-> "turn", seat |-> s]
  /\ u.pl[s].missed = c.pl[s].missed + 1
  /\ c.pl[s].connected /\ c.pl[s].bank => c.bankUsing
  /\ c.bankUsing => ~u.pl[s].bank /\ (c.pl[s].usedBank => u.pl[s].usedBank)

\* A step in which the engine plays the hand on.
LEMMA EngineStep ==
  ASSUME NEW c, TableInv(c), HandInProgress(c),
         NEW u, Ready(u, c.hand.dealt), SameTable(u, c),
         \A s \in Seats : c.pl[s].bank => u.pl[s].bank \/ BankOpen(c, s),
         \A s \in Seats :
           u.pl[s].missed \in {c.pl[s].missed, 0} \/ Missing(u, c, s),
         NEW G, \A g \in G : /\ Within(g, c.hand.dealt, c.hand.street, Playing(u))
                             /\ FitsVote(g, u),
         NEW v \in AfterEngine(u, G)
  PROVE  Goes(v, c)
<1>1. c.hand # NoHand /\ c.hand.street \in Int
  BY DEF TableInv, HandHeld, HandSound, HandView, HandInProgress
<1>2. /\ TableInv(v) /\ SameTable(v, u) /\ BankKept(v, u) /\ UsedUp(v, u) /\ Fresh(v)
      /\ v.hand # NoHand /\ v.hand.dealt = c.hand.dealt /\ v.hand.street >= c.hand.street
  BY <1>1, AfterEngineFacts
<1>3. EndsWell(v, c)
  BY <1>1, <1>2 DEF EndsWell, HandInProgress, HandDone
<1>4. ASSUME NEW s \in Seats
      PROVE  v.pl[s].missed \in {c.pl[s].missed, 0} \/ MissedTurn(v, c, s)
  <2>1. CASE u.pl[s].missed \in {c.pl[s].missed, 0}
    BY <1>2, <2>1 DEF BankKept
  <2>2. CASE Missing(u, c, s) /\ v.pl[s].missed # 0
    <3>1. v.pl[s].missed = c.pl[s].missed + 1
      BY <1>2, <2>2 DEF BankKept, Missing
    <3>2. BankRuns(c) /\ c.bankUsing => ~v.pl[s].bank
      BY <1>2, <2>2 DEF BankRuns, Missing, UsedUp
    <3> QED BY <2>2, <3>1, <3>2 DEF Missing, MissedTurn
  <2> QED BY <2>1, <2>2
<1>5. ASSUME NEW s \in Seats, c.pl[s].bank, ~v.pl[s].bank, s \in Seated(v)
      PROVE  BankOpen(c, s)
  BY <1>2, <1>5 DEF BankKept, Seated
<1>6. Charges(v, c) /\ Timed(v, c)
  BY <1>2, <1>4, <1>5, FreshFacts DEF Charges, Timed
<1> QED BY <1>2, <1>3, <1>6 DEF Goes

\* One player has changed and the engine may play on.
LEMMA ReadyAfter ==
  ASSUME NEW c, TableInv(c), HandInProgress(c), NEW s \in Seats,
         NEW q \in Player, PlayerSound(q), q.inHand = c.pl[s].inHand,
         q.leaving => q.inHand, q.inHand => HeldIn(q),
         NEW u \in Table, SameTable(u, c), u.pl = [c.pl EXCEPT ![s] = q],
         u.votes = c.votes, u.sitOutPending \subseteq c.hand.dealt
  PROVE  /\ Ready(u, c.hand.dealt)
         /\ Turns(c.hand) \ {s} \subseteq Playing(u)
         /\ Playable(q) => Turns(c.hand) \subseteq Playing(u)
<1>1. /\ c \in Table /\ c.hand # NoHand /\ c.state # "ended" /\ HandSound(c.hand)
      /\ c.settings \in c.bounds.settings
  BY DEF TableInv, HandInProgress, NoHandLeft, HandHeld
<1>2. \A r \in Seats : u.pl[r] = IF r = s THEN q ELSE c.pl[r]
  BY <1>1 DEF Table
<1>3. InHand(u) = InHand(c)
  BY <1>2 DEF InHand
<1>4. InHand(c) = c.hand.dealt /\ c.hand.dealt \subseteq Seats
  BY DEF TableInv, HandHeld, InHand
<1>5. \A r \in c.hand.dealt : HeldIn(u.pl[r])
  BY <1>2, <1>4 DEF TableInv, HandHeld, InHand
<1>6. \A r \in Seats : PlayerSound(u.pl[r]) /\ (u.pl[r].leaving => u.pl[r].inHand)
  BY <1>2 DEF TableInv, PutOff
<1>7. u.votes # NoVote => \E r \in u.bounds.settings : r.runItTwice
  BY DEF TableInv, VotesFit, SameTable
<1>8. Ready(u, c.hand.dealt)
  BY <1>1, <1>3, <1>4, <1>5, <1>6, <1>7 DEF Ready, SameTable
<1>9. Turns(c.hand) \subseteq Seats /\ \A r \in Turns(c.hand) : Playable(c.pl[r])
  BY <1>1 DEF Turns, Active, HandSound, HandView, TableInv, HandHeld
<1> QED BY <1>2, <1>8, <1>9 DEF Playing

-----------------------------------------------------------------------------
(* Players change and the hand does not *)

\* Nobody is put into the hand or taken out of it, and whoever has a turn to
\* come can still play: then whatever the player is now, a start is noted.
LEMMA PlayerChanged ==
  ASSUME NEW c, TableInv(c), NEW s \in Seats,
         NEW q \in Player, PlayerSound(q), q.inHand = c.pl[s].inHand,
         q.leaving = c.pl[s].leaving,
         HandInProgress(c) /\ q.inHand => HeldIn(q),
         HandInProgress(c) /\ s \in Turns(c.hand) => Playable(q),
         HandInProgress(c) /\ s \in Turns(c.hand) =>
           (c.pl[s].usedBank => q.usedBank),
         c.pl[s].bank => q.bank \/ q.status = "empty",
         q.missed \in {c.pl[s].missed, 0},
         NEW u, u = [c EXCEPT !.pl[s] = q]
  PROVE  /\ Goes(ScheduleStart(u), c)
         /\ (q.status = "active" /\ q.chips => c.pl[s].status = "active" /\ c.pl[s].chips)
              => Goes(u, c)
<1>1. c \in Table
  BY DEF TableInv
<1>2. PICK pl : pl = [c.pl EXCEPT ![s] = q]
  OBVIOUS
<1>3. u = [c EXCEPT !.pl = pl]
  BY <1>1, <1>2 DEF Table
<1>4. /\ pl \in [Seats -> Player]
      /\ \A r \in Seats : pl[r] = IF r = s THEN q ELSE c.pl[r]
  BY <1>1, <1>2 DEF Table
<1>5. u \in Table /\ u.pl = pl
  BY <1>1, <1>3, <1>4 DEF Table
<1>6. /\ u.bounds = c.bounds /\ u.state = c.state /\ u.settings = c.settings
      /\ u.hand = c.hand /\ u.timer = c.timer /\ u.startPending = c.startPending
      /\ u.endAfterHand = c.endAfterHand /\ u.votes = c.votes
      /\ u.sitOutPending = c.sitOutPending /\ u.pendingChips = c.pendingChips
      /\ u.bankUsing = c.bankUsing
  BY <1>1, <1>3 DEF Table
<1>7. /\ InHand(u) = InHand(c)
      /\ \A r \in Seats : PlayerSound(u.pl[r]) /\ u.pl[r].leaving = c.pl[r].leaving
                          /\ u.pl[r].inHand = c.pl[r].inHand
      /\ BankKept(u, c)
  BY <1>4, <1>5 DEF InHand, TableInv, BankKept
<1>8. HandInProgress(u) = HandInProgress(c) /\ BetweenHands(u) = BetweenHands(c)
  BY <1>6 DEF HandInProgress, BetweenHands
<1>9. HandHeld(u)
  <2>1. ASSUME HandInProgress(c)
        PROVE  /\ HandSound(u.hand) /\ InHand(u) = u.hand.dealt
               /\ \A r \in u.hand.dealt : HeldIn(u.pl[r])
               /\ \A r \in Turns(u.hand) : Playable(u.pl[r])
               /\ u.sitOutPending \subseteq u.hand.dealt
    <3>1. HandSound(c.hand) /\ InHand(c) = c.hand.dealt
      BY <2>1 DEF TableInv, HandHeld
    <3>2. Turns(c.hand) \subseteq Seats
      BY <3>1 DEF Turns, Active, HandSound, HandView
    <3>3. \A r \in c.hand.dealt : HeldIn(u.pl[r])
      BY <2>1, <1>4, <1>5, <3>1 DEF TableInv, HandHeld, InHand
    <3>4. \A r \in Turns(c.hand) : Playable(u.pl[r])
      BY <2>1, <1>4, <1>5, <3>2 DEF TableInv, HandHeld
    <3>5. c.sitOutPending \subseteq c.hand.dealt
      BY <2>1 DEF TableInv, HandHeld
    <3> QED BY <1>6, <1>7, <3>1, <3>3, <3>4, <3>5
  <2> QED BY <1>8, <2>1 DEF HandHeld
<1>10. PutOff(u)
  BY <1>6, <1>7, <1>8 DEF TableInv, PutOff
<1>11. NoHandLeft(u)
  BY <1>6, <1>7 DEF TableInv, NoHandLeft
<1>12. VotesFit(u)
  BY <1>6 DEF TableInv, VotesFit
<1>13. TimerHeld(u)
  BY <1>6 DEF TableInv, TimerHeld
<1>20. BankRuns(c) => BankRuns(u)
  <2>1. SUFFICES ASSUME BankRuns(c), Betting(c), c.bankUsing
                 PROVE  u.pl[c.hand.toAct].bank /\ u.pl[c.hand.toAct].usedBank
    BY <1>6 DEF BankRuns, Betting
  <2>2. HandInProgress(c) /\ c.hand.phase = "betting"
    BY <2>1 DEF Betting, HandInProgress
  <2>3. c.hand.toAct \in Turns(c.hand) /\ c.hand.toAct \in Seats
    BY <2>2 DEF TableInv, HandHeld, HandSound, Turns, Active, HandView
  <2>4. c.pl[c.hand.toAct].bank /\ c.pl[c.hand.toAct].usedBank
    BY <2>1 DEF BankRuns
  <2>5. CASE c.hand.toAct = s
    BY <1>4, <1>5, <2>2, <2>3, <2>4, <2>5 DEF Playable
  <2>6. CASE c.hand.toAct # s
    BY <1>4, <1>5, <2>3, <2>4, <2>6
  <2> QED BY <2>5, <2>6
<1>21. Timed(u, c)
  BY <1>6 DEF Timed, ResultTimed, HandDone
<1>14. u.settings \in u.bounds.settings
  BY <1>6 DEF TableInv
<1>15. Noted(u) => TableInv(u)
  BY <1>5, <1>7, <1>9, <1>10, <1>11, <1>12, <1>13, <1>14 DEF TableInv
<1>16. Noted(u) => Goes(u, c)
  BY <1>6, <1>7, <1>15, <1>20, <1>21, QuietStep
<1>17. ASSUME q.status = "active" /\ q.chips => c.pl[s].status = "active" /\ c.pl[s].chips
       PROVE  Noted(u)
  <2>1. Eligible(u) \subseteq Eligible(c)
    BY <1>4, <1>5, <1>17 DEF Eligible
  <2>2. IsFiniteSet(Eligible(c)) /\ Eligible(c) \in SUBSET Seats
    BY SeatsFinite DEF Eligible
  <2>3. Cardinality(Eligible(u)) <= Cardinality(Eligible(c))
    BY <2>1, <2>2, FS_Subset
  <2>4. Cardinality(Eligible(u)) \in Int /\ Cardinality(Eligible(c)) \in Int
    BY <2>1, <2>2, SeatsFinite
  <2> QED BY <1>6, <2>3, <2>4 DEF TableInv, Noted
<1>18. CASE c.hand = NoHand
  <2>1. Idle(c) /\ c.timer.kind \in {"none", "start"}
    BY <1>18, IdleInv
  <2>2. Idle(u)
    BY <1>5, <1>6, <1>7, <1>14, <2>1 DEF Idle
  <2>3. PICK w : w = ScheduleStart(u)
    OBVIOUS
  <2>4. TableInv(w) /\ w.pl = u.pl /\ w.hand = u.hand
    BY <1>6, <2>1, <2>2, <2>3, ScheduleStartFacts
  <2>5. BankKept(w, c) /\ w.hand = NoHand
    BY <1>6, <1>7, <1>18, <2>4 DEF BankKept
  <2>6. Goes(w, c)
    BY <1>18, <2>4, <2>5, HandGone, QuietStep DEF Timed
  <2> QED BY <1>16, <1>17, <2>3, <2>6
<1>19. CASE c.hand # NoHand
  <2>1. ScheduleStart(u) = u /\ Noted(u)
    BY <1>6, <1>19, NoStartNow DEF Noted
  <2> QED BY <1>16, <2>1
<1> QED BY <1>18, <1>19

-----------------------------------------------------------------------------
(* Ending and clearing *)

\* The table without its hand.
LEMMA OutOfHandFacts ==
  ASSUME NEW u \in Table, u.settings \in u.bounds.settings,
         \A s \in Seats : PlayerSound(u.pl[s]) /\ ~u.pl[s].leaving,
         u.votes # NoVote => \E r \in u.bounds.settings : r.runItTwice
  PROVE  LET v == OutOfHand(u)
         IN  /\ v \in Table /\ v.hand = NoHand
             /\ v.bounds = u.bounds /\ v.state = u.state /\ v.settings = u.settings
             /\ v.timer = u.timer /\ v.startPending = u.startPending
             /\ v.endAfterHand = u.endAfterHand /\ v.votes = u.votes
             /\ v.sitOutPending = u.sitOutPending /\ v.pendingChips = u.pendingChips
             /\ \A s \in Seats :
                  /\ PlayerSound(v.pl[s]) /\ ~v.pl[s].inHand /\ ~v.pl[s].leaving
                  /\ v.pl[s].bank = u.pl[s].bank /\ v.pl[s].missed = u.pl[s].missed
<1>1. PICK pl : pl = [s \in Seats |-> [u.pl[s] EXCEPT !.inHand = FALSE]]
  OBVIOUS
<1>2. ASSUME NEW s \in Seats
      PROVE  /\ pl[s] \in Player /\ PlayerSound(pl[s]) /\ ~pl[s].inHand
             /\ ~pl[s].leaving /\ pl[s].bank = u.pl[s].bank
             /\ pl[s].missed = u.pl[s].missed
  <2>1. PICK p \in Player : p = u.pl[s]
    BY DEF Table
  <2>2. PICK q : q = [p EXCEPT !.inHand = FALSE]
    OBVIOUS
  <2>3. /\ q \in Player /\ q.status = p.status /\ q.chips = p.chips /\ q.bank = p.bank
        /\ q.inHand = FALSE /\ q.leaving = p.leaving /\ q.missed = p.missed
    BY <2>2 DEF Player
  <2>4. pl[s] = q
    BY <1>1, <2>1, <2>2
  <2> QED BY <2>1, <2>3, <2>4 DEF PlayerSound
<1>3. PICK v : v = [u EXCEPT !.hand = NoHand, !.pl = pl]
  OBVIOUS
<1>4. pl \in [Seats -> Player]
  BY <1>1, <1>2
<1>5. PICK a : a = [u EXCEPT !.hand = NoHand]
  OBVIOUS
<1>6. a \in Table /\ a.hand = NoHand
  BY <1>5 DEF Table
<1>7. v = [a EXCEPT !.pl = pl]
  BY <1>3, <1>5 DEF Table
<1>8. v \in Table /\ v.hand = NoHand /\ v.pl = pl
  BY <1>4, <1>6, <1>7 DEF Table
<1>9. /\ v.bounds = u.bounds /\ v.state = u.state /\ v.settings = u.settings
      /\ v.timer = u.timer /\ v.startPending = u.startPending
      /\ v.endAfterHand = u.endAfterHand /\ v.votes = u.votes
      /\ v.sitOutPending = u.sitOutPending /\ v.pendingChips = u.pendingChips
  BY <1>3 DEF Table
<1>10. OutOfHand(u) = v
  BY <1>1, <1>3 DEF OutOfHand
<1> QED BY <1>2, <1>8, <1>9, <1>10

\* An ended table has no hand, no timer, and nobody on the way out.
LEMMA EndTableFacts ==
  ASSUME NEW u \in Table, u.settings \in u.bounds.settings,
         \A s \in Seats : PlayerSound(u.pl[s]) /\ ~u.pl[s].leaving,
         u.votes # NoVote => \E r \in u.bounds.settings : r.runItTwice
  PROVE  /\ TableInv(EndTable(u)) /\ EndTable(u).state = "ended"
         /\ \A s \in Seats : EndTable(u).pl[s].missed = u.pl[s].missed
<1>1. PICK a : a = OutOfHand(u)
  OBVIOUS
<1>2. /\ a \in Table /\ a.hand = NoHand
      /\ a.bounds = u.bounds /\ a.settings = u.settings /\ a.votes = u.votes
      /\ \A s \in Seats : /\ PlayerSound(a.pl[s]) /\ ~a.pl[s].inHand /\ ~a.pl[s].leaving
                          /\ a.pl[s].missed = u.pl[s].missed
  BY <1>1, OutOfHandFacts
<1>3. PICK b : b = [a EXCEPT !.state = "ended"]
  OBVIOUS
<1>4. /\ b \in Table /\ b.hand = NoHand /\ b.state = "ended" /\ b.pl = a.pl
      /\ b.bounds = a.bounds /\ b.settings = a.settings /\ b.votes = a.votes
  BY <1>2, <1>3 DEF Table, States
<1>5. PICK v : v = CancelTimer(b)
  OBVIOUS
<1>6. v \in Table /\ SameButTimer(v, b) /\ v.timer.kind = "none"
  BY <1>4, <1>5, CancelFacts
<1>7. Idle(v) /\ v.state = "ended"
  BY <1>2, <1>4, <1>6 DEF Idle, SameButTimer
<1>8. TableInv(v)
  BY <1>6, <1>7, IdleInv DEF Noted
<1>9. \A s \in Seats : v.pl[s].missed = u.pl[s].missed
  BY <1>2, <1>4, <1>6 DEF SameButTimer
<1> QED BY <1>1, <1>3, <1>5, <1>7, <1>8, <1>9 DEF EndTable

\* A hand that is voided: everybody dealt in has chips again.
LEMMA VoidHandFacts ==
  ASSUME NEW c, TableInv(c), HandInProgress(c)
  PROVE  LET v == VoidHand(c)
         IN  /\ v \in Table /\ v.settings \in v.bounds.settings
             /\ \A s \in Seats : /\ PlayerSound(v.pl[s]) /\ ~v.pl[s].leaving
                                 /\ v.pl[s].missed \in {c.pl[s].missed, 0}
             /\ v.votes # NoVote => \E r \in v.bounds.settings : r.runItTwice
<1> DEFINE L == {s \in Seats : c.pl[s].leaving}
<1>1. PICK pl : pl = [s \in Seats |-> IF s \in c.hand.dealt THEN Voided(c.pl[s])
                                                              ELSE c.pl[s]]
  OBVIOUS
<1>2. c \in Table /\ c.settings \in c.bounds.settings
  BY DEF TableInv
<1>3. ASSUME NEW s \in Seats
      PROVE  /\ pl[s] \in Player /\ PlayerSound(pl[s])
             /\ pl[s].leaving = c.pl[s].leaving /\ pl[s].missed = c.pl[s].missed
  <2>1. PICK p \in Player : p = c.pl[s]
    BY <1>2 DEF Table
  <2>2. PlayerSound(p) /\ (s \in c.hand.dealt => HeldIn(p))
    BY <2>1 DEF TableInv, HandHeld
  <2>3. CASE s \notin c.hand.dealt
    BY <1>1, <2>1, <2>2, <2>3
  <2>4. CASE s \in c.hand.dealt
    <3>1. PICK q : q = [p EXCEPT !.chips = TRUE, !.inHand = FALSE, !.pre = FALSE]
      OBVIOUS
    <3>2. /\ q \in Player /\ q.status = p.status /\ q.chips = TRUE
          /\ q.leaving = p.leaving /\ q.missed = p.missed
      BY <3>1 DEF Player
    <3>3. PlayerSound(q)
      BY <2>2, <2>4, <3>2 DEF PlayerSound, HeldIn
    <3>4. pl[s] = q
      BY <1>1, <2>1, <2>4, <3>1 DEF Voided
    <3> QED BY <2>1, <3>2, <3>3, <3>4
  <2> QED BY <2>3, <2>4
<1>4. pl \in [Seats -> Player]
  BY <1>1, <1>3
<1>5. PICK a : a = [c EXCEPT !.hand = NoHand]
  OBVIOUS
<1>6. PICK b : b = [a EXCEPT !.pl = pl]
  OBVIOUS
<1>7. b = [c EXCEPT !.hand = NoHand, !.pl = pl]
  BY <1>2, <1>5, <1>6 DEF Table
<1>8. /\ a \in Table /\ a.bounds = c.bounds /\ a.settings = c.settings /\ a.votes = c.votes
  BY <1>2, <1>5 DEF Table
<1>9. /\ b \in Table /\ b.pl = pl
      /\ b.bounds = c.bounds /\ b.settings = c.settings /\ b.votes = c.votes
  BY <1>4, <1>6, <1>8 DEF Table
<1>10. PICK d : d = CancelTimer(b)
  OBVIOUS
<1>11. d \in Table /\ SameButTimer(d, b)
  BY <1>9, <1>10, CancelFacts
<1>12. PICK v : v = FreeSeats(d, L)
  OBVIOUS
<1>13. /\ v \in Table /\ SameCourse(v, d)
       /\ \A s \in Seats : v.pl[s] = IF s \in L THEN Empty ELSE d.pl[s]
  BY <1>11, <1>12, FreeSeatsFacts
<1>14. VoidHand(c) = v
  BY <1>1, <1>7, <1>10, <1>12 DEF VoidHand
<1>15. \A s \in Seats : /\ PlayerSound(v.pl[s]) /\ ~v.pl[s].leaving
                        /\ v.pl[s].missed \in {c.pl[s].missed, 0}
  BY <1>3, <1>9, <1>11, <1>13, NewPlayers DEF SameButTimer
<1>16. /\ v.settings \in v.bounds.settings
       /\ v.votes # NoVote => \E r \in v.bounds.settings : r.runItTwice
  BY <1>2, <1>9, <1>11, <1>13 DEF SameButTimer, SameCourse, TableInv, VotesFit
<1> QED BY <1>13, <1>14, <1>15, <1>16

\* A result is taken off the table: the table ends, or goes on.
LEMMA ClearHandStep ==
  ASSUME NEW c, TableInv(c), HandDone(c),
         NEW u \in Table, SameButTimer(u, c), u.timer.kind = "none",
         NEW v \in ClearHand(u)
  PROVE  Goes(v, c)
<1>1. /\ ~HandInProgress(c) /\ BetweenHands(c) /\ c.hand # NoHand /\ c.state # "ended"
  BY DEF HandInProgress, HandDone, BetweenHands, TableInv, NoHandLeft
<1>2. /\ \A s \in Seats : PlayerSound(u.pl[s]) /\ ~u.pl[s].leaving
      /\ u.sitOutPending = {} /\ u.pendingChips = {}
      /\ u.settings \in u.bounds.settings
      /\ u.votes # NoVote => \E r \in u.bounds.settings : r.runItTwice
  BY <1>1 DEF TableInv, PutOff, VotesFit, SameButTimer
<1>3. PICK a : a = OutOfHand(u)
  OBVIOUS
<1>4. /\ a \in Table /\ a.hand = NoHand /\ a.bounds = u.bounds /\ a.state = u.state
      /\ a.settings = u.settings /\ a.timer = u.timer
      /\ a.endAfterHand = u.endAfterHand
      /\ a.sitOutPending = {} /\ a.pendingChips = {}
      /\ \A s \in Seats : /\ PlayerSound(a.pl[s]) /\ ~a.pl[s].inHand /\ ~a.pl[s].leaving
                          /\ a.pl[s].bank = u.pl[s].bank /\ a.pl[s].missed = u.pl[s].missed
  BY <1>2, <1>3, OutOfHandFacts
<1>5. PICK b : b = [a EXCEPT !.votes = NoVote]
  OBVIOUS
<1>6. NoVote \in (SUBSET Seats) \cup {NoVote}
  OBVIOUS
<1>7. /\ b \in Table /\ b.hand = NoHand /\ b.bounds = u.bounds /\ b.state = u.state
      /\ b.settings = u.settings /\ b.timer = u.timer /\ b.votes = NoVote
      /\ b.endAfterHand = u.endAfterHand
      /\ b.sitOutPending = {} /\ b.pendingChips = {} /\ b.pl = a.pl
  BY <1>4, <1>5, <1>6 DEF Table
<1>8. PICK d : d = [b EXCEPT !.ritDecided = FALSE, !.bankUsing = FALSE]
  OBVIOUS
<1>9. /\ d \in Table /\ d.hand = NoHand /\ d.bounds = u.bounds /\ d.state = u.state
      /\ d.settings = u.settings /\ d.timer = u.timer /\ d.votes = NoVote
      /\ d.endAfterHand = u.endAfterHand
      /\ d.sitOutPending = {} /\ d.pendingChips = {} /\ d.pl = a.pl
  BY <1>7, <1>8 DEF Table
<1>10. d = [a EXCEPT !.votes = NoVote, !.ritDecided = FALSE, !.bankUsing = FALSE]
  BY <1>4, <1>5, <1>8 DEF Table
<1>11. v \in IF u.endAfterHand THEN {EndTable([d EXCEPT !.endAfterHand = FALSE])}
             ELSE MaybeStartHand(d)
  BY <1>3, <1>10 DEF ClearHand
<1>12. CASE u.endAfterHand
  <2>1. PICK e : e = [d EXCEPT !.endAfterHand = FALSE]
    OBVIOUS
  <2>2. /\ e \in Table /\ e.settings = d.settings /\ e.bounds = d.bounds /\ e.pl = d.pl
        /\ e.votes = d.votes
    BY <1>9, <2>1 DEF Table
  <2>3. v = EndTable(e)
    BY <1>11, <1>12, <2>1
  <2>4. /\ TableInv(v) /\ v.state = "ended"
        /\ \A s \in Seats : v.pl[s].missed = e.pl[s].missed
    BY <1>2, <1>4, <1>9, <2>2, <2>3, EndTableFacts
  <2>5. \A s \in Seats : v.pl[s].missed = c.pl[s].missed
    BY <1>4, <1>9, <2>2, <2>4 DEF SameButTimer
  <2> QED BY <1>1, <2>4, <2>5, EndingStep
<1>13. CASE ~u.endAfterHand
  <2>1. Idle(d) /\ d.timer.kind \in {"none", "start"}
    BY <1>2, <1>4, <1>9, <1>13 DEF Idle
  <2>2. v \in MaybeStartHand(d)
    BY <1>11, <1>13
  <2>3. /\ TableInv(v) /\ BankKept(v, d)
        /\ v = d \/ (v.state = "running" /\ v.hand # NoHand /\ Fresh(v))
    BY <2>1, <2>2, MaybeStartHandFacts
  <2>4. EndsWell(v, c)
    BY <1>1, <1>9, <1>13, <2>3 DEF EndsWell, HandInProgress, SameButTimer
  <2>5. BankKept(v, c)
    BY <1>4, <1>9, <2>3 DEF BankKept, SameButTimer
  <2>6. BankRuns(v) /\ ResultTimed(v)
    BY <1>9, <2>3, FreshFacts, HandGone
  <2>7. Charges(v, c) /\ Timed(v, c)
    BY <2>5, <2>6, NotCharged DEF Timed
  <2> QED BY <2>3, <2>4, <2>7 DEF Goes
<1> QED BY <1>12, <1>13

-----------------------------------------------------------------------------
(* Timer callbacks *)

\* A step that only arms, cancels or counts.
SameAround(v, u) ==
  /\ v.bounds = u.bounds /\ v.state = u.state /\ v.settings = u.settings
  /\ v.pl = u.pl /\ v.hand = u.hand /\ v.endAfterHand = u.endAfterHand
  /\ v.votes = u.votes /\ v.sitOutPending = u.sitOutPending
  /\ v.pendingChips = u.pendingChips

\* It keeps the invariant when the timer still fits.
LEMMA TimerStep ==
  ASSUME NEW c, TableInv(c), NEW v \in Table, SameAround(v, c), TimerHeld(v),
         v.startPending = c.startPending \/ c.hand # NoHand,
         BankRuns(c) => BankRuns(v), Timed(v, c)
  PROVE  Goes(v, c)
<1>1. /\ InHand(v) = InHand(c) /\ Eligible(v) = Eligible(c)
      /\ HandInProgress(v) = HandInProgress(c) /\ BetweenHands(v) = BetweenHands(c)
  BY SamePlayers DEF SameAround, HandInProgress, BetweenHands
<1>2. HandHeld(v)
  BY <1>1 DEF TableInv, HandHeld, SameAround
<1>3. PutOff(v)
  BY <1>1 DEF TableInv, PutOff, SameAround
<1>4. NoHandLeft(v)
  BY <1>1 DEF TableInv, NoHandLeft, SameAround
<1>5. Noted(v)
  BY <1>1 DEF TableInv, Noted, SameAround
<1>6. /\ v.settings \in v.bounds.settings
      /\ \A s \in Seats : PlayerSound(v.pl[s])
  BY DEF TableInv, SameAround
<1>7. VotesFit(v)
  BY DEF TableInv, VotesFit, SameAround
<1>8. TableInv(v)
  BY <1>2, <1>3, <1>4, <1>5, <1>6, <1>7 DEF TableInv
<1>9. BankKept(v, c) /\ v.hand = c.hand
  BY DEF BankKept, SameAround
<1> QED BY <1>8, <1>9, QuietStep

\* A callback that finds nothing to do: the hand ended under a vote.
LEMMA SpentStep ==
  ASSUME NEW c, TableInv(c), c.hand # NoHand, c.hand.phase = "result",
         ~ResultTimed(c), NEW v \in Table, SameAround(v, c)
  PROVE  Goes(v, c)
<1>1. TimerHeld(v) /\ BankRuns(v)
  BY DEF TimerHeld, SameAround, BankRuns, Betting
<1>2. Timed(v, c)
  BY DEF Timed
<1> QED BY <1>1, <1>2, TimerStep

\* A vote is over.
LEMMA ResolveStep ==
  ASSUME NEW c, TableInv(c), c.hand # NoHand, c.votes # NoVote,
         NEW u \in Table, SameTable(u, c), u.pl = c.pl, u.hand = c.hand,
         u.startPending = c.startPending, u.endAfterHand = c.endAfterHand,
         u.sitOutPending = c.sitOutPending, u.pendingChips = c.pendingChips,
         u.votes # NoVote, NEW agreed \in BOOLEAN
  PROVE  Goes(ResolveRunTwice(u, agreed), c)
<1>1. PICK h : h = IF agreed /\ CanRunItTwice(u.hand) THEN RanTwice(u.hand) ELSE u.hand
  OBVIOUS
<1>2. PICK a : a = [u EXCEPT !.votes = NoVote]
  OBVIOUS
<1>3. PICK b : b = [a EXCEPT !.ritDecided = TRUE, !.hand = h]
  OBVIOUS
<1>4. PICK v : v = Schedule(b, "deal")
  OBVIOUS
<1>5. c.hand \in HandView /\ c.hand.phase \in {"deal_pending", "result"}
  BY TableParts DEF TableInv, VotesFit
<1>6. /\ h \in HandView /\ h.phase = c.hand.phase /\ h.dealt = c.hand.dealt
      /\ h.street >= c.hand.street
      /\ c.hand.phase # "result" => HandSound(h) /\ Turns(h) \subseteq Turns(c.hand)
  <2>1. CASE ~(agreed /\ CanRunItTwice(u.hand))
    <3>1. h = c.hand
      BY <1>1, <2>1
    <3>2. c.hand.phase # "result" => HandSound(c.hand)
      BY DEF TableInv, HandHeld, HandInProgress
    <3> QED BY <1>5, <3>1, <3>2 DEF HandView
  <2>2. CASE agreed /\ CanRunItTwice(u.hand)
    <3>1. h = RanTwice(c.hand) /\ c.hand.phase = "deal_pending"
      BY <1>1, <2>2 DEF CanRunItTwice
    <3>2. HandSound(c.hand)
      BY <3>1 DEF TableInv, HandHeld, HandInProgress
    <3>3. Within(h, c.hand.dealt, c.hand.street, {}) /\ h.phase = "deal_pending"
      BY <2>2, <3>1, <3>2, RanTwiceFacts
    <3> QED BY <3>1, <3>3 DEF Within, HandSound
  <2> QED BY <2>1, <2>2
<1>7. NoVote \in (SUBSET Seats) \cup {NoVote}
  OBVIOUS
<1>8. /\ a \in Table /\ a.votes = NoVote
      /\ SameTable(a, u) /\ a.pl = u.pl
      /\ a.startPending = u.startPending /\ a.endAfterHand = u.endAfterHand
      /\ a.sitOutPending = u.sitOutPending /\ a.pendingChips = u.pendingChips
  BY <1>2, <1>7 DEF Table, SameTable
<1>9. /\ b \in Table /\ b.votes = NoVote /\ b.hand = h
      /\ SameTable(b, u) /\ b.pl = u.pl
      /\ b.startPending = u.startPending /\ b.endAfterHand = u.endAfterHand
      /\ b.sitOutPending = u.sitOutPending /\ b.pendingChips = u.pendingChips
  BY <1>3, <1>6, <1>8 DEF Table, SameTable
<1>10. v \in Table /\ SameButTimer(v, b) /\ v.timer.kind = "deal"
  BY <1>4, <1>9, ScheduleFacts DEF Kinds
<1>11. ResolveRunTwice(u, agreed) = v
  <2>1. b = [u EXCEPT !.votes = NoVote, !.ritDecided = TRUE, !.hand = h]
    BY <1>2, <1>3 DEF Table
  <2>2. b = [u EXCEPT !.votes = NoVote, !.ritDecided = TRUE,
                      !.hand = IF agreed /\ CanRunItTwice(@) THEN RanTwice(@) ELSE @]
    BY <1>1, <2>1
  <2> QED BY <1>4, <2>2 DEF ResolveRunTwice
<1>12. /\ SameTable(v, c) /\ v.pl = c.pl /\ v.hand = h /\ v.votes = NoVote
       /\ v.startPending = c.startPending /\ v.endAfterHand = c.endAfterHand
       /\ v.sitOutPending = c.sitOutPending /\ v.pendingChips = c.pendingChips
  BY <1>9, <1>10 DEF SameTable, SameButTimer
<1>13. h # NoHand
  BY <1>6, HandKinds
<1>14. /\ HandInProgress(v) = HandInProgress(c) /\ BetweenHands(v) = BetweenHands(c)
       /\ InHand(v) = InHand(c)
  BY <1>6, <1>12, <1>13, SamePlayers DEF HandInProgress, BetweenHands
<1>15. HandHeld(v)
  <2>1. ASSUME HandInProgress(v)
        PROVE  /\ HandSound(v.hand) /\ InHand(v) = v.hand.dealt
               /\ \A s \in v.hand.dealt : HeldIn(v.pl[s])
               /\ \A s \in Turns(v.hand) : Playable(v.pl[s])
               /\ v.sitOutPending \subseteq v.hand.dealt
    BY <2>1, <1>6, <1>12, <1>14 DEF TableInv, HandHeld, HandInProgress
  <2> QED BY <2>1 DEF HandHeld
<1>16. PutOff(v)
  BY <1>12, <1>13, <1>14 DEF TableInv, PutOff, SameTable
<1>17. NoHandLeft(v) /\ Noted(v) /\ VotesFit(v)
  BY <1>12, <1>13 DEF TableInv, NoHandLeft, Noted, VotesFit, SameTable
<1>18. TimerHeld(v)
  BY <1>5, <1>6, <1>10, <1>12, <1>13 DEF TimerHeld
<1>19. v.settings \in v.bounds.settings /\ \A s \in Seats : PlayerSound(v.pl[s])
  BY <1>12 DEF TableInv, SameTable
<1>20. TableInv(v)
  BY <1>10, <1>15, <1>16, <1>17, <1>18, <1>19 DEF TableInv
<1>21. EndsWell(v, c)
  BY <1>6, <1>12, <1>13, <1>14 DEF EndsWell, HandInProgress, HandDone
<1>22. Charges(v, c)
  <2>1. BankKept(v, c)
    BY <1>12 DEF BankKept
  <2>2. BankRuns(v)
    BY <1>5, <1>6, <1>12 DEF BankRuns, Betting
  <2> QED BY <2>1, <2>2, NotCharged
<1>23. Timed(v, c)
  BY <1>5, <1>6, <1>12 DEF Timed, VoteInHand, ResultTimed, HandDone
<1> QED BY <1>11, <1>20, <1>21, <1>22, <1>23 DEF Goes

\* What the engine does under an open vote ends the hand or runs it on.
LEMMA ForfeitFits ==
  ASSUME NEW g \in HandView, g.phase = "deal_pending", g.runout = TRUE, NEW s,
         NEW h \in Forfeited(g, s)
  PROVE  h.phase \in {"deal_pending", "result"} /\ (h.phase = "deal_pending" => h.runout)
<1>1. CASE h = g
  BY <1>1
<1> DEFINE f == [g EXCEPT !.live = @ \ {s}]
<1>2. f \in HandView /\ f.phase = "deal_pending" /\ f.runout = TRUE
  BY DEF HandView
<1> HIDE DEF f
<1>3. CASE h = f
  BY <1>2, <1>3
<1>4. CASE h \in Uncontested(f)
  <2>1. PICK u \in UncalledBack(f) :
          h = [u EXCEPT !.phase = "result", !.toAct = NoSeat, !.broke = u.allIn \ u.live]
    BY <1>4 DEF Uncontested
  <2>2. u \in HandView
    BY <1>2, <2>1, UncalledFacts
  <2> QED BY <2>1, <2>2 DEF HandView
<1> QED BY <1>1, <1>3, <1>4 DEF Forfeited, f

\* The next street of a run-out, or its end, fits an open vote.
LEMMA AdvanceFits ==
  ASSUME NEW g \in HandView, g.phase = "deal_pending", g.runout = TRUE,
         NEW h \in Advanced(g)
  PROVE  h.phase \in {"deal_pending", "result"} /\ (h.phase = "deal_pending" => h.runout)
<1>1. PICK d : d = [g EXCEPT !.street = @ + 1]
  OBVIOUS
<1>2. CASE h = d
  BY <1>1, <1>2 DEF HandView
<1>3. CASE h \in Awarded(d)
  BY <1>1, <1>3 DEF Awarded, HandView
<1> QED BY <1>1, <1>2, <1>3 DEF Advanced

\* The next street, or the end of a run-out.
LEMMA AdvanceStep ==
  ASSUME NEW c, TableInv(c), c.timer.kind = "deal",
         NEW u \in Table, SameButTimer(u, c), NEW v \in AdvanceHand(u)
  PROVE  Goes(v, c)
<1>1. /\ c.hand # NoHand /\ c.hand \in HandView
      /\ c.hand.phase \in {"deal_pending", "result"}
  <2>1. c.hand # NoHand /\ c.hand \in HandView
    BY TableParts DEF TableInv, TimerHeld
  <2>2. c.hand.phase \in Phases
    BY <2>1, HandKinds
  <2> QED BY <2>1, <2>2 DEF TableInv, TimerHeld, Phases
<1>2. CASE c.hand.phase = "result"
  <2>1. v = u
    BY <1>2 DEF AdvanceHand, SameButTimer
  <2>2. ~ResultTimed(c)
    BY <1>1, <1>2 DEF ResultTimed, HandDone
  <2> QED BY <1>1, <1>2, <2>1, <2>2, SpentStep DEF SameButTimer, SameAround
<1>3. CASE c.hand.phase = "deal_pending"
  <2>1. HandInProgress(c) /\ HandSound(c.hand) /\ c.state # "ended"
    BY <1>1, <1>3 DEF HandInProgress, TableInv, HandHeld, NoHandLeft
  <2>2. v \in AfterEngine(u, Advanced(c.hand))
    BY <1>1, <1>3 DEF AdvanceHand, SameButTimer
  <2>3. c.votes # NoVote => c.hand.runout
    BY <1>1, <1>3 DEF TableInv, VotesFit
  <2>4. Ready(u, c.hand.dealt) /\ Turns(c.hand) \subseteq Playing(u)
    <3>1. InHand(u) = InHand(c)
      BY SamePlayers DEF SameButTimer
    <3>2. Turns(c.hand) \subseteq Seats
      BY <2>1 DEF Turns, Active, HandSound, HandView
    <3> QED BY <2>1, <2>3, <3>1, <3>2
            DEF Ready, Playing, SameButTimer, TableInv, HandHeld, PutOff, VotesFit
  <2>5. ASSUME NEW g \in Advanced(c.hand)
        PROVE  Within(g, c.hand.dealt, c.hand.street, Playing(u)) /\ FitsVote(g, u)
    <3>1. Within(g, c.hand.dealt, c.hand.street, Playing(u))
      BY <1>3, <2>1, <2>4, AdvancedFacts
    <3>2. c.hand.runout \in BOOLEAN
      BY <1>1 DEF HandView
    <3>3. FitsVote(g, u)
      BY <1>1, <1>3, <2>3, <3>2, AdvanceFits DEF FitsVote, SameButTimer
    <3> QED BY <3>1, <3>3
  <2>6. \A s \in Seats : u.pl[s] = c.pl[s]
    BY DEF SameButTimer
  <2> QED BY <2>1, <2>2, <2>4, <2>5, <2>6, EngineStep DEF SameButTimer, SameTable
<1> QED BY <1>1, <1>2, <1>3

\* One hand of the showdown after the other.
LEMMA RevealingStep ==
  ASSUME NEW c, TableInv(c), c.timer.kind = "reveal",
         NEW u \in Table, SameButTimer(u, c), NEW v \in RevealStep(u)
  PROVE  Goes(v, c)
<1>1. /\ c.hand # NoHand /\ c.hand \in HandView
      /\ c.hand.phase \in {"showdown", "result"}
  <2>1. c.hand # NoHand /\ c.hand \in HandView
    BY TableParts DEF TableInv, TimerHeld
  <2>2. c.hand.phase \in Phases
    BY <2>1, HandKinds
  <2> QED BY <2>1, <2>2 DEF TableInv, TimerHeld, Phases
<1>2. CASE c.hand.phase = "result"
  <2>1. v = u
    BY <1>2 DEF RevealStep, SameButTimer
  <2>2. ~ResultTimed(c)
    BY <1>1, <1>2 DEF ResultTimed, HandDone
  <2> QED BY <1>1, <1>2, <2>1, <2>2, SpentStep DEF SameButTimer, SameAround
<1>3. CASE c.hand.phase = "showdown"
  <2>1. HandInProgress(c) /\ HandSound(c.hand) /\ c.state # "ended"
    BY <1>1, <1>3 DEF HandInProgress, TableInv, HandHeld, NoHandLeft
  <2>2. v \in AfterEngine(u, Revealed(c.hand))
    BY <1>1, <1>3 DEF RevealStep, SameButTimer
  <2>3. c.votes = NoVote
    BY <1>1, <1>3 DEF TableInv, VotesFit
  <2>4. Ready(u, c.hand.dealt)
    <3>1. InHand(u) = InHand(c)
      BY SamePlayers DEF SameButTimer
    <3> QED BY <2>1, <2>3, <3>1
            DEF Ready, SameButTimer, TableInv, HandHeld, PutOff
  <2>5. ASSUME NEW g \in Revealed(c.hand)
        PROVE  Within(g, c.hand.dealt, c.hand.street, Playing(u)) /\ FitsVote(g, u)
    <3>1. Within(g, c.hand.dealt, c.hand.street, Playing(u))
      BY <1>3, <2>1, RevealedFacts
    <3> QED BY <2>3, <3>1 DEF FitsVote, SameButTimer
  <2>6. \A s \in Seats : u.pl[s] = c.pl[s]
    BY DEF SameButTimer
  <2> QED BY <2>1, <2>2, <2>4, <2>5, <2>6, EngineStep DEF SameButTimer, SameTable
<1> QED BY <1>1, <1>2, <1>3

\* A player's clock runs out: the time bank opens, or the hand goes on.
LEMMA LateFacts ==
  ASSUME NEW p \in Player, NEW using \in BOOLEAN
  PROVE  LET q == Missed(IF using THEN OffBank(p) ELSE p)
         IN  /\ q \in Player /\ q.status = p.status /\ q.chips = p.chips
             /\ q.inHand = p.inHand /\ q.leaving = p.leaving
             /\ p.bank => q.bank \/ using
             /\ q.usedBank = p.usedBank /\ (using => ~q.bank)
             /\ q.missed \in {p.missed, p.missed + 1}
<1>1. PICK a : a = IF using THEN OffBank(p) ELSE p
  OBVIOUS
<1>2. /\ a \in Player /\ a.status = p.status /\ a.chips = p.chips
      /\ a.inHand = p.inHand /\ a.leaving = p.leaving
      /\ p.bank => a.bank \/ using
      /\ a.usedBank = p.usedBank /\ (using => ~a.bank) /\ a.missed = p.missed
  <2>1. CASE using
    <3>1. a = [p EXCEPT !.bank = FALSE]
      BY <1>1, <2>1 DEF OffBank
    <3> QED BY <2>1, <3>1 DEF Player
  <2>2. CASE ~using
    BY <1>1, <2>2
  <2> QED BY <2>1, <2>2
<1>3. PICK m : m = IF a.missed < SitOutAfter THEN a.missed + 1 ELSE a.missed
  OBVIOUS
<1>4. PICK q : q = [a EXCEPT !.missed = m]
  OBVIOUS
<1>5. m \in 0 .. SitOutAfter
  BY <1>2, <1>3, BoundsAssumption DEF Player
<1>6. /\ q \in Player /\ q.status = a.status /\ q.chips = a.chips
      /\ q.inHand = a.inHand /\ q.leaving = a.leaving /\ q.bank = a.bank
      /\ q.usedBank = a.usedBank /\ q.missed = m
  BY <1>2, <1>4, <1>5 DEF Player
<1>7. Missed(a) = q
  BY <1>3, <1>4 DEF Missed
<1> QED BY <1>1, <1>2, <1>3, <1>6, <1>7

\* The callback of a turn, with the time bank or without.
LEMMA TimeoutStep ==
  ASSUME NEW c, TableInv(c), c.timer.kind = "turn",
         NEW u, u = [c EXCEPT !.timer = NoTimer],
         NEW v \in OnTurnTimeout(u, c.timer.seat)
  PROVE  Goes(v, c)
<1>0. u \in Table /\ SameButTimer(u, c) /\ c \in Table
  BY DEF TableInv, SameButTimer, Table, Timer
<1>1. /\ c.hand # NoHand /\ c.hand \in HandView
      /\ c.hand.phase \in {"betting", "result"}
  <2>1. c.hand # NoHand /\ c.hand \in HandView
    BY TableParts DEF TableInv, TimerHeld
  <2>2. c.hand.phase \in Phases
    BY <2>1, HandKinds
  <2> QED BY <2>1, <2>2 DEF TableInv, TimerHeld, Phases
<1>2. CASE c.hand.phase = "result"
  <2>1. v = u
    BY <1>0, <1>2 DEF OnTurnTimeout, Betting, SameButTimer
  <2>2. ~ResultTimed(c)
    BY <1>1, <1>2 DEF ResultTimed, HandDone
  <2> QED BY <1>0, <1>1, <1>2, <2>1, <2>2, SpentStep DEF SameButTimer, SameAround
<1>3. CASE c.hand.phase = "betting"
  <2> DEFINE s == c.timer.seat
             g == c.hand
  <2>1. HandInProgress(c) /\ HandSound(g) /\ c.state # "ended" /\ Betting(c) /\ Betting(u)
    BY <1>0, <1>1, <1>3 DEF HandInProgress, TableInv, HandHeld, NoHandLeft, Betting, SameButTimer
  <2>2. c.timer = [kind |-> "turn", seat |-> g.toAct]
    BY <1>1, <1>3 DEF TableInv, TimerHeld
  <2>3. s = g.toAct /\ s \in Active(g) /\ s \in Seats
    BY <1>3, <2>1, <2>2 DEF HandSound, Active, HandView
  <2>4. PICK p \in Player : p = c.pl[s]
    BY <1>0, <2>3 DEF Table
  <2>5. Turns(g) = Active(g) /\ Playable(p) /\ PlayerSound(p) /\ HeldIn(p) /\ c.votes = NoVote
    <3>1. Turns(g) = Active(g)
      BY <1>3 DEF Turns
    <3>2. Playable(p) /\ PlayerSound(p)
      BY <2>1, <2>3, <2>4, <3>1 DEF TableInv, HandHeld
    <3>3. c.votes = NoVote
      BY <1>1, <1>3 DEF TableInv, VotesFit
    <3> QED BY <3>1, <3>2, <3>3 DEF Playable, HeldIn
  <2>6. /\ u.pl = c.pl /\ u.hand = c.hand /\ u.bankUsing = c.bankUsing
        /\ c.bankUsing \in BOOLEAN /\ u.sitOutPending = c.sitOutPending
    BY <1>0 DEF SameButTimer, Table
  <2> HIDE DEF s
  <2>7. PICK late : late = Missed(IF c.bankUsing THEN OffBank(p) ELSE p)
    OBVIOUS
  <2>8. /\ v \in IF ~c.bankUsing /\ p.connected /\ p.bank
                 THEN {Schedule([u EXCEPT !.bankUsing = TRUE, !.pl[s] = OnBank(p)], "turn")}
                 ELSE AfterEngine([u EXCEPT !.bankUsing = FALSE, !.pl[s] = late,
                                            !.sitOutPending =
                                               IF late.missed >= SitOutAfter
                                               THEN @ \cup {s} ELSE @],
                                  TimedOut(g))
    BY <2>1, <2>3, <2>4, <2>6, <2>7 DEF OnTurnTimeout, s
  <2>9. CASE ~c.bankUsing /\ p.connected /\ p.bank
    <3>1. PICK q : q = [p EXCEPT !.usedBank = TRUE]
      OBVIOUS
    <3>2. /\ q \in Player /\ q.status = p.status /\ q.chips = p.chips /\ q.bank = p.bank
          /\ q.inHand = p.inHand /\ q.leaving = p.leaving
          /\ q.usedBank = TRUE /\ q.missed = p.missed
      BY <3>1 DEF Player
    <3>3. PICK w : w = [c EXCEPT !.pl[s] = q]
      OBVIOUS
    <3>4. /\ PlayerSound(q) /\ q.inHand = c.pl[s].inHand /\ q.leaving = c.pl[s].leaving
          /\ HeldIn(q) /\ Playable(q) /\ (c.pl[s].bank => q.bank)
          /\ q.usedBank /\ q.missed \in {c.pl[s].missed, 0}
          /\ q.status = "active" /\ q.chips => c.pl[s].status = "active" /\ c.pl[s].chips
      BY <2>4, <2>5, <3>2 DEF PlayerSound, HeldIn, Playable
    <3>5. TableInv(w)
      BY <2>3, <3>2, <3>3, <3>4, PlayerChanged DEF Goes
    <3>6. PICK a : a = [u EXCEPT !.bankUsing = TRUE, !.pl[s] = q]
      OBVIOUS
    <3>7. PICK pl : pl = [c.pl EXCEPT ![s] = q]
      OBVIOUS
    <3>8. pl \in [Seats -> Player]
      BY <1>0, <3>2, <3>7 DEF Table
    <3>9. a = [u EXCEPT !.bankUsing = TRUE, !.pl = pl] /\ w = [c EXCEPT !.pl = pl]
      BY <1>0, <2>6, <3>3, <3>6, <3>7 DEF Table
    <3>10. a \in Table /\ a.pl = w.pl /\ SameAround(a, w) /\ a.startPending = w.startPending
           /\ w.timer = c.timer /\ a.hand = c.hand /\ w.hand = c.hand
      BY <1>0, <3>8, <3>9 DEF Table, SameAround, SameButTimer
    <3>11. v = Schedule(a, "turn")
      BY <2>8, <2>9, <3>1, <3>6 DEF OnBank
    <3>12. v \in Table /\ SameButTimer(v, a) /\ v.timer = [kind |-> "turn", seat |-> g.toAct]
      BY <1>1, <3>10, <3>11, ScheduleFacts DEF Kinds
    <3>13. TimerHeld(v)
      BY <1>1, <1>3, <3>10, <3>12 DEF TimerHeld, SameButTimer
    <3>14. SameAround(v, w) /\ v.startPending = w.startPending /\ v.timer.kind = w.timer.kind
      BY <2>2, <3>10, <3>12 DEF SameAround, SameButTimer
    <3>16. v.hand = c.hand /\ v.pl = pl
      BY <1>0, <3>8, <3>9, <3>10, <3>12 DEF SameButTimer, Table
    <3>18. BankRuns(v) /\ ResultTimed(v)
      <4>1. v.pl[s] = q /\ v.hand.toAct = s
        BY <1>0, <2>3, <3>7, <3>16 DEF Table
      <4> QED BY <1>3, <2>9, <3>2, <3>16, <4>1 DEF BankRuns, ResultTimed, HandDone
    <3>15. TableInv(v)
      BY <3>5, <3>12, <3>13, <3>14, <3>18, TimerStep DEF Goes, Timed
    <3>17. BankKept(v, c)
      BY <1>0, <3>4, <3>7, <3>16 DEF Table, BankKept
    <3> QED BY <3>15, <3>16, <3>17, <3>18, QuietStep DEF Timed
  <2>10. CASE ~(~c.bankUsing /\ p.connected /\ p.bank)
    <3>1. /\ late \in Player /\ late.status = p.status /\ late.chips = p.chips
          /\ late.inHand = p.inHand /\ late.leaving = p.leaving
          /\ p.bank => late.bank \/ c.bankUsing
          /\ late.usedBank = p.usedBank /\ (c.bankUsing => ~late.bank)
          /\ late.missed \in {p.missed, p.missed + 1}
      BY <2>6, <2>7, LateFacts
    <3>2. PICK out : out = IF late.missed >= SitOutAfter THEN c.sitOutPending \cup {s}
                           ELSE c.sitOutPending
      OBVIOUS
    <3>3. PICK pl : pl = [c.pl EXCEPT ![s] = late]
      OBVIOUS
    <3>4. PICK w : w = [u EXCEPT !.bankUsing = FALSE, !.pl = pl, !.sitOutPending = out]
      OBVIOUS
    <3>5. v \in AfterEngine(w, TimedOut(g))
      BY <1>0, <2>6, <2>8, <2>10, <3>2, <3>3, <3>4 DEF Table
    <3>6. /\ pl \in [Seats -> Player] /\ c.sitOutPending \subseteq g.dealt
          /\ s \in g.dealt /\ g.dealt \subseteq Seats
      <4>1. pl \in [Seats -> Player]
        BY <1>0, <2>3, <3>1, <3>3 DEF Table
      <4>2. c.sitOutPending \subseteq g.dealt
        BY <2>1 DEF TableInv, HandHeld
      <4>3. s \in g.dealt /\ g.dealt \subseteq Seats
        BY <2>1, <2>3 DEF HandSound, Active, HandView
      <4> QED BY <4>1, <4>2, <4>3
    <3>7. out \subseteq g.dealt /\ out \in SUBSET Seats
      BY <3>2, <3>6
    <3>8. /\ w \in Table /\ SameTable(w, c) /\ w.pl = pl /\ w.votes = c.votes
          /\ w.sitOutPending = out
      BY <1>0, <3>4, <3>6, <3>7 DEF Table, SameTable, SameButTimer
    <3>9. /\ PlayerSound(late) /\ late.inHand = c.pl[s].inHand /\ HeldIn(late)
          /\ Playable(late) /\ (late.leaving => late.inHand)
      BY <2>4, <2>5, <3>1 DEF PlayerSound, HeldIn, Playable
    <3>10. Ready(w, g.dealt) /\ Turns(g) \subseteq Playing(w)
      BY <2>1, <2>3, <2>5, <3>1, <3>3, <3>7, <3>8, <3>9, ReadyAfter
    <3>11. \A h \in TimedOut(g) : Within(h, g.dealt, g.street, Playing(w)) /\ FitsVote(h, w)
      BY <1>3, <2>1, <2>5, <3>8, <3>10, AppliedFacts DEF FitsVote
    <3>12. ASSUME NEW r \in Seats, c.pl[r].bank
           PROVE  w.pl[r].bank \/ BankOpen(c, r)
      <4>1. CASE r # s
        BY <1>0, <3>3, <3>8, <3>12, <4>1 DEF Table
      <4>2. CASE r = s
        BY <1>0, <2>1, <2>3, <2>4, <3>1, <3>3, <3>8, <3>12, <4>2 DEF Table, BankOpen
      <4> QED BY <4>1, <4>2
    <3>13. ASSUME NEW r \in Seats
           PROVE  w.pl[r].missed \in {c.pl[r].missed, 0} \/ Missing(w, c, r)
      <4>1. CASE r # s
        BY <1>0, <3>3, <3>8, <4>1 DEF Table
      <4>2. CASE r = s
        <5>1. w.pl[r] = late /\ c.pl[r] = p
          BY <1>0, <2>3, <2>4, <3>3, <3>8, <4>2 DEF Table
        <5>2. /\ Betting(c) /\ c.hand.toAct = r /\ c.timer = [kind |-> "turn", seat |-> r]
          BY <2>1, <2>2, <2>3, <4>2
        <5>3. p.connected /\ p.bank => c.bankUsing
          BY <2>10
        <5> HIDE DEF g
        <5> QED BY <3>1, <5>1, <5>2, <5>3 DEF Missing
      <4> QED BY <4>1, <4>2
    <3> HIDE DEF g
    <3> QED BY <2>1, <3>5, <3>8, <3>10, <3>11, <3>12, <3>13, EngineStep DEF g
  <2> QED BY <2>9, <2>10
<1> QED BY <1>1, <1>2, <1>3

\* Any timer that goes off.
LEMMA ExpireStep ==
  ASSUME NEW c, TableInv(c), c.timer # NoTimer,
         NEW u, u = [c EXCEPT !.timer = NoTimer], NEW v \in Callback(u, c.timer)
  PROVE  Goes(v, c)
<1>0. /\ u \in Table /\ SameButTimer(u, c) /\ c \in Table /\ u.timer.kind = "none"
  BY DEF TableInv, SameButTimer, Table, Timer, NoTimer
<1>1. c.timer.kind \in Kinds
  BY <1>0 DEF Table, Timer
<1>2. CASE c.timer.kind = "start"
  <2>1. PICK w : w = [u EXCEPT !.startPending = FALSE]
    OBVIOUS
  <2>2. v \in MaybeStartHand(w)
    BY <1>2, <2>1 DEF Callback
  <2>3. w \in Table /\ SameAround(w, c) /\ w.timer.kind = "none" /\ w.pl = c.pl
    BY <1>0, <2>1 DEF Table, SameAround, SameButTimer
  <2>4. CASE c.hand # NoHand
    <3>1. v = w
      BY <2>2, <2>3, <2>4 DEF MaybeStartHand, SameAround
    <3>2. c.hand.phase \in Phases
      BY <1>0, <2>4, HandKinds DEF Table
    <3>3. c.hand.phase = "result" /\ ~ResultTimed(c)
      BY <1>2, <2>4, <3>2 DEF TableInv, TimerHeld, Phases, ResultTimed, HandDone
    <3> QED BY <2>3, <2>4, <3>1, <3>3, SpentStep
  <2>5. CASE c.hand = NoHand
    <3>1. Idle(c)
      BY <2>5, IdleInv
    <3>2. Idle(w)
      BY <2>3, <3>1 DEF Idle, SameAround
    <3>3. /\ TableInv(v) /\ BankKept(v, w)
          /\ v = w \/ (v.state = "running" /\ v.hand # NoHand /\ Fresh(v))
      BY <2>2, <2>3, <3>2, MaybeStartHandFacts
    <3>4. EndsWell(v, c)
      BY <2>3, <2>5, <3>3 DEF EndsWell, HandInProgress, HandDone, SameAround
    <3>5. BankKept(v, c)
      BY <2>3, <3>3 DEF BankKept
    <3>6. BankRuns(v) /\ ResultTimed(v)
      BY <2>3, <2>5, <3>3, FreshFacts, HandGone DEF SameAround
    <3>7. Charges(v, c) /\ Timed(v, c)
      BY <3>5, <3>6, NotCharged DEF Timed
    <3> QED BY <3>3, <3>4, <3>7 DEF Goes
  <2> QED BY <2>4, <2>5
<1>3. CASE c.timer.kind = "turn"
  <2>1. v \in OnTurnTimeout(u, c.timer.seat)
    BY <1>3 DEF Callback
  <2> QED BY <1>3, <2>1, TimeoutStep
<1>4. CASE c.timer.kind = "vote"
  <2>1. PICK agreed \in BOOLEAN : agreed = (u.votes # NoVote /\ VoteComplete(u))
    <3>1. (u.votes # NoVote /\ VoteComplete(u)) \in BOOLEAN
      OBVIOUS
    <3> QED BY <3>1, Zenon
  <2>2. v = ResolveRunTwice(u, agreed)
    BY <1>4, <2>1 DEF Callback
  <2>3. c.hand # NoHand /\ c.hand.phase \in Phases
    <3>1. c.hand # NoHand
      BY <1>4 DEF TableInv, TimerHeld
    <3> QED BY <1>0, <3>1, HandKinds DEF Table
  <2>4. HandDone(c) => ~ResultTimed(c)
    BY <1>4 DEF ResultTimed
  <2>5. CASE c.votes = NoVote
    <3>1. v = u
      BY <1>0, <2>2, <2>5 DEF ResolveRunTwice, SameButTimer
    <3>2. c.hand.phase = "result"
      BY <1>4, <2>3, <2>5 DEF TableInv, TimerHeld, Phases
    <3> QED BY <1>0, <2>3, <2>4, <3>1, <3>2, SpentStep DEF HandDone, SameButTimer, SameAround
  <2>6. CASE c.votes # NoVote
    BY <1>0, <2>2, <2>3, <2>6, ResolveStep DEF SameButTimer, SameTable
  <2> QED BY <2>5, <2>6
<1>5. CASE c.timer.kind = "deal"
  BY <1>0, <1>5, AdvanceStep DEF Callback
<1>6. CASE c.timer.kind = "reveal"
  BY <1>0, <1>6, RevealingStep DEF Callback
<1>7. CASE c.timer.kind \in {"result", "clear"}
  <2>1. c.hand # NoHand /\ c.hand.phase \in Phases
    <3>1. c.hand # NoHand
      BY <1>7 DEF TableInv, TimerHeld
    <3> QED BY <1>0, <3>1, HandKinds DEF Table
  <2>2. HandDone(c)
    BY <1>7, <2>1 DEF TableInv, TimerHeld, Phases, HandDone
  <2>3. CASE c.timer.kind = "clear"
    BY <1>0, <2>2, <2>3, ClearHandStep DEF Callback
  <2>4. CASE c.timer.kind = "result"
    <3>1. v = Schedule(u, "clear")
      BY <2>4 DEF Callback
    <3>2. v \in Table /\ SameButTimer(v, u) /\ v.timer.kind = "clear"
      BY <1>0, <3>1, ScheduleFacts DEF Kinds
    <3>3. SameAround(v, c) /\ TimerHeld(v)
      BY <1>0, <2>1, <2>2, <3>2 DEF SameAround, SameButTimer, TimerHeld, HandDone
    <3>4. BankRuns(v) /\ ResultTimed(v)
      BY <2>2, <3>2, <3>3 DEF BankRuns, ResultTimed, Betting, HandDone, SameAround
    <3> QED BY <2>1, <3>2, <3>3, <3>4, TimerStep DEF Timed
  <2> QED BY <1>7, <2>3, <2>4
<1> QED BY <1>1, <1>2, <1>3, <1>4, <1>5, <1>6, <1>7 DEF Kinds

-----------------------------------------------------------------------------
(* Commands of players *)

\* The types of a new player.
LEMMA JoinedFacts ==
  ASSUME NEW r \in TableSettings
  PROVE  LET q == Joined(r)
         IN  /\ q \in Player /\ PlayerSound(q) /\ q.status = "active" /\ q.chips = TRUE
             /\ q.inHand = FALSE /\ q.leaving = FALSE /\ q.missed = 0
<1>1. PICK e : e = Empty
  OBVIOUS
<1>2. e \in Player /\ e.inHand = FALSE /\ e.leaving = FALSE /\ e.missed = 0
  BY <1>1, NewPlayers
<1>3. PICK b \in BOOLEAN : b = r.bank
  BY DEF TableSettings
<1>4. PICK q : q = [e EXCEPT !.status = "active", !.chips = TRUE, !.bank = b]
  OBVIOUS
<1>5. /\ q \in Player /\ q.status = "active" /\ q.chips = TRUE
      /\ q.inHand = FALSE /\ q.leaving = FALSE /\ q.missed = 0
  BY <1>2, <1>4 DEF Player
<1>6. Joined(r) = q
  BY <1>1, <1>3, <1>4 DEF Joined
<1> QED BY <1>5, <1>6 DEF PlayerSound

\* While a hand is on, its turns are with players dealt in.
LEMMA TurnsAreIn ==
  ASSUME NEW c, TableInv(c), HandInProgress(c)
  PROVE  /\ Turns(c.hand) \subseteq Active(c.hand) /\ Active(c.hand) \subseteq c.hand.dealt
         /\ c.hand.dealt = InHand(c) /\ InHand(c) \subseteq Seats
         /\ c.hand \in HandView /\ c.hand # NoHand /\ c.state # "ended"
         /\ HandSound(c.hand)
         /\ \A s \in c.hand.dealt : HeldIn(c.pl[s])
  BY DEF Turns, Active, TableInv, HandHeld, HandSound, HandInProgress, NoHandLeft, InHand

\* A player takes a free seat.
LEMMA JoinStep ==
  ASSUME TableInv(t), NEW s \in Seats, Join(s)
  PROVE  Goes(t', t)
<1>1. PICK q : q = Joined(t.settings)
  OBVIOUS
<1>2. PICK u : u = [t EXCEPT !.pl[s] = q]
  OBVIOUS
<1>3. t' = ScheduleStart(u) /\ t.pl[s].status = "empty"
  BY <1>1, <1>2 DEF Join, Seated
<1>4. ~t.pl[s].bank /\ ~t.pl[s].inHand /\ ~t.pl[s].leaving
  BY <1>3 DEF TableInv, PlayerSound
<1>5. /\ q \in Player /\ PlayerSound(q) /\ q.inHand = FALSE /\ q.leaving = FALSE
      /\ q.missed = 0
  BY <1>1, JoinedFacts DEF TableInv, Table
<1>6. t.pl[s].inHand = FALSE /\ t.pl[s].leaving = FALSE
  BY <1>4, PlayerParts DEF TableInv, Table
<1>7. HandInProgress(t) => s \notin Turns(t.hand)
  BY <1>4, TurnsAreIn DEF InHand
<1>8. /\ q.inHand = t.pl[s].inHand /\ q.leaving = t.pl[s].leaving
      /\ HandInProgress(t) /\ q.inHand => HeldIn(q)
  BY <1>5, <1>6
<1>9. /\ HandInProgress(t) /\ s \in Turns(t.hand) => Playable(q)
      /\ HandInProgress(t) /\ s \in Turns(t.hand) => (t.pl[s].usedBank => q.usedBank)
  BY <1>7
<1>10. t.pl[s].bank => q.bank \/ q.status = "empty"
  BY <1>4
<1>11. Goes(ScheduleStart(u), t)
  BY <1>2, <1>5, <1>8, <1>9, <1>10, PlayerChanged
<1> QED BY <1>3, <1>11

\* A player who is what he was for the hand and for the stack.
LEMMA InertChange ==
  ASSUME TableInv(t), NEW s \in Seats, NEW q \in Player,
         q.status = t.pl[s].status, q.chips = t.pl[s].chips, q.bank = t.pl[s].bank,
         q.inHand = t.pl[s].inHand, q.leaving = t.pl[s].leaving,
         q.missed = t.pl[s].missed, q.usedBank = t.pl[s].usedBank,
         NEW u, u = [t EXCEPT !.pl[s] = q]
  PROVE  Goes(u, t)
<1>1. PICK p : p = t.pl[s]
  OBVIOUS
<1>2. PlayerSound(p) /\ p \in Player
  BY <1>1 DEF TableInv, Table
<1>3. PlayerSound(q)
  BY <1>1, <1>2 DEF PlayerSound
<1>4. HandInProgress(t) /\ q.inHand => HeldIn(q)
  BY TurnsAreIn DEF InHand, HeldIn
<1>5. HandInProgress(t) /\ s \in Turns(t.hand) => Playable(q)
  BY DEF TableInv, HandHeld, Playable
<1> QED BY <1>3, <1>4, <1>5, PlayerChanged

\* A connection comes or goes.
LEMMA ConnectStep ==
  ASSUME TableInv(t), NEW s \in Seats, Attach(s) \/ Detach(s)
  PROVE  Goes(t', t)
<1>1. PICK p \in Player : p = t.pl[s]
  BY DEF TableInv, Table
<1>2. PICK b \in BOOLEAN : t' = [t EXCEPT !.pl[s].connected = b]
  BY DEF Attach, Detach
<1>3. PICK q : q = [p EXCEPT !.connected = b]
  OBVIOUS
<1>4. /\ q \in Player /\ q.status = p.status /\ q.chips = p.chips /\ q.bank = p.bank
      /\ q.inHand = p.inHand /\ q.leaving = p.leaving
      /\ q.missed = p.missed /\ q.usedBank = p.usedBank
  BY <1>3 DEF Player
<1>5. t' = [t EXCEPT !.pl[s] = q]
  BY <1>1, <1>2, <1>3
<1> QED BY <1>1, <1>4, <1>5, InertChange

\* The player to act has acted, the engine goes on from there.
LEMMA ActionStep ==
  ASSUME TableInv(t), NEW s \in Seats, Action(s)
  PROVE  Goes(t', t)
<1> DEFINE g == t.hand
<1>1. t \in Table /\ HandInProgress(t) /\ Betting(t) /\ g.phase = "betting" /\ g.toAct = s
  BY DEF Action, Betting, HandInProgress, TableInv
<1>2. /\ Turns(g) = Active(g) /\ HandSound(g) /\ g # NoHand /\ s \in Active(g)
      /\ t.votes = NoVote /\ t.sitOutPending \subseteq g.dealt
  BY <1>1, TurnsAreIn DEF Turns, HandSound, TableInv, HandHeld, VotesFit
<1>3. PICK p \in Player : p = t.pl[s]
  BY <1>1 DEF Table
<1>4. Playable(p) /\ PlayerSound(p)
  BY <1>1, <1>2, <1>3 DEF TableInv, HandHeld
<1>5. PICK left \in IF t.bankUsing THEN BOOLEAN ELSE {t.pl[s].bank} :
        t' \in AfterEngine([t EXCEPT !.pl[s] = Answered(@, left), !.bankUsing = FALSE],
                           Applied(g))
  BY DEF Action
<1>6. left \in BOOLEAN /\ (p.bank => left \/ t.bankUsing)
  BY <1>3, <1>5 DEF Player
<1>7. PICK q : q = [p EXCEPT !.missed = 0, !.pre = FALSE, !.bank = left]
  OBVIOUS
<1>8. /\ q \in Player /\ q.status = p.status /\ q.chips = p.chips /\ q.bank = left
      /\ q.inHand = p.inHand /\ q.leaving = p.leaving /\ q.missed = 0
  <2>1. PICK a : a = [p EXCEPT !.bank = left]
    OBVIOUS
  <2>2. /\ a \in Player /\ a.status = p.status /\ a.chips = p.chips /\ a.bank = left
        /\ a.inHand = p.inHand /\ a.leaving = p.leaving
    BY <1>6, <2>1 DEF Player
  <2>3. 0 \in 0 .. SitOutAfter
    BY BoundsAssumption
  <2>4. q = [a EXCEPT !.missed = 0, !.pre = FALSE]
    BY <1>7, <2>1 DEF Player
  <2> QED BY <2>2, <2>3, <2>4 DEF Player
<1>9. PICK pl : pl = [t.pl EXCEPT ![s] = q]
  OBVIOUS
<1>10. PICK u : u = [t EXCEPT !.pl = pl, !.bankUsing = FALSE]
  OBVIOUS
<1>11. t' \in AfterEngine(u, Applied(g))
  <2>1. u = [t EXCEPT !.pl[s] = Answered(@, left), !.bankUsing = FALSE]
    BY <1>1, <1>3, <1>7, <1>9, <1>10 DEF Answered, Table
  <2> QED BY <1>5, <2>1
<1>12. pl \in [Seats -> Player]
  BY <1>1, <1>8, <1>9 DEF Table
<1>13. /\ u \in Table /\ SameTable(u, t) /\ u.pl = pl /\ u.votes = t.votes
       /\ u.sitOutPending = t.sitOutPending
  BY <1>1, <1>10, <1>12 DEF Table, SameTable
<1>14. /\ PlayerSound(q) /\ q.inHand = t.pl[s].inHand /\ HeldIn(q)
       /\ Playable(q) /\ (q.leaving => q.inHand)
  BY <1>3, <1>4, <1>8 DEF PlayerSound, HeldIn, Playable
<1>15. Ready(u, g.dealt) /\ Turns(g) \subseteq Playing(u)
  BY <1>1, <1>2, <1>8, <1>9, <1>13, <1>14, ReadyAfter
<1>16. \A h \in Applied(g) : Within(h, g.dealt, g.street, Playing(u)) /\ FitsVote(h, u)
  BY <1>1, <1>2, <1>13, <1>15, AppliedFacts DEF FitsVote
<1>17. ASSUME NEW r \in Seats, t.pl[r].bank
       PROVE  u.pl[r].bank \/ BankOpen(t, r)
  <2>1. CASE r # s
    BY <1>1, <1>9, <1>13, <1>17, <2>1 DEF Table
  <2>2. CASE r = s
    BY <1>1, <1>3, <1>6, <1>8, <1>9, <1>13, <1>17, <2>2 DEF Table, BankOpen
  <2> QED BY <2>1, <2>2
<1>18. \A r \in Seats : u.pl[r].missed \in {t.pl[r].missed, 0}
  BY <1>1, <1>8, <1>9, <1>13 DEF Table
<1> HIDE DEF g
<1> QED BY <1>1, <1>11, <1>13, <1>15, <1>16, <1>17, <1>18, EngineStep DEF g

\* A pre-selected action is noted, and played at once in the player's turn.
LEMMA SetPreActionStep ==
  ASSUME TableInv(t), NEW s \in Seats, SetPreAction(s)
  PROVE  Goes(t', t)
<1>0. t \in Table
  BY DEF TableInv
<1>1. PICK p \in Player : p = t.pl[s]
  BY <1>0 DEF Table
<1>2. PICK q : q = [p EXCEPT !.pre = TRUE]
  OBVIOUS
<1>3. /\ q \in Player /\ q.status = p.status /\ q.chips = p.chips /\ q.bank = p.bank
      /\ q.inHand = p.inHand /\ q.leaving = p.leaving
      /\ q.missed = p.missed /\ q.usedBank = p.usedBank
  BY <1>2 DEF Player
<1>4. PICK u : u = [t EXCEPT !.pl[s] = q]
  OBVIOUS
<1>5. u = [t EXCEPT !.pl[s].pre = TRUE]
  BY <1>0, <1>1, <1>2, <1>4 DEF Table
<1>6. CASE ~(t.pl[s].inHand /\ Betting(t) /\ t.hand.toAct = s)
  <2>1. t' = u
    BY <1>5, <1>6 DEF SetPreAction
  <2> QED BY <1>1, <1>3, <1>4, <2>1, InertChange
<1>7. CASE t.pl[s].inHand /\ Betting(t) /\ t.hand.toAct = s
  <2> DEFINE g == t.hand
  <2>1. t' \in AfterEngine(u, {g})
    BY <1>5, <1>7 DEF SetPreAction
  <2>2. HandInProgress(t) /\ g.phase = "betting" /\ g # NoHand
    BY <1>7 DEF Betting, HandInProgress
  <2>3. /\ Turns(g) = Active(g) /\ HandSound(g) /\ s \in Active(g)
        /\ t.votes = NoVote /\ t.sitOutPending \subseteq g.dealt /\ g.street \in Int
    BY <1>7, <2>2, TurnsAreIn DEF Turns, HandSound, HandView, TableInv, HandHeld, VotesFit
  <2>4. Playable(p) /\ PlayerSound(p)
    BY <1>1, <2>2, <2>3 DEF TableInv, HandHeld
  <2>5. PICK pl : pl = [t.pl EXCEPT ![s] = q]
    OBVIOUS
  <2>6. pl \in [Seats -> Player] /\ u = [t EXCEPT !.pl = pl]
    BY <1>0, <1>3, <1>4, <2>5 DEF Table
  <2>7. /\ u \in Table /\ SameTable(u, t) /\ u.pl = pl /\ u.votes = t.votes
        /\ u.sitOutPending = t.sitOutPending
    BY <1>0, <2>6 DEF Table, SameTable
  <2>8. /\ PlayerSound(q) /\ q.inHand = t.pl[s].inHand /\ HeldIn(q)
        /\ Playable(q) /\ (q.leaving => q.inHand)
    BY <1>1, <1>3, <2>4 DEF PlayerSound, HeldIn, Playable
  <2>9. Ready(u, g.dealt) /\ Turns(g) \subseteq Playing(u)
    BY <1>3, <2>2, <2>3, <2>5, <2>7, <2>8, ReadyAfter
  <2>10. Within(g, g.dealt, g.street, Playing(u)) /\ FitsVote(g, u)
    BY <2>3, <2>7, <2>9 DEF Within, FitsVote
  <2>11. \A r \in Seats : /\ t.pl[r].bank => u.pl[r].bank
                         /\ u.pl[r].missed = t.pl[r].missed
    BY <1>0, <1>1, <1>3, <2>5, <2>7 DEF Table
  <2> HIDE DEF g
  <2>12. \A h \in {g} : Within(h, g.dealt, g.street, Playing(u)) /\ FitsVote(h, u)
    BY <2>10
  <2> QED BY <2>1, <2>2, <2>7, <2>9, <2>11, <2>12, EngineStep DEF g
<1> QED BY <1>6, <1>7

\* A pre-selected action is taken back.
LEMMA ClearPreActionStep ==
  ASSUME TableInv(t), NEW s \in Seats, ClearPreAction(s)
  PROVE  Goes(t', t)
<1>1. PICK p \in Player : p = t.pl[s]
  BY DEF TableInv, Table
<1>2. PICK q : q = [p EXCEPT !.pre = FALSE]
  OBVIOUS
<1>3. /\ q \in Player /\ q.status = p.status /\ q.chips = p.chips /\ q.bank = p.bank
      /\ q.inHand = p.inHand /\ q.leaving = p.leaving
      /\ q.missed = p.missed /\ q.usedBank = p.usedBank
  BY <1>2 DEF Player
<1>4. t' = [t EXCEPT !.pl[s] = q]
  BY <1>1, <1>2 DEF ClearPreAction
<1> QED BY <1>1, <1>3, <1>4, InertChange

\* An answer to the vote, which may be over with it.
LEMMA RunTwiceStep ==
  ASSUME TableInv(t), NEW s \in Seats, NEW agree \in BOOLEAN, RunTwice(s, agree)
  PROVE  Goes(t', t)
<1>0. t \in Table /\ t.votes # NoVote /\ t.hand # NoHand
  BY DEF TableInv, RunTwice
<1>1. PICK votes : votes = IF agree THEN t.votes \cup {s} ELSE t.votes
  OBVIOUS
<1>2. votes \in SUBSET Seats /\ votes # NoVote
  BY <1>0, <1>1, VoteKinds DEF Table
<1>3. PICK u : u = [t EXCEPT !.votes = votes]
  OBVIOUS
<1>4. /\ u \in Table /\ u.votes = votes
      /\ u.bounds = t.bounds /\ u.state = t.state /\ u.settings = t.settings
      /\ u.pl = t.pl /\ u.hand = t.hand /\ u.timer = t.timer
      /\ u.startPending = t.startPending
      /\ u.endAfterHand = t.endAfterHand /\ u.sitOutPending = t.sitOutPending
      /\ u.pendingChips = t.pendingChips /\ u.bankUsing = t.bankUsing
  BY <1>0, <1>2, <1>3 DEF Table
<1>5. t' = IF ~agree \/ VoteComplete(u) THEN ResolveRunTwice(u, agree) ELSE u
  BY <1>0, <1>1, <1>3 DEF RunTwice, Table
<1>6. CASE ~agree \/ VoteComplete(u)
  BY <1>0, <1>2, <1>4, <1>5, <1>6, ResolveStep DEF SameTable
<1>7. CASE ~(~agree \/ VoteComplete(u))
  <2>1. t' = u
    BY <1>5, <1>7
  <2>2. /\ InHand(u) = InHand(t) /\ Eligible(u) = Eligible(t)
        /\ HandInProgress(u) = HandInProgress(t) /\ BetweenHands(u) = BetweenHands(t)
    BY <1>4, SamePlayers DEF HandInProgress, BetweenHands
  <2>3. HandHeld(u) /\ PutOff(u) /\ NoHandLeft(u) /\ Noted(u)
    BY <1>4, <2>2 DEF TableInv, HandHeld, PutOff, NoHandLeft, Noted
  <2>4. VotesFit(u)
    BY <1>0, <1>4 DEF TableInv, VotesFit
  <2>5. TimerHeld(u)
    BY <1>0, <1>2, <1>4 DEF TableInv, TimerHeld
  <2>6. TableInv(u)
    BY <1>4, <2>3, <2>4, <2>5 DEF TableInv
  <2>7. BankKept(u, t) /\ (BankRuns(t) => BankRuns(u)) /\ Timed(u, t)
    BY <1>4 DEF BankKept, BankRuns, Betting, Timed, ResultTimed, HandDone
  <2> QED BY <1>4, <2>1, <2>6, <2>7, QuietStep
<1> QED BY <1>6, <1>7

\* A player sits out; a seat that can still act is folded first.
LEMMA SitOutStep ==
  ASSUME TableInv(t), NEW s \in Seats, SitOut(s)
  PROVE  Goes(t', t)
<1>0. t \in Table
  BY DEF TableInv
<1>1. PICK p \in Player : p = t.pl[s]
  BY <1>0 DEF Table
<1>2. PICK q : q = [p EXCEPT !.status = "sitting_out"]
  OBVIOUS
<1>3. /\ q \in Player /\ q.status = "sitting_out" /\ q.chips = p.chips /\ q.bank = p.bank
      /\ q.inHand = p.inHand /\ q.leaving = p.leaving /\ q.missed = p.missed
  BY <1>2 DEF Player
<1>4. PICK u : u = [t EXCEPT !.pl[s] = q]
  OBVIOUS
<1>5. u = [t EXCEPT !.pl[s].status = "sitting_out"]
  BY <1>0, <1>1, <1>2, <1>4 DEF Table
<1>6. /\ PlayerSound(p) /\ PlayerSound(q) /\ p.status = "active" /\ HeldIn(q)
      /\ (p.leaving => p.inHand)
  BY <1>1, <1>3 DEF TableInv, PlayerSound, SitOut, HeldIn, PutOff
<1>7. CASE ~(/\ HandInProgress(t) /\ t.pl[s].inHand
             /\ s \in t.hand.live /\ s \notin t.hand.allIn)
  <2>1. t' = u
    BY <1>5, <1>7 DEF SitOut
  <2>2. ~(HandInProgress(t) /\ s \in Turns(t.hand))
    BY <1>7, TurnsAreIn DEF Active, InHand
  <2>3. (t.pl[s].bank => q.bank \/ q.status = "empty") /\ q.missed \in {t.pl[s].missed, 0}
    BY <1>1, <1>3
  <2> QED BY <1>1, <1>3, <1>4, <1>6, <2>1, <2>2, <2>3, PlayerChanged
<1>8. CASE /\ HandInProgress(t) /\ t.pl[s].inHand
           /\ s \in t.hand.live /\ s \notin t.hand.allIn
  <2> DEFINE g == t.hand
  <2>1. t' \in AfterEngine(u, Forfeited(g, s))
    BY <1>5, <1>8 DEF SitOut
  <2>2. /\ HandSound(g) /\ g # NoHand /\ g \in HandView /\ t.sitOutPending \subseteq g.dealt
    BY <1>8, TurnsAreIn DEF TableInv, HandHeld
  <2>3. PICK pl : pl = [t.pl EXCEPT ![s] = q]
    OBVIOUS
  <2>4. pl \in [Seats -> Player] /\ u = [t EXCEPT !.pl = pl]
    BY <1>0, <1>3, <1>4, <2>3 DEF Table
  <2>5. /\ u \in Table /\ SameTable(u, t) /\ u.pl = pl /\ u.votes = t.votes
        /\ u.sitOutPending = t.sitOutPending
    BY <1>0, <2>4 DEF Table, SameTable
  <2>6. Ready(u, g.dealt) /\ Turns(g) \ {s} \subseteq Playing(u)
    BY <1>1, <1>3, <1>6, <1>8, <2>2, <2>3, <2>5, ReadyAfter
  <2>7. ASSUME NEW h \in Forfeited(g, s)
        PROVE  Within(h, g.dealt, g.street, Playing(u)) /\ FitsVote(h, u)
    <3>1. Within(h, g.dealt, g.street, Playing(u))
      BY <2>2, <2>6, ForfeitedFacts
    <3>2. t.votes # NoVote => g.phase = "deal_pending" /\ g.runout = TRUE
      BY <1>8, <2>2 DEF TableInv, VotesFit, HandView, HandInProgress
    <3> QED BY <2>2, <2>5, <3>1, <3>2, ForfeitFits DEF FitsVote
  <2>8. \A r \in Seats : /\ t.pl[r].bank => u.pl[r].bank
                        /\ u.pl[r].missed = t.pl[r].missed
    BY <1>0, <1>1, <1>3, <2>3, <2>5 DEF Table
  <2> HIDE DEF g
  <2> QED BY <1>8, <2>1, <2>5, <2>6, <2>7, <2>8, EngineStep DEF g
<1> QED BY <1>7, <1>8

\* A player is back, or has bought chips again.
LEMMA SitInStep ==
  ASSUME TableInv(t), NEW s \in Seats, SitIn(s)
  PROVE  Goes(t', t)
<1>0. t \in Table
  BY DEF TableInv
<1>1. PICK p \in Player : p = t.pl[s]
  BY <1>0 DEF Table
<1>2. PICK status : status = IF p.chips THEN "active" ELSE "busted"
  OBVIOUS
<1>3. PICK q : q = [p EXCEPT !.status = status, !.missed = 0]
  OBVIOUS
<1>4. q = Back(p)
  BY <1>2, <1>3 DEF Back
<1>5. 0 \in 0 .. SitOutAfter
  BY BoundsAssumption
<1>6. /\ q \in Player /\ q.status = status /\ q.chips = p.chips /\ q.bank = p.bank
      /\ q.inHand = p.inHand /\ q.leaving = p.leaving /\ q.missed = 0
  BY <1>2, <1>3, <1>5 DEF Player
<1>7. PICK u : u = [t EXCEPT !.pl[s] = q]
  OBVIOUS
<1>8. t' = ScheduleStart(u) /\ p.status = "sitting_out"
  BY <1>1, <1>4, <1>7 DEF SitIn
<1>9. PlayerSound(q)
  BY <1>2, <1>6 DEF PlayerSound
<1>10. HandInProgress(t) /\ q.inHand => HeldIn(q)
  BY <1>1, <1>2, <1>6, TurnsAreIn DEF HeldIn, InHand
<1>11. HandInProgress(t) => s \notin Turns(t.hand)
  BY <1>1, <1>8 DEF TableInv, HandHeld, Playable
<1>12. /\ t.pl[s].bank => q.bank \/ q.status = "empty"
       /\ q.missed \in {t.pl[s].missed, 0}
       /\ q.inHand = t.pl[s].inHand /\ q.leaving = t.pl[s].leaving
  BY <1>1, <1>6
<1> QED BY <1>6, <1>7, <1>8, <1>9, <1>10, <1>11, <1>12, PlayerChanged

\* A busted player buys chips between hands.
LEMMA RebuyStep ==
  ASSUME TableInv(t), NEW s \in Seats, Rebuy(s)
  PROVE  Goes(t', t)
<1>0. t \in Table
  BY DEF TableInv
<1>1. PICK p \in Player : p = t.pl[s]
  BY <1>0 DEF Table
<1>2. PICK q : q = [p EXCEPT !.status = "active", !.chips = TRUE]
  OBVIOUS
<1>3. /\ q \in Player /\ q.status = "active" /\ q.chips = TRUE /\ q.bank = p.bank
      /\ q.inHand = p.inHand /\ q.leaving = p.leaving /\ q.missed = p.missed
  BY <1>2 DEF Player
<1>4. PICK u : u = [t EXCEPT !.pl[s] = q]
  OBVIOUS
<1>5. t' = ScheduleStart(u) /\ ~HandInProgress(t)
  BY <1>1, <1>2, <1>4 DEF Rebuy, Rebought, BetweenHands
<1>6. PlayerSound(q)
  BY <1>3 DEF PlayerSound
<1>7. /\ t.pl[s].bank => q.bank \/ q.status = "empty"
      /\ q.missed \in {t.pl[s].missed, 0}
      /\ q.inHand = t.pl[s].inHand /\ q.leaving = t.pl[s].leaving
  BY <1>1, <1>3
<1> QED BY <1>3, <1>4, <1>5, <1>6, <1>7, PlayerChanged

\* A seat is freed that is in no hand, or in one that is over.
LEMMA SeatFreed ==
  ASSUME TableInv(t), NEW s \in Seats, ~(HandInProgress(t) /\ t.pl[s].inHand),
         NEW u \in Table, SameCourse(u, t), u.pendingChips = t.pendingChips,
         u.endAfterHand = t.endAfterHand, u.sitOutPending = t.sitOutPending,
         \A r \in Seats : r # s => u.pl[r] = t.pl[r],
         NEW v, v = FreeSeats(u, {s})
  PROVE  Goes(v, t)
<1>1. /\ v \in Table /\ SameCourse(v, t)
      /\ v.pendingChips = t.pendingChips /\ v.endAfterHand = t.endAfterHand
      /\ v.sitOutPending = t.sitOutPending \ {s}
      /\ \A r \in Seats : v.pl[r] = IF r = s THEN Empty ELSE t.pl[r]
  <2>1. {s} \in SUBSET Seats
    OBVIOUS
  <2>2. /\ v \in Table /\ SameCourse(v, u)
        /\ v.pendingChips = u.pendingChips /\ v.endAfterHand = u.endAfterHand
        /\ v.sitOutPending = u.sitOutPending \ {s}
        /\ \A r \in Seats : v.pl[r] = IF r \in {s} THEN Empty ELSE u.pl[r]
    BY <2>1, FreeSeatsFacts
  <2> QED BY <2>2 DEF SameCourse
<1>2. v.hand = t.hand /\ v.state = t.state
  BY <1>1 DEF SameCourse
<1>3. HandInProgress(v) = HandInProgress(t) /\ BetweenHands(v) = BetweenHands(t)
  BY <1>2 DEF HandInProgress, BetweenHands
<1>4. \A r \in Seats : PlayerSound(v.pl[r])
  BY <1>1, NewPlayers DEF TableInv
<1>5. InHand(v) = InHand(t) \ {s}
  BY <1>1, NewPlayers DEF InHand
<1>6. HandHeld(v)
  <2>1. ASSUME HandInProgress(t)
        PROVE  /\ HandSound(v.hand) /\ InHand(v) = v.hand.dealt
               /\ \A r \in v.hand.dealt : HeldIn(v.pl[r])
               /\ \A r \in Turns(v.hand) : Playable(v.pl[r])
               /\ v.sitOutPending \subseteq v.hand.dealt
    <3>1. s \notin InHand(t)
      BY <2>1 DEF InHand
    <3>2. /\ Turns(t.hand) \subseteq InHand(t) /\ t.hand.dealt = InHand(t)
          /\ HandSound(t.hand) /\ InHand(t) \subseteq Seats
          /\ \A r \in t.hand.dealt : HeldIn(t.pl[r])
      BY <2>1, TurnsAreIn
    <3>3. \A r \in Turns(t.hand) : Playable(t.pl[r])
      BY <2>1 DEF TableInv, HandHeld
    <3>4. t.sitOutPending \subseteq t.hand.dealt
      BY <2>1 DEF TableInv, HandHeld
    <3>5. \A r \in InHand(t) : v.pl[r] = t.pl[r]
      BY <1>1, <3>1 DEF InHand
    <3> QED BY <1>1, <1>2, <1>5, <3>1, <3>2, <3>3, <3>4, <3>5
  <2> QED BY <1>3, <2>1 DEF HandHeld
<1>7. PutOff(v)
  <2>1. \A r \in Seats : v.pl[r].leaving => HandInProgress(v) /\ v.pl[r].inHand
    BY <1>1, <1>3, NewPlayers DEF TableInv, PutOff
  <2>2. BetweenHands(v) /\ v.state # "ended" =>
          v.sitOutPending = {} /\ v.pendingChips = {}
    BY <1>1, <1>2, <1>3 DEF TableInv, PutOff
  <2> QED BY <1>1, <1>2, <2>1, <2>2 DEF TableInv, PutOff
<1>8. NoHandLeft(v)
  BY <1>2, <1>5 DEF TableInv, NoHandLeft
<1>9. VotesFit(v) /\ TimerHeld(v)
  BY <1>1 DEF TableInv, VotesFit, TimerHeld, SameCourse
<1>10. Noted(v)
  <2>1. Eligible(v) \subseteq Eligible(t)
    BY <1>1, NewPlayers DEF Eligible
  <2>2. IsFiniteSet(Eligible(t)) /\ Eligible(t) \in SUBSET Seats
    BY SeatsFinite DEF Eligible
  <2>3. Cardinality(Eligible(v)) <= Cardinality(Eligible(t))
    BY <2>1, <2>2, FS_Subset
  <2>4. Cardinality(Eligible(v)) \in Int /\ Cardinality(Eligible(t)) \in Int
    BY <2>1, <2>2, SeatsFinite
  <2> QED BY <1>1, <2>3, <2>4 DEF TableInv, Noted, SameCourse
<1>11. v.settings \in v.bounds.settings
  BY <1>1 DEF TableInv, SameCourse
<1>12. TableInv(v)
  BY <1>1, <1>4, <1>6, <1>7, <1>8, <1>9, <1>10, <1>11 DEF TableInv
<1>13. BankKept(v, t)
  BY <1>1, NewPlayers DEF BankKept
<1>14. BankRuns(t) => BankRuns(v)
  <2>1. SUFFICES ASSUME BankRuns(t), Betting(t), t.bankUsing
                 PROVE  v.pl[t.hand.toAct].bank /\ v.pl[t.hand.toAct].usedBank
    BY <1>1 DEF BankRuns, Betting, SameCourse
  <2>2. HandInProgress(t) /\ t.hand.phase = "betting"
    BY <2>1 DEF Betting, HandInProgress
  <2>3. t.hand.toAct \in InHand(t)
    BY <2>2, TurnsAreIn DEF HandSound
  <2>4. v.pl[t.hand.toAct] = t.pl[t.hand.toAct]
    BY <1>1, <2>2, <2>3 DEF InHand
  <2> QED BY <2>1, <2>4 DEF BankRuns
<1>15. Timed(v, t)
  BY <1>1 DEF Timed, ResultTimed, HandDone, SameCourse
<1> QED BY <1>2, <1>12, <1>13, <1>14, <1>15, QuietStep

\* A player leaves, in a hand with the end of it.
LEMMA LeaveStep ==
  ASSUME TableInv(t), NEW s \in Seats, Leave(s)
  PROVE  Goes(t', t)
<1>0. t \in Table
  BY DEF TableInv
<1>1. PICK p \in Player : p = t.pl[s]
  BY <1>0 DEF Table
<1>2. PICK q : q = [p EXCEPT !.leaving = TRUE]
  OBVIOUS
<1>3. /\ q \in Player /\ q.status = p.status /\ q.chips = p.chips /\ q.bank = p.bank
      /\ q.inHand = p.inHand /\ q.leaving = TRUE /\ q.missed = p.missed
  BY <1>2 DEF Player
<1>4. PICK u : u = [t EXCEPT !.pl[s] = q]
  OBVIOUS
<1>5. u = [t EXCEPT !.pl[s].leaving = TRUE]
  BY <1>0, <1>1, <1>2, <1>4 DEF Table
<1>6. PICK pl : pl = [t.pl EXCEPT ![s] = q]
  OBVIOUS
<1>7. pl \in [Seats -> Player] /\ u = [t EXCEPT !.pl = pl]
  BY <1>0, <1>3, <1>4, <1>6 DEF Table
<1>8. /\ u \in Table /\ SameTable(u, t) /\ u.pl = pl /\ u.votes = t.votes
      /\ u.sitOutPending = t.sitOutPending /\ SameCourse(u, t)
      /\ u.pendingChips = t.pendingChips /\ u.endAfterHand = t.endAfterHand
  BY <1>0, <1>7 DEF Table, SameTable, SameCourse
<1>9. CASE ~(HandInProgress(t) /\ t.pl[s].inHand)
  <2>1. t' = FreeSeats(u, {s})
    BY <1>5, <1>9 DEF Leave
  <2>2. \A r \in Seats : r # s => u.pl[r] = t.pl[r]
    BY <1>0, <1>6, <1>8 DEF Table
  <2> QED BY <1>8, <1>9, <2>1, <2>2, SeatFreed
<1>10. CASE HandInProgress(t) /\ t.pl[s].inHand
  <2> DEFINE g == t.hand
  <2>1. t' \in AfterEngine(u, Forfeited(g, s))
    BY <1>5, <1>10 DEF Leave
  <2>2. /\ HandSound(g) /\ g # NoHand /\ g \in HandView /\ t.sitOutPending \subseteq g.dealt
    BY <1>10, TurnsAreIn DEF TableInv, HandHeld
  <2>3. HeldIn(p) /\ PlayerSound(p)
    BY <1>1, <1>10, TurnsAreIn DEF InHand, TableInv
  <2>4. HeldIn(q) /\ PlayerSound(q) /\ q.inHand
    BY <1>1, <1>3, <1>10, <2>3 DEF HeldIn, PlayerSound
  <2>5. Ready(u, g.dealt) /\ Turns(g) \ {s} \subseteq Playing(u)
    <3>1. /\ q.inHand = t.pl[s].inHand /\ (q.leaving => q.inHand)
          /\ (q.inHand => HeldIn(q)) /\ PlayerSound(q) /\ q \in Player
      BY <1>1, <1>3, <2>4
    <3>2. u.sitOutPending \subseteq t.hand.dealt
      BY <1>8, <2>2
    <3> QED BY <1>6, <1>8, <1>10, <3>1, <3>2, ReadyAfter
  <2>6. ASSUME NEW h \in Forfeited(g, s)
        PROVE  Within(h, g.dealt, g.street, Playing(u)) /\ FitsVote(h, u)
    <3>1. Within(h, g.dealt, g.street, Playing(u))
      BY <2>2, <2>5, ForfeitedFacts
    <3>2. t.votes # NoVote => g.phase = "deal_pending" /\ g.runout = TRUE
      BY <1>10, <2>2 DEF TableInv, VotesFit, HandView, HandInProgress
    <3> QED BY <1>8, <2>2, <3>1, <3>2, ForfeitFits DEF FitsVote
  <2>7. \A r \in Seats : /\ t.pl[r].bank => u.pl[r].bank
                        /\ u.pl[r].missed = t.pl[r].missed
    BY <1>0, <1>1, <1>3, <1>6, <1>8 DEF Table
  <2> HIDE DEF g
  <2> QED BY <1>8, <1>10, <2>1, <2>5, <2>6, <2>7, EngineStep DEF g
<1> QED BY <1>9, <1>10

\* The result stays on screen a while longer.
LEMMA LateRevealStep ==
  ASSUME TableInv(t), NEW s \in Seats, LateReveal(s)
  PROVE  Goes(t', t)
<1>0. t \in Table /\ HandDone(t) /\ t.late < MaxLate
  BY DEF TableInv, LateReveal
<1>1. PICK u : u = [t EXCEPT !.late = t.late + 1]
  OBVIOUS
<1>2. t.late + 1 \in 0 .. MaxLate
  BY <1>0, BoundsAssumption DEF Table
<1>3. u \in Table /\ SameAround(u, t) /\ u.timer = t.timer /\ u.startPending = t.startPending
  BY <1>0, <1>1, <1>2 DEF Table, SameAround
<1>4. t' = u \/ t' = Schedule(u, "clear")
  BY <1>1 DEF LateReveal
<1>5. CASE t' = u
  <2>1. TimerHeld(u)
    BY <1>3 DEF TableInv, TimerHeld, SameAround
  <2>2. BankRuns(u) /\ Timed(u, t)
    BY <1>0, <1>3 DEF BankRuns, Betting, Timed, ResultTimed, HandDone, SameAround
  <2> QED BY <1>3, <1>5, <2>1, <2>2, TimerStep
<1>6. CASE t' = Schedule(u, "clear")
  <2>1. t' \in Table /\ SameButTimer(t', u) /\ t'.timer.kind = "clear"
    BY <1>3, <1>6, ScheduleFacts DEF Kinds
  <2>2. SameAround(t', t)
    BY <1>3, <2>1 DEF SameAround, SameButTimer
  <2>3. TimerHeld(t')
    BY <1>0, <2>1, <2>2 DEF TimerHeld, HandDone, SameAround
  <2>4. BankRuns(t') /\ Timed(t', t)
    BY <1>0, <2>1, <2>2 DEF BankRuns, Betting, Timed, ResultTimed, HandDone, SameAround
  <2>5. t.hand # NoHand
    BY <1>0 DEF HandDone
  <2> QED BY <2>1, <2>2, <2>3, <2>4, <2>5, TimerStep
<1> QED BY <1>4, <1>5, <1>6

-----------------------------------------------------------------------------
(* Commands of the host *)

\* The host changes the table around a hand, or notes something for its end;
\* then a start may be due, or at once a hand.
LEMMA TableChanged ==
  ASSUME NEW c, TableInv(c), NEW u \in Table,
         u.bounds = c.bounds, u.settings \in u.bounds.settings,
         c.state # "ended", u.state # "ended",
         u.hand = c.hand, u.timer = c.timer, u.startPending = c.startPending,
         u.votes = c.votes, u.sitOutPending = c.sitOutPending,
         u.bankUsing = c.bankUsing,
         u.pendingChips = c.pendingChips \/ HandInProgress(c),
         u.endAfterHand = c.endAfterHand \/ HandInProgress(c),
         HandInProgress(c) => u.pl = c.pl,
         \A s \in Seats : /\ PlayerSound(u.pl[s]) /\ u.pl[s].inHand = c.pl[s].inHand
                          /\ u.pl[s].leaving = c.pl[s].leaving
                          /\ u.pl[s].bank = c.pl[s].bank
                          /\ u.pl[s].missed = c.pl[s].missed
  PROVE  /\ Noted(u) => Goes(u, c)
         /\ Goes(ScheduleStart(u), c)
         /\ \A v \in MaybeStartHand(u) : Goes(v, c)
<1>1. /\ HandInProgress(u) = HandInProgress(c) /\ BetweenHands(u) = BetweenHands(c)
      /\ InHand(u) = InHand(c)
  BY DEF HandInProgress, BetweenHands, InHand
<1>2. HandHeld(u)
  BY <1>1 DEF TableInv, HandHeld
<1>3. PutOff(u)
  <2>1. \A s \in Seats : u.pl[s].leaving => HandInProgress(u) /\ u.pl[s].inHand
    BY <1>1 DEF TableInv, PutOff
  <2>2. BetweenHands(u) => u.sitOutPending = {} /\ u.pendingChips = {}
    BY <1>1 DEF TableInv, PutOff, BetweenHands
  <2>3. u.endAfterHand => u.hand # NoHand
    BY DEF TableInv, PutOff, HandInProgress
  <2> QED BY <2>1, <2>2, <2>3 DEF PutOff
<1>4. NoHandLeft(u) /\ VotesFit(u) /\ TimerHeld(u)
  BY <1>1 DEF TableInv, NoHandLeft, VotesFit, TimerHeld
<1>8. BankKept(u, c) /\ Timed(u, c)
  BY DEF BankKept, Timed, ResultTimed, HandDone
<1>9. BankRuns(c) => BankRuns(u)
  BY DEF BankRuns, Betting, HandInProgress
<1>5. ASSUME Noted(u) PROVE Goes(u, c)
  <2>1. TableInv(u)
    BY <1>2, <1>3, <1>4, <1>5 DEF TableInv
  <2> QED BY <1>8, <1>9, <2>1, QuietStep
<1>6. CASE c.hand # NoHand
  <2>1. Noted(u) /\ ScheduleStart(u) = u
    BY <1>6, NoStartNow DEF Noted
  <2>2. MaybeStartHand(u) = {u}
    BY <1>6 DEF MaybeStartHand
  <2> QED BY <1>5, <2>1, <2>2
<1>7. CASE c.hand = NoHand
  <2>1. /\ Idle(c) /\ u.timer.kind \in {"none", "start"}
        /\ ~HandInProgress(c)
    BY <1>7, IdleInv DEF HandInProgress
  <2>2. Idle(u)
    BY <1>7, <2>1 DEF Idle
  <2>3. PICK w : w = ScheduleStart(u)
    OBVIOUS
  <2>4. TableInv(w) /\ w.pl = u.pl /\ w.hand = u.hand
    BY <2>1, <2>2, <2>3, ScheduleStartFacts
  <2>5. Goes(w, c)
    <3>1. BankKept(w, c) /\ w.hand = NoHand
      BY <1>7, <1>8, <2>4 DEF BankKept
    <3> QED BY <1>7, <2>4, <3>1, HandGone, QuietStep DEF Timed
  <2>6. ASSUME NEW v \in MaybeStartHand(u) PROVE Goes(v, c)
    <3>1. /\ TableInv(v) /\ BankKept(v, u)
          /\ v = u \/ (v.state = "running" /\ v.hand # NoHand /\ Fresh(v))
      BY <2>1, <2>2, MaybeStartHandFacts
    <3>2. EndsWell(v, c)
      BY <1>7, <3>1 DEF EndsWell, HandInProgress, HandDone
    <3>3. BankKept(v, c)
      BY <1>8, <3>1 DEF BankKept
    <3>4. BankRuns(v) /\ ResultTimed(v)
      BY <1>7, <3>1, FreshFacts, HandGone
    <3>5. Charges(v, c) /\ Timed(v, c)
      BY <3>3, <3>4, NotCharged DEF Timed
    <3> QED BY <3>1, <3>2, <3>5 DEF Goes
  <2> QED BY <1>5, <2>3, <2>5, <2>6
<1> QED BY <1>6, <1>7

\* New settings, and a start that they may make due.
LEMMA UpdateSettingsStep ==
  ASSUME TableInv(t), NEW new \in t.bounds.settings, UpdateSettings(new)
  PROVE  Goes(t', t)
<1>1. t \in Table /\ t.bounds \in Instances
  BY DEF TableInv, Table
<1>2. new \in TableSettings
  BY <1>1, InstancesAssumption
<1>3. PICK u : u = [t EXCEPT !.settings = new]
  OBVIOUS
<1>4. /\ u \in Table /\ u.bounds = t.bounds /\ u.settings = new /\ u.state = t.state
      /\ u.hand = t.hand /\ u.timer = t.timer /\ u.startPending = t.startPending
      /\ u.votes = t.votes /\ u.sitOutPending = t.sitOutPending
      /\ u.pendingChips = t.pendingChips /\ u.endAfterHand = t.endAfterHand
      /\ u.pl = t.pl /\ u.bankUsing = t.bankUsing
  BY <1>1, <1>2, <1>3 DEF Table
<1>5. t' = ScheduleStart(u) /\ t.state # "ended"
  BY <1>3 DEF UpdateSettings
<1>6. \A s \in Seats : PlayerSound(t.pl[s])
  BY DEF TableInv
<1>7. Goes(ScheduleStart(u), t)
  BY <1>4, <1>5, <1>6, TableChanged
<1> QED BY <1>5, <1>7

\* Start, Pause and Resume.
LEMMA StateStep ==
  ASSUME TableInv(t), Start \/ Pause \/ Resume
  PROVE  Goes(t', t)
<1>1. t \in Table /\ t.settings \in t.bounds.settings
      /\ \A s \in Seats : PlayerSound(t.pl[s])
  BY DEF TableInv
<1>2. PICK state \in {"running", "paused"} :
        /\ state = "running" => t' \in MaybeStartHand([t EXCEPT !.state = state])
        /\ state = "paused" => t' = [t EXCEPT !.state = state]
        /\ t.state # "ended"
  <2>1. CASE Start
    BY <2>1 DEF Start
  <2>2. CASE Pause
    BY <2>2 DEF Pause
  <2>3. CASE Resume
    BY <2>3 DEF Resume
  <2> QED BY <2>1, <2>2, <2>3
<1>3. PICK u : u = [t EXCEPT !.state = state]
  OBVIOUS
<1>4. /\ u \in Table /\ u.bounds = t.bounds /\ u.settings = t.settings /\ u.state = state
      /\ u.hand = t.hand /\ u.timer = t.timer /\ u.startPending = t.startPending
      /\ u.votes = t.votes /\ u.sitOutPending = t.sitOutPending
      /\ u.pendingChips = t.pendingChips /\ u.endAfterHand = t.endAfterHand
      /\ u.pl = t.pl /\ u.bankUsing = t.bankUsing
  BY <1>1, <1>3 DEF Table, States
<1>5. (Noted(u) => Goes(u, t)) /\ \A v \in MaybeStartHand(u) : Goes(v, t)
  BY <1>1, <1>2, <1>4, TableChanged
<1>6. state = "paused" => Noted(u)
  BY <1>4 DEF Noted
<1> QED BY <1>2, <1>3, <1>5, <1>6

\* The end of the table, now or after the hand.
LEMMA EndStep ==
  ASSUME TableInv(t), NEW immediate \in BOOLEAN, End(immediate)
  PROVE  Goes(t', t)
<1>1. /\ t \in Table /\ t.settings \in t.bounds.settings /\ t.state # "ended"
      /\ \A s \in Seats : PlayerSound(t.pl[s])
  BY DEF TableInv, End
<1>2. CASE ~HandInProgress(t)
  <2>1. t' = EndTable(t)
    BY <1>2 DEF End
  <2>2. \A s \in Seats : ~t.pl[s].leaving
    BY <1>2 DEF TableInv, PutOff
  <2>3. t.votes # NoVote => \E r \in t.bounds.settings : r.runItTwice
    BY DEF TableInv, VotesFit
  <2>4. /\ TableInv(t') /\ t'.state = "ended"
        /\ \A s \in Seats : t'.pl[s].missed = t.pl[s].missed
    BY <1>1, <2>1, <2>2, <2>3, EndTableFacts
  <2> QED BY <1>1, <2>4, EndingStep
<1>3. CASE HandInProgress(t) /\ immediate
  <2>1. PICK u : u = VoidHand(t)
    OBVIOUS
  <2>2. t' = EndTable(u)
    BY <1>3, <2>1 DEF End
  <2>3. /\ u \in Table /\ u.settings \in u.bounds.settings
        /\ \A s \in Seats : /\ PlayerSound(u.pl[s]) /\ ~u.pl[s].leaving
                            /\ u.pl[s].missed \in {t.pl[s].missed, 0}
        /\ u.votes # NoVote => \E r \in u.bounds.settings : r.runItTwice
    BY <1>3, <2>1, VoidHandFacts
  <2>4. /\ TableInv(t') /\ t'.state = "ended"
        /\ \A s \in Seats : t'.pl[s].missed = u.pl[s].missed
    BY <2>2, <2>3, EndTableFacts
  <2>5. \A s \in Seats : t'.pl[s].missed \in {t.pl[s].missed, 0}
    BY <2>3, <2>4
  <2> QED BY <1>1, <2>4, <2>5, EndingStep
<1>4. CASE HandInProgress(t) /\ ~immediate
  <2>1. t' = [t EXCEPT !.endAfterHand = TRUE]
    BY <1>4 DEF End
  <2>2. /\ t' \in Table /\ t'.bounds = t.bounds /\ t'.settings = t.settings
        /\ t'.state = t.state /\ t'.hand = t.hand /\ t'.timer = t.timer
        /\ t'.startPending = t.startPending
        /\ t'.votes = t.votes /\ t'.sitOutPending = t.sitOutPending
        /\ t'.pendingChips = t.pendingChips /\ t'.pl = t.pl
        /\ t'.bankUsing = t.bankUsing
    BY <1>1, <2>1 DEF Table
  <2>3. Noted(t')
    BY <1>4, <2>2 DEF Noted, HandInProgress
  <2> QED BY <1>1, <1>4, <2>2, <2>3, TableChanged
<1> QED BY <1>2, <1>3, <1>4

\* A new round at a table that has ended.
LEMMA RestartStep ==
  ASSUME TableInv(t), Restart
  PROVE  Goes(t', t)
<1>1. t \in Table /\ t.state = "ended" /\ t.settings \in TableSettings
  BY DEF TableInv, Restart, Table
<1>2. t.hand = NoHand
  BY <1>1 DEF TableInv, NoHandLeft
<1>3. Idle(t) /\ t.timer.kind \in {"none", "start"}
  BY <1>2, IdleInv
<1>4. PICK pl : pl = [s \in Seats |-> NewRound(t.pl[s])]
  OBVIOUS
<1>5. ASSUME NEW s \in Seats
      PROVE  /\ pl[s] \in Player /\ PlayerSound(pl[s])
             /\ ~pl[s].inHand /\ ~pl[s].leaving
             /\ pl[s].missed \in {t.pl[s].missed, 0}
  <2>1. PICK p \in Player : p = t.pl[s]
    BY <1>1 DEF Table
  <2>2. CASE p.status = "empty"
    <3>1. pl[s] = p
      BY <1>4, <2>1, <2>2 DEF NewRound
    <3> QED BY <1>3, <2>1, <3>1 DEF Idle
  <2>3. CASE p.status # "empty"
    <3>1. PICK j : j = Joined(t.settings)
      OBVIOUS
    <3>2. /\ j \in Player /\ PlayerSound(j) /\ j.inHand = FALSE /\ j.leaving = FALSE
          /\ j.missed = 0
      BY <1>1, <3>1, JoinedFacts
    <3>3. PICK q : q = [j EXCEPT !.connected = p.connected]
      OBVIOUS
    <3>4. /\ q \in Player /\ q.status = j.status /\ q.chips = j.chips /\ q.bank = j.bank
          /\ q.inHand = FALSE /\ q.leaving = FALSE /\ q.missed = 0
      BY <3>2, <3>3 DEF Player
    <3>5. pl[s] = q
      BY <1>4, <2>1, <2>3, <3>1, <3>3 DEF NewRound
    <3> QED BY <3>2, <3>4, <3>5 DEF PlayerSound
  <2> QED BY <2>2, <2>3
<1>6. pl \in [Seats -> Player]
  BY <1>4, <1>5
<1>7. t' = [t EXCEPT !.state = "waiting", !.endAfterHand = FALSE,
                     !.pendingChips = {}, !.sitOutPending = {}, !.pl = pl]
  BY <1>4 DEF Restart
<1>8. /\ t' \in Table /\ t'.bounds = t.bounds /\ t'.settings = t.settings
      /\ t'.state = "waiting" /\ t'.hand = t.hand /\ t'.timer = t.timer /\ t'.pl = pl
      /\ t'.endAfterHand = FALSE /\ t'.votes = t.votes
      /\ t'.sitOutPending = {} /\ t'.pendingChips = {}
  BY <1>1, <1>6, <1>7 DEF Table, States
<1>9. Idle(t')
  BY <1>3, <1>5, <1>8 DEF Idle
<1>10. TableInv(t')
  BY <1>3, <1>8, <1>9, IdleInv DEF Noted
<1>11. EndsWell(t', t)
  BY <1>1, <1>2, <1>8 DEF EndsWell, HandInProgress, HandDone
<1>12. Charges(t', t) /\ Timed(t', t)
  <2>1. t'.hand = NoHand
    BY <1>2, <1>8
  <2>2. \A s \in Seats : t'.pl[s].missed \in {t.pl[s].missed, 0}
    BY <1>5, <1>8
  <2> QED BY <1>1, <1>8, <2>1, <2>2, HandGone DEF Charges, Timed
<1> QED BY <1>10, <1>11, <1>12 DEF Goes

\* Chips granted or taken, now or after the hand.
LEMMA AdjustChipsStep ==
  ASSUME TableInv(t), NEW s \in Seats, AdjustChips(s)
  PROVE  Goes(t', t)
<1>1. /\ t \in Table /\ t.settings \in t.bounds.settings /\ t.state # "ended"
      /\ \A r \in Seats : PlayerSound(t.pl[r])
      /\ {s} \in SUBSET Seated(t)
  BY DEF TableInv, AdjustChips, At
<1>2. CASE BetweenHands(t)
  <2>1. PICK C : t' = ScheduleStart(ApplyChips(t, {s}, C))
    BY <1>2 DEF AdjustChips
  <2>2. PICK u : u = ApplyChips(t, {s}, C)
    OBVIOUS
  <2>3. /\ u \in Table /\ SameCourse(u, t)
        /\ u.pendingChips = t.pendingChips /\ u.endAfterHand = t.endAfterHand
        /\ u.sitOutPending = t.sitOutPending
        /\ \A r \in Seats :
             /\ PlayerSound(u.pl[r]) /\ u.pl[r].leaving = t.pl[r].leaving
             /\ u.pl[r].inHand = t.pl[r].inHand /\ u.pl[r].bank = t.pl[r].bank
             /\ u.pl[r].missed = t.pl[r].missed
    BY <1>1, <2>2, ApplyChipsFacts
  <2>4. ~HandInProgress(t)
    BY <1>2 DEF BetweenHands
  <2>5. Goes(ScheduleStart(u), t)
    BY <1>1, <2>3, <2>4, TableChanged DEF SameCourse
  <2> QED BY <2>1, <2>2, <2>5
<1>3. CASE ~BetweenHands(t)
  <2>1. t' = [t EXCEPT !.pendingChips = @ \cup {s}]
    BY <1>3 DEF AdjustChips
  <2>2. /\ t' \in Table /\ t'.bounds = t.bounds /\ t'.settings = t.settings
        /\ t'.state = t.state /\ t'.hand = t.hand /\ t'.timer = t.timer
        /\ t'.startPending = t.startPending
        /\ t'.votes = t.votes /\ t'.sitOutPending = t.sitOutPending
        /\ t'.endAfterHand = t.endAfterHand /\ t'.pl = t.pl
        /\ t'.bankUsing = t.bankUsing
    BY <1>1, <2>1 DEF Table
  <2>3. HandInProgress(t)
    BY <1>3 DEF BetweenHands
  <2>4. Noted(t')
    BY <2>2, <2>3 DEF Noted, HandInProgress
  <2> QED BY <1>1, <2>2, <2>3, <2>4, TableChanged
<1> QED BY <1>2, <1>3

-----------------------------------------------------------------------------
(* The invariant is kept *)

\* A new table is idle and has nobody at it.
LEMMA TableInit == Init => TableInv(t)
<1> SUFFICES ASSUME Init PROVE TableInv(t)
  OBVIOUS
<1>0. PICK bounds \in Instances :
        \E settings \in bounds.settings :
          t = [bounds |-> bounds, state |-> "waiting", settings |-> settings,
               pl |-> [s \in Seats |-> Empty], hand |-> NoHand,
               timer |-> NoTimer, superseded |-> NoTimer, startPending |-> FALSE,
               endAfterHand |-> FALSE, votes |-> NoVote, ritDecided |-> FALSE,
               bankUsing |-> FALSE, sitOutPending |-> {}, pendingChips |-> {},
               late |-> 0]
  BY DEF Init
<1>1. PICK settings \in bounds.settings :
        t = [bounds |-> bounds, state |-> "waiting", settings |-> settings,
             pl |-> [s \in Seats |-> Empty], hand |-> NoHand,
             timer |-> NoTimer, superseded |-> NoTimer, startPending |-> FALSE,
             endAfterHand |-> FALSE, votes |-> NoVote, ritDecided |-> FALSE,
             bankUsing |-> FALSE, sitOutPending |-> {}, pendingChips |-> {},
             late |-> 0]
  BY <1>0
<1>2. PICK pl \in [Seats -> Player] : pl = [s \in Seats |-> Empty]
  BY NewPlayers
<1>3. /\ settings \in TableSettings /\ NoTimer \in Timer
      /\ NoVote \in (SUBSET Seats) \cup {NoVote} /\ 0 \in 0 .. MaxLate
      /\ NoHand \in HandView \cup {NoHand} /\ "waiting" \in States
  BY InstancesAssumption, BoundsAssumption DEF Timer, States
<1>4. t \in Table
  BY <1>1, <1>2, <1>3 DEF Table
<1>5. /\ t.bounds = bounds /\ t.settings = settings /\ t.state = "waiting"
      /\ t.hand = NoHand /\ t.pl = pl /\ t.timer = NoTimer
      /\ t.endAfterHand = FALSE /\ t.votes = NoVote
      /\ t.sitOutPending = {} /\ t.pendingChips = {}
  BY <1>1, <1>2
<1>6. \A s \in Seats : PlayerSound(t.pl[s]) /\ ~t.pl[s].inHand /\ ~t.pl[s].leaving
  BY <1>2, <1>5, NewPlayers
<1>7. Idle(t)
  BY <1>4, <1>5, <1>6 DEF Idle
<1>8. t.timer.kind = "none"
  BY <1>5 DEF NoTimer
<1> QED BY <1>5, <1>7, <1>8, IdleInv DEF Noted

\* Every step keeps the invariant and does what it may.
LEMMA TableStep == TableInv(t) /\ Next => Goes(t', t)
<1> SUFFICES ASSUME TableInv(t), Next PROVE Goes(t', t)
  OBVIOUS
<1>1. CASE Expire
  BY <1>1, ExpireStep DEF Expire
<1>2. CASE ExpireSuperseded
  <2>1. t' = [t EXCEPT !.superseded = NoTimer]
    BY <1>2 DEF ExpireSuperseded, Deliver
  <2>2. t' \in Table /\ SameAround(t', t) /\ t'.timer = t.timer
        /\ t'.startPending = t.startPending
    BY <2>1 DEF TableInv, Table, Timer, SameAround
  <2>3. TimerHeld(t')
    BY <2>2 DEF TableInv, TimerHeld, SameAround
  <2>4. t'.bankUsing = t.bankUsing
    BY <2>1 DEF TableInv, Table
  <2>5. (BankRuns(t) => BankRuns(t')) /\ Timed(t', t)
    BY <2>2, <2>4 DEF BankRuns, Betting, Timed, ResultTimed, HandDone, SameAround
  <2> QED BY <2>2, <2>3, <2>5, TimerStep
<1>3. ASSUME NEW s \in Seats,
             \/ Join(s) \/ Action(s)
             \/ Sent("connect") /\ Attach(s)
             \/ Sent("disconnect") /\ Detach(s)
             \/ Sent("pre_action") /\ (SetPreAction(s) \/ ClearPreAction(s))
             \/ Sent("run_twice") /\ \E agree \in BOOLEAN : RunTwice(s, agree)
             \/ Sent("sit_out") /\ SitOut(s)
             \/ SitIn(s) \/ Rebuy(s)
             \/ Sent("leave") /\ Leave(s)
             \/ Sent("show") /\ LateReveal(s)
             \/ Sent("chips") /\ AdjustChips(s)
      PROVE  Goes(t', t)
  <2>1. CASE Join(s)
    BY <2>1, JoinStep
  <2>2. CASE Action(s)
    BY <2>2, ActionStep
  <2>3. CASE Attach(s) \/ Detach(s)
    BY <2>3, ConnectStep
  <2>4. CASE SetPreAction(s)
    BY <2>4, SetPreActionStep
  <2>5. CASE ClearPreAction(s)
    BY <2>5, ClearPreActionStep
  <2>6. CASE Sent("run_twice") /\ \E agree \in BOOLEAN : RunTwice(s, agree)
    BY <2>6, RunTwiceStep
  <2>7. CASE Sent("sit_out") /\ SitOut(s)
    BY <2>7, SitOutStep
  <2>8. CASE SitIn(s)
    BY <2>8, SitInStep
  <2>9. CASE Rebuy(s)
    BY <2>9, RebuyStep
  <2>10. CASE Sent("leave") /\ Leave(s)
    BY <2>10, LeaveStep
  <2>11. CASE LateReveal(s)
    BY <2>11, LateRevealStep
  <2>12. CASE AdjustChips(s)
    BY <2>12, AdjustChipsStep
  <2> QED BY <1>3, <2>1, <2>2, <2>3, <2>4, <2>5, <2>6, <2>7, <2>8, <2>9, <2>10,
             <2>11, <2>12
<1>4. CASE \E new \in t.bounds.settings : UpdateSettings(new)
  BY <1>4, UpdateSettingsStep
<1>5. CASE Start \/ Pause \/ Resume
  BY <1>5, StateStep
<1>6. CASE Restart
  BY <1>6, RestartStep
<1>7. CASE \E immediate \in BOOLEAN : End(immediate)
  BY <1>7, EndStep
<1> QED BY <1>1, <1>2, <1>3, <1>4, <1>5, <1>6, <1>7 DEF Next

\* A step that changes nothing.
LEMMA TableStutter == TableInv(t) /\ t' = t => TableInv(t')
  OBVIOUS

-----------------------------------------------------------------------------
(* Theorems *)

\* TableInv holds of every table the actor can come to.
THEOREM TableInvHolds == Spec => []TableInv(t)
<1>1. TableInv(t) /\ [Next]_t => TableInv(t')
  BY TableStep, TableStutter DEF Goes
<1>2. TableInv(t) /\ [Next]_t => (TableInv(t))'
  BY <1>1
<1> QED BY TableInit, <1>2, PTL DEF Spec

\* Players, seats, stacks and the hand agree at every table, with any number
\* of seats and whatever players and host send.
THEOREM SeatsFit == Spec => []SeatsFitTheHand
<1>1. TableInv(t) => SeatsFitTheHand
  <2> SUFFICES ASSUME TableInv(t) PROVE SeatsFitTheHand
    OBVIOUS
  <2>1. TypeOK
    BY DEF TypeOK, TableInv
  <2>2. SeatsHeld
    BY DEF SeatsHeld, TableInv, HandHeld
  <2>3. TurnIsPlayable
    <3>1. SUFFICES ASSUME Betting(t) PROVE Playable(t.pl[t.hand.toAct])
      BY DEF TurnIsPlayable, Playable
    <3>2. HandInProgress(t) /\ t.hand.phase = "betting"
      BY <3>1 DEF Betting, HandInProgress
    <3>3. t.hand.toAct \in Turns(t.hand)
      BY <3>2 DEF TableInv, HandHeld, HandSound, Turns
    <3> QED BY <3>2, <3>3 DEF TableInv, HandHeld
  <2>4. StatusMatchesChips
    <3>1. \A s \in Seated(t) : PlayerSound(t.pl[s])
      BY DEF TableInv, Seated
    <3> QED BY <3>1 DEF StatusMatchesChips, PlayerSound
  <2> QED BY <2>1, <2>2, <2>3, <2>4 DEF SeatsFitTheHand
<1> QED BY <1>1, TableInvHolds, PTL

\* Nothing that was put off to the end of a hand outlives it.
THEOREM NothingIsLeft == Spec => []NothingLingers
<1>1. TableInv(t) => NothingLingers
  BY DEF TableInv, PutOff, NothingLingers
<1> QED BY <1>1, TableInvHolds, PTL

\* The table's timer is armed for what comes next and a start is noted, as
\* long as no vote outlives its hand: an answer that comes after the result
\* replaces the result's timer by one that does nothing.
THEOREM TimerIsArmed ==
  Spec /\ [](t.votes # NoVote => ~HandDone(t)) => []TableMovesOn
<1>1. TableInv(t) /\ ResultTimed(t) => TableMovesOn
  <2> SUFFICES ASSUME TableInv(t), ResultTimed(t) PROVE TableMovesOn
    OBVIOUS
  <2>1. t.hand # NoHand => t.hand.phase \in Phases
    BY HandKinds DEF TableInv, Table
  <2>2. TimerFits
    BY <2>1 DEF TableInv, TimerHeld, TimerFits, Phases, ResultTimed, HandDone
  <2>3. StartIsNoted
    BY DEF TableInv, Noted, StartIsNoted, CouldDeal
  <2> QED BY <2>2, <2>3 DEF TableMovesOn
<1>2. Init => ResultTimed(t)
  BY HandGone DEF Init
<1>3. /\ TableInv(t) /\ ResultTimed(t) /\ [Next]_t
      /\ t.votes # NoVote => ~HandDone(t)
      => (ResultTimed(t))'
  <2> SUFFICES ASSUME TableInv(t), ResultTimed(t), [Next]_t,
                      t.votes # NoVote => ~HandDone(t)
               PROVE  ResultTimed(t')
    OBVIOUS
  <2>1. CASE Next
    BY <2>1, TableStep DEF Goes, Timed, VoteInHand
  <2>2. CASE t' = t
    BY <2>2
  <2> QED BY <2>1, <2>2
<1> QED BY <1>1, <1>2, <1>3, TableInvHolds, PTL DEF Spec

\* A hand comes off the table with its result or with the end of the table.
THEOREM HandsEnd == Spec => HandsEndInResults
<1>1. TableInv(t) /\ [Next]_t =>
        [/\ HandInProgress(t) /\ ~HandInProgress(t') =>
              HandDone(t') \/ t'.state = "ended"
         /\ HandInProgress(t) /\ HandInProgress(t') =>
              t'.hand.dealt = t.hand.dealt /\ t'.hand.street >= t.hand.street
         /\ t.hand = NoHand /\ t'.hand # NoHand => t'.state = "running"
         /\ HandDone(t) /\ HandInProgress(t') =>
              t'.state = "running" /\ ~t.endAfterHand]_t
  BY TableStep DEF Goes, EndsWell
<1> QED BY <1>1, TableInvHolds, PTL DEF Spec, HandsEndInResults

\* A turn is charged to the seat it belongs to: a bank runs in the turn it was
\* taken in and is emptied in no other, and only the seat's own clock counts
\* as a missed turn, and not before the bank is used up.
THEOREM TurnsAreChargedRight == Spec => TurnsAreCharged
<1>1. Init => BankRuns(t)
  BY HandGone DEF Init
<1>2. TableInv(t) /\ BankRuns(t) /\ [Next]_t => (BankRuns(t))'
  <2> SUFFICES ASSUME TableInv(t), BankRuns(t), [Next]_t PROVE BankRuns(t')
    OBVIOUS
  <2>1. CASE Next
    BY <2>1, TableStep DEF Goes, Charges
  <2>2. CASE t' = t
    BY <2>2
  <2> QED BY <2>1, <2>2
<1>3. TableInv(t) /\ BankRuns(t) /\ [Next]_t =>
        [BankFits' /\ \A s \in Seats : BankSpent(s) /\ MissedFairly(s)]_t
  <2> SUFFICES ASSUME TableInv(t), BankRuns(t), Next
               PROVE  BankFits' /\ \A s \in Seats : BankSpent(s) /\ MissedFairly(s)
    OBVIOUS
  <2>1. Charges(t', t) /\ BankRuns(t')
    BY TableStep DEF Goes, Charges
  <2>2. BankFits'
    BY <2>1 DEF BankFits, BankRuns
  <2>3. ASSUME NEW s \in Seats PROVE BankSpent(s)
    BY <2>1 DEF BankSpent, Charges, BankOpen
  <2>4. ASSUME NEW s \in Seats PROVE MissedFairly(s)
    <3>1. t.pl[s].missed \in Nat
      BY DEF TableInv, Table, Player
    <3>2. CASE t'.pl[s].missed \in {t.pl[s].missed, 0}
      BY <3>1, <3>2 DEF MissedFairly
    <3>3. CASE MissedTurn(t', t, s)
      BY <3>3 DEF MissedFairly, MissedTurn
    <3> QED BY <2>1, <3>2, <3>3 DEF Charges
  <2> QED BY <2>2, <2>3, <2>4
<1> QED BY <1>1, <1>2, <1>3, TableInvHolds, PTL DEF Spec, TurnsAreCharged
=============================================================================
