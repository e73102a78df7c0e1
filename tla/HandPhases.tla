----------------------------- MODULE HandPhases -----------------------------
(***************************************************************************)
(* A hand as its table sees it: who was dealt in, who is live and all-in,  *)
(* whose turn it is, the phase, and who is out of chips at the end.  What  *)
(* the cards and the amounts decide is a choice between the hands the      *)
(* engine may come to; the operators return the set of them.  TableHand is *)
(* the specification made of them, which PokerHand implements; TableActor  *)
(* plays its hands with them.                                              *)
(***************************************************************************)
EXTENDS Integers, FiniteSets

CONSTANTS
  Seats,      \* the seats of the table
  NoSeat,     \* no seat
  LastStreet  \* number of streets after the first

ASSUME HandPhasesAssumption ==
  NoSeat \notin Seats /\ IsFiniteSet(Seats) /\ LastStreet \in Nat \ {0}

Phases == {"betting", "deal_pending", "showdown", "result"}

HandView ==
  [dealt : SUBSET Seats, live : SUBSET Seats, allIn : SUBSET Seats,
   phase : Phases, toAct : Seats \cup {NoSeat}, street : 0 .. LastStreet,
   runout : BOOLEAN, twice : BOOLEAN, toShow : 0 .. Cardinality(Seats),
   contested : BOOLEAN, broke : SUBSET Seats]

Active(g) == g.live \ g.allIn

-----------------------------------------------------------------------------
(* Ends of a betting round and of a hand *)

\* An uncalled bet goes back and its seat is no longer all-in.  When others
\* are left that can bet, they have called.
UncalledBack(g) ==
  IF Cardinality(g.live) > 1 /\ Active(g) # {} THEN {g}
  ELSE {g} \cup {[g EXCEPT !.allIn = @ \ {s}] : s \in g.allIn}

\* The last live seat takes everything: whoever else was all-in is broke.
Uncontested(g) ==
  {[u EXCEPT !.phase = "result", !.toAct = NoSeat,
             !.broke = u.allIn \ u.live] : u \in UncalledBack(g)}

\* The pots are paid: a live seat wins, and only all-in seats can be broke.
Awarded(g) ==
  {[g EXCEPT !.phase = "result", !.toAct = NoSeat, !.contested = TRUE,
             !.broke = B] :
     B \in {B \in SUBSET g.allIn : g.allIn \ g.live \subseteq B
                                   /\ ~(g.live \subseteq B)}}

\* The river was bet: hands are shown one by one.
ToShowdown(g) ==
  {[g EXCEPT !.phase = "showdown", !.toAct = NoSeat,
             !.toShow = Cardinality(g.live)]}

\* With fewer than two seats that can still bet, the board is run out.
RoundOver(g) ==
  UNION {IF u.street = LastStreet THEN ToShowdown(u)
         ELSE {[u EXCEPT !.phase = "deal_pending", !.toAct = NoSeat,
                         !.runout = (Cardinality(Active(u)) < 2)]} :
           u \in UncalledBack(g)}

\* Somebody acted or a round opened, and the turn is not s's.
Settled(g, s) ==
  IF Cardinality(g.live) = 1 THEN Uncontested(g)
  ELSE RoundOver(g)
         \cup {[g EXCEPT !.phase = "betting", !.toAct = t] :
                 t \in Active(g) \ {s}}

-----------------------------------------------------------------------------
(* What the table asks of the engine *)

\* NewHand: blinds may put anybody all-in.
Opened(D) ==
  UNION {Settled([dealt |-> D, live |-> D, allIn |-> A, phase |-> "betting",
                  toAct |-> NoSeat, street |-> 0, runout |-> FALSE,
                  twice |-> FALSE, toShow |-> 0, contested |-> FALSE,
                  broke |-> {}],
                 NoSeat) : A \in SUBSET D}

\* Apply: the seat to act folds, stays, or stays with its last chips.
Applied(g) ==
  LET s == g.toAct
  IN  Settled([g EXCEPT !.live = @ \ {s}], s)
        \cup Settled(g, s)
        \cup Settled([g EXCEPT !.allIn = @ \cup {s}], s)

\* Timeout: check if that is free, else fold.
TimedOut(g) ==
  LET s == g.toAct
  IN  Settled([g EXCEPT !.live = @ \ {s}], s) \cup Settled(g, s)

\* Forfeit: nothing for a folded seat, at the showdown or after it.
Forfeited(g, s) ==
  LET f == [g EXCEPT !.live = @ \ {s}]
  IN  IF s \notin g.live \/ g.phase \in {"showdown", "result"} THEN {g}
      ELSE IF Cardinality(f.live) = 1 THEN Uncontested(f)
      ELSE IF g.phase = "deal_pending" THEN {f}
      ELSE IF g.toAct = s THEN Settled(f, s)
      ELSE {f} \cup RoundOver(f)

\* Advance: the next street; a run-out ends with every hand on its back.
Advanced(g) ==
  LET d == [g EXCEPT !.street = @ + 1]
  IN  IF ~g.runout THEN Settled(d, NoSeat)
      ELSE IF d.street = LastStreet THEN Awarded(d)
      ELSE {d}

CanRunItTwice(g) == g.phase = "deal_pending" /\ g.runout /\ ~g.twice
RanTwice(g)      == [g EXCEPT !.twice = TRUE]

\* RevealNext: the last hand shown pays the pots.
Revealed(g) ==
  LET r == [g EXCEPT !.toShow = @ - 1]
  IN  IF r.toShow = 0 THEN Awarded(r) ELSE {r}

=============================================================================
