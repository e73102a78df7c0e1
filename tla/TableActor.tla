----------------------------- MODULE TableActor -----------------------------
(***************************************************************************)
(* The table actor (src/backend/internal/table): one goroutine that takes  *)
(* commands of players and of the host and timer callbacks from its inbox, *)
(* one at a time.  Every command and every callback is one action.         *)
(*                                                                         *)
(* The table is a record t; the operators that take a table are the actor's *)
(* functions.  Those in which the engine plays return the set of tables    *)
(* the function may end with, one for each hand HandPhases allows.         *)
(*                                                                         *)
(* A player is identified with the seat: moving is TableSeats' subject.    *)
(* Stacks are abstracted to having chips or not, clocks to whether the     *)
(* time bank has something left.  Chat, voice, drawings, avatars and what  *)
(* is sent to the clients never change what is modelled here.              *)
(***************************************************************************)
EXTENDS HandPhases

CONSTANTS
  Instances,      \* settings and the commands that are sent under them
  SitOutAfter,    \* sit_out_after_missed_turns
  MaxLate         \* bound on late reveals and rabbit hunts in one hand

(***************************************************************************)
(* autoStart, runItTwice and rebuy are the settings of these names, bank   *)
(* says that there is a time bank and refill that it is ever refilled.     *)
(***************************************************************************)
TableSettings ==
  [autoStart : BOOLEAN, runItTwice : BOOLEAN, rebuy : BOOLEAN, bank : BOOLEAN,
   refill : BOOLEAN]

(***************************************************************************)
(* An instance bounds a behaviour: the settings the table may be created   *)
(* with and changed to, the commands that are sent, and whether a replaced *)
(* timer callback is delivered late.                                       *)
(***************************************************************************)
ASSUME InstancesAssumption ==
  \A i \in Instances : /\ i.settings \subseteq TableSettings
                       /\ i.late \in BOOLEAN
ASSUME BoundsAssumption == SitOutAfter \in Nat \ {0} /\ MaxLate \in Nat

VARIABLE t

NoHand == [phase |-> "none"]
NoVote == {NoSeat}
States == {"waiting", "running", "paused", "ended"}

\* The one timer of the table; seat is the turn the callback was armed for.
Kinds   == {"start", "turn", "vote", "deal", "reveal", "result", "clear"}
NoTimer == [kind |-> "none", seat |-> NoSeat]
Timer   == [kind : Kinds, seat : Seats \cup {NoSeat}] \cup {NoTimer}

\* pre: check/fold or call any is armed.  usedBank: in this hand.
Player ==
  [status : {"empty", "active", "sitting_out", "busted"}, chips : BOOLEAN,
   inHand : BOOLEAN, leaving : BOOLEAN, missed : 0 .. SitOutAfter,
   bank : BOOLEAN, usedBank : BOOLEAN, pre : BOOLEAN, connected : BOOLEAN]
Empty ==
  [status |-> "empty", chips |-> FALSE, inHand |-> FALSE, leaving |-> FALSE,
   missed |-> 0, bank |-> FALSE, usedBank |-> FALSE, pre |-> FALSE,
   connected |-> FALSE]
Joined(settings) ==
  [Empty EXCEPT !.status = "active", !.chips = TRUE, !.bank = settings.bank]

-----------------------------------------------------------------------------
(* Views of a table *)

Seated(u)     == {s \in Seats : u.pl[s].status # "empty"}
Eligible(u)   == {s \in Seats : u.pl[s].status = "active" /\ u.pl[s].chips}
WithChips(u)  == {s \in Seated(u) : u.pl[s].chips}
InHand(u)     == {s \in Seats : u.pl[s].inHand}
HandDone(u)   == u.hand # NoHand /\ u.hand.phase = "result"
HandInProgress(u) == u.hand # NoHand /\ u.hand.phase # "result"
Betting(u)        == u.hand # NoHand /\ u.hand.phase = "betting"
BetweenHands(u)   == ~HandInProgress(u)

\* liveSeats: still in the hand, for the table and for the engine.
LiveSeats(u) == InHand(u) \cap u.hand.live

-----------------------------------------------------------------------------
(* The timer.  A callback that was replaced or cancelled may already be on *)
(* its way: it is delivered, and the generation it was armed with tells    *)
(* that it is out of date.                                                 *)

Superseded(u) ==
  IF ~u.bounds.late \/ u.timer = NoTimer THEN u.superseded ELSE u.timer

Schedule(u, kind) ==
  [u EXCEPT !.superseded = Superseded(u),
            !.timer = [kind |-> kind,
                       seat |-> IF kind = "turn" THEN u.hand.toAct ELSE NoSeat]]
CancelTimer(u) == [u EXCEPT !.superseded = Superseded(u), !.timer = NoTimer]

-----------------------------------------------------------------------------
(* Seats *)

FreeSeats(u, S) ==
  [u EXCEPT !.pl = [s \in Seats |-> IF s \in S THEN Empty ELSE u.pl[s]],
            !.sitOutPending = @ \ S]

\* Mutant: a player whose last chips are taken stays active.
ApplyChipsKeepsStatus(u, S, C) ==
  [u EXCEPT !.pl = [s \in Seats |->
     IF s \in S THEN [u.pl[s] EXCEPT !.chips = (s \in C)] ELSE u.pl[s]]]

\* Chips granted or taken by the host; C: the seats that have chips after it.
ApplyChips(u, S, C) ==
  [u EXCEPT !.pl = [s \in Seats |->
     IF s \notin S THEN u.pl[s]
     ELSE [u.pl[s] EXCEPT
             !.chips = (s \in C),
             !.status = IF @ = "active" /\ s \notin C THEN "busted"
                        ELSE IF @ = "busted" /\ s \in C THEN "active" ELSE @]]]

-----------------------------------------------------------------------------
(* The end of a hand *)

\* What finishHand does to a player of the finished hand g.
Finished(u, p, s) ==
  LET g     == u.hand
      chips == s \notin g.broke
      out   == s \in u.sitOutPending
  IN  [p EXCEPT !.chips = chips, !.pre = FALSE, !.usedBank = FALSE,
                !.bank = \/ @
                         \/ u.settings.bank /\ u.settings.refill /\ ~p.usedBank,
                !.missed = IF out THEN 0 ELSE @,
                !.status = IF @ # "active" THEN @
                           ELSE IF ~chips THEN "busted"
                           ELSE IF out THEN "sitting_out" ELSE @]

\* Mutant: the leavers keep their seats.
FinishHandKeepsLeavers(u) ==
  {[u EXCEPT !.pl = [s \in Seats |-> IF u.pl[s].inHand
                                     THEN Finished(u, u.pl[s], s)
                                     ELSE u.pl[s]],
             !.sitOutPending = @ \ InHand(u), !.pendingChips = {}]}

\* Queued chip adjustments come after the leavers, the end of a table
\* without rebuys after both.
FinishHand(u) ==
  LET played  == [u EXCEPT !.pl = [s \in Seats |->
                     IF u.pl[s].inHand THEN Finished(u, u.pl[s], s)
                     ELSE u.pl[s]],
                   !.sitOutPending = @ \ InHand(u)]
      freed   == FreeSeats(played, {s \in InHand(u) : u.pl[s].leaving})
      queued  == freed.pendingChips \cap Seated(freed)
      settled == {[ApplyChips(freed, queued, C) EXCEPT !.pendingChips = {}] :
                    C \in SUBSET queued}
  IN  {[v EXCEPT !.endAfterHand =
          @ \/ (~v.settings.rebuy /\ Cardinality(Seated(v)) >= 2
                                  /\ Cardinality(WithChips(v)) <= 1)] :
         v \in settled}

-----------------------------------------------------------------------------
(* After the engine played *)

\* A turn with a pre-selected action is played as soon as it comes.  Such an
\* action is no raise, so nobody has a second turn because of it and a run
\* of them is no longer than the table.
AutoPlayed(u, G) ==
  LET Auto(g) == g.phase = "betting" /\ u.pl[g.toAct].pre
      after[n \in 0 .. Cardinality(Seats)] ==
        IF n = 0 THEN G
        ELSE UNION {IF Auto(g) THEN Applied(g) ELSE {g} : g \in after[n - 1]}
  IN  {g \in after[Cardinality(Seats)] : ~Auto(g)}

VoteIsDue(u) ==
  /\ u.settings.runItTwice /\ ~u.ritDecided
  /\ CanRunItTwice(u.hand) /\ Cardinality(LiveSeats(u)) > 1

\* Mutant: a turn that comes finds the bank running if the last one left it so.
OnTheBank(u) == u

\* A turn that comes, or comes again, starts on the plain clock.
OnTheClock(u) == [u EXCEPT !.bankUsing = FALSE]

\* The timer the phase of the hand asks for.
Armed(u) ==
  CASE u.hand.phase = "betting" ->
         {Schedule(OnTheClock(u), "turn")}
    [] u.hand.phase = "deal_pending" ->
         IF VoteIsDue(u) THEN {Schedule([u EXCEPT !.votes = {}], "vote")}
                         ELSE {Schedule(u, "deal")}
    [] u.hand.phase = "showdown" -> {Schedule(u, "reveal")}
    [] u.hand.phase = "result" ->
         {Schedule(v, IF v.hand.contested THEN "result" ELSE "clear") :
            v \in FinishHand(u)}

\* afterEngine, with G the hands the engine may have come to.
AfterEngine(u, G) ==
  UNION {Armed([u EXCEPT !.hand = g]) : g \in AutoPlayed(u, G)}

-----------------------------------------------------------------------------
(* Starting, clearing and ending *)

\* Mutant: the start is noted, but the timer is not armed.
ScheduleStartUnarmed(u) ==
  IF /\ u.hand = NoHand /\ ~u.startPending /\ u.state = "running"
     /\ Cardinality(Eligible(u)) >= 2
  THEN [u EXCEPT !.startPending = TRUE] ELSE u

\* scheduleStart: the deal waits for the joining player's connection.
ScheduleStart(u) ==
  IF /\ u.hand = NoHand /\ ~u.startPending
     /\ \/ u.state = "running"
        \/ u.state = "waiting" /\ u.settings.autoStart
     /\ Cardinality(Eligible(u)) >= 2
  THEN Schedule([u EXCEPT !.startPending = TRUE], "start")
  ELSE u

DealtIn(p) == [p EXCEPT !.inHand = TRUE, !.usedBank = FALSE]

StartHand(u) ==
  AfterEngine([u EXCEPT !.pl = [s \in Seats |->
                          IF s \in Eligible(u) THEN DealtIn(u.pl[s])
                                               ELSE u.pl[s]],
                        !.votes = NoVote, !.ritDecided = FALSE,
                        !.bankUsing = FALSE, !.late = 0],
              Opened(Eligible(u)))

MaybeStartHand(u) ==
  LET v == IF u.state = "waiting" /\ u.settings.autoStart
           THEN [u EXCEPT !.state = "running"] ELSE u
  IN  IF u.hand # NoHand \/ Cardinality(Eligible(u)) < 2 THEN {u}
      ELSE IF v.state # "running" THEN {u}
      ELSE StartHand(v)

OutOfHand(u) ==
  [u EXCEPT !.hand = NoHand,
            !.pl = [s \in Seats |-> [u.pl[s] EXCEPT !.inHand = FALSE]]]

\* Mutant: the timer is left running.
EndTableKeepsTimer(u) == [OutOfHand(u) EXCEPT !.state = "ended"]

EndTable(u) == CancelTimer([OutOfHand(u) EXCEPT !.state = "ended"])

\* Stacks go back to what they were at the deal, when everybody had chips.
Voided(p) ==
  [p EXCEPT !.chips = TRUE, !.inHand = FALSE, !.pre = FALSE]
VoidHand(u) ==
  LET v == CancelTimer([u EXCEPT !.hand = NoHand,
             !.pl = [s \in Seats |-> IF s \in u.hand.dealt THEN Voided(u.pl[s])
                                                           ELSE u.pl[s]]])
  IN  FreeSeats(v, {s \in Seats : u.pl[s].leaving})

\* Mutant: the request to end after the hand is forgotten.
ClearHandDealsOn(u) ==
  MaybeStartHand([OutOfHand(u) EXCEPT !.votes = NoVote, !.ritDecided = FALSE,
                                      !.bankUsing = FALSE])

ClearHand(u) ==
  LET v == [OutOfHand(u) EXCEPT !.votes = NoVote, !.ritDecided = FALSE,
                                !.bankUsing = FALSE]
  IN  IF u.endAfterHand THEN {EndTable([v EXCEPT !.endAfterHand = FALSE])}
      ELSE MaybeStartHand(v)

-----------------------------------------------------------------------------
(* Timer callbacks *)

VoteComplete(u) == LiveSeats(u) \subseteq u.votes

ResolveRunTwice(u, agreed) ==
  IF u.hand = NoHand \/ u.votes = NoVote THEN u
  ELSE Schedule([u EXCEPT !.votes = NoVote, !.ritDecided = TRUE,
                          !.hand = IF agreed /\ CanRunItTwice(@)
                                   THEN RanTwice(@) ELSE @],
                "deal")

\* Mutant: nothing is scheduled after the deal.
AdvanceHandUnscheduled(u) ==
  IF u.hand = NoHand \/ u.hand.phase # "deal_pending" THEN {u}
  ELSE {[u EXCEPT !.hand = g] : g \in Advanced(u.hand)}

AdvanceHand(u) ==
  IF u.hand = NoHand \/ u.hand.phase # "deal_pending" THEN {u}
  ELSE AfterEngine(u, Advanced(u.hand))

RevealStep(u) ==
  IF u.hand = NoHand \/ u.hand.phase # "showdown" THEN {u}
  ELSE AfterEngine(u, Revealed(u.hand))

\* Mutant: the count goes on.
MissedWithoutLimit(p) == [p EXCEPT !.missed = @ + 1]

\* The count stops at the limit: only reaching it matters.
Missed(p)  == [p EXCEPT !.missed = IF @ < SitOutAfter THEN @ + 1 ELSE @]
\* Mutant: that the bank kicked in is not noted.
OnBankUnnoted(p) == p
OnBank(p)  == [p EXCEPT !.usedBank = TRUE]
OffBank(p) == [p EXCEPT !.bank = FALSE]

\* Mutant: a turn that timed out empties the time bank, used or not.
OnTurnTimeoutSpends(u, s) ==
  IF ~Betting(u) \/ u.hand.toAct # s THEN {u}
  ELSE AfterEngine([u EXCEPT !.pl[s] = OffBank(u.pl[s])], TimedOut(u.hand))

\* The clock ran out: the time bank first, then check or fold.
OnTurnTimeout(u, s) ==
  LET p    == u.pl[s]
      late == Missed(IF u.bankUsing THEN OffBank(p) ELSE p)
  IN  IF ~Betting(u) \/ u.hand.toAct # s THEN {u}
      ELSE IF ~u.bankUsing /\ p.connected /\ p.bank
      THEN {Schedule([u EXCEPT !.bankUsing = TRUE, !.pl[s] = OnBank(p)], "turn")}
      ELSE AfterEngine([u EXCEPT !.bankUsing = FALSE, !.pl[s] = late,
                                 !.sitOutPending =
                                    IF late.missed >= SitOutAfter
                                    THEN @ \cup {s} ELSE @],
                       TimedOut(u.hand))

Callback(u, timer) ==
  CASE timer.kind = "start"  -> MaybeStartHand([u EXCEPT !.startPending = FALSE])
    [] timer.kind = "turn"   -> OnTurnTimeout(u, timer.seat)
    [] timer.kind = "vote"   -> {ResolveRunTwice(u, u.votes # NoVote
                                                    /\ VoteComplete(u))}
    [] timer.kind = "deal"   -> AdvanceHand(u)
    [] timer.kind = "reveal" -> RevealStep(u)
    [] timer.kind = "result" -> {Schedule(u, "clear")}
    [] timer.kind = "clear"  -> ClearHand(u)

Expire ==
  /\ t.timer # NoTimer
  /\ t' \in Callback([t EXCEPT !.timer = NoTimer], t.timer)

\* Mutant: the callback runs without a look at the generation.
DeliverUnchecked(u, timer) == Callback(u, timer)

\* A callback of another generation does nothing.
Deliver(u, timer) == {u}

ExpireSuperseded ==
  /\ t.superseded # NoTimer
  /\ t' \in Deliver([t EXCEPT !.superseded = NoTimer], t.superseded)

-----------------------------------------------------------------------------
(* Commands of players *)

\* A player's command is refused at an ended table and without a seat.
At(s) == t.state # "ended" /\ s \in Seated(t)

Join(s) ==
  /\ t.state # "ended" /\ s \notin Seated(t)
  /\ t' = ScheduleStart([t EXCEPT !.pl[s] = Joined(t.settings)])

Attach(s) ==
  /\ s \in Seated(t) /\ t' = [t EXCEPT !.pl[s].connected = TRUE]
Detach(s) ==
  /\ s \in Seated(t) /\ t' = [t EXCEPT !.pl[s].connected = FALSE]

\* What is left of the time bank goes back to the player.
Answered(p, left) ==
  [p EXCEPT !.missed = 0, !.pre = FALSE, !.bank = left]

Action(s) ==
  /\ At(s) /\ t.pl[s].inHand /\ Betting(t) /\ t.hand.toAct = s
  /\ \E left \in IF t.bankUsing THEN BOOLEAN ELSE {t.pl[s].bank} :
       t' \in AfterEngine([t EXCEPT !.pl[s] = Answered(@, left),
                                    !.bankUsing = FALSE],
                          Applied(t.hand))

\* Armed on the player's own turn it is played at once.
SetPreAction(s) ==
  /\ At(s)
  /\ LET u == [t EXCEPT !.pl[s].pre = TRUE]
     IN  IF t.pl[s].inHand /\ Betting(t) /\ t.hand.toAct = s
         THEN t' \in AfterEngine(u, {t.hand})
         ELSE t' = u
ClearPreAction(s) == At(s) /\ t' = [t EXCEPT !.pl[s].pre = FALSE]

RunTwice(s, agree) ==
  /\ At(s) /\ t.votes # NoVote /\ t.hand # NoHand
  /\ t.pl[s].inHand /\ s \in t.hand.live /\ s \notin t.votes
  /\ LET u == [t EXCEPT !.votes = IF agree THEN @ \cup {s} ELSE @]
     IN  t' = IF ~agree \/ VoteComplete(u)
              THEN ResolveRunTwice(u, agree) ELSE u

\* Mutant: the cards are kept until the hand is over.
SitOutStaysIn(s) ==
  /\ At(s) /\ t.pl[s].status = "active"
  /\ t' = [t EXCEPT !.pl[s].status = "sitting_out"]

\* A seat that can still act is folded at once, whoever's turn it is.
SitOut(s) ==
  /\ At(s) /\ t.pl[s].status = "active"
  /\ LET u == [t EXCEPT !.pl[s].status = "sitting_out"]
     IN  IF /\ HandInProgress(t) /\ t.pl[s].inHand
            /\ s \in t.hand.live /\ s \notin t.hand.allIn
         THEN t' \in AfterEngine(u, Forfeited(t.hand, s))
         ELSE t' = u

Back(p) ==
  [p EXCEPT !.status = IF p.chips THEN "active" ELSE "busted", !.missed = 0]
\* Mutant: nobody thinks of the next hand.
SitInWithoutStart(s) ==
  /\ At(s) /\ t.pl[s].status = "sitting_out"
  /\ t' = [t EXCEPT !.pl[s] = Back(@)]

SitIn(s) ==
  /\ At(s) /\ t.pl[s].status = "sitting_out"
  /\ t' = ScheduleStart([t EXCEPT !.pl[s] = Back(@)])

Rebought(p) == [p EXCEPT !.status = "active", !.chips = TRUE]
Rebuy(s) ==
  /\ At(s) /\ t.settings.rebuy /\ t.pl[s].status = "busted"
  /\ BetweenHands(t)
  /\ t' = ScheduleStart([t EXCEPT !.pl[s] = Rebought(@)])

\* Mutant: the seat is free while the hand goes on.
LeaveFreesSeat(s) ==
  /\ s \in Seated(t)
  /\ IF HandInProgress(t) /\ t.pl[s].inHand
     THEN t' \in {FreeSeats(u, {s}) : u \in AfterEngine(t, Forfeited(t.hand, s))}
     ELSE t' = FreeSeats(t, {s})

\* Leave, and Kick at a table that has not ended.  In a hand the player is
\* folded and the seat is freed with the end of the hand.
Leave(s) ==
  /\ s \in Seated(t)
  /\ LET u == [t EXCEPT !.pl[s].leaving = TRUE]
     IN  IF HandInProgress(t) /\ t.pl[s].inHand
         THEN t' \in AfterEngine(u, Forfeited(t.hand, s))
         ELSE t' = FreeSeats(u, {s})

\* ShowCards and RabbitHunt: the result stays on screen for a while, unless
\* it would have stayed longer anyway.
LateReveal(s) ==
  /\ At(s) /\ HandDone(t) /\ t.pl[s].inHand /\ t.late < MaxLate
  /\ LET u == [t EXCEPT !.late = @ + 1]
     IN  t' \in {u, Schedule(u, "clear")}

-----------------------------------------------------------------------------
(* Commands of the host *)

UpdateSettings(new) ==
  /\ t.state # "ended"
  /\ t' = ScheduleStart([t EXCEPT !.settings = new])

Start ==
  /\ t.state = "waiting"
  /\ t' \in MaybeStartHand([t EXCEPT !.state = "running"])
Pause == t.state = "running" /\ t' = [t EXCEPT !.state = "paused"]
Resume ==
  /\ t.state = "paused"
  /\ t' \in MaybeStartHand([t EXCEPT !.state = "running"])

End(immediate) ==
  /\ t.state # "ended"
  /\ t' = IF ~HandInProgress(t) THEN EndTable(t)
          ELSE IF immediate THEN EndTable(VoidHand(t))
          ELSE [t EXCEPT !.endAfterHand = TRUE]

\* A new round: everybody has the start money.
NewRound(p) ==
  IF p.status = "empty" THEN p
  ELSE [Joined(t.settings) EXCEPT !.connected = p.connected]
Restart ==
  /\ t.state = "ended"
  /\ t' = [t EXCEPT !.state = "waiting", !.endAfterHand = FALSE,
                    !.pendingChips = {}, !.sitOutPending = {},
                    !.pl = [s \in Seats |-> NewRound(t.pl[s])]]

\* Between hands at once, else queued.
AdjustChips(s) ==
  /\ At(s)
  /\ IF BetweenHands(t)
     THEN \E C \in IF t.pl[s].chips THEN {{}, {s}} ELSE {{s}} :
            t' = ScheduleStart(ApplyChips(t, {s}, C))
     ELSE t' = [t EXCEPT !.pendingChips = @ \cup {s}]

-----------------------------------------------------------------------------
Init ==
  \E bounds \in Instances : \E settings \in bounds.settings :
    t = [bounds |-> bounds, state |-> "waiting", settings |-> settings,
         pl |-> [s \in Seats |-> Empty], hand |-> NoHand,
         timer |-> NoTimer, superseded |-> NoTimer, startPending |-> FALSE,
         endAfterHand |-> FALSE, votes |-> NoVote, ritDecided |-> FALSE,
         bankUsing |-> FALSE, sitOutPending |-> {}, pendingChips |-> {},
         late |-> 0]

Sent(command) == command \in t.bounds.commands

Next ==
  \/ Expire \/ ExpireSuperseded
  \/ \E s \in Seats :
       \/ Join(s) \/ Action(s)
       \/ Sent("connect") /\ Attach(s)
       \/ Sent("disconnect") /\ Detach(s)
       \/ Sent("pre_action") /\ (SetPreAction(s) \/ ClearPreAction(s))
       \/ Sent("run_twice") /\ \E agree \in BOOLEAN : RunTwice(s, agree)
       \/ Sent("sit_out") /\ SitOut(s)
       \/ SitIn(s) \/ Rebuy(s)
       \/ Sent("leave") /\ Leave(s)
       \/ Sent("show") /\ LateReveal(s)
       \/ Sent("chips") /\ AdjustChips(s)
  \/ Sent("settings") /\ \E new \in t.bounds.settings : UpdateSettings(new)
  \/ Start
  \/ Sent("pause") /\ (Pause \/ Resume)
  \/ Sent("end") /\ (Restart \/ \E immediate \in BOOLEAN : End(immediate))

Spec == Init /\ [][Next]_t

-----------------------------------------------------------------------------
Table ==
  [bounds : Instances, state : States, settings : TableSettings, pl : [Seats -> Player],
   hand : HandView \cup {NoHand}, timer : Timer, superseded : Timer,
   startPending : BOOLEAN, endAfterHand : BOOLEAN,
   votes : (SUBSET Seats) \cup {NoVote}, ritDecided : BOOLEAN,
   bankUsing : BOOLEAN, sitOutPending : SUBSET Seats,
   pendingChips : SUBSET Seats, late : 0 .. MaxLate]

\* The fields of the table have the types of the code's struct.
TypeOK == t \in Table

-----------------------------------------------------------------------------
(***************************************************************************)
(* Safety.                                                                 *)
(***************************************************************************)

\* Whatever the table is doing, the one timer is armed for it: a turn for
\* the seat to act, the deal or the vote before it, the showdown and the
\* result otherwise, and between hands at most the next start.  A vote's
\* callback does nothing without a vote, so it counts only while one is open.
TimerFits ==
  IF t.hand = NoHand THEN t.timer.kind \in {"none", "start"}
  ELSE CASE t.hand.phase = "betting" ->
              t.timer = [kind |-> "turn", seat |-> t.hand.toAct]
         [] t.hand.phase = "deal_pending" ->
              \/ t.timer.kind = "deal"
              \/ t.timer.kind = "vote" /\ t.votes # NoVote
         [] t.hand.phase = "showdown" -> t.timer.kind = "reveal"
         [] t.hand.phase = "result" -> t.timer.kind \in {"result", "clear"}

\* Until a hand is done every seat dealt in keeps its player, gone or not,
\* and nobody else counts as in the hand: what the engine says of a seat is
\* said of the player it was dealt to.
SeatsHeld ==
  HandInProgress(t) => InHand(t) = t.hand.dealt

\* The turn is never with somebody who left, sat out or has no chips.
TurnIsPlayable ==
  Betting(t) =>
    LET p == t.pl[t.hand.toAct]
    IN  p.inHand /\ ~p.leaving /\ p.chips /\ p.status = "active"

\* Between hands a status says what the stack says: only players with chips
\* are active and nobody busted has chips.
StatusMatchesChips ==
  BetweenHands(t) =>
    \A s \in Seated(t) :
      /\ t.pl[s].status = "active" => t.pl[s].chips
      /\ t.pl[s].status = "busted" => ~t.pl[s].chips

\* A running table without a hand that could deal one.
CouldDeal ==
  t.state = "running" /\ t.hand = NoHand /\ Cardinality(Eligible(t)) >= 2

\* Whatever made the players eligible, the start of a hand is noted.
StartIsNoted == CouldDeal => t.startPending

\* A table with a hand never waits for nothing: its timer is armed for what
\* comes next.  Without one it has noted that a hand can start.
TableMovesOn == TimerFits /\ StartIsNoted

\* Its timer is armed for the start, too.  Not so when Start, Resume or the
\* end of the table overtook a start: its callback is out of date then, and
\* only that callback would take the note back.
StartIsArmed == CouldDeal => t.timer.kind = "start"

\* Players, seats, stacks and the hand agree.
SeatsFitTheHand == TypeOK /\ SeatsHeld /\ TurnIsPlayable /\ StatusMatchesChips

\* What was put off to the end of the hand does not outlive it: leavers,
\* players who missed their turns, queued chips, and the end of the table.
NothingLingers ==
  /\ \A s \in Seats : t.pl[s].leaving => HandInProgress(t) /\ t.pl[s].inHand
  /\ BetweenHands(t) /\ t.state # "ended" =>
       t.sitOutPending = {} /\ t.pendingChips = {}
  /\ t.endAfterHand => t.hand # NoHand \/ t.state = "ended"

(***************************************************************************)
(* Steps.                                                                  *)
(***************************************************************************)

\* A hand is taken off the table only with a result, or voided by the host
\* who ends the table; until then it is the same hand, which no callback of
\* an earlier one clears; and no hand is dealt unless the table runs.
HandsEndInResults ==
  [][/\ HandInProgress(t) /\ ~HandInProgress(t') =>
          HandDone(t') \/ t'.state = "ended"
     /\ HandInProgress(t) /\ HandInProgress(t') =>
          t'.hand.dealt = t.hand.dealt /\ t'.hand.street >= t.hand.street
     /\ t.hand = NoHand /\ t'.hand # NoHand => t'.state = "running"
     /\ HandDone(t) /\ HandInProgress(t') =>
          t'.state = "running" /\ ~t.endAfterHand]_t

\* The time bank that is running is that of the player to act, who still has
\* it and has used it in this hand.
BankFits ==
  Betting(t) /\ t.bankUsing =>
    t.pl[t.hand.toAct].bank /\ t.pl[t.hand.toAct].usedBank

\* A bank is emptied only in the turn it runs in.
BankSpent(s) ==
  t.pl[s].bank /\ ~t'.pl[s].bank /\ s \in Seated(t') /\ t'.state = t.state
    => t.bankUsing /\ Betting(t) /\ t.hand.toAct = s

\* A missed turn is one that the seat's own clock ended, not before its bank
\* was used up, which no refill at the end of the hand gives back.
MissedFairly(s) ==
  t'.pl[s].missed > t.pl[s].missed =>
    /\ Betting(t) /\ t.timer = [kind |-> "turn", seat |-> s]
    /\ t'.pl[s].missed = t.pl[s].missed + 1
    /\ t.pl[s].connected /\ t.pl[s].bank => t.bankUsing
    /\ t.bankUsing => ~t'.pl[s].bank

\* A turn is charged to the seat it belongs to, once, whoever leaves, sits out
\* or acts ahead meanwhile: its bank runs in no other turn, and nothing but
\* its own clock counts as a missed turn.
TurnsAreCharged ==
  [][BankFits' /\ \A s \in Seats : BankSpent(s) /\ MissedFairly(s)]_t

-----------------------------------------------------------------------------
(***************************************************************************)
(* Liveness.  A timer that is armed goes off: the runtime delivers it and  *)
(* the actor takes every function from its inbox.  Players and the host    *)
(* need not do anything.  That betting comes to an end is the engine's     *)
(* promise (HandEnds of PokerHand), which the amounts left out here give.  *)
(***************************************************************************)
EngineActs ==
  \/ \E s \in Seats : Action(s) \/ (t.hand.toAct = s /\ SetPreAction(s))
  \/ Expire /\ ~t'.bankUsing
BettingGoesOn == Betting(t) /\ Betting(t') /\ EngineActs
BettingEnds == []<><<BettingGoesOn>>_t => []<>~Betting(t)

\* WF_t(Expire), in the form that is cheap to check: a timer can go off
\* exactly while it is armed.
TimerGoesOff == []<>(t.timer = NoTimer) \/ []<><<Expire>>_t

FairSpec == Spec /\ TimerGoesOff /\ BettingEnds

\* A result is taken off the table by its timer.
Cleared ==
  /\ HandDone(t) /\ t.timer.kind = "clear"
  /\ t' \in ClearHand([t EXCEPT !.timer = NoTimer])

\* Every hand is played to a result, and no result stays: either there is
\* none again and again, or, where armed actions end hand after hand within
\* the step that deals them, one after the other is cleared.
HandsArePlayedOut ==
  /\ HandInProgress(t) ~> ~HandInProgress(t)
  /\ []<>(~HandDone(t)) \/ []<><<Cleared>>_t

\* Two players with chips at a running table get a hand.
DealsCome ==
  (t.hand = NoHand /\ t.state = "running" /\ Cardinality(Eligible(t)) >= 2)
    ~> (t.hand # NoHand \/ t.state # "running"
          \/ Cardinality(Eligible(t)) < 2)

\* The game goes on: hand after hand is dealt and played out.
HandsGoOn == HandsArePlayedOut /\ DealsCome
=============================================================================
