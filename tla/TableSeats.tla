------------------------------ MODULE TableSeats ------------------------------
(* Who sits where: joining, moving to another seat now or at the next deal,    *)
(* leaving, settings that change under the players' feet (MaxPlayers, rebuys,  *)
(* the tournament lock, the blind schedule), and the seats of the hand, which  *)
(* the engine keeps as they were when it was dealt.                            *)
(*                                                                             *)
(* A hand is its deal and its outcome, a stack is chips or none; PokerHand has *)
(* the game and TableActor the timers.  A player id is used once.              *)
EXTENDS Integers, FiniteSets

CONSTANTS Players,        \* player ids
          MaxSeats,       \* maxSeats: the length of t.seats
          Nobody,         \* an empty seat
          Cooldown,       \* SeatChangeCooldownHands
          Settings,       \* the settings a table may be created with or changed to
          Commands,       \* the commands the instance allows
          MaxHands, MaxCommands   \* bounds of the instance

Seats == 0 .. MaxSeats - 1

ASSUME SeatsAssumption ==
    /\ IsFiniteSet(Players) /\ Nobody \notin Players
    /\ {MaxSeats, Cooldown, MaxHands, MaxCommands} \subseteq Nat
    /\ Settings \subseteq [max : 2 .. MaxSeats, tournament : BOOLEAN, rebuy : BOOLEAN, blindsUp : BOOLEAN]

VARIABLES t,          \* the table, see NewTable
          seats,      \* t.seats
          dealt,      \* the seats of the engine's hand
          lastDealt,  \* where each player was dealt in last in this round, -1 if nowhere
          posted,     \* who posted a dead blind in the latest deal
          lastMove,   \* the hand number at which each player moved last in this round, 0 if at none
          commands    \* commands so far

vars == <<t, seats, dealt, lastDealt, posted, lastMove, commands>>

-------------------------------------------------------------------------------
(* The table and its players.                                                  *)

(* A player: pending is the seat asked for (-1: none), moved the hand number   *)
(* of the latest request (0: none).                                            *)
Unknown == [status |-> "none", seat |-> -1, chips |-> FALSE, pending |-> -1, owes |-> FALSE, moved |-> 0,
            inHand |-> FALSE, leaving |-> FALSE]
\* Mutant: the player does not know the seat.
NewPlayerUnseated(s) == [Unknown EXCEPT !.status = "active", !.chips = TRUE]

NewPlayer(s) == [Unknown EXCEPT !.status = "active", !.seat = s, !.chips = TRUE]

NewTable(s) == [state |-> "waiting", hand |-> "none", hands |-> 0, roundStart |-> 0, endAfter |-> FALSE,
                button |-> -1, settings |-> s, p |-> [q \in Players |-> Unknown],
                grants |-> {},                           \* pendingChips: who is to get chips
                clock |-> FALSE, held |-> FALSE]         \* blindsUpAt > 0, blindsPausedMs > 0

Statuses == {"active", "sitting_out", "busted", "left"}
Seated(tt) == {q \in Players : tt.p[q].status \in Statuses \ {"left"}}
InHand(tt) == {q \in Seated(tt) : tt.p[q].inHand}
AtTable(tt, q) == tt.p[q].seat < tt.settings.max
CanPlay(tt, q) == tt.p[q].status = "active" /\ tt.p[q].chips
Eligible(tt) == {q \in Seated(tt) : CanPlay(tt, q) /\ AtTable(tt, q)}
WithChips(tt) == {q \in Seated(tt) : tt.p[q].chips}
HandInProgress == t.hand = "playing"

\* Mutant: the lock opens whenever the table is paused.
TournamentLockedRunning(tt) == tt.settings.tournament /\ (tt.state \in {"running", "ended"})

TournamentLocked(tt) ==
    tt.settings.tournament /\ (tt.state # "waiting" \/ tt.hands > tt.roundStart)

\* Mutant: the clock starts only if it ran before.
ArmedOnce(tt) == tt.settings.blindsUp /\ tt.clock

(* armBlindsClock: on, or off without a schedule.                              *)
Armed(tt) == tt.settings.blindsUp /\ tt.state # "ended"

(* One step of a command: the new table and its seats.                         *)
Sets(tt, ss) == t' = tt /\ seats' = ss
Same == UNCHANGED <<dealt, lastDealt, posted>>

-------------------------------------------------------------------------------
(* Leaving.                                                                    *)

(* freeSeat of each of qs.                                                     *)
FreedPlayers(tt, qs) ==
    [tt EXCEPT !.p = [q \in Players |-> IF q \in qs THEN [@[q] EXCEPT !.status = "left", !.inHand = FALSE]
                                        ELSE @[q]]]
FreedSeats(tt, ss, qs) == [s \in Seats |-> IF \E q \in qs : tt.p[q].seat = s THEN Nobody ELSE ss[s]]

-------------------------------------------------------------------------------
(* Moves.                                                                      *)

\* Mutant: the seat is not looked at again when the move is made.
MayMoveBlindly(tt, ss, q) == tt.p[q].pending \in 0 .. tt.settings.max - 1

(* applySeatChange moves if the seat is still there and still free.            *)
MayMove(tt, ss, q) ==
    /\ tt.p[q].pending \in 0 .. tt.settings.max - 1
    /\ ss[tt.p[q].pending] = Nobody

ApplySeatChange(at, q) ==
    LET to == at.t.p[q].pending
        asked == [at.t EXCEPT !.p[q].pending = -1]
    IN  IF MayMove(at.t, at.ss, q)
        THEN [t |-> [asked EXCEPT !.p[q].seat = to], ss |-> [at.ss EXCEPT ![at.t.p[q].seat] = Nobody, ![to] = q]]
        ELSE [at EXCEPT !.t = asked]

(* applyPendingSeatChanges goes through the seats; whoever sits at one by then  *)
(* and still waits moves.                                                      *)
WaitsAt(at, s) == at.ss[s] # Nobody /\ at.t.p[at.ss[s]].pending >= 0
ApplyPendingSeatChanges(tt, ss) ==
    LET after[n \in 0 .. MaxSeats] ==
            IF n = 0 THEN [t |-> tt, ss |-> ss]
            ELSE LET at == after[n - 1]
                 IN  IF WaitsAt(at, n - 1) THEN ApplySeatChange(at, at.ss[n - 1]) ELSE at
    IN  after[MaxSeats]

\* Mutant: a wait for the seat does not count as a move.
CanChangeSeatAgain(tt, q) == ~TournamentLocked(tt) /\ tt.p[q].pending < 0

CanChangeSeat(tt, q) ==
    /\ ~TournamentLocked(tt) /\ tt.p[q].pending < 0
    /\ tt.p[q].moved = 0 \/ tt.hands - tt.p[q].moved >= Cooldown

\* Mutant: promised seats are not looked at.
SeatReservedNever(tt, s) == FALSE

SeatReserved(tt, s) == \E q \in Seated(tt) : tt.p[q].pending = s

\* Mutant: everybody moves at once.
MovesNowAlways(q) == TRUE

(* Whoever plays the hand waits for its end.                                   *)
MovesNow(q) == ~HandInProgress \/ ~t.p[q].inHand

\* Mutant: only a move that waits costs a blind.
AskedFree(q, s) ==
    [t EXCEPT !.p[q].pending = s, !.p[q].owes = @ \/ ~MovesNow(q), !.p[q].moved = t.hands]

Asked(q, s) == [t EXCEPT !.p[q].pending = s, !.p[q].owes = TRUE, !.p[q].moved = t.hands]

ChangeSeat(q, s) ==
    /\ t.state # "ended" /\ q \in Seated(t)
    /\ s < t.settings.max /\ s # t.p[q].seat /\ CanChangeSeat(t, q)
    /\ seats[s] = Nobody /\ ~SeatReserved(t, s)
    /\ LET at == [t |-> Asked(q, s), ss |-> seats]
           to == IF MovesNow(q) THEN ApplySeatChange(at, q) ELSE at
       IN  Sets(to.t, to.ss)
    /\ Same

-------------------------------------------------------------------------------
(* Hands.                                                                      *)

(* The button goes to the next eligible seat, at first to any of them.         *)
Gap(from, to) == IF to > from THEN to - from ELSE to + MaxSeats - from
Buttons(tt) ==
    LET at == {tt.p[q].seat : q \in Eligible(tt)}
    IN  IF tt.button < 0 THEN at ELSE {s \in at : \A r \in at : Gap(tt.button, s) <= Gap(tt.button, r)}

CanDeal(tt) == tt.hand = "none" /\ tt.state = "running" /\ Cardinality(Eligible(tt)) >= 2 /\ tt.hands < MaxHands

(* startHand: a due raise of the blinds re-arms the clock, movers post.        *)
WithHand(tt, in, b) ==
    [tt EXCEPT !.hand = "playing", !.hands = @ + 1, !.button = b, !.clock = IF @ THEN Armed(tt) ELSE @,
               !.p = [q \in Players |-> IF q \in in THEN [tt.p[q] EXCEPT !.inHand = TRUE, !.owes = FALSE]
                                         ELSE tt.p[q]]]
StartHand(tt, ss) ==
    LET in == Eligible(tt)
    IN  /\ \E b \in Buttons(tt) : Sets(WithHand(tt, in, b), ss)
        /\ dealt' = [s \in Seats |-> IF ss[s] \in in THEN ss[s] ELSE Nobody]
        /\ posted' = {q \in in : tt.p[q].owes}
        /\ lastDealt' = [q \in Players |-> IF q \in in THEN tt.p[q].seat ELSE lastDealt[q]]

(* maybeStartHand.                                                             *)
MaybeStartHand(tt, ss) ==
    IF CanDeal(tt) THEN StartHand(tt, ss) ELSE Sets(tt, ss) /\ UNCHANGED <<dealt, lastDealt, posted>>

Deal == CanDeal(t) /\ StartHand(t, seats)

(* applyChips of a positive delta.                                             *)
Granted(tt, qs) ==
    [tt EXCEPT !.p = [q \in Players |->
        IF q \notin qs THEN tt.p[q]
        ELSE [tt.p[q] EXCEPT !.chips = TRUE, !.status = IF @ = "busted" THEN "active" ELSE @]]]

(* finishHand writes the stack of a seat of the hand to who sits there.        *)
Busted(tt, ss, busts) == {ss[s] : s \in {r \in Seats : dealt[r] \in busts}} \cap Players

Decided(tt) == ~tt.settings.rebuy /\ Cardinality(Seated(tt)) >= 2 /\ Cardinality(WithChips(tt)) <= 1

Settled(tt, broke) ==
    [tt EXCEPT !.hand = "result", !.grants = {},
               !.p = [q \in Players |->
                   IF q \notin broke THEN tt.p[q]
                   ELSE [tt.p[q] EXCEPT !.chips = FALSE, !.status = IF @ = "active" THEN "busted" ELSE @]]]

(* finishHand: stacks and busts, the leavers go, queued chips, the end.        *)
FinishHand(tt, ss) ==
    \E busts \in SUBSET InHand(tt) :
        /\ busts # InHand(tt)
        /\ LET played  == Settled(tt, Busted(tt, ss, busts))
               leavers == {q \in InHand(tt) : tt.p[q].leaving}
               free    == FreedPlayers(played, leavers)
               paid    == Granted(free, tt.grants \cap Seated(free))
           IN  Sets([paid EXCEPT !.endAfter = @ \/ Decided(paid)], FreedSeats(tt, ss, leavers))
        /\ Same

HandEnds == HandInProgress /\ FinishHand(t, seats)

(* endTable; the engine's hand is dropped.                                     *)
NotInHand(tt) == [q \in Players |-> [tt.p[q] EXCEPT !.inHand = FALSE]]
EndTable(tt, ss) ==
    /\ Sets([tt EXCEPT !.hand = "none", !.state = "ended", !.clock = FALSE, !.p = NotInHand(tt)], ss)
    /\ dealt' = [s \in Seats |-> Nobody] /\ UNCHANGED <<lastDealt, posted>>

(* clearHand: the end of the table, or the moves that waited and the next hand.*)
ClearHand ==
    /\ t.hand = "result"
    /\ LET done == [t EXCEPT !.hand = "none", !.p = NotInHand(t), !.endAfter = FALSE]
           at   == ApplyPendingSeatChanges(done, seats)
       IN  IF t.endAfter THEN EndTable(done, seats)
           ELSE IF CanDeal(at.t) THEN StartHand(at.t, at.ss)
           ELSE /\ Sets(at.t, at.ss)
                /\ dealt' = [s \in Seats |-> Nobody] /\ UNCHANGED <<lastDealt, posted>>

-------------------------------------------------------------------------------
(* Commands.                                                                   *)

(* NewPlayerID: ids are interchangeable.                                       *)
NewPlayerID == CHOOSE q \in Players : t.p[q].status = "none"

(* A join takes the seat it asks for or the lowest free one; it does not look  *)
(* at seats that are promised.                                                 *)
Join(s) ==
    /\ t.state # "ended" /\ s < t.settings.max /\ seats[s] = Nobody
    /\ \E q \in Players : t.p[q].status = "none"
    /\ Sets([t EXCEPT !.p[NewPlayerID] = NewPlayer(s)], [seats EXCEPT ![s] = NewPlayerID])
    /\ Same

(* removePlayer (Leave and Kick): at once, or after the hand, which the fold   *)
(* may end.                                                                    *)
Leave(q) ==
    /\ q \in Seated(t) /\ ~t.p[q].leaving
    /\ LET tt == [t EXCEPT !.p[q].leaving = TRUE]
           in == HandInProgress /\ t.p[q].inHand
       IN  \/ in /\ Sets(tt, seats) /\ Same
              /\ Cardinality({r \in InHand(tt) : ~tt.p[r].leaving}) >= 2
           \/ in /\ FinishHand(tt, seats)
           \/ ~in /\ Sets(FreedPlayers(tt, {q}), FreedSeats(tt, seats, {q})) /\ Same

SitOut(q) ==
    /\ t.state # "ended" /\ q \in Seated(t) /\ t.p[q].status = "active"
    /\ LET tt == [t EXCEPT !.p[q].status = "sitting_out"]
       IN  \/ Sets(tt, seats) /\ Same
           \/ HandInProgress /\ t.p[q].inHand /\ FinishHand(tt, seats)

SitIn(q) ==
    /\ t.state # "ended" /\ q \in Seated(t) /\ t.p[q].status = "sitting_out"
    /\ Sets([t EXCEPT !.p[q].status = IF t.p[q].chips THEN "active" ELSE "busted"], seats)
    /\ Same

Rebuy(q) ==
    /\ t.state # "ended" /\ q \in Seated(t) /\ t.settings.rebuy /\ t.p[q].status = "busted" /\ ~HandInProgress
    /\ Sets([t EXCEPT !.p[q].status = "active", !.p[q].chips = TRUE], seats)
    /\ Same

(* AdjustChips of a positive delta: now or, in a hand, when it is over.        *)
AdjustChips(q) ==
    /\ t.state # "ended" /\ q \in Seated(t) /\ ~t.settings.tournament
    /\ Sets(IF HandInProgress THEN [t EXCEPT !.grants = @ \cup {q}] ELSE Granted(t, {q}), seats)
    /\ Same

(* Settings.Validate with the number of seated players, and the lock.          *)
Acceptable(s) == s.max >= Cardinality(Seated(t)) /\ (~TournamentLocked(t) \/ s = t.settings)

UpdateSettings(s) ==
    /\ t.state # "ended" /\ s # t.settings /\ Acceptable(s)
    /\ LET tt == [t EXCEPT !.settings = s]
       IN  Sets([tt EXCEPT !.clock = IF s.blindsUp # t.settings.blindsUp /\ t.state = "running" THEN Armed(tt) ELSE @],
                seats)
    /\ Same

(* BlindsUp raises them and re-arms the clock in any state of the table.       *)
BlindsUp ==
    /\ t.state # "ended" /\ Sets([t EXCEPT !.clock = Armed(t)], seats)
    /\ Same

Start ==
    /\ t.state = "waiting"
    /\ LET tt == [t EXCEPT !.state = "running"] IN MaybeStartHand([tt EXCEPT !.clock = Armed(tt)], seats)

(* Pause keeps what is left on the clock, unless a raise is due; Resume goes   *)
(* on with it or starts it anew.                                               *)
Pause ==
    /\ t.state = "running"
    /\ \E left \in BOOLEAN :
         Sets([t EXCEPT !.state = "paused", !.clock = FALSE, !.held = IF t.clock THEN left ELSE @], seats)
    /\ Same

Resumed(tt) == [tt EXCEPT !.clock = IF tt.held /\ tt.settings.blindsUp THEN TRUE ELSE Armed(tt), !.held = FALSE]
Resume == t.state = "paused" /\ MaybeStartHand(Resumed([t EXCEPT !.state = "running"]), seats)

(* End: after the hand, or now; a hand that is voided gives back its stacks.   *)
End(immediate) ==
    /\ t.state # "ended"
    /\ \/ /\ HandInProgress /\ ~immediate
          /\ Sets([t EXCEPT !.endAfter = TRUE], seats) /\ Same
       \/ /\ HandInProgress /\ immediate
          /\ LET leavers == {q \in Seated(t) : t.p[q].leaving}
             IN  EndTable(FreedPlayers(t, leavers), FreedSeats(t, seats, leavers))
       \/ ~HandInProgress /\ EndTable(t, seats)

(* Restart: a new round, everybody where they sit.                             *)
Restart ==
    /\ t.state = "ended"
    /\ Sets([t EXCEPT !.state = "waiting", !.roundStart = t.hands, !.endAfter = FALSE, !.button = -1, !.grants = {},
                      !.clock = FALSE, !.held = FALSE,
                      !.p = [q \in Players |-> IF q \in Seated(t) THEN NewPlayer(t.p[q].seat) ELSE t.p[q]]], seats)
    /\ lastDealt' = [q \in Players |-> -1] /\ posted' = {} /\ UNCHANGED dealt

-------------------------------------------------------------------------------
Init ==
    /\ t \in {NewTable(s) : s \in Settings}
    /\ seats = [s \in Seats |-> Nobody] /\ dealt = [s \in Seats |-> Nobody]
    /\ lastDealt = [q \in Players |-> -1] /\ posted = {} /\ commands = 0
    /\ lastMove = [q \in Players |-> 0]

(* What the players and the host do beside joining and starting.               *)
Command ==
    /\ commands < MaxCommands /\ commands' = commands + 1
    /\ \/ \E q \in Players : \/ "move" \in Commands /\ \E s \in Seats : ChangeSeat(q, s)
                             \/ "leave" \in Commands /\ Leave(q)
                             \/ "sit" \in Commands /\ (SitOut(q) \/ SitIn(q))
                             \/ "chips" \in Commands /\ (Rebuy(q) \/ AdjustChips(q))
       \/ "settings" \in Commands /\ \E s \in Settings : UpdateSettings(s)
       \/ "blinds" \in Commands /\ BlindsUp
       \/ "pause" \in Commands /\ (Pause \/ Resume)
       \/ "end" \in Commands /\ (Restart \/ \E immediate \in BOOLEAN : End(immediate))

Played ==
    /\ Start \/ Deal \/ HandEnds \/ ClearHand \/ \E s \in Seats : Join(s)
    /\ UNCHANGED commands

(* Seen from outside, a player moves when they wait for no seat, and then wait *)
(* for one or sit at another.                                                  *)
Moves(u, v, q) ==
    /\ q \in Seated(u) \cap Seated(v) /\ u.p[q].pending < 0
    /\ ~(v.p[q].pending < 0 /\ v.p[q].seat = u.p[q].seat)

NewRound(u, v) == u.state = "ended" /\ v.state = "waiting"

(* What the players have seen of each other's moves.                           *)
Watched ==
    lastMove' = [q \in Players |-> IF q \notin Seated(t) \/ NewRound(t, t') THEN 0
                                   ELSE IF Moves(t, t', q) THEN t.hands ELSE lastMove[q]]

Next == (Command \/ Played) /\ Watched
Spec == Init /\ [][Next]_vars

-------------------------------------------------------------------------------
(* Properties.                                                                 *)

(* The table and its players have their types.                                 *)
TypeOK ==
    /\ seats \in [Seats -> Players \cup {Nobody}] /\ dealt \in [Seats -> Players \cup {Nobody}]
    /\ t.state \in {"waiting", "running", "paused", "ended"} /\ t.hand \in {"none", "playing", "result"}
    /\ t.settings \in Settings /\ t.button \in Seats \cup {-1} /\ t.grants \subseteq Players
    /\ \A q \in Seated(t) : t.p[q].seat \in Seats /\ t.p[q].pending \in Seats \cup {-1}

(* t.seats, t.players and p.Seat agree: however joins, moves made late and     *)
(* departures meet, everybody has one seat and no seat is lost (table.go:1090).*)
OneSeatEach ==
    \A s \in Seats : \A q \in Players : seats[s] = q <=> (q \in Seated(t) /\ t.p[q].seat = s)

(* Until the hand is over its seats are those of the deal: stacks, turns and   *)
(* cards go by the seat (table.go:1063).                                       *)
HandSeatsHold ==
    t.hand = "playing" => \A s \in Seats : dealt[s] # Nobody => seats[s] = dealt[s] /\ t.p[dealt[s]].inHand

(* rules.md:210: nobody dodges the blinds by moving: dealt in at another seat  *)
(* than the last time, a player posts a dead blind.                            *)
MoversPost ==
    [][t.hands # t'.hands =>
          \A q \in Players :
              (lastDealt'[q] # lastDealt[q] /\ lastDealt[q] >= 0) => q \in posted']_vars

(* rules.md:212: once a hand has been dealt, the moves of a player in a round  *)
(* are Cooldown hands apart, however they were made (table.go:1077), and one   *)
(* player waits for a seat.  A move made before any hand is no move to the code*)
(* (its hand number, 0, says never).                                           *)
MovesAreApart ==
    [][\A q \in Players :
          /\ (Moves(t, t', q) /\ lastMove[q] > 0) => t.hands - lastMove[q] >= Cooldown
          /\ \A r \in Players \ {q} :
                (q \in Seated(t') /\ r \in Seated(t') /\ t'.p[q].pending >= 0) => t'.p[q].pending # t'.p[r].pending]_vars

(* A tournament that has dealt keeps its seats, its capacity and its rebuys,   *)
(* and nobody is given chips, unless that was asked for before it became one   *)
(* (protocol.md:160).                                                          *)
NothingPending == t.grants = {} /\ \A q \in Seated(t) : t.p[q].pending < 0
LockHolds ==
    (t.settings.tournament /\ t.state # "waiting" /\ t'.state # "waiting" /\ NothingPending) =>
        /\ t'.settings = t.settings
        /\ \A q \in Seated(t) \cap Seated(t') :
              /\ t'.p[q].seat = t.p[q].seat
              /\ (t'.p[q].chips /\ ~t.p[q].chips) => t.settings.rebuy

(* The blind clock runs while a running table has a schedule (rules.md:204).   *)
ClockRuns == (t.state = "running" /\ t.settings.blindsUp) => t.clock

(* Seats, players and the hand agree.                                          *)
SeatsAgree == TypeOK /\ OneSeatEach /\ HandSeatsHold

(* What rules.md says of moving.                                               *)
MovesKeepTheRules == MoversPost /\ MovesAreApart

(* What the host set holds: the tournament and the blind clock.                *)
HostRulesHold == [][LockHolds /\ ClockRuns']_vars
=============================================================================
