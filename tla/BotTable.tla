------------------------------ MODULE BotTable ------------------------------
(* The table as a bot meets it: whose turn it is, who is broke, and the      *)
(* snapshots it sends.  A hand is its turns and its end; TableActor has the  *)
(* timers, PokerHand the game.  The table allows rebuys.                     *)
EXTENDS Naturals, Sequences, FiniteSets

CONSTANTS Inside,             \* bots the server plays (table/bot.go)
          Outside,            \* bots that connect (botclient)
          Guests,             \* people
          Nobody,
          MaxMail,            \* the queue of a connection
          MaxTurns            \* bound of the instance

Bots == Inside \cup Outside
Players == Bots \cup Guests

\* What attaches as a bot: a goroutine of the server, which any seat of a bot
\* may get, and the connection of a bot that connects.
Goroutine(b) == [of |-> b, by |-> "server"]
Connection(c) == [of |-> c, by |-> "client"]
Connections == {Connection(c) : c \in Outside}
Clients == {Goroutine(b) : b \in Bots} \cup Connections

ASSUME BotTableAssumption ==
    /\ IsFiniteSet(Players) /\ Inside \cap Outside = {} /\ Guests \cap Bots = {} /\ Nobody \notin Players
    /\ MaxMail \in Nat \ {0} /\ MaxTurns \in Nat

VARIABLES table,              \* see NewTable
          seat,               \* the status of each player's seat
          attached,           \* t.clients: whom the table sends to
          closed,             \* the goroutines that were told to stop
          mail                \* what was sent to each client and not taken yet

tableVars == <<table, seat, attached, closed, mail>>

\* turn is who is to act; key stands for hand, street and deadline, which
\* together tell one turn from the next.
NewTable == [state |-> "waiting", hand |-> "none", turn |-> Nobody, key |-> 0,
             dealt |-> {}, in |-> {}, allIn |-> {}, leaving |-> {}, missed |-> {}, endAfter |-> FALSE]

TableInit ==
    /\ table = NewTable /\ seat = [b \in Players |-> "none"]
    /\ attached = {} /\ closed = {} /\ mail = [e \in Clients |-> << >>]

Seated(ss) == {b \in Players : ss[b] \notin {"none", "left"}}
Active(ss) == {b \in Players : ss[b] = "active"}
Answers == table.state # "gone"

----------------------------------------------------------------------------
(* Snapshots.                                                               *)

\* Mutant: the result is between no hands.
CanRebuyLater(tt, ss, b) == ss[b] = "busted" /\ tt.hand = "none"

CanRebuy(tt, ss, b) == ss[b] = "busted" /\ tt.hand # "betting"

\* snapshot: what a bot reads of it.  A turn of 0 is not the bot's.
SnapshotOf(tt, ss, b) ==
    [type |-> "snapshot", ended |-> tt.state = "ended", rebuy |-> CanRebuy(tt, ss, b),
     turn |-> IF tt.turn = b THEN tt.key ELSE 0]

Word(w) == [type |-> w, ended |-> FALSE, rebuy |-> FALSE, turn |-> 0]

\* Mutant: a snapshot that waits is not replaced.
KeepOldest(e, box, s) == IF e.by = "server" /\ box # << >> THEN box ELSE Append(box, s)

\* botSeat.Send makes room for the newer one; a connection has a queue.
Send(e, box, s) == IF e.by = "server" THEN <<s>> ELSE Append(box, s)

\* Those of on whose queue is full.
Slow(on) == {e \in on \cap Connections : Len(mail[e]) >= MaxMail}

\* The actor's step and its flush: everybody attached gets a snapshot, a slow
\* consumer is closed, and so is who lost the seat.
Step(tt, ss, on) ==
    LET freed == {e \in on : ss[e.of] = "left"}
        slow  == Slow(on \ freed)
    IN  /\ table' = tt /\ seat' = ss
        /\ attached' = on \ (freed \cup slow)
        /\ closed' = closed \cup (freed \ Connections)
        /\ mail' = [e \in Clients |->
                      IF e \in freed \cap Connections THEN Append(mail[e], Word("kicked"))
                      ELSE IF e \in attached' THEN Send(e, mail[e], SnapshotOf(tt, ss, e.of))
                      ELSE mail[e]]

Does(to) == Step(to.t, to.s, attached)

----------------------------------------------------------------------------
(* Hands.                                                                   *)

At(tt, ss) == [t |-> tt, s |-> ss]

CanDeal(tt, ss) ==
    /\ tt.hand = "none" /\ tt.state = "running" /\ tt.key < MaxTurns
    /\ Cardinality(Active(ss)) >= 2

\* maybeStartHand.
Dealt(tt, ss) ==
    IF CanDeal(tt, ss)
    THEN {At([tt EXCEPT !.hand = "betting", !.dealt = Active(ss), !.in = Active(ss), !.turn = b, !.key = @ + 1], ss)
            : b \in Active(ss)}
    ELSE {At(tt, ss)}

NoHand(tt) == [tt EXCEPT !.turn = Nobody, !.dealt = {}, !.in = {}, !.allIn = {}, !.leaving = {}, !.missed = {}]

\* finishHand: busts, then who missed too many turns, then the leavers.
Finished(tt, ss, busts) ==
    At([NoHand(tt) EXCEPT !.hand = "result"],
       [b \in Players |-> IF b \in tt.leaving THEN "left"
                       ELSE IF ss[b] # "active" THEN ss[b]
                       ELSE IF b \in busts THEN "busted"
                       ELSE IF b \in tt.missed THEN "sitting_out" ELSE ss[b]])

HandOver(tt, ss) ==
    {Finished(tt, ss, busts) : busts \in {x \in SUBSET (tt.in \cap tt.allIn) : x # tt.in}}

\* afterEngine: the hand goes on with a turn and a new deadline, or is over.
AfterEngine(tt, ss) ==
    HandOver(tt, ss) \cup
    IF Cardinality(tt.in) >= 2 /\ tt.key < MaxTurns
    THEN {At([tt EXCEPT !.turn = b, !.key = @ + 1], ss) : b \in tt.in \ tt.allIn} ELSE {}

\* Apply: a fold, everything, or something between.  Nobody is all in by a
\* blind here.
Applied(b) ==
    UNION {AfterEngine([table EXCEPT !.in = @ \ does.folds, !.allIn = @ \cup does.shoves], seat) :
             does \in {[folds |-> {b}, shoves |-> {}], [folds |-> {}, shoves |-> {b}], [folds |-> {}, shoves |-> {}]}}

Deal == CanDeal(table, seat) /\ \E to \in Dealt(table, seat) : Does(to)

\* onTurnTimeout: the time bank, or a check or fold that may be one too many.
ClockRunsOut ==
    LET b == table.turn IN
    /\ Answers /\ b # Nobody
    /\ \/ (\E e \in attached : e.of = b) /\ table.key < MaxTurns /\ Does(At([table EXCEPT !.key = @ + 1], seat))
       \/ \E missed \in {{}, {b}}, folds \in {{}, {b}} :
            \E to \in AfterEngine([table EXCEPT !.in = @ \ folds, !.missed = @ \cup missed], seat) : Does(to)

Ended(tt) == [NoHand(tt) EXCEPT !.hand = "none", !.state = "ended", !.endAfter = FALSE]

\* clearHand: the end of the table, or the next hand.
ClearHand ==
    /\ Answers /\ table.hand = "result"
    /\ IF table.endAfter THEN Does(At(Ended(table), seat))
       ELSE \E to \in Dealt([table EXCEPT !.hand = "none"], seat) : Does(to)

----------------------------------------------------------------------------
(* The host.                                                                *)

Start ==
    /\ table.state = "waiting"
    /\ \E to \in Dealt([table EXCEPT !.state = "running"], seat) : Does(to)

\* End: after the hand, or at once; a hand that is voided frees the leavers.
End(immediate) ==
    LET void == [b \in Players |-> IF b \in table.leaving THEN "left" ELSE seat[b]] IN
    /\ table.state \in {"waiting", "running"}
    /\ IF table.hand = "betting" /\ ~immediate
       THEN table' = [table EXCEPT !.endAfter = TRUE] /\ UNCHANGED <<seat, attached, closed, mail>>
       ELSE Does(At(Ended(table), void))

\* Restart: "everyone keeps their seat".
Restart ==
    /\ table.state = "ended"
    /\ Does(At([table EXCEPT !.state = "waiting"],
               [b \in Players |-> IF b \in Seated(seat) THEN "active" ELSE seat[b]]))

\* Kick: at once, or after the hand, which goes on without the player.
Kick(b) ==
    LET gone == [table EXCEPT !.leaving = @ \cup {b}, !.in = @ \ {b}] IN
    /\ table.state \in {"waiting", "running"} /\ b \in Seated(seat) \ table.leaving
    /\ IF table.hand # "betting" \/ b \notin table.dealt
       THEN Does(At(table, [seat EXCEPT ![b] = "left"]))
       ELSE IF b \notin table.in
       THEN \/ Does(At([gone EXCEPT !.key = @ + 1], seat)) /\ table.key < MaxTurns
            \/ Does(At(gone, seat)) /\ table.turn = Nobody
       ELSE \E to \in AfterEngine(gone, seat) :
              /\ to.t.hand = "betting" /\ table.turn # b => to.t.turn = table.turn
              /\ Does(to)

\* Stop: the clients are closed by the actor; then the actor ends.
StopClients ==
    /\ table.state \notin {"stopping", "gone"}
    /\ table' = [table EXCEPT !.state = "stopping"]
    /\ attached' = {} /\ closed' = closed \cup (attached \ Connections)
    /\ UNCHANGED <<seat, mail>>

StopActor ==
    /\ table.state = "stopping"
    /\ table' = [NewTable EXCEPT !.state = "gone", !.key = table.key]
    /\ UNCHANGED <<seat, attached, closed, mail>>

Host ==
    \/ Start \/ Restart \/ StopClients \/ StopActor
    \/ \E immediate \in BOOLEAN : End(immediate)
    \/ \E b \in Players : Kick(b)

Timers == Deal \/ ClearHand

----------------------------------------------------------------------------
(* What a bot asks of the table.                                            *)

\* Join.
Join(b) ==
    /\ table.state \in {"waiting", "running"} /\ seat[b] = "none"
    /\ Does(At(table, [seat EXCEPT ![b] = "active"]))

\* The other client of the same player, if it is attached.
Older(e) == {old \in attached : old.of = e.of /\ old # e}

\* Mutant: it is forgotten, and not closed.
Forgotten(e) == {}

\* The goroutine that is replaced is told to stop.
Replaced(e) == Older(e) \ Connections

\* Attach: an older client of the player is replaced; the welcome, and the
\* flush behind it.
Attach(e) ==
    LET now == SnapshotOf(table, seat, e.of)
        on  == attached \ Older(e)
        slow == Slow(on \ {e})
    IN  /\ Answers /\ e.of \in Seated(seat)
        /\ attached' = (on \ slow) \cup {e} /\ closed' = (closed \cup Replaced(e)) \ {e}
        /\ mail' = [x \in Clients |-> IF x = e THEN Send(e, Send(e, << >>, now), now)
                                      ELSE IF x \in attached' THEN Send(x, mail[x], SnapshotOf(table, seat, x.of))
                                      ELSE mail[x]]
        /\ UNCHANGED <<table, seat>>

\* Detach: everybody else hears of it.
Detach(e) == Step(table, seat, attached \ {e})

RebuyAllowed(b) == Answers /\ table.state # "ended" /\ CanRebuy(table, seat, b)

\* Rebuy.
Rebuy(b) == RebuyAllowed(b) /\ Does(At(table, [seat EXCEPT ![b] = "active"]))

\* Action, on the player's turn.
Act(b) == Answers /\ table.turn = b /\ \E to \in Applied(b) : Does(to)

\* People do what they like, when they like.
Guest(g) == Join(g) \/ Act(g) \/ Rebuy(g)
=============================================================================
