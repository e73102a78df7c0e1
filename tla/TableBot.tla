------------------------------ MODULE TableBot ------------------------------
(* A bot the server plays: a goroutine that attaches to the table like any   *)
(* client, keeps the newest snapshot only, thinks, and acts.  The bots that  *)
(* connect get one, too, when the server comes back.                         *)
EXTENDS BotTable

VARIABLE bot      \* the goroutine of each bot: where it is, and lastActKey

NoBot == [pc |-> "none", snap |-> Word("none"), last |-> 0]

TableBotInit == bot = [b \in Bots |-> NoBot]

PC(b) == bot[b].pc
Stopped(b) == Goroutine(b) \in closed      \* b.stop is closed
Box(b) == mail[Goroutine(b)]               \* b.snapshots
Taken(b) == [mail EXCEPT ![Goroutine(b)] = << >>]
Goes(b, to) == bot' = [bot EXCEPT ![b] = to]
GoesTo(b, pc) == Goes(b, [bot[b] EXCEPT !.pc = pc, !.snap = Word("none")])

\* The goroutine runs and was not told to stop.
Alive(b) == PC(b) \in {"attach", "wait", "think", "act", "rebuy"} /\ ~Stopped(b)

\* AddBot: the seat, then the goroutine.
AddBot(b) == PC(b) = "none" /\ Join(b) /\ GoesTo(b, "joined")

StartBot(b) == PC(b) = "joined" /\ GoesTo(b, "attach") /\ UNCHANGED tableVars

\* Mutant: a refused attach is not noticed.
RunAnyway(b) ==
    /\ PC(b) = "attach" /\ GoesTo(b, "wait")
    /\ Attach(Goroutine(b)) \/ (~(Answers /\ b \in Seated(seat)) /\ UNCHANGED tableVars)

\* run.
RunAttaches(b) ==
    /\ PC(b) = "attach"
    /\ \/ Attach(Goroutine(b)) /\ GoesTo(b, "wait")
       \/ /\ ~(Answers /\ b \in Seated(seat))
          /\ GoesTo(b, "done") /\ UNCHANGED tableVars

RunStops(b) ==
    /\ PC(b) = "wait" /\ Stopped(b)
    /\ GoesTo(b, "done")
    /\ IF Answers /\ Goroutine(b) \in attached THEN Detach(Goroutine(b)) ELSE UNCHANGED tableVars

IsTurn(b, s) == s.turn # 0 /\ s.turn # bot[b].last

\* consider, up to the pause.
Consider(b) ==
    LET s == Head(Box(b)) IN
    /\ PC(b) = "wait" /\ Box(b) # << >>
    /\ mail' = Taken(b)
    /\ closed' = IF s.ended THEN closed \cup {Goroutine(b)} ELSE closed
    /\ IF s.ended THEN UNCHANGED bot
       ELSE IF s.rebuy THEN GoesTo(b, "rebuy")
       ELSE IF IsTurn(b, s) THEN Goes(b, [bot[b] EXCEPT !.pc = "think", !.snap = s])
       ELSE UNCHANGED bot
    /\ UNCHANGED <<table, seat, attached>>

RebuyCall(b) ==
    /\ PC(b) = "rebuy" /\ GoesTo(b, "wait")
    /\ Rebuy(b) \/ (~RebuyAllowed(b) /\ UNCHANGED tableVars)

\* Mutant: the bot acts on the snapshot it started to think about.
NewestIgnored(b) == bot[b].snap

\* The newest snapshot there is, once the pause is over.
Newest(b) == IF Box(b) = << >> THEN bot[b].snap ELSE Head(Box(b))

\* consider, after the pause.
Thought(b) ==
    /\ PC(b) = "think"
    /\ IF Stopped(b) THEN GoesTo(b, "wait") /\ UNCHANGED tableVars
       ELSE /\ IF IsTurn(b, Newest(b))
               THEN Goes(b, [pc |-> "act", snap |-> Word("none"), last |-> Newest(b).turn])
               ELSE GoesTo(b, "wait")
            /\ mail' = Taken(b)
            /\ UNCHANGED <<table, seat, attached, closed>>

\* The table refuses what is not the bot's turn any more, and what was decided
\* for an earlier turn if it is not legal in this one.
ActCall(b) ==
    /\ PC(b) = "act" /\ GoesTo(b, "wait")
    /\ Act(b) \/ (~(Answers /\ table.turn = b /\ table.key = bot[b].last) /\ UNCHANGED tableVars)

TableBotStep(b) ==
    \/ StartBot(b) \/ RunAttaches(b) \/ RunStops(b) \/ Consider(b)
    \/ RebuyCall(b) \/ Thought(b) \/ ActCall(b)

\* thinkFor: the pause is at most a third of what is left on the clock, so the
\* turn a bot thinks about does not run out.
ThinksInTime == \A b \in Bots : PC(b) = "think" => bot[b].snap.turn # table.key

\* LoadAll after the server has gone down: whoever has a seat and is marked a
\* bot is played by the server, whoever played it before.
TableBotsRestored ==
    bot' = [b \in Bots |-> IF b \in Seated(seat) THEN [NoBot EXCEPT !.pc = "attach"]
                             ELSE IF PC(b) = "none" THEN NoBot ELSE [NoBot EXCEPT !.pc = "done"]]
=============================================================================
