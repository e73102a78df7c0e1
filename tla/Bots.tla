-------------------------------- MODULE Bots --------------------------------
(* Bots of both kinds at one table, and a server that goes down and comes    *)
(* back.                                                                     *)
EXTENDS TableBot, BotClient

CONSTANT MaxCrashes      \* bound of the instance

VARIABLE crashes

vars == <<tableVars, bot, clientVars, crashes>>

Init == TableInit /\ TableBotInit /\ ClientInit /\ crashes = 0

\* The server goes down and loads the table: the hand is voided, a leave that
\* waited for its end is forgotten, the connections are gone.
Crash ==
    /\ crashes < MaxCrashes /\ crashes' = crashes + 1
    /\ table.state \notin {"stopping", "gone"}
    /\ table' = [NoHand(table) EXCEPT !.hand = "none", !.endAfter = FALSE]
    /\ attached' = {} /\ closed' = {} /\ mail' = [e \in Clients |-> << >>]
    /\ client' = [c \in Outside |-> IF client[c].pc \in {"read", "delay"} THEN [client[c] EXCEPT !.pc = "dial"]
                                    ELSE client[c]]
    /\ sent' = [c \in Outside |-> << >>]
    /\ TableBotsRestored
    /\ UNCHANGED <<seat, drops>>

ServerBot(b) == TableBotStep(b) /\ UNCHANGED <<clientVars, crashes>>
OutsideBot(c) == ClientStep(c) /\ UNCHANGED <<bot, crashes>>
Handler(c) == Serve(c) /\ UNCHANGED <<bot, crashes>>
AnyClock == ThinksInTime /\ ClockRunsOut /\ UNCHANGED <<bot, clientVars, crashes>>

Next ==
    \/ \E b \in Bots : ServerBot(b)
    \/ \E b \in Inside : AddBot(b) /\ UNCHANGED <<clientVars, crashes>>
    \/ \E c \in Outside : OutsideBot(c) \/ Handler(c) \/ ((ClientJoin(c) \/ Disconnect(c)) /\ UNCHANGED <<bot, crashes>>)
    \/ (Host \/ Timers \/ \E g \in Guests : Guest(g)) /\ UNCHANGED <<bot, clientVars, crashes>>
    \/ AnyClock
    \/ Crash

Spec == Init /\ [][Next]_vars

\* The goroutines run and the table answers; neither the clock of a turn nor
\* the host needs to do anything.  A select that finds both a snapshot and the
\* stop takes either at random, not always the snapshot.
Stops(b) == RunStops(b) /\ UNCHANGED <<clientVars, crashes>>
Fairness ==
    /\ \A b \in Bots : WF_vars(ServerBot(b)) /\ SF_vars(Stops(b))
    /\ \A c \in Outside : WF_vars(OutsideBot(c)) /\ WF_vars(Handler(c))

FairSpec == Spec /\ Fairness

----------------------------------------------------------------------------
(* Properties.                                                              *)

\* "The bot acts on the current state of the table, never on a queue of stale
\* ones": when a bot the server plays has decided, it is its turn, and the
\* decision is for this very turn (Send, consider).
ActsOnTheTable ==
    [][\A b \in Bots : PC(b) = "think" /\ bot'[b].pc = "act"
            => (Answers => table.turn = b /\ table.key = bot'[b].last)]_vars

Playing(b) == Alive(b) \/ (b \in Outside /\ client[b].pc \notin {"none", "done"})

\* The turn of a bot ends without its clock, through lost connections, a
\* restart of the server, stale answers and rejected ones, and through the
\* goroutine and the connection that replace each other after a restart: the
\* bot acts, as long as either of them plays it.
BotPlaysItsTurn ==
    \A b \in Bots : \A k \in 1 .. MaxTurns :
        (table.turn = b /\ table.key = k /\ Playing(b)) ~> ~(table.turn = b /\ table.key = k /\ Playing(b))

Running(b) == PC(b) \in {"wait", "think", "act", "rebuy"}
NoWayBack(b) == seat[b] = "left" \/ table.state = "gone"

\* A goroutine the table has let go of, replaced, kicked or closed by Stop, comes
\* to its end, and only a restart starts another; where the seat is lost or the
\* table gone, so does whoever plays the bot.  Not so a client that the table
\* still has when it goes: who attaches between the two halves of Stop is never
\* closed (Close, run, Run's terminal codes).
GoneBotEnds ==
    /\ \A b \in Bots :
         (Goroutine(b) \notin attached /\ (Running(b) \/ NoWayBack(b)))
             ~> (PC(b) \in {"none", "done"} \/ (PC(b) = "attach" /\ ~NoWayBack(b)))
    /\ \A c \in Outside :
         (Connection(c) \notin attached /\ NoWayBack(c)) ~> (client[c].pc \in {"none", "done"})

\* A bot that is broke buys back in before anything else has to happen at the
\* table, or a hand of the others is on (consider, onSnapshot).
BustedBotRebuys ==
    \A b \in Bots :
        (seat[b] = "busted" /\ Playing(b) /\ table.state \in {"waiting", "running"})
            ~> (seat[b] # "busted" \/ table.hand = "betting" \/ ~Playing(b)
                \/ table.state \notin {"waiting", "running"})
=============================================================================
