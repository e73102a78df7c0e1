------------------------------ MODULE Sockets ------------------------------
(* The connections of one address: game connections to one table            *)
(* (server/ws.go, Attach, Detach, freeSeat and Stop of table/table.go) and  *)
(* user connections of a profile (server/userhub.go).                       *)
(*                                                                          *)
(* A connection is served by two goroutines, the handler (hello, read loop, *)
(* clean-up) and the writer, and is written to by others: the actor of the  *)
(* table, the hub, and its own handler.  A step is what one of them does    *)
(* between two points where another may come in between.                    *)
EXTENDS Naturals, Sequences, FiniteSets, SequencesExt

CONSTANTS
    Conns,               \* connections; one that is over may be used again
    Endpoints,           \* what each is for: "player", "viewer" or "user"
    People,              \* players of the table, and profiles on the hub
    Nobody,              \* a spectator or an admin; no connection
    QueueMax,            \* wsOutboundQueue
    UserSocketLimit,     \* userSocketLimit
    MaxConnectionsPerIP  \* cfg.MaxConnectionsPerIP

ASSUME LimitsArePositive ==
    /\ QueueMax \in Nat \ {0} /\ UserSocketLimit \in Nat \ {0}
    /\ MaxConnectionsPerIP \in Nat \ {0}

ASSUME NobodyIsApart == Nobody \notin Conns \cup People

ASSUME EndpointsAreKinds == Endpoints \subseteq [Conns -> {"player", "viewer", "user"}]

VARIABLES
    handler,    \* what the handler of a connection is at, and for whom
    wire,       \* queue, closed, the writer, and the connection itself
    table,      \* "up", "stopping" (Stop closed the clients) or "stopped"
    seated,     \* t.players
    connected,  \* the players whose Connected is true
    clients,    \* t.clients
    client,     \* t.playerClients
    hub,        \* conns of userHub: each profile's connections, oldest first
    sending     \* the Send the actor, and the one the hub, is in

tableVars == <<table, seated, connected, clients, client>>
vars == <<handler, wire, tableVars, hub, sending>>

Senders == {"actor", "hub"}

NoHandler(kind) == [stage |-> "none", kind |-> kind, who |-> Nobody]
NoWire == [queue |-> << >>, closed |-> FALSE, writer |-> "run", net |-> "open"]
NotSending == [to |-> Nobody, full |-> FALSE]

Init ==
    /\ \E kind \in Endpoints : handler = [c \in Conns |-> NoHandler(kind[c])]
    /\ wire = [c \in Conns |-> NoWire]
    /\ table \in {"up", "stopped"} /\ seated \in SUBSET People /\ connected = {}
    /\ clients = {} /\ client = [p \in People |-> Nobody]
    /\ hub = [p \in People |-> << >>]
    /\ sending = [s \in Senders |-> NotSending]

Stage(c) == handler[c].stage
At(c, kind, stage) == handler[c].kind = kind /\ handler[c].stage = stage
IsGame(c) == handler[c].kind \in {"player", "viewer"}
ToStage(c, stage) == handler' = [handler EXCEPT ![c].stage = stage]
ActorIdle == sending["actor"] = NotSending

----------------------------------------------------------------------------
(* wsConn.                                                                  *)

\* What is queued once the writer has seen the queue empty for the last time
\* is not read any more.
Item(x) == IF x.writer \in {"closing", "done"} THEN "late" ELSE "msg"

HasRoom(x) == Len(x.queue) < QueueMax

\* Close: once; behind what is queued, or at once when the queue is full.
Closing(x) ==
    IF x.closed THEN x
    ELSE IF HasRoom(x) THEN [x EXCEPT !.closed = TRUE, !.queue = Append(@, "close")]
    ELSE [x EXCEPT !.closed = TRUE, !.net = "dead"]

\* Send, by a goroutine nobody comes in between: refused when closed, and the
\* end of a connection that does not keep up.
Sent(x) ==
    IF x.closed THEN x
    ELSE IF HasRoom(x) THEN [x EXCEPT !.queue = Append(@, Item(x))]
    ELSE Closing(x)

\* The writer has ended and the connection with it; nobody reads what is left
\* in the queue, which starts to fill again.
Ended(x) == [x EXCEPT !.writer = "done", !.net = "dead", !.queue = << >>]

\* write: the head of the queue goes out.
Write(c) ==
    LET x == wire[c] IN
    /\ x.writer \in {"run", "drain"}
    /\ x.net = "open" /\ x.queue # << >> /\ Head(x.queue) # "close"
    /\ wire' = [wire EXCEPT ![c].queue = Tail(@)]
    /\ UNCHANGED <<handler, tableVars, hub, sending>>

\* write fails, or runs into wsWriteTimeout: the writer ends, or closes what
\* it was about to close anyway.
WriteFails(c) ==
    LET x == wire[c] IN
    /\ x.writer \in {"run", "drain"}
    /\ x.queue # << >> /\ Head(x.queue) # "close"
    /\ wire' = [wire EXCEPT ![c] = IF x.writer = "run" THEN Ended(x)
                                   ELSE [x EXCEPT !.writer = "closing", !.net = "dead"]]
    /\ UNCHANGED <<handler, tableVars, hub, sending>>

\* Mutant: a close request is carried out without a look at the queue.
TakeCloseNow(c) ==
    LET x == wire[c] IN
    /\ x.writer = "run" /\ x.queue # << >> /\ Head(x.queue) = "close"
    /\ wire' = [wire EXCEPT ![c].queue = Tail(@), ![c].writer = "closing"]
    /\ UNCHANGED <<handler, tableVars, hub, sending>>

\* The writer reads the close request; drain writes what came in behind it.
TakeClose(c) ==
    LET x == wire[c] IN
    /\ x.writer = "run" /\ x.queue # << >> /\ Head(x.queue) = "close"
    /\ wire' = [wire EXCEPT ![c].queue = Tail(@), ![c].writer = "drain"]
    /\ UNCHANGED <<handler, tableVars, hub, sending>>

Drained(c) ==
    /\ wire[c].writer = "drain" /\ wire[c].queue = << >>
    /\ wire' = [wire EXCEPT ![c].writer = "closing"]
    /\ UNCHANGED <<handler, tableVars, hub, sending>>

\* The close handshake; the writer has ended.
HangUp(c) ==
    /\ wire[c].writer = "closing"
    /\ wire' = [wire EXCEPT ![c] = Ended(@)]
    /\ UNCHANGED <<handler, tableVars, hub, sending>>

\* Mutant: only a connection that is gone fails the ping.
PingNoticesDeath(c) ==
    /\ wire[c].writer = "run"
    /\ wire[c].net = "dead"
    /\ wire' = [wire EXCEPT ![c] = Ended(@)]
    /\ UNCHANGED <<handler, tableVars, hub, sending>>

\* The ticker: a ping needs the connection, and a handler that still reads
\* (the answer is seen by whoever reads).  A ping that succeeds is no step.
PingFails(c) ==
    /\ Stage(c) # "none" /\ wire[c].writer = "run"
    /\ wire[c].net = "dead" \/ Stage(c) \in {"leaving", "wait"}
    /\ wire' = [wire EXCEPT ![c] = Ended(@)]
    /\ UNCHANGED <<handler, tableVars, hub, sending>>

Writer(c) == Write(c) \/ WriteFails(c) \/ TakeClose(c) \/ Drained(c) \/ HangUp(c)

\* The other side goes away.
PeerGone(c) ==
    /\ Stage(c) # "none" /\ wire[c].net = "open"
    /\ wire' = [wire EXCEPT ![c].net = "dead"]
    /\ UNCHANGED <<handler, tableVars, hub, sending>>

----------------------------------------------------------------------------
(* Sends from outside: Send looks whether the connection is closed and then *)
(* queues, and others come in between.                                      *)

SendLooks(s, c) ==
    /\ sending[s] = NotSending /\ ~wire[c].closed
    /\ sending' = [sending EXCEPT ![s].to = c]
    /\ UNCHANGED <<handler, wire, tableVars, hub>>

\* broadcast: to a client; until it is done the actor does nothing else.
Broadcast(c) == table = "up" /\ c \in clients /\ SendLooks("actor", c)

\* userHub.send: to a connection of the list.  The list is copied and the lock
\* given back before the sends, so the connection may go meanwhile.
Notify(p, c) == c \in ToSet(hub[p]) /\ SendLooks("hub", c)

SendQueues(s) ==
    LET c == sending[s].to IN
    /\ c # Nobody /\ ~sending[s].full
    /\ \/ /\ HasRoom(wire[c])
          /\ wire' = [wire EXCEPT ![c].queue = Append(@, Item(wire[c]))]
          /\ sending' = [sending EXCEPT ![s] = NotSending]
       \/ /\ ~HasRoom(wire[c])
          /\ sending' = [sending EXCEPT ![s].full = TRUE]
          /\ UNCHANGED wire
    /\ UNCHANGED <<handler, tableVars, hub>>

\* "slow consumer": the writer may have made room meanwhile.
SendCloses(s) ==
    LET c == sending[s].to IN
    /\ c # Nobody /\ sending[s].full
    /\ wire' = [wire EXCEPT ![c] = Closing(@)]
    /\ sending' = [sending EXCEPT ![s] = NotSending]
    /\ UNCHANGED <<handler, tableVars, hub>>

Sender(s) == SendQueues(s) \/ SendCloses(s)

----------------------------------------------------------------------------
(* The handlers: handleWS and handleUserWS.                                 *)

\* acquireConn, and the connection is set up.
Accept(c) ==
    /\ Stage(c) = "none"
    /\ Cardinality({d \in Conns : Stage(d) # "none"}) < MaxConnectionsPerIP
    /\ \A s \in Senders : sending[s].to # c
    /\ ToStage(c, "hello")
    /\ UNCHANGED <<wire, tableVars, hub, sending>>

\* No table, no hello in time, a bad one, another version, no session.
Refuse(c) ==
    /\ Stage(c) = "hello"
    /\ wire' = [wire EXCEPT ![c] = Closing(@)]
    /\ ToStage(c, "wait")
    /\ UNCHANGED <<tableVars, hub, sending>>

\* resolveClient: the session is that of a player, or it is a spectator's or
\* the admin token.  The table was looked up before; it may be gone by now.
GameHello(c, p) ==
    /\ At(c, "player", "hello") \/ (At(c, "viewer", "hello") /\ p = Nobody)
    /\ At(c, "player", "hello") => p \in People
    /\ wire[c].net = "open"
    /\ handler' = [handler EXCEPT ![c].who = p, ![c].stage = "known"]
    /\ UNCHANGED <<wire, tableVars, hub, sending>>

\* Attach for a player: an older connection is replaced.  welcome and the
\* chat history count as one message here.
AttachPlayer(c) ==
    LET p == handler[c].who  old == client[p] IN
    /\ Stage(c) = "known" /\ p \in seated /\ ActorIdle /\ table # "stopped"
    /\ clients' = (clients \ {old}) \cup {c}
    /\ client' = [client EXCEPT ![p] = c]
    /\ connected' = connected \cup {p}
    /\ wire' = [d \in Conns |-> IF d = c THEN Sent(wire[c])
                                ELSE IF d = old THEN Closing(wire[d]) ELSE wire[d]]
    /\ ToStage(c, "reading")
    /\ UNCHANGED <<table, seated, hub, sending>>

AttachViewer(c) ==
    /\ Stage(c) = "known" /\ handler[c].who = Nobody /\ ActorIdle /\ table # "stopped"
    /\ clients' = clients \cup {c}
    /\ wire' = [wire EXCEPT ![c] = Sent(@)]
    /\ ToStage(c, "reading")
    /\ UNCHANGED <<table, seated, connected, client, hub, sending>>

\* The seat is gone, the table has stopped, or spectators are not welcome.
AttachRefused(c) ==
    /\ Stage(c) = "known"
    /\ table = "stopped" \/ (ActorIdle /\ handler[c].who \notin seated)
    /\ wire' = [wire EXCEPT ![c] = Closing(@)]
    /\ ToStage(c, "wait")
    /\ UNCHANGED <<tableVars, hub, sending>>

Attach(c) == AttachPlayer(c) \/ AttachViewer(c) \/ AttachRefused(c)

\* userHub.add: oldest first; the ones over the limit are dropped.
HubAdd(list, c) ==
    LET all == Append(list, c)
        over == IF Len(all) > UserSocketLimit THEN Len(all) - UserSocketLimit ELSE 0
    IN [keep |-> SubSeq(all, over + 1, Len(all)), drop |-> ToSet(SubSeq(all, 1, over))]

UserHello(c, p) ==
    LET added == HubAdd(hub[p], c) IN
    /\ At(c, "user", "hello") /\ wire[c].net = "open"
    /\ hub' = [hub EXCEPT ![p] = added.keep]
    /\ wire' = [d \in Conns |-> IF d \in added.drop THEN Closing(wire[d])
                                ELSE IF d = c THEN Sent(wire[c]) ELSE wire[d]]
    /\ handler' = [handler EXCEPT ![c].who = p, ![c].stage = "reading"]
    /\ UNCHANGED <<tableVars, sending>>

\* A command or a ping is answered on the same connection.
Reply(c) ==
    /\ Stage(c) = "reading" /\ wire[c].net = "open"
    /\ wire' = [wire EXCEPT ![c] = Sent(@)]
    /\ UNCHANGED <<handler, tableVars, hub, sending>>

\* Too large, too fast, no JSON: the handler closes the connection and ends.
\* A user connection that sends no JSON just ends.
BadMessage(c) ==
    /\ Stage(c) = "reading" /\ wire[c].net = "open"
    /\ \/ wire' = [wire EXCEPT ![c] = Closing(@)]
       \/ handler[c].kind = "user" /\ UNCHANGED wire
    /\ ToStage(c, "leaving")
    /\ UNCHANGED <<tableVars, hub, sending>>

\* The connection is gone; some errors are taken for a bad message.
ReadFails(c) ==
    /\ Stage(c) = "reading" /\ wire[c].net = "dead"
    /\ \/ UNCHANGED wire
       \/ IsGame(c) /\ wire' = [wire EXCEPT ![c] = Closing(@)]
    /\ ToStage(c, "leaving")
    /\ UNCHANGED <<tableVars, hub, sending>>

\* freeSeat: the player and the connection are forgotten by the table.
ForgetSeat(p) ==
    /\ seated' = seated \ {p}
    /\ connected' = connected \ {p}
    /\ client' = [client EXCEPT ![p] = Nobody]
    /\ clients' = clients \ {client[p]}
    /\ UNCHANGED table

\* A seat is freed at the end of a hand or by the host, who also closes the
\* connection of a player who is kicked.
FreeSeat(p, kicked) ==
    LET c == client[p] IN
    /\ p \in seated /\ ActorIdle /\ table = "up"
    /\ ForgetSeat(p)
    /\ wire' = IF kicked /\ c # Nobody THEN [wire EXCEPT ![c] = Closing(Sent(@))] ELSE wire
    /\ UNCHANGED <<handler, hub, sending>>

\* The leave command: the seat is freed now or, during a hand, later; the ack
\* is sent and the close behind it.
Leave(c) ==
    LET p == handler[c].who IN
    /\ At(c, "player", "reading") /\ p \in seated /\ wire[c].net = "open"
    /\ ActorIdle /\ table = "up"
    /\ ForgetSeat(p) \/ UNCHANGED tableVars
    /\ wire' = [wire EXCEPT ![c] = Closing(Sent(@))]
    /\ ToStage(c, "leaving")
    /\ UNCHANGED <<hub, sending>>

\* Mutant: the player is disconnected whichever connection goes.
DetachAny(c) ==
    LET p == handler[c].who IN
    /\ IsGame(c) /\ Stage(c) = "leaving" /\ ActorIdle /\ table # "stopped"
    /\ clients' = clients \ {c}
    /\ client' = [q \in People |-> IF q = p THEN Nobody ELSE client[q]]
    /\ connected' = connected \ {p}
    /\ ToStage(c, "wait")
    /\ UNCHANGED <<wire, table, seated, hub, sending>>

\* Detach, deferred: only a connection the table still has, and only the
\* player it is the connection of.
Detach(c) ==
    LET p == handler[c].who  current == p \in People /\ client[p] = c IN
    /\ IsGame(c) /\ Stage(c) = "leaving" /\ ActorIdle /\ table # "stopped"
    /\ clients' = clients \ {c}
    /\ client' = IF c \in clients /\ current THEN [client EXCEPT ![p] = Nobody] ELSE client
    /\ connected' = IF c \in clients /\ current THEN connected \ {p} ELSE connected
    /\ ToStage(c, "wait")
    /\ UNCHANGED <<wire, table, seated, hub, sending>>

\* A stopped table answers nothing: the call returns without having run.
DetachStopped(c) ==
    /\ IsGame(c) /\ Stage(c) = "leaving" /\ table = "stopped"
    /\ ToStage(c, "wait")
    /\ UNCHANGED <<wire, tableVars, hub, sending>>

\* Mutant: the list loses its first connection, whichever has gone.
HubRemoveFirst(c) ==
    /\ At(c, "user", "leaving")
    /\ hub' = [hub EXCEPT ![handler[c].who] = IF @ = << >> THEN @ ELSE Tail(@)]
    /\ ToStage(c, "wait")
    /\ UNCHANGED <<wire, tableVars, sending>>

\* userHub.remove, deferred: by identity, the first that is this connection.
HubRemove(c) ==
    LET list == hub[handler[c].who] IN
    /\ At(c, "user", "leaving")
    /\ \/ /\ c \notin ToSet(list)
          /\ UNCHANGED hub
       \/ \E i \in DOMAIN list :
             /\ list[i] = c /\ \A j \in 1..(i - 1) : list[j] # c
             /\ hub' = [hub EXCEPT ![handler[c].who] = RemoveAt(list, i)]
    /\ ToStage(c, "wait")
    /\ UNCHANGED <<wire, tableVars, sending>>

\* conn.wait has returned: releaseConn.
Release(c) ==
    /\ Stage(c) = "wait" /\ wire[c].writer = "done"
    /\ handler' = [handler EXCEPT ![c] = NoHandler(@.kind)]
    /\ wire' = [wire EXCEPT ![c] = NoWire]
    /\ UNCHANGED <<tableVars, hub, sending>>

\* Stop: the clients are closed by the actor, then the actor is ended.
StopClients ==
    /\ table = "up" /\ ActorIdle
    /\ wire' = [c \in Conns |-> IF c \in clients THEN Closing(wire[c]) ELSE wire[c]]
    /\ clients' = {} /\ client' = [p \in People |-> Nobody]
    /\ table' = "stopping"
    /\ UNCHANGED <<handler, seated, connected, hub, sending>>

StopActor ==
    /\ table = "stopping" /\ ActorIdle
    /\ table' = "stopped"
    /\ UNCHANGED <<handler, wire, seated, connected, clients, client, hub, sending>>

Hello(c) ==
    \/ Refuse(c)
    \/ \E p \in People \cup {Nobody} : GameHello(c, p)
    \/ \E p \in People : UserHello(c, p)

Next ==
    \/ \E c \in Conns :
          \/ Accept(c) \/ Hello(c) \/ Attach(c) \/ Reply(c) \/ BadMessage(c) \/ ReadFails(c)
          \/ Leave(c) \/ Broadcast(c) \/ (\E p \in People : Notify(p, c)) \/ Detach(c) \/ DetachStopped(c) \/ HubRemove(c)
          \/ Release(c) \/ Writer(c) \/ PingFails(c) \/ PeerGone(c)
    \/ \E s \in Senders : Sender(s)
    \/ StopClients \/ StopActor
    \/ \E p \in People, kicked \in BOOLEAN : FreeSeat(p, kicked)

Spec == Init /\ [][Next]_vars

\* What the handler goroutine does unasked, and the writer goroutine.
Handler(c) ==
    \/ Hello(c) \/ Attach(c) \/ ReadFails(c)
    \/ Detach(c) \/ DetachStopped(c) \/ HubRemove(c) \/ Release(c)
WriterRuns(c) == Writer(c) \/ PingFails(c)

\* Fairness: the goroutines run.  What a handler asks of the actor waits in the
\* actor's inbox, a queue, and is not overtaken by broadcasts for ever, hence
\* the strong fairness.  Peers, players and the host may do nothing at all.
Fairness ==
    /\ \A c \in Conns : SF_vars(Handler(c)) /\ WF_vars(WriterRuns(c))
    /\ \A s \in Senders : WF_vars(Sender(s))

FairSpec == Spec /\ Fairness

----------------------------------------------------------------------------
(* Properties.                                                              *)

\* A player is shown as connected exactly while the table has a connection of
\* theirs, and that is the newest: a connection that reads for a seated
\* player and was not asked to close is the one the table sends to.  The end
\* of an old connection never disconnects its successor (Attach, Detach).
NewestIsServed ==
    table = "up" =>
        \A p \in People :
            /\ (p \in connected) = (client[p] # Nobody)
            /\ client[p] # Nobody =>
                  /\ client[p] \in clients
                  /\ handler[client[p]].who = p
                  /\ Stage(client[p]) \in {"reading", "leaving"}
            /\ \A c \in Conns :
                  (At(c, "player", "reading") /\ handler[c].who = p /\ p \in seated
                   /\ ~wire[c].closed) => client[p] = c

\* Every user connection that reads and was not asked to close is on its
\* profile's list, so every event reaches it; the list holds at most
\* userSocketLimit connections, each of them alive (userHub).
HubHasTheOpen ==
    \A p \in People :
        /\ Len(hub[p]) <= UserSocketLimit
        /\ \A c \in ToSet(hub[p]) :
              handler[c].who = p /\ (At(c, "user", "reading") \/ At(c, "user", "leaving"))
        /\ \A c \in Conns :
              (At(c, "user", "reading") /\ handler[c].who = p /\ ~wire[c].closed)
              => c \in ToSet(hub[p])

\* Whoever is connected is reached, at the table and in the hub.
NewestAndOpenAreReached == NewestIsServed /\ HubHasTheOpen

\* "Close requests a close after all queued messages were written": a
\* connection that ended with the close handshake leaves nothing unwritten of
\* what was queued by then, however senders and the writer interleave.
QueuedIsWritten ==
    \A c \in Conns :
        (wire[c].writer = "closing" /\ wire[c].net = "open") =>
            "msg" \notin ToSet(wire[c].queue)

\* A connection that was asked to close, or whose handler is done, comes to
\* its end and gives its place among the connections of the address back,
\* whatever the other side does.
ClosedIsReleased ==
    \A c \in Conns :
        (wire[c].closed \/ Stage(c) \in {"leaving", "wait"}) ~> (Stage(c) = "none")
=============================================================================
