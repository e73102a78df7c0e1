--------------------------- MODULE SocketsProofs ---------------------------
(***************************************************************************)
(* What Sockets promises, for every set of connections and of people, every*)
(* mix of endpoints, every length of the queue and every limit.            *)
(***************************************************************************)
EXTENDS Sockets, SequenceTheorems, TLAPS

Stages == {"none", "hello", "known", "reading", "leaving", "wait"}
Kinds == {"player", "viewer", "user"}
Somebody == People \cup {Nobody}
Items == {"msg", "late", "close"}
Writers == {"run", "drain", "closing", "done"}

Handlers == [stage : Stages, kind : Kinds, who : Somebody]
Wires == [queue : Seq(Items), closed : BOOLEAN, writer : Writers, net : {"open", "dead"}]
Sends == [to : Conns \cup {Nobody}, full : BOOLEAN]

TypeOK ==
    /\ handler \in [Conns -> Handlers]
    /\ wire \in [Conns -> Wires]
    /\ table \in {"up", "stopping", "stopped"}
    /\ seated \in SUBSET People /\ connected \in SUBSET People
    /\ clients \in SUBSET Conns
    /\ client \in [People -> Conns \cup {Nobody}]
    /\ hub \in [People -> Seq(Conns)]
    /\ sending \in [Senders -> Sends]

\* Nothing is lost on a connection that is being closed in good order.
Settled(x) ==
    (x.writer = "closing" /\ x.net = "open") => \A i \in 1..Len(x.queue) : x.queue[i] # "msg"

AllSettled == \A c \in Conns : Settled(wire[c])

\* Who has been let in to the table and the hub came by the right door.
RightDoor ==
    /\ \A c \in Conns :
          Stage(c) = "known" => IsGame(c) /\ (handler[c].who \in People => handler[c].kind = "player")
    /\ \A p \in People : client[p] # Nobody => handler[client[p]].kind = "player"

\* The table's connections are the newest ones.
Served ==
    \A p \in People :
        /\ (p \in connected) = (client[p] # Nobody)
        /\ client[p] # Nobody =>
              /\ client[p] \in clients
              /\ handler[client[p]].who = p
              /\ Stage(client[p]) \in {"reading", "leaving"}
        /\ \A c \in Conns :
              (At(c, "player", "reading") /\ handler[c].who = p /\ p \in seated
               /\ ~wire[c].closed) => client[p] = c

\* A connection is once on a list.
OnceOnList ==
    \A p \in People : \A i, j \in 1..Len(hub[p]) : hub[p][i] = hub[p][j] => i = j

\* The lists of the hub, by position.
Listed ==
    \A p \in People :
        /\ Len(hub[p]) <= UserSocketLimit
        /\ \A i \in 1..Len(hub[p]) :
              LET c == hub[p][i] IN
              /\ handler[c].who = p /\ handler[c].kind = "user"
              /\ Stage(c) \in {"reading", "leaving"}
        /\ \A c \in Conns :
              (At(c, "user", "reading") /\ handler[c].who = p /\ ~wire[c].closed)
              => \E i \in 1..Len(hub[p]) : hub[p][i] = c

\* The inductive invariant.  Without RightDoor the end of a user connection
\* could be that of a player; without OnceOnList its removal could leave it on
\* the list.
SocketsInv ==
    /\ TypeOK /\ AllSettled /\ RightDoor /\ OnceOnList /\ Listed
    /\ table = "up" => Served

(***************************************************************************)
(* The wire of a connection.                                               *)
(***************************************************************************)

\* y is what may become of x while the connection lives.
GoesOn(x, y) == y \in Wires /\ (x.closed => y.closed) /\ (Settled(x) => Settled(y))

LEMMA AppendFacts ==
  ASSUME NEW S, NEW q \in Seq(S), NEW e \in S
  PROVE /\ Append(q, e) \in Seq(S)
        /\ Len(Append(q, e)) = Len(q) + 1
        /\ \A i \in 1..Len(q) : Append(q, e)[i] = q[i]
        /\ Append(q, e)[Len(q) + 1] = e
BY AppendProperties

\* Queueing keeps the types and what is written.
LEMMA QueueGoesOn ==
  ASSUME NEW x \in Wires, NEW e \in Items, e = "msg" => x.writer \notin {"closing", "done"}
  PROVE GoesOn(x, [x EXCEPT !.queue = Append(@, e)])
<1> DEFINE y == [x EXCEPT !.queue = Append(@, e)]
<1>0. x.queue \in Seq(Items) BY DEF Wires
<1>1. y \in Wires BY <1>0, AppendFacts DEF Wires
<1>2. y.closed = x.closed /\ y.writer = x.writer /\ y.net = x.net /\ y.queue = Append(x.queue, e)
  BY DEF Wires
<1>3. Len(x.queue) \in Nat BY <1>0, LenProperties
<1> HIDE DEF y
<1>4. ASSUME Settled(x), y.writer = "closing", y.net = "open", NEW i \in 1..Len(y.queue)
      PROVE y.queue[i] # "msg"
  <2>1. CASE i \in 1..Len(x.queue)
    BY <2>1, <1>0, <1>2, <1>4, AppendFacts DEF Settled
  <2>2. CASE i \notin 1..Len(x.queue)
    <3>1. i = Len(x.queue) + 1 BY <2>2, <1>0, <1>2, <1>3, <1>4, AppendFacts
    <3>2. y.queue[i] = e BY <3>1, <1>0, <1>2, AppendFacts
    <3> QED BY <3>2, <1>2, <1>4
  <2> QED BY <2>1, <2>2
<1> QED BY <1>1, <1>2, <1>4 DEF GoesOn, Settled, y

\* Whatever else becomes of a wire with the same queue.
LEMMA SameQueueGoesOn ==
  ASSUME NEW x \in Wires, NEW y \in Wires, y.queue = x.queue, x.closed => y.closed,
         y.writer = x.writer, y.net = x.net \/ y.net = "dead"
  PROVE GoesOn(x, y)
BY DEF GoesOn, Settled

\* Close keeps what is queued, and closes.
LEMMA ClosingGoesOn ==
  ASSUME NEW x \in Wires
  PROVE GoesOn(x, Closing(x)) /\ Closing(x).closed
<1>1. CASE x.closed
  BY <1>1, SameQueueGoesOn DEF Closing
<1>2. CASE ~x.closed /\ HasRoom(x)
  <2> DEFINE z == [x EXCEPT !.queue = Append(@, "close")]
             y == [x EXCEPT !.closed = TRUE, !.queue = Append(@, "close")]
  <2>1. GoesOn(x, z) BY QueueGoesOn DEF Items
  <2>2. z \in Wires BY <2>1 DEF GoesOn
  <2>3. y = [z EXCEPT !.closed = TRUE] BY DEF Wires
  <2>4. y \in Wires /\ y.closed /\ y.queue = z.queue /\ y.writer = z.writer /\ y.net = z.net
    <3> HIDE DEF z, y
    <3> QED BY <2>2, <2>3 DEF Wires
  <2>5. Closing(x) = y BY <1>2 DEF Closing
  <2> HIDE DEF z, y
  <2> QED BY <2>1, <2>4, <2>5 DEF GoesOn, Settled
<1>3. CASE ~x.closed /\ ~HasRoom(x)
  <2> DEFINE y == [x EXCEPT !.closed = TRUE, !.net = "dead"]
  <2>1. y \in Wires /\ y.closed /\ y.queue = x.queue /\ y.writer = x.writer /\ y.net = "dead"
    BY DEF Wires
  <2>2. Closing(x) = y BY <1>3 DEF Closing
  <2> HIDE DEF y
  <2> QED BY <2>1, <2>2 DEF GoesOn, Settled
<1> QED BY <1>1, <1>2, <1>3

\* Send keeps what is queued.
LEMMA SentGoesOn ==
  ASSUME NEW x \in Wires
  PROVE GoesOn(x, Sent(x))
<1>1. Item(x) \in Items /\ (Item(x) = "msg" => x.writer \notin {"closing", "done"})
  BY DEF Item, Items
<1>2. GoesOn(x, [x EXCEPT !.queue = Append(@, Item(x))])
  <2> DEFINE e == Item(x)
  <2> HIDE DEF e
  <2>1. e \in Items /\ (e = "msg" => x.writer \notin {"closing", "done"}) BY <1>1 DEF e
  <2>2. GoesOn(x, [x EXCEPT !.queue = Append(@, e)]) BY <2>1, QueueGoesOn
  <2> QED BY <2>2 DEF e
<1>3. GoesOn(x, x) BY DEF GoesOn
<1> QED BY <1>2, <1>3, ClosingGoesOn DEF Sent

\* Closing what was just sent.
LEMMA SentAndClosed ==
  ASSUME NEW x \in Wires
  PROVE GoesOn(x, Closing(Sent(x))) /\ Closing(Sent(x)).closed
<1>1. GoesOn(x, Sent(x)) BY SentGoesOn
<1>2. Sent(x) \in Wires BY <1>1 DEF GoesOn
<1>3. GoesOn(Sent(x), Closing(Sent(x))) /\ Closing(Sent(x)).closed BY <1>2, ClosingGoesOn
<1> QED BY <1>1, <1>3 DEF GoesOn

\* The writer ends.
LEMMA EndedGoesOn ==
  ASSUME NEW x \in Wires
  PROVE GoesOn(x, Ended(x))
<1> DEFINE y == [x EXCEPT !.writer = "done", !.net = "dead", !.queue = << >>]
<1>1. << >> \in Seq(Items) BY EmptySeq
<1>2. y \in Wires /\ y.closed = x.closed /\ y.writer = "done" BY <1>1 DEF Wires, Writers
<1>3. Ended(x) = y BY DEF Ended
<1> HIDE DEF y
<1> QED BY <1>2, <1>3 DEF GoesOn, Settled

(***************************************************************************)
(* Steps of the wires.                                                     *)
(***************************************************************************)

\* Every connection lives on.
WiresGoOn == wire' \in [Conns -> Wires] /\ \A d \in Conns : GoesOn(wire[d], wire'[d])

\* One connection changes.
LEMMA OneGoesOn ==
  ASSUME TypeOK, NEW c \in Conns, NEW y, GoesOn(wire[c], y), wire' = [wire EXCEPT ![c] = y]
  PROVE WiresGoOn /\ wire'[c] = y
<1>1. \A d \in Conns : wire[d] \in Wires BY DEF TypeOK
<1>2. y \in Wires BY DEF GoesOn
<1>3. wire \in [Conns -> Wires] BY DEF TypeOK
<1>4. wire' \in [Conns -> Wires] /\ wire'[c] = y /\ \A d \in Conns \ {c} : wire'[d] = wire[d]
  <2> HIDE DEF Wires
  <2> QED BY <1>2, <1>3
<1>5. \A d \in Conns : GoesOn(wire[d], wire[d]) BY <1>1 DEF GoesOn
<1> QED BY <1>4, <1>5 DEF WiresGoOn

\* No connection changes.
LEMMA NoneChanges ==
  ASSUME TypeOK, UNCHANGED wire
  PROVE WiresGoOn
BY DEF TypeOK, WiresGoOn, GoesOn

\* One connection is closed.
LEMMA CloseOne ==
  ASSUME TypeOK, NEW c \in Conns, wire' = [wire EXCEPT ![c] = Closing(@)]
  PROVE WiresGoOn /\ wire'[c].closed
<1>1. wire[c] \in Wires BY DEF TypeOK
<1>2. GoesOn(wire[c], Closing(wire[c])) /\ Closing(wire[c]).closed BY <1>1, ClosingGoesOn
<1>3. PICK y : y = Closing(wire[c]) OBVIOUS
<1>4. wire' = [wire EXCEPT ![c] = y] BY <1>3
<1> QED BY <1>2, <1>3, <1>4, OneGoesOn

\* One connection is written to.
LEMMA SendOne ==
  ASSUME TypeOK, NEW c \in Conns, wire' = [wire EXCEPT ![c] = Sent(@)]
  PROVE WiresGoOn
<1>1. wire[c] \in Wires BY DEF TypeOK
<1>2. GoesOn(wire[c], Sent(wire[c])) BY <1>1, SentGoesOn
<1>3. PICK y : y = Sent(wire[c]) OBVIOUS
<1>4. wire' = [wire EXCEPT ![c] = y] BY <1>3
<1> QED BY <1>2, <1>3, <1>4, OneGoesOn

\* One connection is written to and closed.
LEMMA SendAndCloseOne ==
  ASSUME TypeOK, NEW c \in Conns, wire' = [wire EXCEPT ![c] = Closing(Sent(@))]
  PROVE WiresGoOn /\ wire'[c].closed
<1>1. wire[c] \in Wires BY DEF TypeOK
<1>2. GoesOn(wire[c], Closing(Sent(wire[c]))) /\ Closing(Sent(wire[c])).closed BY <1>1, SentAndClosed
<1>3. PICK y : y = Closing(Sent(wire[c])) OBVIOUS
<1>4. wire' = [wire EXCEPT ![c] = y] BY <1>3
<1> QED BY <1>2, <1>3, <1>4, OneGoesOn

\* The writer goroutine, the ping and the peer.
LEMMA WriterGoesOn ==
  ASSUME TypeOK, NEW c \in Conns, Writer(c) \/ PingFails(c) \/ PeerGone(c)
  PROVE WiresGoOn
<1>0. PICK x : x = wire[c] OBVIOUS
<1>1. x \in Wires BY <1>0 DEF TypeOK
<1>2. x.queue \in Seq(Items) BY <1>1 DEF Wires
<1>3. SUFFICES \E y : GoesOn(x, y) /\ wire' = [wire EXCEPT ![c] = y]
  BY <1>0, OneGoesOn
<1>4. x.queue # << >> => /\ Tail(x.queue) \in Seq(Items)
                        /\ Len(Tail(x.queue)) = Len(x.queue) - 1
                        /\ \A i \in 1..Len(Tail(x.queue)) : Tail(x.queue)[i] = x.queue[i + 1]
  BY <1>2, HeadTailProperties
<1>5. CASE Write(c)
  <2> DEFINE y == [x EXCEPT !.queue = Tail(@)]
  <2>1. wire' = [wire EXCEPT ![c] = y] BY <1>0, <1>5 DEF Write
  <2>2. x.writer \in {"run", "drain"} /\ x.queue # << >> BY <1>0, <1>5 DEF Write
  <2>3. y \in Wires /\ y.closed = x.closed /\ y.writer = x.writer BY <1>1, <1>4, <2>2 DEF Wires
  <2> HIDE DEF y
  <2> QED BY <2>1, <2>2, <2>3 DEF GoesOn, Settled
<1>6. CASE WriteFails(c)
  <2>1. CASE x.writer = "run"
    <3>1. wire' = [wire EXCEPT ![c] = Ended(x)] BY <1>0, <1>6, <2>1 DEF WriteFails
    <3> QED BY <3>1, <1>1, EndedGoesOn
  <2>2. CASE x.writer # "run"
    <3> DEFINE y == [x EXCEPT !.writer = "closing", !.net = "dead"]
    <3>1. wire' = [wire EXCEPT ![c] = y] BY <1>0, <1>6, <2>2 DEF WriteFails
    <3>2. y \in Wires /\ y.closed = x.closed /\ y.net = "dead" BY <1>1 DEF Wires, Writers
    <3> HIDE DEF y
    <3> QED BY <3>1, <3>2 DEF GoesOn, Settled
  <2> QED BY <2>1, <2>2
<1>7. CASE TakeClose(c)
  <2> DEFINE y == [x EXCEPT !.queue = Tail(@), !.writer = "drain"]
  <2>1. wire' = [wire EXCEPT ![c] = y] BY <1>0, <1>7 DEF TakeClose, TypeOK, Wires
  <2>2. x.queue # << >> BY <1>0, <1>7 DEF TakeClose
  <2>3. y \in Wires /\ y.closed = x.closed /\ y.writer = "drain" BY <1>1, <1>4, <2>2 DEF Wires, Writers
  <2> HIDE DEF y
  <2> QED BY <2>1, <2>3 DEF GoesOn, Settled
<1>8. CASE Drained(c)
  <2> DEFINE y == [x EXCEPT !.writer = "closing"]
  <2>1. wire' = [wire EXCEPT ![c] = y] BY <1>0, <1>8 DEF Drained
  <2>2. x.queue = << >> BY <1>0, <1>8 DEF Drained
  <2>3. y \in Wires /\ y.closed = x.closed /\ y.queue = << >> BY <1>1, <2>2 DEF Wires, Writers
  <2>4. 1..Len(y.queue) = {} BY <2>3
  <2> HIDE DEF y
  <2>5. GoesOn(x, y) BY <2>3, <2>4 DEF GoesOn, Settled
  <2> QED BY <2>1, <2>5
<1>9. CASE HangUp(c)
  <2>1. wire' = [wire EXCEPT ![c] = Ended(x)] BY <1>0, <1>9 DEF HangUp
  <2> QED BY <2>1, <1>1, EndedGoesOn
<1>10. CASE PingFails(c)
  <2>1. wire' = [wire EXCEPT ![c] = Ended(x)] BY <1>0, <1>10 DEF PingFails
  <2> QED BY <2>1, <1>1, EndedGoesOn
<1>11. CASE PeerGone(c)
  <2> DEFINE y == [x EXCEPT !.net = "dead"]
  <2>1. wire' = [wire EXCEPT ![c] = y] BY <1>0, <1>11 DEF PeerGone
  <2>2. y \in Wires /\ y.closed = x.closed /\ y.net = "dead" BY <1>1 DEF Wires
  <2> HIDE DEF y
  <2> QED BY <2>1, <2>2 DEF GoesOn, Settled
<1> QED BY <1>5, <1>6, <1>7, <1>8, <1>9, <1>10, <1>11 DEF Writer

\* A send from outside.
LEMMA SenderGoesOn ==
  ASSUME TypeOK, NEW s \in Senders, Sender(s)
  PROVE WiresGoOn
<1>0. PICK c : c = sending[s].to OBVIOUS
<1>1. c \in Conns
  BY <1>0 DEF Sender, SendQueues, SendCloses, TypeOK, Sends
<1>2. wire[c] \in Wires BY <1>1 DEF TypeOK
<1>3. CASE SendQueues(s)
  <2>1. CASE HasRoom(wire[c])
    <3>1. PICK e : e = Item(wire[c]) OBVIOUS
    <3>2. e \in Items /\ (e = "msg" => wire[c].writer \notin {"closing", "done"})
      BY <3>1 DEF Item, Items
    <3>3. GoesOn(wire[c], [wire[c] EXCEPT !.queue = Append(@, e)]) BY <3>2, <1>2, QueueGoesOn
    <3>4. wire' = [wire EXCEPT ![c] = [wire[c] EXCEPT !.queue = Append(@, e)]]
      BY <1>0, <1>3, <2>1, <3>1 DEF SendQueues
    <3> QED BY <3>3, <3>4, <1>1, OneGoesOn
  <2>2. CASE ~HasRoom(wire[c])
    BY <1>0, <1>3, <2>2, NoneChanges DEF SendQueues
  <2> QED BY <2>1, <2>2
<1>4. CASE SendCloses(s)
  BY <1>0, <1>1, <1>4, CloseOne DEF SendCloses
<1> QED BY <1>3, <1>4 DEF Sender

(***************************************************************************)
(* Every step keeps the invariant.                                         *)
(***************************************************************************)

\* What is settled stays settled.
LEMMA StaySettled ==
  ASSUME AllSettled, WiresGoOn
  PROVE AllSettled'
BY DEF AllSettled, WiresGoOn, GoesOn

\* The handlers, the table and the hub are left alone.
LEMMA OnlyWires ==
  ASSUME SocketsInv, WiresGoOn, UNCHANGED <<handler, tableVars, hub>>,
         sending' \in [Senders -> Sends]
  PROVE SocketsInv'
<1> USE DEF SocketsInv, tableVars
<1>1. TypeOK' BY DEF TypeOK, WiresGoOn
<1>2. AllSettled' BY StaySettled
<1>3. RightDoor' BY DEF RightDoor, Stage, IsGame
<1>4. OnceOnList' BY DEF OnceOnList
<1>5. Listed' BY DEF Listed, Stage, At, WiresGoOn, GoesOn
<1>6. (table = "up" => Served)' BY DEF Served, Stage, At, WiresGoOn, GoesOn
<1> QED BY <1>1, <1>2, <1>3, <1>4, <1>5, <1>6

\* One handler goes to another stage.
LEMMA StageEffect ==
  ASSUME TypeOK, NEW c \in Conns, NEW stage \in Stages, ToStage(c, stage)
  PROVE /\ handler' \in [Conns -> Handlers]
        /\ \A d \in Conns : handler'[d].kind = handler[d].kind /\ handler'[d].who = handler[d].who
        /\ handler'[c].stage = stage
        /\ \A d \in Conns \ {c} : handler'[d] = handler[d]
BY DEF TypeOK, ToStage, Handlers

\* A handler goes on, and the table and the hub do not hear of it.
LEMMA OnlyStage ==
  ASSUME SocketsInv, WiresGoOn, UNCHANGED <<tableVars, hub, sending>>,
         NEW c \in Conns, NEW stage \in Stages \ {"known", "reading"}, ToStage(c, stage),
         Stage(c) = "reading" => stage = "leaving",
         Stage(c) = "leaving" => IsGame(c) /\ table # "up"
  PROVE SocketsInv'
<1> USE DEF SocketsInv, tableVars
<1>0. /\ handler' \in [Conns -> Handlers]
      /\ \A d \in Conns : handler'[d].kind = handler[d].kind /\ handler'[d].who = handler[d].who
      /\ handler'[c].stage = stage
      /\ \A d \in Conns \ {c} : handler'[d] = handler[d]
  BY StageEffect
<1>k. \A p \in People : client'[p] = client[p] /\ (client[p] # Nobody => client[p] \in Conns)
  BY DEF TypeOK
<1>1. TypeOK' BY <1>0 DEF TypeOK, WiresGoOn
<1>2. AllSettled' BY StaySettled
<1>3. RightDoor'
  <2>1. \A d \in Conns : handler'[d].stage = "known" => handler[d].stage = "known"
    BY <1>0
  <2> QED BY <2>1, <1>0, <1>k DEF RightDoor, Stage, IsGame
<1>4. OnceOnList' BY DEF OnceOnList
<1>7. \A d \in Conns : handler'[d].stage = "reading" => handler[d].stage = "reading"
  BY <1>0
<1>8. \A d \in Conns : (handler[d].stage \in {"reading", "leaving"}
                        /\ (handler[d].stage = "leaving" => handler[d].kind = "user" \/ table = "up"))
                       => handler'[d].stage \in {"reading", "leaving"}
  BY <1>0 DEF Stage, IsGame
<1>5. Listed'
  <2>1. \A p \in People : \A i \in 1..Len(hub[p]) : hub[p][i] \in Conns
    BY ElementOfSeq DEF TypeOK
  <2> QED BY <2>1, <1>0, <1>7, <1>8 DEF Listed, Stage, At, WiresGoOn, GoesOn
<1>6. (table = "up" => Served)'
  BY <1>0, <1>k, <1>7, <1>8 DEF Served, Stage, At, WiresGoOn, GoesOn
<1> QED BY <1>1, <1>2, <1>3, <1>4, <1>5, <1>6

\* resolveClient lets a connection know whose it is.
LEMMA GameHelloKeeps ==
  ASSUME SocketsInv, NEW c \in Conns, NEW p \in Somebody, GameHello(c, p)
  PROVE SocketsInv'
<1> USE DEF SocketsInv, tableVars
<1>0. /\ handler' \in [Conns -> Handlers]
      /\ \A d \in Conns : handler'[d].kind = handler[d].kind
      /\ handler'[c].stage = "known" /\ handler'[c].who = p
      /\ \A d \in Conns \ {c} : handler'[d] = handler[d]
  BY DEF GameHello, TypeOK, Handlers, Stages
<1>9. UNCHANGED <<wire, table, seated, connected, clients, client, hub, sending>>
  BY DEF GameHello
<1>10. Stage(c) = "hello" BY DEF GameHello, At, Stage
<1>1. TypeOK' BY <1>0, <1>9 DEF TypeOK
<1>2. AllSettled' BY <1>9 DEF AllSettled
<1>3. RightDoor'
  <2>1. IsGame(c) /\ (p \in People => handler[c].kind = "player")
    BY NobodyIsApart DEF GameHello, At, IsGame
  <2> QED BY <2>1, <1>0, <1>9 DEF RightDoor, Stage, IsGame, TypeOK
<1>4. OnceOnList' BY <1>9 DEF OnceOnList
<1>5. Listed'
  <2>1. \A q \in People : \A i \in 1..Len(hub[q]) : hub[q][i] \in Conns
    BY ElementOfSeq DEF TypeOK
  <2> QED BY <2>1, <1>0, <1>9, <1>10 DEF Listed, Stage, At
<1>6. (table = "up" => Served)'
  BY <1>0, <1>9, <1>10 DEF Served, Stage, At, TypeOK
<1> QED BY <1>1, <1>2, <1>3, <1>4, <1>5, <1>6

\* A player's connection replaces the one before it.
LEMMA AttachPlayerKeeps ==
  ASSUME SocketsInv, NEW c \in Conns, AttachPlayer(c)
  PROVE SocketsInv'
<1> USE DEF SocketsInv, tableVars
<1>p. PICK p : p = handler[c].who OBVIOUS
<1>o. PICK old : old = client[p] OBVIOUS
<1>q. Stage(c) = "known" /\ p \in seated /\ p \in People /\ handler[c].kind = "player"
  BY <1>p DEF AttachPlayer, TypeOK, RightDoor
<1>9. /\ clients' = (clients \ {old}) \cup {c}
      /\ client' = [client EXCEPT ![p] = c]
      /\ connected' = connected \cup {p}
      /\ wire' = [d \in Conns |-> IF d = c THEN Sent(wire[c])
                                  ELSE IF d = old THEN Closing(wire[d]) ELSE wire[d]]
      /\ UNCHANGED <<table, seated, hub, sending>>
      /\ ToStage(c, "reading")
  BY <1>p, <1>o DEF AttachPlayer
<1>0. /\ handler' \in [Conns -> Handlers]
      /\ \A d \in Conns : handler'[d].kind = handler[d].kind /\ handler'[d].who = handler[d].who
      /\ handler'[c].stage = "reading"
      /\ \A d \in Conns \ {c} : handler'[d] = handler[d]
  BY <1>9, StageEffect DEF Stages
<1>w. WiresGoOn /\ (old \in Conns \ {c} => wire'[old].closed)
  <2>1. \A d \in Conns : wire[d] \in Wires BY DEF TypeOK
  <2>2. \A d \in Conns : /\ GoesOn(wire[d], wire[d]) /\ GoesOn(wire[d], Sent(wire[d]))
                         /\ GoesOn(wire[d], Closing(wire[d])) /\ Closing(wire[d]).closed
    BY <2>1, SentGoesOn, ClosingGoesOn DEF GoesOn
  <2>3. \A d \in Conns : GoesOn(wire[d], wire'[d])
    BY <2>2, <1>9
  <2>4. \A d \in Conns : wire'[d] \in Wires BY <2>3 DEF GoesOn
  <2>5. wire' \in [Conns -> Wires]
    <3> HIDE DEF Wires
    <3>1. \E f : wire' = [d \in Conns |-> f[d]]
      <4>1. wire' = [d \in Conns |-> wire'[d]] BY <1>9
      <4> QED BY <4>1
    <3> QED BY <3>1, <2>4
  <2>6. old \in Conns \ {c} => wire'[old].closed
    BY <2>2, <1>9
  <2> QED BY <2>3, <2>5, <2>6 DEF WiresGoOn
<1>1. TypeOK' BY <1>0, <1>9, <1>w, <1>q DEF TypeOK, WiresGoOn
<1>2. AllSettled' BY <1>w, StaySettled
<1>c. /\ client'[p] = c /\ \A r \in People \ {p} : client'[r] = client[r]
      /\ old \in Conns \cup {Nobody}
  BY <1>9, <1>o, <1>q DEF TypeOK
<1>3. RightDoor'
  <2>1. \A d \in Conns : handler'[d].stage = "known" => handler[d].stage = "known"
    BY <1>0
  <2>2. \A r \in People \ {p} : client[r] # Nobody => client[r] \in Conns BY DEF TypeOK
  <2> QED BY <2>1, <2>2, <1>0, <1>q, <1>c DEF RightDoor, Stage, IsGame
<1>4. OnceOnList' BY <1>9 DEF OnceOnList
<1>5. Listed'
  <2>1. \A r \in People : \A i \in 1..Len(hub[r]) : hub[r][i] \in Conns /\ hub[r][i] # c
    BY ElementOfSeq, <1>q DEF TypeOK, Listed
  <2> QED BY <2>1, <1>0, <1>9, <1>q, <1>w DEF Listed, Stage, At, WiresGoOn, GoesOn
<1>6. (table = "up" => Served)'
  <2> SUFFICES ASSUME table = "up", NEW r \in People
               PROVE  /\ (r \in connected') = (client'[r] # Nobody)
                      /\ client'[r] # Nobody =>
                            /\ client'[r] \in clients'
                            /\ handler'[client'[r]].who = r
                            /\ handler'[client'[r]].stage \in {"reading", "leaving"}
                      /\ \A d \in Conns :
                            (handler'[d].kind = "player" /\ handler'[d].stage = "reading"
                             /\ handler'[d].who = r /\ r \in seated' /\ ~wire'[d].closed)
                            => client'[r] = d
    BY <1>9 DEF Served, Stage, At
  <2>s. Served BY DEF SocketsInv
  <2>1. CASE r = p
    <3>1. c # Nobody BY NobodyIsApart
    <3>2. \A d \in Conns \ {c} : (handler'[d].kind = "player" /\ handler'[d].stage = "reading"
                             /\ handler'[d].who = p /\ p \in seated') => wire'[d].closed
      <4> TAKE d \in Conns \ {c}
      <4> HAVE handler'[d].kind = "player" /\ handler'[d].stage = "reading"
                             /\ handler'[d].who = p /\ p \in seated'
      <4>1. wire[d].closed \/ client[p] = d
        BY <2>s, <1>0, <1>q DEF Served, At, Stage
      <4>2. CASE wire[d].closed BY <4>2, <1>w DEF WiresGoOn, GoesOn
      <4>3. CASE client[p] = d BY <4>3, <1>o, <1>w
      <4> QED BY <4>1, <4>2, <4>3
    <3> QED BY <2>1, <3>1, <3>2, <1>0, <1>9, <1>c, <1>p
  <2>2. CASE r # p
    <3>1. client[r] # Nobody => client[r] # old /\ client[r] # c
      BY <2>2, <2>s, <1>o, <1>q DEF Served, Stage
    <3>2. client[r] # Nobody => client[r] \in Conns BY DEF TypeOK
    <3> QED BY <2>2, <2>s, <3>1, <3>2, <1>0, <1>9, <1>c, <1>w, <1>p DEF Served, At, Stage, WiresGoOn, GoesOn
  <2> QED BY <2>1, <2>2
<1> QED BY <1>1, <1>2, <1>3, <1>4, <1>5, <1>6

\* A spectator's connection joins the clients.
LEMMA AttachViewerKeeps ==
  ASSUME SocketsInv, NEW c \in Conns, AttachViewer(c)
  PROVE SocketsInv'
<1> USE DEF SocketsInv, tableVars
<1>9. /\ clients' = clients \cup {c} /\ ToStage(c, "reading") /\ Stage(c) = "known"
      /\ handler[c].who = Nobody
      /\ UNCHANGED <<table, seated, connected, client, hub, sending>>
  BY DEF AttachViewer
<1>0. /\ handler' \in [Conns -> Handlers]
      /\ \A d \in Conns : handler'[d].kind = handler[d].kind /\ handler'[d].who = handler[d].who
      /\ handler'[c].stage = "reading"
      /\ \A d \in Conns \ {c} : handler'[d] = handler[d]
  BY <1>9, StageEffect DEF Stages
<1>w. WiresGoOn BY SendOne DEF AttachViewer
<1>k. \A p \in People : client'[p] = client[p] /\ (client[p] # Nobody => client[p] \in Conns)
                        /\ p # Nobody
  BY <1>9, NobodyIsApart DEF TypeOK
<1>1. TypeOK' BY <1>0, <1>9, <1>w DEF TypeOK, WiresGoOn
<1>2. AllSettled' BY <1>w, StaySettled
<1>3. RightDoor'
  <2>1. \A d \in Conns : handler'[d].stage = "known" => handler[d].stage = "known"
    BY <1>0
  <2> QED BY <2>1, <1>0, <1>k DEF RightDoor, Stage, IsGame
<1>4. OnceOnList' BY <1>9 DEF OnceOnList
<1>d. handler[c].kind # "user" BY <1>9 DEF RightDoor, IsGame
<1>5. Listed'
  <2>1. \A r \in People : \A i \in 1..Len(hub[r]) : hub[r][i] \in Conns /\ hub[r][i] # c
    BY ElementOfSeq, <1>9 DEF TypeOK, Listed
  <2> QED BY <2>1, <1>0, <1>9, <1>d, <1>w DEF Listed, Stage, At, WiresGoOn, GoesOn
<1>6. (table = "up" => Served)'
  BY <1>0, <1>k, <1>9, <1>w DEF Served, Stage, At, WiresGoOn, GoesOn
<1> QED BY <1>1, <1>2, <1>3, <1>4, <1>5, <1>6

\* What freeSeat leaves of the connections the table serves.
LEMMA ForgetSeatKeeps ==
  ASSUME SocketsInv, table = "up", WiresGoOn, NEW p \in People, ForgetSeat(p), UNCHANGED <<hub, sending>>,
         handler' \in [Conns -> Handlers],
         \A d \in Conns : /\ handler'[d].kind = handler[d].kind /\ handler'[d].who = handler[d].who
                          /\ \/ handler'[d].stage = handler[d].stage
                             \/ handler[d].stage = "reading" /\ handler'[d].stage = "leaving"
  PROVE SocketsInv'
<1> USE DEF SocketsInv
<1>9. /\ seated' = seated \ {p} /\ connected' = connected \ {p}
      /\ client' = [client EXCEPT ![p] = Nobody] /\ clients' = clients \ {client[p]}
      /\ UNCHANGED <<table, hub, sending>>
  BY DEF ForgetSeat
<1>k. /\ client'[p] = Nobody
      /\ \A r \in People \ {p} : client'[r] = client[r]
      /\ \A r \in People : client[r] # Nobody => client[r] \in Conns
  BY <1>9 DEF TypeOK
<1>1. TypeOK' BY <1>9 DEF TypeOK, WiresGoOn
<1>2. AllSettled' BY StaySettled
<1>7. \A d \in Conns : handler'[d].stage = "known" => handler[d].stage = "known" OBVIOUS
<1>8. \A d \in Conns : handler[d].stage \in {"reading", "leaving"} => handler'[d].stage \in {"reading", "leaving"}
  OBVIOUS
<1>10. \A d \in Conns : handler'[d].stage = "reading" => handler[d].stage = "reading" OBVIOUS
<1>3. RightDoor' BY <1>7, <1>k DEF RightDoor, Stage, IsGame
<1>4. OnceOnList' BY <1>9 DEF OnceOnList
<1>5. Listed'
  <2>1. \A r \in People : \A i \in 1..Len(hub[r]) : hub[r][i] \in Conns
    BY ElementOfSeq DEF TypeOK
  <2> QED BY <2>1, <1>8, <1>10, <1>9 DEF Listed, Stage, At, WiresGoOn, GoesOn
<1>6. (table = "up" => Served)'
  <2>1. \A r \in People \ {p} : client[r] # Nobody => client[r] # client[p] BY DEF Served
  <2> QED BY <2>1, <1>8, <1>10, <1>9, <1>k DEF Served, Stage, At, WiresGoOn, GoesOn
<1> QED BY <1>1, <1>2, <1>3, <1>4, <1>5, <1>6

\* A seat is freed, and its connection may be closed.
LEMMA FreeSeatKeeps ==
  ASSUME SocketsInv, NEW p \in People, NEW kicked \in BOOLEAN, FreeSeat(p, kicked)
  PROVE SocketsInv'
<1> USE DEF SocketsInv
<1>1. WiresGoOn
  <2>1. PICK c : c = client[p] OBVIOUS
  <2>2. CASE kicked /\ c # Nobody
    <3>1. c \in Conns BY <2>1, <2>2 DEF TypeOK
    <3>2. wire' = [wire EXCEPT ![c] = Closing(Sent(@))] BY <2>1, <2>2 DEF FreeSeat
    <3> QED BY <3>1, <3>2, SendAndCloseOne
  <2>3. CASE ~(kicked /\ c # Nobody)
    BY <2>1, <2>3, NoneChanges DEF FreeSeat
  <2> QED BY <2>2, <2>3
<1>2. table = "up" /\ ForgetSeat(p) /\ UNCHANGED <<handler, hub, sending>>
  BY DEF FreeSeat
<1>3. handler' \in [Conns -> Handlers] BY <1>2 DEF TypeOK
<1> QED BY <1>1, <1>2, <1>3, ForgetSeatKeeps

\* The leave command.
LEMMA LeaveKeeps ==
  ASSUME SocketsInv, NEW c \in Conns, Leave(c)
  PROVE SocketsInv'
<1> USE DEF SocketsInv
<1>1. WiresGoOn BY SendAndCloseOne DEF Leave
<1>2. PICK p : p = handler[c].who OBVIOUS
<1>3. /\ Stage(c) = "reading" /\ handler[c].kind = "player" /\ p \in People /\ table = "up"
      /\ ToStage(c, "leaving") /\ UNCHANGED <<hub, sending>>
      /\ ForgetSeat(p) \/ UNCHANGED tableVars
  BY <1>2 DEF Leave, At, Stage, TypeOK
<1>0. /\ handler' \in [Conns -> Handlers]
      /\ \A d \in Conns : handler'[d].kind = handler[d].kind /\ handler'[d].who = handler[d].who
      /\ handler'[c].stage = "leaving"
      /\ \A d \in Conns \ {c} : handler'[d] = handler[d]
  BY <1>3, StageEffect DEF Stages
<1>4. CASE ForgetSeat(p)
  <2>1. \A d \in Conns : \/ handler'[d].stage = handler[d].stage
                         \/ handler[d].stage = "reading" /\ handler'[d].stage = "leaving"
    BY <1>0, <1>3 DEF Stage
  <2> QED BY <2>1, <1>0, <1>1, <1>3, <1>4, ForgetSeatKeeps
<1>5. CASE UNCHANGED tableVars
  <2>1. "leaving" \in Stages \ {"known", "reading"} BY DEF Stages
  <2>2. Stage(c) # "leaving" BY <1>3
  <2> QED BY <2>1, <2>2, <1>1, <1>3, <1>5, OnlyStage
<1> QED BY <1>3, <1>4, <1>5

\* A connection ends: only its own player is disconnected.
LEMMA DetachKeeps ==
  ASSUME SocketsInv, NEW c \in Conns, Detach(c)
  PROVE SocketsInv'
<1> USE DEF SocketsInv
<1>2. PICK p : p = handler[c].who OBVIOUS
<1>3. /\ Stage(c) = "leaving" /\ handler[c].kind # "user" /\ ToStage(c, "wait")
      /\ clients' = clients \ {c}
      /\ UNCHANGED <<wire, table, seated, hub, sending>>
  BY DEF Detach, IsGame
<1>4. /\ client' = IF c \in clients /\ p \in People /\ client[p] = c THEN [client EXCEPT ![p] = Nobody] ELSE client
      /\ connected' = IF c \in clients /\ p \in People /\ client[p] = c THEN connected \ {p} ELSE connected
  BY <1>2 DEF Detach
<1>0. /\ handler' \in [Conns -> Handlers]
      /\ \A d \in Conns : handler'[d].kind = handler[d].kind /\ handler'[d].who = handler[d].who
      /\ handler'[c].stage = "wait"
      /\ \A d \in Conns \ {c} : handler'[d] = handler[d]
  BY <1>3, StageEffect DEF Stages
<1>w. WiresGoOn BY <1>3, NoneChanges
<1>7. \A d \in Conns : handler'[d].stage \in {"known", "reading"} => handler[d].stage = handler'[d].stage
  BY <1>0
<1>k. \A r \in People : /\ client[r] # Nobody => client[r] \in Conns
                        /\ client'[r] \in {client[r], Nobody}
  BY <1>4 DEF TypeOK
<1>1. TypeOK' BY <1>0, <1>3, <1>4 DEF TypeOK
<1>5. AllSettled' BY <1>w, StaySettled
<1>6. RightDoor' BY <1>7, <1>0, <1>k DEF RightDoor, Stage, IsGame
<1>8. OnceOnList' BY <1>3 DEF OnceOnList
<1>9. Listed'
  <2>1. \A r \in People : \A i \in 1..Len(hub[r]) : hub[r][i] \in Conns /\ hub[r][i] # c
    BY ElementOfSeq, <1>3 DEF TypeOK, Listed
  <2> QED BY <2>1, <1>0, <1>3, <1>7 DEF Listed, Stage, At
<1>10. (table = "up" => Served)'
  <2> SUFFICES ASSUME table = "up" PROVE Served' BY <1>3
  <2>s. Served OBVIOUS
  <2>1. \A r \in People : client[r] = c => r = p /\ c \in clients
    BY <2>s, <1>2, NobodyIsApart DEF Served
  <2>2. \A r \in People : client[r] = c => client'[r] = Nobody /\ r \notin connected'
    BY <2>1, <1>4 DEF TypeOK
  <2>3. \A r \in People : client[r] # c => client'[r] = client[r] /\ (r \in connected' <=> r \in connected)
    BY <2>1, <1>4 DEF TypeOK
  <2>4. \A r \in People : client[r] = c => r \in connected /\ client[r] # Nobody
    BY <2>s, NobodyIsApart DEF Served
  <2> SUFFICES ASSUME NEW r \in People
               PROVE  /\ (r \in connected') = (client'[r] # Nobody)
                      /\ client'[r] # Nobody =>
                            /\ client'[r] \in clients'
                            /\ handler'[client'[r]].who = r
                            /\ handler'[client'[r]].stage \in {"reading", "leaving"}
                      /\ \A d \in Conns :
                            (handler'[d].kind = "player" /\ handler'[d].stage = "reading"
                             /\ handler'[d].who = r /\ r \in seated' /\ ~wire'[d].closed)
                            => client'[r] = d
    BY DEF Served, Stage, At
  <2>5. \A d \in Conns : (handler'[d].kind = "player" /\ handler'[d].stage = "reading"
                             /\ handler'[d].who = r /\ r \in seated' /\ ~wire'[d].closed)
                            => client[r] = d /\ d # c
    BY <2>s, <1>0, <1>3, <1>7 DEF Served, Stage, At
  <2>6. CASE client[r] = c
    BY <2>6, <2>2, <2>5
  <2>7. CASE client[r] # c
    <3>1. client[r] # Nobody => client[r] \in Conns \ {c} BY <2>7, <1>k
    <3> QED BY <2>7, <3>1, <2>s, <2>3, <2>5, <1>0, <1>3 DEF Served, Stage
  <2> QED BY <2>6, <2>7
<1> QED BY <1>1, <1>5, <1>6, <1>8, <1>9, <1>10

\* What add keeps: the newest connections, in their order, and the new one.
LEMMA HubAddFacts ==
  ASSUME NEW list \in Seq(Conns), NEW c \in Conns, Len(list) <= UserSocketLimit
  PROVE \E m \in Nat :
          LET keep == HubAdd(list, c).keep IN
          /\ m <= Len(list) /\ keep \in Seq(Conns) /\ Len(keep) = Len(list) + 1 - m
          /\ Len(keep) <= UserSocketLimit
          /\ \A i \in 1..(Len(list) - m) : keep[i] = list[i + m]
          /\ keep[Len(list) + 1 - m] = c
          /\ \A i \in 1..m : list[i] \in HubAdd(list, c).drop
          /\ HubAdd(list, c).drop \subseteq {list[i] : i \in 1..Len(list)}
<1> DEFINE all == Append(list, c)
           m == IF Len(all) > UserSocketLimit THEN Len(all) - UserSocketLimit ELSE 0
<1>1. /\ all \in Seq(Conns) /\ Len(all) = Len(list) + 1 /\ Len(list) \in Nat
      /\ \A i \in 1..Len(list) : all[i] = list[i]
      /\ all[Len(list) + 1] = c
  BY AppendFacts
<1>2. /\ HubAdd(list, c).keep = SubSeq(all, m + 1, Len(all))
      /\ HubAdd(list, c).drop = ToSet(SubSeq(all, 1, m))
  BY DEF HubAdd
<1> HIDE DEF all
<1>3. m \in Nat /\ m <= Len(list) /\ Len(all) - m <= UserSocketLimit
  BY <1>1, LimitsArePositive
<1> HIDE DEF m
<1>4. /\ SubSeq(all, m + 1, Len(all)) \in Seq(Conns)
      /\ Len(SubSeq(all, m + 1, Len(all))) = Len(all) - m
      /\ \A i \in 1..(Len(all) - m) : SubSeq(all, m + 1, Len(all))[i] = all[m + i]
  <2>1. m + 1 \in 1..(Len(all) + 1) /\ Len(all) \in (m + 1)-1..Len(all) BY <1>1, <1>3
  <2>2. \A i \in 1..(Len(all) - m) : m + 1 + i - 1 = m + i BY <1>1, <1>3
  <2>3. Len(all) - (m + 1) + 1 = Len(all) - m BY <1>1, <1>3
  <2>4. \A i \in (m + 1)..Len(all) : all[i] \in Conns BY <1>1, <1>3, ElementOfSeq
  <2> QED BY <2>1, <2>2, <2>3, <2>4, <1>1, <1>3, SubSeqProperties
<1>5. /\ Len(SubSeq(all, 1, m)) = m
      /\ SubSeq(all, 1, m) \in Seq(Conns)
      /\ \A i \in 1..m : SubSeq(all, 1, m)[i] = all[i]
  <2>4. \A i \in 1..m : all[i] \in Conns BY <1>1, <1>3, ElementOfSeq
  <2> QED BY <2>4, <1>1, <1>3, SubSeqProperties
<1>6. ToSet(SubSeq(all, 1, m)) = {list[i] : i \in 1..m}
  <2>1. DOMAIN SubSeq(all, 1, m) = 1..m BY <1>5
  <2>2. \A i \in 1..m : SubSeq(all, 1, m)[i] = list[i] BY <1>1, <1>3, <1>5
  <2> QED BY <2>1, <2>2 DEF ToSet
<1>7. /\ \A i \in 1..(Len(list) - m) : i \in 1..(Len(all) - m) /\ m + i \in 1..Len(list) /\ m + i = i + m
      /\ Len(list) + 1 - m \in 1..(Len(all) - m) /\ m + (Len(list) + 1 - m) = Len(list) + 1
      /\ 1..m \subseteq 1..Len(list)
  BY <1>1, <1>3
<1>8. \A i \in 1..(Len(list) - m) : SubSeq(all, m + 1, Len(all))[i] = list[i + m]
  BY <1>1, <1>4, <1>7
<1>9. SubSeq(all, m + 1, Len(all))[Len(list) + 1 - m] = c
  BY <1>1, <1>4, <1>7
<1>10. Len(SubSeq(all, m + 1, Len(all))) = Len(list) + 1 - m /\ Len(SubSeq(all, m + 1, Len(all))) <= UserSocketLimit
  BY <1>1, <1>3, <1>4
<1>11. PICK keep : keep = SubSeq(all, m + 1, Len(all)) OBVIOUS
<1>12. /\ keep \in Seq(Conns) /\ Len(keep) = Len(list) + 1 - m /\ Len(keep) <= UserSocketLimit
       /\ \A i \in 1..(Len(list) - m) : keep[i] = list[i + m]
       /\ keep[Len(list) + 1 - m] = c
  BY <1>4, <1>8, <1>9, <1>10, <1>11
<1>13. /\ \A i \in 1..m : list[i] \in HubAdd(list, c).drop
       /\ HubAdd(list, c).drop \subseteq {list[i] : i \in 1..Len(list)}
  BY <1>2, <1>6, <1>7
<1>14. HubAdd(list, c).keep = keep BY <1>2, <1>11
<1> QED BY <1>3, <1>12, <1>13, <1>14

\* A sequence without one of its elements.
LEMMA RemoveAtFacts ==
  ASSUME NEW list \in Seq(Conns), NEW k \in 1..Len(list)
  PROVE /\ RemoveAt(list, k) \in Seq(Conns)
        /\ Len(RemoveAt(list, k)) = Len(list) - 1
        /\ \A i \in 1..(Len(list) - 1) : RemoveAt(list, k)[i] = IF i < k THEN list[i] ELSE list[i + 1]
<1>0. Len(list) \in Nat /\ k \in Nat BY LenProperties
<1>1. /\ SubSeq(list, 1, k - 1) \in Seq(Conns)
      /\ Len(SubSeq(list, 1, k - 1)) = k - 1
      /\ \A i \in 1..(k - 1) : SubSeq(list, 1, k - 1)[i] = list[i]
  <2>1. \A i \in 1..(k - 1) : list[i] \in Conns BY <1>0, ElementOfSeq
  <2> QED BY <2>1, <1>0, SubSeqProperties
<1>2. /\ SubSeq(list, k + 1, Len(list)) \in Seq(Conns)
      /\ Len(SubSeq(list, k + 1, Len(list))) = Len(list) - k
      /\ \A i \in 1..(Len(list) - k) : SubSeq(list, k + 1, Len(list))[i] = list[k + i]
  <2>1. \A i \in (k + 1)..Len(list) : list[i] \in Conns BY <1>0, ElementOfSeq
  <2>2. k + 1 \in 1..(Len(list) + 1) /\ Len(list) \in ((k + 1) - 1)..Len(list) BY <1>0
  <2>3. Len(list) - (k + 1) + 1 = Len(list) - k /\ \A i \in 1..(Len(list) - k) : k + 1 + i - 1 = k + i BY <1>0
  <2>4. PICK m : m = k + 1 OBVIOUS
  <2>5. /\ m \in Int /\ Len(list) \in Int /\ \A i \in m..Len(list) : list[i] \in Conns
        /\ Len(list) - m + 1 = Len(list) - k /\ (m <= Len(list) \/ Len(list) - k = 0)
        /\ \A i \in 1..(Len(list) - k) : m + i - 1 = k + i
    BY <2>1, <2>4, <1>0
  <2>6. /\ SubSeq(list, m, Len(list)) \in Seq(Conns)
        /\ Len(SubSeq(list, m, Len(list))) = IF m <= Len(list) THEN Len(list) - m + 1 ELSE 0
        /\ \A i \in 1..(Len(list) - m + 1) : SubSeq(list, m, Len(list))[i] = list[m + i - 1]
    BY <2>5, SubSeqProperties
  <2>7. Len(SubSeq(list, m, Len(list))) = Len(list) - k
    BY <2>5, <2>6, <1>0
  <2> QED BY <2>4, <2>5, <2>6, <2>7
<1> DEFINE a == SubSeq(list, 1, k - 1)
           b == SubSeq(list, k + 1, Len(list))
<1>3. RemoveAt(list, k) = a \o b BY DEF RemoveAt
<1>4. /\ a \in Seq(Conns) /\ b \in Seq(Conns) /\ Len(a) = k - 1 /\ Len(b) = Len(list) - k
      /\ \A i \in 1..(k - 1) : a[i] = list[i]
      /\ \A i \in 1..(Len(list) - k) : b[i] = list[k + i]
  BY <1>1, <1>2
<1> HIDE DEF a, b
<1>5. /\ a \o b \in Seq(Conns) /\ Len(a \o b) = Len(list) - 1
      /\ \A i \in 1..(Len(list) - 1) : (a \o b)[i] = IF i <= k - 1 THEN a[i] ELSE b[i - (k - 1)]
  <2>1. Len(a) + Len(b) = Len(list) - 1 BY <1>4, <1>0
  <2>2. /\ a \o b \in Seq(Conns) /\ Len(a \o b) = Len(a) + Len(b)
        /\ \A i \in 1..(Len(a) + Len(b)) : (a \o b)[i] = IF i <= Len(a) THEN a[i] ELSE b[i - Len(a)]
    BY <1>4, ConcatProperties
  <2> QED BY <2>1, <2>2, <1>4
<1>6. \A i \in 1..(Len(list) - 1) : i >= k => i - (k - 1) \in 1..(Len(list) - k) /\ k + (i - (k - 1)) = i + 1
  BY <1>0
<1>7. \A i \in 1..(Len(list) - 1) : (a \o b)[i] = IF i < k THEN list[i] ELSE list[i + 1]
  <2> TAKE i \in 1..(Len(list) - 1)
  <2>1. CASE i < k
    <3>1. i <= k - 1 /\ i \in 1..(k - 1) BY <2>1, <1>0
    <3> QED BY <2>1, <3>1, <1>4, <1>5
  <2>2. CASE ~(i < k)
    <3>1. ~(i <= k - 1) /\ i >= k BY <2>2, <1>0
    <3> QED BY <2>2, <3>1, <1>4, <1>5, <1>6
  <2> QED BY <2>1, <2>2
<1> QED BY <1>3, <1>5, <1>7

\* A device joins the list of its profile; the ones over the limit are closed.
LEMMA UserHelloKeeps ==
  ASSUME SocketsInv, NEW c \in Conns, NEW p \in People, UserHello(c, p)
  PROVE SocketsInv'
<1> USE DEF SocketsInv, tableVars
<1>1. PICK list, keep, drop :
         list = hub[p] /\ keep = HubAdd(list, c).keep /\ drop = HubAdd(list, c).drop
  OBVIOUS
<1>2. /\ Stage(c) = "hello" /\ handler[c].kind = "user"
      /\ hub' = [hub EXCEPT ![p] = keep]
      /\ wire' = [d \in Conns |-> IF d \in drop THEN Closing(wire[d])
                                  ELSE IF d = c THEN Sent(wire[c]) ELSE wire[d]]
      /\ handler' = [handler EXCEPT ![c].who = p, ![c].stage = "reading"]
      /\ UNCHANGED <<table, seated, connected, clients, client, sending>>
  BY <1>1 DEF UserHello, At, Stage
<1>3. list \in Seq(Conns) /\ Len(list) <= UserSocketLimit /\ Len(list) \in Nat
  BY <1>1 DEF TypeOK, Listed
<1>4. PICK m \in Nat :
          /\ m <= Len(list) /\ keep \in Seq(Conns) /\ Len(keep) = Len(list) + 1 - m
          /\ Len(keep) <= UserSocketLimit
          /\ \A i \in 1..(Len(list) - m) : keep[i] = list[i + m]
          /\ keep[Len(list) + 1 - m] = c
          /\ \A i \in 1..m : list[i] \in drop
          /\ drop \subseteq {list[i] : i \in 1..Len(list)}
  BY <1>1, <1>3, HubAddFacts
<1>5. \A q \in People : \A i \in 1..Len(hub[q]) : hub[q][i] \in Conns /\ hub[q][i] # c
  <2>1. \A q \in People : \A i \in 1..Len(hub[q]) : hub[q][i] \in Conns
    BY ElementOfSeq DEF TypeOK
  <2>2. \A q \in People : \A i \in 1..Len(hub[q]) : Stage(hub[q][i]) \in {"reading", "leaving"}
    BY DEF Listed
  <2> QED BY <2>1, <2>2, <1>2
<1>6. /\ handler' \in [Conns -> Handlers]
      /\ \A d \in Conns : handler'[d].kind = handler[d].kind
      /\ handler'[c].who = p /\ handler'[c].stage = "reading"
      /\ \A d \in Conns \ {c} : handler'[d] = handler[d]
  BY <1>2 DEF TypeOK, Handlers, Stages, Somebody
<1>7. /\ hub'[p] = keep /\ \A q \in People \ {p} : hub'[q] = hub[q]
      /\ hub' \in [People -> Seq(Conns)]
  BY <1>2, <1>4 DEF TypeOK
<1>w. WiresGoOn /\ \A d \in Conns \cap drop : wire'[d].closed
  <2>1. \A d \in Conns : wire[d] \in Wires BY DEF TypeOK
  <2>2. \A d \in Conns : /\ GoesOn(wire[d], wire[d]) /\ GoesOn(wire[d], Sent(wire[d]))
                         /\ GoesOn(wire[d], Closing(wire[d])) /\ Closing(wire[d]).closed
    BY <2>1, SentGoesOn, ClosingGoesOn DEF GoesOn
  <2>3. \A d \in Conns : GoesOn(wire[d], wire'[d])
    BY <2>2, <1>2
  <2>4. \A d \in Conns : wire'[d] \in Wires BY <2>3 DEF GoesOn
  <2>5. wire' \in [Conns -> Wires]
    <3> HIDE DEF Wires
    <3>1. wire' = [d \in Conns |-> wire'[d]] BY <1>2
    <3> QED BY <3>1, <2>4
  <2>6. \A d \in Conns \cap drop : wire'[d].closed BY <2>2, <1>2
  <2> QED BY <2>3, <2>5, <2>6 DEF WiresGoOn
<1>11. TypeOK' BY <1>2, <1>6, <1>7, <1>w DEF TypeOK, WiresGoOn
<1>12. AllSettled' BY <1>w, StaySettled
<1>13. RightDoor'
  <2>1. \A r \in People : client'[r] = client[r] /\ (client[r] # Nobody => client[r] \in Conns)
    BY <1>2 DEF TypeOK
  <2> QED BY <2>1, <1>2, <1>6 DEF RightDoor, Stage, IsGame
<1>14. OnceOnList'
  <2> SUFFICES ASSUME NEW q \in People, NEW i \in 1..Len(hub'[q]), NEW j \in 1..Len(hub'[q]),
                      hub'[q][i] = hub'[q][j]
               PROVE  i = j
    BY DEF OnceOnList
  <2>1. CASE q # p
    BY <2>1, <1>7 DEF OnceOnList
  <2>2. CASE q = p
    <3>1. i \in 1..(Len(list) + 1 - m) /\ j \in 1..(Len(list) + 1 - m) /\ keep[i] = keep[j]
      BY <2>2, <1>4, <1>7
    <3>2. \A k \in 1..(Len(list) - m) : keep[k] = list[k + m] /\ k + m \in 1..Len(list) /\ keep[k] # c
      BY <1>1, <1>3, <1>4, <1>5
    <3>3. \A k \in 1..(Len(list) + 1 - m) : k \in 1..(Len(list) - m) \/ k = Len(list) + 1 - m
      BY <1>3, <1>4
    <3>4. \A k, l \in 1..Len(list) : list[k] = list[l] => k = l BY <1>1 DEF OnceOnList
    <3>5. CASE i \in 1..(Len(list) - m) /\ j \in 1..(Len(list) - m)
      <4>1. i + m = j + m BY <3>1, <3>2, <3>4, <3>5
      <4> QED BY <4>1, <3>5, <1>4
    <3>6. CASE ~(i \in 1..(Len(list) - m) /\ j \in 1..(Len(list) - m))
      BY <3>1, <3>2, <3>3, <3>6, <1>4
    <3> QED BY <3>5, <3>6
  <2> QED BY <2>1, <2>2
<1>15. Listed'
  <2> SUFFICES ASSUME NEW q \in People
               PROVE  /\ Len(hub'[q]) <= UserSocketLimit
                      /\ \A i \in 1..Len(hub'[q]) :
                            /\ handler'[hub'[q][i]].who = q /\ handler'[hub'[q][i]].kind = "user"
                            /\ handler'[hub'[q][i]].stage \in {"reading", "leaving"}
                      /\ \A d \in Conns :
                            (handler'[d].kind = "user" /\ handler'[d].stage = "reading"
                             /\ handler'[d].who = q /\ ~wire'[d].closed)
                            => \E i \in 1..Len(hub'[q]) : hub'[q][i] = d
    BY DEF Listed, Stage, At
  <2>1. \A i \in 1..Len(hub[q]) : /\ handler'[hub[q][i]].who = q /\ handler'[hub[q][i]].kind = "user"
                                  /\ handler'[hub[q][i]].stage \in {"reading", "leaving"}
    BY <1>5, <1>6 DEF Listed, Stage
  <2>2. \A d \in Conns \ {c} :
                            (handler'[d].kind = "user" /\ handler'[d].stage = "reading"
                             /\ handler'[d].who = q /\ ~wire'[d].closed)
                            => \E i \in 1..Len(hub[q]) : hub[q][i] = d
    BY <1>6, <1>w DEF Listed, Stage, At, WiresGoOn, GoesOn
  <2>3. CASE q # p
    <3>1. handler'[c].who # q BY <2>3, <1>6
    <3> QED BY <2>1, <2>2, <2>3, <3>1, <1>7 DEF Listed
  <2>4. CASE q = p
    <3>1. \A i \in 1..(Len(list) + 1 - m) : i \in 1..(Len(list) - m) \/ i = Len(list) + 1 - m
      BY <1>3, <1>4
    <3>2. \A i \in 1..(Len(list) - m) : keep[i] = list[i + m] /\ i + m \in 1..Len(list)
      BY <1>3, <1>4
    <3>3. \A i \in 1..Len(keep) : /\ handler'[keep[i]].who = q /\ handler'[keep[i]].kind = "user"
                                  /\ handler'[keep[i]].stage \in {"reading", "leaving"}
      <4> TAKE i \in 1..Len(keep)
      <4>1. CASE i \in 1..(Len(list) - m)
        <5>1. keep[i] = hub[q][i + m] /\ i + m \in 1..Len(hub[q]) BY <4>1, <3>2, <2>4, <1>1
        <5> QED BY <5>1, <2>1
      <4>2. CASE i = Len(list) + 1 - m
        <5>1. keep[i] = c BY <4>2, <1>4
        <5> QED BY <5>1, <2>4, <1>2, <1>6
      <4> QED BY <4>1, <4>2, <3>1, <1>4
    <3>4. \A d \in Conns \ {c} : ~wire'[d].closed =>
             \A i \in 1..Len(list) : list[i] = d => \E k \in 1..Len(keep) : keep[k] = d
      <4> TAKE d \in Conns \ {c}
      <4> HAVE ~wire'[d].closed
      <4> TAKE i \in 1..Len(list)
      <4> HAVE list[i] = d
      <4>1. i \notin 1..m BY <1>4, <1>w
      <4>2. i - m \in 1..(Len(list) - m) /\ (i - m) + m = i /\ i - m \in 1..Len(keep)
        BY <4>1, <1>3, <1>4
      <4> QED BY <4>2, <1>4
    <3>5. \A d \in Conns \ {c} :
                            (handler'[d].kind = "user" /\ handler'[d].stage = "reading"
                             /\ handler'[d].who = q /\ ~wire'[d].closed)
                            => \E i \in 1..Len(keep) : keep[i] = d
      BY <2>2, <2>4, <3>4, <1>1
    <3>6. Len(list) + 1 - m \in 1..Len(keep) /\ keep[Len(list) + 1 - m] = c
      BY <1>3, <1>4
    <3> QED BY <2>4, <3>3, <3>5, <3>6, <1>4, <1>7
  <2> QED BY <2>3, <2>4
<1>16. (table = "up" => Served)'
  <2>1. \A r \in People : client'[r] = client[r] /\ (client[r] # Nobody => client[r] \in Conns \ {c})
    BY <1>2 DEF TypeOK, RightDoor
  <2> QED BY <2>1, <1>2, <1>6, <1>w DEF Served, Stage, At, WiresGoOn, GoesOn
<1> QED BY <1>11, <1>12, <1>13, <1>14, <1>15, <1>16

\* A user connection goes, and takes no other off the list.
LEMMA HubRemoveKeeps ==
  ASSUME SocketsInv, NEW c \in Conns, HubRemove(c)
  PROVE SocketsInv'
<1> USE DEF SocketsInv, tableVars
<1>1. PICK p, list : p = handler[c].who /\ list = hub[p] OBVIOUS
<1>2. /\ Stage(c) = "leaving" /\ handler[c].kind = "user" /\ ToStage(c, "wait")
      /\ UNCHANGED <<wire, table, seated, connected, clients, client, sending>>
      /\ \/ (c \notin ToSet(list) /\ UNCHANGED hub)
         \/ (\E i \in DOMAIN list : list[i] = c /\ hub' = [hub EXCEPT ![p] = RemoveAt(list, i)])
  BY <1>1 DEF HubRemove, At, Stage
<1>0. /\ handler' \in [Conns -> Handlers]
      /\ \A d \in Conns : handler'[d].kind = handler[d].kind /\ handler'[d].who = handler[d].who
      /\ handler'[c].stage = "wait"
      /\ \A d \in Conns \ {c} : handler'[d] = handler[d]
  BY <1>2, StageEffect DEF Stages
<1>w. WiresGoOn BY <1>2, NoneChanges
<1>12. AllSettled' BY <1>w, StaySettled
<1>k. \A r \in People : client'[r] = client[r] /\ (client[r] # Nobody => client[r] \in Conns \ {c})
  BY <1>2 DEF TypeOK, RightDoor
<1>13. RightDoor' BY <1>0, <1>2, <1>k DEF RightDoor, Stage, IsGame
<1>16. (table = "up" => Served)'
  BY <1>0, <1>2, <1>k DEF Served, Stage, At
<1>5. \A q \in People : \A i \in 1..Len(hub[q]) : hub[q][i] \in Conns /\ (hub[q][i] = c => q = p)
  BY <1>1, ElementOfSeq DEF TypeOK, Listed
<1>3. CASE p \in People /\ \E i \in DOMAIN list : list[i] = c /\ hub' = [hub EXCEPT ![p] = RemoveAt(list, i)]
  <2>1. PICK k \in DOMAIN list : list[k] = c /\ hub' = [hub EXCEPT ![p] = RemoveAt(list, k)]
    BY <1>3
  <2>2. PICK left : left = RemoveAt(list, k) OBVIOUS
  <2>3. list \in Seq(Conns) /\ Len(list) \in Nat /\ k \in 1..Len(list) /\ k \in Nat
    <3>1. list \in Seq(Conns) BY <1>1, <1>3 DEF TypeOK
    <3> QED BY <3>1, <2>1, LenProperties
  <2>4. /\ left \in Seq(Conns) /\ Len(left) = Len(list) - 1
        /\ \A i \in 1..(Len(list) - 1) : left[i] = IF i < k THEN list[i] ELSE list[i + 1]
    BY <2>2, <2>3, RemoveAtFacts
  <2>5. /\ hub'[p] = left /\ \A q \in People \ {p} : hub'[q] = hub[q]
        /\ hub' \in [People -> Seq(Conns)]
    BY <2>1, <2>2, <2>4, <1>3 DEF TypeOK
  <2>6. \A i, j \in 1..Len(list) : list[i] = list[j] => i = j BY <1>1, <1>3 DEF OnceOnList
  <2>7. /\ \A i \in 1..Len(left) : \E n \in 1..Len(list) : left[i] = list[n] /\ n # k
        /\ \A n \in 1..Len(list) : n # k => \E i \in 1..Len(left) : left[i] = list[n]
        /\ \A i, j \in 1..Len(left) : left[i] = left[j] => i = j
    <3>1. \A i \in 1..Len(left) : IF i < k THEN left[i] = list[i] /\ i \in 1..Len(list)
                                  ELSE left[i] = list[i + 1] /\ i + 1 \in 1..Len(list) /\ i + 1 > k
      BY <2>3, <2>4
    <3>2. \A n \in 1..Len(list) : n # k =>
              IF n < k THEN n \in 1..Len(left) /\ left[n] = list[n]
              ELSE n - 1 \in 1..Len(left) /\ left[n - 1] = list[n]
      <4> TAKE n \in 1..Len(list)
      <4> HAVE n # k
      <4>1. CASE n < k BY <4>1, <2>3, <2>4
      <4>2. CASE ~(n < k)
        <5>1. n - 1 \in 1..(Len(list) - 1) /\ ~(n - 1 < k) /\ (n - 1) + 1 = n BY <4>2, <2>3
        <5> QED BY <4>2, <5>1, <2>4
      <4> QED BY <4>1, <4>2
    <3>3. \A i \in 1..Len(left) : \E n \in 1..Len(list) : left[i] = list[n] /\ n # k
      BY <3>1, <2>3, <2>4
    <3>4. \A n \in 1..Len(list) : n # k => \E i \in 1..Len(left) : left[i] = list[n]
      BY <3>2
    <3>5. \A i, j \in 1..Len(left) : left[i] = left[j] => i = j
      BY <3>1, <2>3, <2>4, <2>6
    <3> QED BY <3>3, <3>4, <3>5
  <2>11. TypeOK' BY <1>0, <1>2, <2>5 DEF TypeOK
  <2>12. OnceOnList' BY <2>5, <2>7, <1>3 DEF OnceOnList
  <2>13. Listed'
    <3>1. Len(left) <= UserSocketLimit BY <2>3, <2>4, <1>1, <1>3, LimitsArePositive DEF Listed
    <3> SUFFICES ASSUME NEW q \in People
                 PROVE  /\ Len(hub'[q]) <= UserSocketLimit
                        /\ \A i \in 1..Len(hub'[q]) :
                              /\ handler'[hub'[q][i]].who = q /\ handler'[hub'[q][i]].kind = "user"
                              /\ handler'[hub'[q][i]].stage \in {"reading", "leaving"}
                        /\ \A d \in Conns :
                              (handler'[d].kind = "user" /\ handler'[d].stage = "reading"
                               /\ handler'[d].who = q /\ ~wire'[d].closed)
                              => \E i \in 1..Len(hub'[q]) : hub'[q][i] = d
      BY DEF Listed, Stage, At
    <3>2. \A d \in Conns : (handler'[d].kind = "user" /\ handler'[d].stage = "reading"
                               /\ handler'[d].who = q /\ ~wire'[d].closed)
                              => d # c /\ \E i \in 1..Len(hub[q]) : hub[q][i] = d
      BY <1>0, <1>2 DEF Listed, Stage, At
    <3>3. CASE q # p
      <4>1. \A i \in 1..Len(hub[q]) : hub[q][i] \in Conns \ {c} BY <3>3, <1>5
      <4>2. \A i \in 1..Len(hub[q]) : handler'[hub[q][i]] = handler[hub[q][i]] BY <4>1, <1>0
      <4>3. hub'[q] = hub[q] BY <3>3, <2>5
      <4> QED BY <3>2, <4>2, <4>3 DEF Listed, Stage
    <3>4. CASE q = p
      <4>1. \A i \in 1..Len(left) : left[i] \in Conns \ {c} /\ \E n \in 1..Len(list) : left[i] = list[n]
        <5>1. \A n \in 1..Len(list) : list[n] \in Conns BY <2>3, ElementOfSeq
        <5>2. \A n \in 1..Len(list) : n # k => list[n] # c BY <2>1, <2>3, <2>6
        <5> QED BY <5>1, <5>2, <2>7
      <4>2. \A i \in 1..Len(left) : /\ handler'[left[i]].who = q /\ handler'[left[i]].kind = "user"
                                    /\ handler'[left[i]].stage \in {"reading", "leaving"}
        BY <3>4, <4>1, <1>0, <1>1 DEF Listed, Stage
      <4>3. \A d \in Conns : (handler'[d].kind = "user" /\ handler'[d].stage = "reading"
                               /\ handler'[d].who = q /\ ~wire'[d].closed)
                              => \E i \in 1..Len(left) : left[i] = d
        BY <3>2, <3>4, <2>1, <2>7, <1>1
      <4> QED BY <3>1, <3>4, <4>2, <4>3, <2>5
    <3> QED BY <3>3, <3>4
  <2> QED BY <1>12, <1>13, <1>16, <2>11, <2>12, <2>13
<1>4. CASE UNCHANGED hub /\ \A q \in People : \A i \in 1..Len(hub[q]) : hub[q][i] # c
  <2>1. TypeOK' BY <1>0, <1>2, <1>4 DEF TypeOK
  <2>2. OnceOnList' BY <1>4 DEF OnceOnList
  <2>3. \A d \in Conns : handler'[d].stage = "reading" => handler'[d] = handler[d] BY <1>0
  <2>4. Listed' BY <1>0, <1>2, <1>4, <1>5, <2>3 DEF Listed, Stage, At
  <2> QED BY <1>12, <1>13, <1>16, <2>1, <2>2, <2>4
<1>6. CASE c \notin ToSet(list) /\ UNCHANGED hub
  <2>1. \A q \in People : \A i \in 1..Len(hub[q]) : i \in DOMAIN hub[q]
    BY LenProperties DEF TypeOK
  <2>2. \A q \in People : \A i \in 1..Len(hub[q]) : hub[q][i] # c
    BY <2>1, <1>1, <1>5, <1>6 DEF ToSet
  <2> QED BY <2>2, <1>4, <1>6
<1>7. CASE p \notin People
  <2>1. hub' = hub
    <3>1. ASSUME NEW i, hub' = [hub EXCEPT ![p] = RemoveAt(list, i)] PROVE hub' = hub
      BY <3>1, <1>7 DEF TypeOK
    <3> QED BY <3>1, <1>2
  <2> QED BY <2>1, <1>4, <1>5, <1>7
<1> QED BY <1>2, <1>3, <1>6, <1>7

\* The place is given back, and the connection may be used again.
LEMMA ReleaseKeeps ==
  ASSUME SocketsInv, NEW c \in Conns, Release(c)
  PROVE SocketsInv'
<1> USE DEF SocketsInv, tableVars
<1>1. /\ Stage(c) = "wait"
      /\ handler' = [handler EXCEPT ![c] = NoHandler(handler[c].kind)]
      /\ wire' = [wire EXCEPT ![c] = NoWire]
      /\ UNCHANGED <<table, seated, connected, clients, client, hub, sending>>
  BY DEF Release, TypeOK
<1>2. NoHandler(handler[c].kind) \in Handlers
  BY DEF NoHandler, Handlers, TypeOK, Stages, Somebody
<1>0. /\ handler' \in [Conns -> Handlers]
      /\ handler'[c].kind = handler[c].kind /\ handler'[c].stage = "none"
      /\ \A d \in Conns \ {c} : handler'[d] = handler[d]
  BY <1>1, <1>2 DEF TypeOK, NoHandler
<1>3. NoWire \in Wires /\ Settled(NoWire)
  BY EmptySeq DEF NoWire, Wires, Writers, Settled
<1>w. /\ wire' \in [Conns -> Wires] /\ wire'[c] = NoWire
      /\ \A d \in Conns \ {c} : wire'[d] = wire[d]
  <2> HIDE DEF Wires
  <2>1. wire \in [Conns -> Wires] BY DEF TypeOK
  <2> QED BY <2>1, <1>1, <1>3
<1>k. \A r \in People : client'[r] = client[r] /\ (client[r] # Nobody => client[r] \in Conns)
  BY <1>1 DEF TypeOK
<1>11. TypeOK' BY <1>0, <1>1, <1>w DEF TypeOK
<1>12. AllSettled' BY <1>3, <1>w DEF AllSettled
<1>13. RightDoor' BY <1>0, <1>1, <1>k DEF RightDoor, Stage, IsGame
<1>14. OnceOnList' BY <1>1 DEF OnceOnList
<1>15. Listed'
  <2>1. \A q \in People : \A i \in 1..Len(hub[q]) : hub[q][i] \in Conns
    BY ElementOfSeq DEF TypeOK
  <2>2. \A q \in People : \A i \in 1..Len(hub[q]) : Stage(hub[q][i]) \in {"reading", "leaving"}
    BY DEF Listed
  <2>3. \A q \in People : \A i \in 1..Len(hub[q]) : hub[q][i] \in Conns \ {c} BY <2>1, <2>2, <1>1
  <2>4. \A q \in People : \A i \in 1..Len(hub[q]) : handler'[hub[q][i]] = handler[hub[q][i]]
    BY <2>3, <1>0
  <2>5. \A d \in Conns : handler'[d].stage = "reading" => handler'[d] = handler[d] /\ wire'[d] = wire[d]
    BY <1>0, <1>w
  <2> QED BY <2>4, <2>5, <1>1 DEF Listed, Stage, At
<1>16. (table = "up" => Served)'
  <2>1. table = "up" => \A r \in People : client[r] # Nobody => client[r] \in Conns \ {c}
    BY <1>1, <1>k DEF Served
  <2>2. \A d \in Conns : handler'[d].stage = "reading" => handler'[d] = handler[d] /\ wire'[d] = wire[d]
    BY <1>0, <1>w
  <2> QED BY <2>1, <2>2, <1>0, <1>1, <1>k DEF Served, Stage, At
<1> QED BY <1>11, <1>12, <1>13, <1>14, <1>15, <1>16

\* The table stops, and closes the connections it has.
LEMMA StopKeeps ==
  ASSUME SocketsInv, StopClients \/ StopActor
  PROVE SocketsInv'
<1> USE DEF SocketsInv, tableVars
<1>1. UNCHANGED <<handler, seated, connected, hub, sending>> /\ table' \in {"stopping", "stopped"}
  BY DEF StopClients, StopActor
<1>2. clients' \in SUBSET Conns /\ client' \in [People -> Conns \cup {Nobody}]
      /\ \A p \in People : client'[p] \in {client[p], Nobody}
  BY DEF StopClients, StopActor, TypeOK
<1>w. WiresGoOn
  <2>1. CASE StopClients
    <3>1. wire' = [d \in Conns |-> IF d \in clients THEN Closing(wire[d]) ELSE wire[d]]
      BY <2>1 DEF StopClients
    <3>2. \A d \in Conns : GoesOn(wire[d], wire[d]) /\ GoesOn(wire[d], Closing(wire[d]))
      BY ClosingGoesOn DEF GoesOn, TypeOK
    <3>3. \A d \in Conns : GoesOn(wire[d], wire'[d]) BY <3>1, <3>2
    <3>4. \A d \in Conns : wire'[d] \in Wires BY <3>3 DEF GoesOn
    <3>5. wire' \in [Conns -> Wires]
      <4> HIDE DEF Wires
      <4>1. wire' = [d \in Conns |-> wire'[d]] BY <3>1
      <4> QED BY <4>1, <3>4
    <3> QED BY <3>3, <3>5 DEF WiresGoOn
  <2>2. CASE StopActor
    BY <2>2, NoneChanges DEF StopActor
  <2> QED BY <2>1, <2>2
<1>11. TypeOK' BY <1>1, <1>2, <1>w DEF TypeOK, WiresGoOn
<1>12. AllSettled' BY <1>w, StaySettled
<1>13. RightDoor' BY <1>1, <1>2 DEF RightDoor, Stage, IsGame
<1>14. OnceOnList' BY <1>1 DEF OnceOnList
<1>15. Listed' BY <1>1, <1>w DEF Listed, Stage, At, WiresGoOn, GoesOn
<1> QED BY <1>1, <1>11, <1>12, <1>13, <1>14, <1>15

\* Initially nobody is connected.
LEMMA StartsGood ==
  Init => SocketsInv
<1> SUFFICES ASSUME Init PROVE SocketsInv OBVIOUS
<1> USE DEF Init, SocketsInv
<1>1. PICK kind \in Endpoints : handler = [c \in Conns |-> NoHandler(kind[c])] OBVIOUS
<1>2. \A c \in Conns : NoHandler(kind[c]) \in Handlers /\ NoHandler(kind[c]).stage = "none"
  BY EndpointsAreKinds DEF NoHandler, Handlers, Kinds, Stages, Somebody
<1>3. handler \in [Conns -> Handlers] /\ \A c \in Conns : handler[c].stage = "none"
  BY <1>1, <1>2
<1>4. NoWire \in Wires /\ Settled(NoWire)
  BY EmptySeq DEF NoWire, Wires, Writers, Settled
<1>5. << >> \in Seq(Conns) /\ Len(<< >>) = 0 BY EmptySeq
<1>6. TypeOK BY <1>3, <1>4, <1>5 DEF TypeOK, NotSending, Sends
<1>7. AllSettled BY <1>4 DEF AllSettled
<1>8. RightDoor BY <1>3 DEF RightDoor, Stage
<1>9. OnceOnList BY <1>5 DEF OnceOnList
<1>10. Listed BY <1>3, <1>5, LimitsArePositive DEF Listed, Stage, At
<1>11. Served BY <1>3 DEF Served, Stage, At
<1> QED BY <1>6, <1>7, <1>8, <1>9, <1>10, <1>11

\* A send begins, goes on or is over.
LEMMA SendingKeeps ==
  ASSUME TypeOK, NEW s \in Senders
  PROVE /\ \A c \in Conns : SendLooks(s, c) => sending' \in [Senders -> Sends]
        /\ Sender(s) => sending' \in [Senders -> Sends]
<1>1. sending \in [Senders -> Sends] /\ sending[s] \in Sends BY DEF TypeOK
<1>2. NotSending \in Sends BY DEF NotSending, Sends
<1>3. \A x \in Sends : sending' = [sending EXCEPT ![s] = x] => sending' \in [Senders -> Sends]
  <2> HIDE DEF Sends
  <2> QED BY <1>1
<1>4. ASSUME NEW c \in Conns, SendLooks(s, c) PROVE sending' \in [Senders -> Sends]
  <2>1. [sending[s] EXCEPT !.to = c] \in Sends BY <1>1 DEF Sends
  <2>2. sending' = [sending EXCEPT ![s] = [sending[s] EXCEPT !.to = c]] BY <1>1, <1>4 DEF SendLooks
  <2> QED BY <2>1, <2>2, <1>3
<1>5. ASSUME Sender(s) PROVE sending' \in [Senders -> Sends]
  <2>1. [sending[s] EXCEPT !.full = TRUE] \in Sends BY <1>1 DEF Sends
  <2>2. \/ sending' = [sending EXCEPT ![s] = NotSending]
        \/ sending' = [sending EXCEPT ![s] = [sending[s] EXCEPT !.full = TRUE]]
    BY <1>1, <1>5 DEF Sender, SendQueues, SendCloses
  <2> QED BY <2>1, <2>2, <1>2, <1>3
<1> QED BY <1>4, <1>5

\* Every step keeps the invariant.
LEMMA StepKeeps ==
  SocketsInv /\ [Next]_vars => SocketsInv'
<1> SUFFICES ASSUME SocketsInv, [Next]_vars PROVE SocketsInv' OBVIOUS
<1>0. TypeOK BY DEF SocketsInv
<1>1. CASE UNCHANGED vars
  <2>1. UNCHANGED <<handler, wire, tableVars, hub, sending>> BY <1>1 DEF vars
  <2>2. WiresGoOn BY <1>0, <2>1, NoneChanges
  <2> QED BY <1>0, <2>1, <2>2, OnlyWires DEF TypeOK
<1>2. ASSUME NEW c \in Conns, Writer(c) \/ PingFails(c) \/ PeerGone(c) PROVE SocketsInv'
  <2>1. WiresGoOn BY <1>0, <1>2, WriterGoesOn
  <2>2. UNCHANGED <<handler, tableVars, hub, sending>>
    BY <1>2 DEF Writer, Write, WriteFails, TakeClose, Drained, HangUp, PingFails, PeerGone
  <2> QED BY <1>0, <2>1, <2>2, OnlyWires DEF TypeOK
<1>3. ASSUME NEW c \in Conns, NEW s \in Senders, SendLooks(s, c) PROVE SocketsInv'
  <2>1. UNCHANGED <<handler, wire, tableVars, hub>> BY <1>3 DEF SendLooks
  <2>2. WiresGoOn BY <1>0, <2>1, NoneChanges
  <2>3. sending' \in [Senders -> Sends] BY <1>0, <1>3, SendingKeeps
  <2> QED BY <2>1, <2>2, <2>3, OnlyWires
<1>4. ASSUME NEW s \in Senders, Sender(s) PROVE SocketsInv'
  <2>1. UNCHANGED <<handler, tableVars, hub>> BY <1>4 DEF Sender, SendQueues, SendCloses
  <2>2. WiresGoOn BY <1>0, <1>4, SenderGoesOn
  <2>3. sending' \in [Senders -> Sends]
    BY <1>0, <1>4, SendingKeeps
  <2> QED BY <2>1, <2>2, <2>3, OnlyWires
<1>5. ASSUME NEW c \in Conns, Reply(c) PROVE SocketsInv'
  <2>1. UNCHANGED <<handler, tableVars, hub, sending>> BY <1>5 DEF Reply
  <2>2. WiresGoOn BY <1>0, <1>5, SendOne DEF Reply
  <2> QED BY <1>0, <2>1, <2>2, OnlyWires DEF TypeOK
<1>6. ASSUME NEW c \in Conns, Accept(c) PROVE SocketsInv'
  <2>1. WiresGoOn BY <1>0, <1>6, NoneChanges DEF Accept
  <2>2. "hello" \in Stages \ {"known", "reading"} BY DEF Stages
  <2> QED BY <1>6, <2>1, <2>2, OnlyStage DEF Accept
<1>7. ASSUME NEW c \in Conns, Refuse(c) \/ AttachRefused(c) PROVE SocketsInv'
  <2>1. WiresGoOn BY <1>0, <1>7, CloseOne DEF Refuse, AttachRefused
  <2>2. "wait" \in Stages \ {"known", "reading"} BY DEF Stages
  <2>3. /\ UNCHANGED <<tableVars, hub, sending>> /\ ToStage(c, "wait")
        /\ Stage(c) \in {"hello", "known"}
    BY <1>7 DEF Refuse, AttachRefused
  <2> QED BY <2>1, <2>2, <2>3, OnlyStage
<1>8. ASSUME NEW c \in Conns, BadMessage(c) \/ ReadFails(c) PROVE SocketsInv'
  <2>1. WiresGoOn BY <1>0, <1>8, CloseOne, NoneChanges DEF BadMessage, ReadFails
  <2>2. "leaving" \in Stages \ {"known", "reading"} BY DEF Stages
  <2>3. /\ UNCHANGED <<tableVars, hub, sending>> /\ ToStage(c, "leaving")
        /\ Stage(c) = "reading"
    BY <1>8 DEF BadMessage, ReadFails
  <2> QED BY <2>1, <2>2, <2>3, OnlyStage
<1>9. ASSUME NEW c \in Conns, DetachStopped(c) PROVE SocketsInv'
  <2>1. WiresGoOn BY <1>0, <1>9, NoneChanges DEF DetachStopped
  <2>2. "wait" \in Stages \ {"known", "reading"} BY DEF Stages
  <2> QED BY <1>9, <2>1, <2>2, OnlyStage DEF DetachStopped
<1>10. ASSUME NEW c \in Conns, Hello(c) PROVE SocketsInv'
  BY <1>7, <1>10, GameHelloKeeps, UserHelloKeeps DEF Hello, Somebody
<1>11. ASSUME NEW c \in Conns, Attach(c) PROVE SocketsInv'
  BY <1>7, <1>11, AttachPlayerKeeps, AttachViewerKeeps DEF Attach
<1>12. ASSUME NEW c \in Conns, Broadcast(c) \/ \E p \in People : Notify(p, c) PROVE SocketsInv'
  BY <1>3, <1>12 DEF Broadcast, Notify, Senders
<1> QED
  BY <1>1, <1>2, <1>4, <1>5, <1>6, <1>8, <1>9, <1>10, <1>11, <1>12,
     LeaveKeeps, DetachKeeps, HubRemoveKeeps, ReleaseKeeps, StopKeeps, FreeSeatKeeps DEF Next

(***************************************************************************)
(* The theorems.                                                           *)
(***************************************************************************)

\* Sockets keep their types, the newest connection of a player is the one the
\* table has, and the hub lists whoever is open.
THEOREM SocketsAreSound ==
  Spec => []SocketsInv
<1>1. Init => SocketsInv BY StartsGood
<1>2. SocketsInv /\ [Next]_vars => SocketsInv' BY StepKeeps
<1> QED BY <1>1, <1>2, PTL DEF Spec

\* Whoever reads and was not asked to close is reached: by the table, which
\* takes a player for connected exactly while it has a connection of theirs,
\* and by the hub, whose lists keep to their limit (Attach, Detach, userHub).
THEOREM ConnectedAreReached ==
  Spec => []NewestAndOpenAreReached
<1>1. SocketsInv => NewestAndOpenAreReached
  <2> SUFFICES ASSUME SocketsInv PROVE NewestAndOpenAreReached OBVIOUS
  <2>1. NewestIsServed BY DEF SocketsInv, Served, NewestIsServed
  <2>2. \A p \in People : DOMAIN hub[p] = 1..Len(hub[p])
    BY LenProperties DEF SocketsInv, TypeOK
  <2>3. HubHasTheOpen
    BY <2>2 DEF SocketsInv, Listed, HubHasTheOpen, ToSet, At, Stage
  <2> QED BY <2>1, <2>3 DEF NewestAndOpenAreReached
<1> QED BY <1>1, SocketsAreSound, PTL

\* A connection that ends with the close handshake leaves nothing unwritten of
\* what was queued by then, whoever sends and closes meanwhile (wsConn).
THEOREM NothingQueuedIsLost ==
  Spec => []QueuedIsWritten
<1>1. SocketsInv => QueuedIsWritten
  <2> SUFFICES ASSUME SocketsInv PROVE QueuedIsWritten OBVIOUS
  <2>1. \A c \in Conns : DOMAIN wire[c].queue = 1..Len(wire[c].queue)
    BY LenProperties DEF SocketsInv, TypeOK, Wires
  <2> QED BY <2>1 DEF SocketsInv, AllSettled, Settled, QueuedIsWritten, ToSet
<1> QED BY <1>1, SocketsAreSound, PTL
=============================================================================
