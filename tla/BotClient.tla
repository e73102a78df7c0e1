------------------------------ MODULE BotClient ------------------------------
(* A bot that connects: it reads the snapshots of its connection in turn,    *)
(* answers with commands, and connects again when the connection is lost.    *)
EXTENDS BotTable

CONSTANTS MaxSent,       \* what the network holds of a bot's commands
          MaxDrops       \* bound of the instance: how often connections are lost

ASSUME BotClientAssumption == MaxSent \in Nat \ {0} /\ MaxDrops \in Nat

VARIABLES client,        \* the goroutine of each bot: where it is, lastActKey
          sent,          \* its commands that the server has not handled
          drops          \* connections lost so far

clientVars == <<client, sent, drops>>

NoClient == [pc |-> "none", last |-> 0]

ClientInit ==
    /\ client = [c \in Outside |-> NoClient]
    /\ sent = [c \in Outside |-> << >>] /\ drops = 0

ClientAt(c, pc) == client[c].pc = pc
ClientGoes(c, pc, last) == client' = [client EXCEPT ![c] = [pc |-> pc, last |-> last]]
\* A write waits for the server to read.
Sends(c, what) == Len(sent[c]) < MaxSent /\ sent' = [sent EXCEPT ![c] = Append(@, what)]
Keeps == UNCHANGED <<sent, drops>>
Inbox(c) == mail[Connection(c)]
Takes(c) == mail' = [mail EXCEPT ![Connection(c)] = Tail(@)]

\* Join, over the REST API.
ClientJoin(c) == ClientAt(c, "none") /\ Join(c) /\ ClientGoes(c, "dial", 0) /\ Keeps

\* Mutant: a turn acted on before the connection was lost is not acted on again.
SessionRemembers(c) ==
    /\ ClientAt(c, "dial")
    /\ sent' = [sent EXCEPT ![c] = << >>] /\ UNCHANGED drops
    /\ \/ Attach(Connection(c)) /\ ClientGoes(c, "read", client[c].last)
       \/ ~(Answers /\ c \in Seated(seat)) /\ ClientGoes(c, "done", 0) /\ UNCHANGED tableVars

\* session: the connection, the hello and its answer.  A table that is gone
\* and a token without a seat are terminal.
Session(c) ==
    /\ ClientAt(c, "dial")
    /\ sent' = [sent EXCEPT ![c] = << >>] /\ UNCHANGED drops
    /\ \/ Attach(Connection(c)) /\ ClientGoes(c, "read", 0)
       \/ /\ ~(Answers /\ c \in Seated(seat))
          /\ ClientGoes(c, "done", 0) /\ UNCHANGED tableVars

\* The connection is lost, in the middle of anything, with what was on its way.
Lost(c) ==
    /\ ClientGoes(c, "dial", client[c].last)
    /\ sent' = [sent EXCEPT ![c] = << >>] /\ mail' = [mail EXCEPT ![Connection(c)] = << >>]

Disconnect(c) ==
    /\ client[c].pc \in {"read", "delay"} /\ Connection(c) \in attached /\ drops < MaxDrops
    /\ drops' = drops + 1 /\ Lost(c)
    /\ attached' = attached \ {Connection(c)}          \* the table detaches it
    /\ UNCHANGED <<table, seat, closed>>

\* A close whose code is not terminal, once everything before it was read.
ReadLost(c) ==
    /\ ClientAt(c, "read") /\ Inbox(c) = << >> /\ Connection(c) \notin attached
    /\ Lost(c) /\ UNCHANGED <<table, seat, attached, closed, drops>>

\* onSnapshot, up to the pause: rebuy, or a turn not acted on yet.
OnSnapshot(c, s) ==
    IF s.rebuy
    THEN IF Connection(c) \in attached THEN Takes(c) /\ Sends(c, Word("rebuy")) /\ UNCHANGED client ELSE Lost(c)
    ELSE /\ Takes(c) /\ UNCHANGED sent
         /\ IF s.turn \notin {0, client[c].last} THEN ClientGoes(c, "delay", s.turn) ELSE UNCHANGED client

\* handle.
Handle(c) ==
    LET m == Head(Inbox(c)) IN
    /\ ClientAt(c, "read") /\ Inbox(c) # << >>
    /\ \/ m.type = "snapshot" /\ OnSnapshot(c, m)
       \/ m.type = "error" /\ Takes(c) /\ ClientGoes(c, "read", 0) /\ UNCHANGED sent
       \/ m.type = "kicked" /\ Takes(c) /\ ClientGoes(c, "done", 0) /\ UNCHANGED sent
    /\ UNCHANGED <<table, seat, attached, closed, drops>>

\* onSnapshot, after the pause: the answer is to the snapshot read before.
Answer(c) ==
    /\ ClientAt(c, "delay")
    /\ IF Connection(c) \in attached
       THEN /\ ClientGoes(c, "read", client[c].last) /\ UNCHANGED mail
            /\ Sends(c, [Word("action") EXCEPT !.turn = client[c].last])
       ELSE Lost(c)
    /\ UNCHANGED <<table, seat, attached, closed, drops>>

\* The answer to a command that failed; a full queue closes the connection.
Refused(c) ==
    IF Len(Inbox(c)) < MaxMail
    THEN mail' = [mail EXCEPT ![Connection(c)] = Append(@, Word("error"))] /\ UNCHANGED <<table, seat, attached, closed>>
    ELSE attached' = attached \ {Connection(c)} /\ UNCHANGED <<table, seat, closed, mail>>

\* The server handles the command.  An action decided for an earlier turn may
\* still be a legal one.
Serve(c) ==
    LET m == Head(sent[c]) IN
    /\ sent[c] # << >> /\ Connection(c) \in attached
    /\ sent' = [sent EXCEPT ![c] = Tail(@)]
    /\ \/ m.type = "rebuy" /\ Rebuy(c)
       \/ m.type = "rebuy" /\ ~RebuyAllowed(c) /\ Refused(c)
       \/ m.type = "action" /\ Act(c)
       \/ m.type = "action" /\ (~Answers \/ table.turn # c \/ table.key # m.turn) /\ Refused(c)
    /\ UNCHANGED <<client, drops>>

ClientStep(c) == Session(c) \/ ReadLost(c) \/ Handle(c) \/ Answer(c)
=============================================================================
