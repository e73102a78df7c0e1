------------------------------- MODULE MCBots -------------------------------
(* A guest and a bot of one kind; the bot of the other kind has gone.        *)
EXTENDS Bots, TLC

\* A new table.
Opened(b) ==
    /\ table = NewTable /\ drops = 0 /\ crashes = IF b \in Inside THEN 0 ELSE MaxCrashes
    /\ seat = [p \in Players |-> IF p \in Bots \ {b} THEN "left" ELSE "none"]
    /\ bot = [p \in Bots |-> IF p = b THEN NoBot ELSE [NoBot EXCEPT !.pc = "done"]]
    /\ client = [c \in Outside |-> IF c = b THEN NoClient ELSE [NoClient EXCEPT !.pc = "done"]]

\* The server has come back: a bot that connects has its seat, its client dials
\* again, and a goroutine is about to attach.
CameBack(c) ==
    /\ \E state \in {"running", "ended"} : table = [NewTable EXCEPT !.state = state, !.key = MaxTurns - 1]
    /\ crashes = MaxCrashes /\ drops = MaxDrops
    /\ \E has \in {"active", "busted"} :
          seat = [p \in Players |-> IF p = c THEN has ELSE IF p \in Bots THEN "left" ELSE "active"]
    /\ bot = [p \in Bots |-> [NoBot EXCEPT !.pc = IF p = c THEN "attach" ELSE "done"]]
    /\ client = [p \in Outside |-> [NoClient EXCEPT !.pc = IF p = c THEN "dial" ELSE "done"]]

MCInit ==
    /\ attached = {} /\ closed = {} /\ mail = [e \in Clients |-> << >>]
    /\ sent = [c \in Outside |-> << >>]
    /\ \/ \E b \in Bots : Opened(b)
       \/ \E c \in Outside : CameBack(c)

MCSpec == MCInit /\ [][Next]_vars
MCFairSpec == MCSpec /\ Fairness
=============================================================================
