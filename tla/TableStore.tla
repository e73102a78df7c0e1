------------------------------ MODULE TableStore ------------------------------
(* One table and its rows in the database: the actor's commands, the queue of *)
(* write jobs they leave behind (persist.go), the persister that executes and  *)
(* retries them, a crash or a shutdown between two jobs, the recovery of the   *)
(* next start (Registry.LoadAll), deletion and retention.                      *)
(*                                                                            *)
(* A hand is abstracted to its deal and its outcome; PokerHand and TableActor  *)
(* model what lies between.  A player id is used once: whoever joins again     *)
(* gets a new one (newPlayerID).                                               *)
EXTENDS Integers, Sequences, FiniteSets, FiniteSetsExt, SequencesExt, Functions

CONSTANTS Players,      \* player ids
          MaxSeats,     \* settings: the seats are 0 .. MaxSeats - 1
          StartMoney,   \* settings: the stack of a new player
          Settings,     \* the settings a table may have been created with
          Attempts,     \* persistAttempts
          QueueCap,     \* capacity of persister.jobs
          Commands,     \* the commands the instance allows
          MaxHands, MaxCommands, MaxFaults, MaxRestarts   \* bounds of the instance

ASSUME StoreAssumption ==
    /\ IsFiniteSet(Players) /\ MaxSeats \in Nat \ {0}
    /\ StartMoney \in Nat \ {0} /\ Settings \subseteq [rebuy : BOOLEAN, autoStart : BOOLEAN]
    /\ Attempts \in Nat \ {0} /\ QueueCap \in Nat
    /\ {MaxHands, MaxCommands, MaxFaults, MaxRestarts} \subseteq Nat

Seats == 0 .. MaxSeats - 1
None == 0                             \* no hand: hands count from 1

VARIABLES proc,     \* the server process: "up" or "down"
          t,        \* what the actor knows
          stage,    \* the table in the registry, see Stages
          queue, tries, rowID,   \* the persister: jobs, failed attempts, handRowID
          db,       \* the rows of the table
          purge,    \* retention selected the table and has not deleted yet
          lost,     \* since the last start some job was given up
          gaveUp,   \* some job was given up
          commands, faults, restarts  \* counters of the bounds

vars == <<proc, t, stage, queue, tries, rowID, db, purge, lost, gaveUp, commands, faults, restarts>>

-------------------------------------------------------------------------------
(* Rows.                                                                       *)

Statuses == {"active", "sitting_out", "busted", "left"}
PlayerRow == [seat : Seats, stack : Nat, status : Statuses]
TableRow  == [state : {"waiting", "running", "paused", "ended"}, hands : Nat]
NoRow     == [seat |-> 0, stack |-> 0, status |-> "none"]

(* A hand: its stacks at the start, the hand its events and results are of     *)
(* (None until FinishHand), and how it ended.                                  *)
HandRow(start) == [start |-> start, of |-> None, open |-> TRUE, voided |-> FALSE]

NoTable == [state |-> "none", hands |-> 0]
NoSettings == [rebuy |-> FALSE, autoStart |-> FALSE]
NoRows  == [table |-> NoTable, settings |-> NoSettings, players |-> [p \in Players |-> NoRow],
            hands |-> <<>>, results |-> <<>>]

(* Jobs.  "finish" carries the hand it was enqueued for, which the code does   *)
(* not: FinishHand writes to whatever row handRowID names when it runs.        *)
PlayerJob(tt, p)  == [kind |-> "player", p |-> p,
                      row |-> [seat |-> tt.seat[p], stack |-> tt.stack[p], status |-> tt.status[p]]]
TableJob(tt)      == [kind |-> "table", row |-> [state |-> tt.state, hands |-> tt.hands]]
InsertJob(tt)     == [kind |-> "insert", n |-> tt.hands, start |-> tt.start]
FinishJob(tt, v)  == [kind |-> "finish", n |-> tt.hands, voided |-> v]
SessionsJob(p)    == [kind |-> "sessions", p |-> p]      \* rows of Sockets' sessions
ResultsJob(tt)    == [kind |-> "results", n |-> tt.hands, of |-> tt.inHand]

-------------------------------------------------------------------------------
(* The actor's memory.                                                         *)

Seated(tt)    == {p \in Players : tt.status[p] \in Statuses \ {"left"}}
Taken(tt)     == {tt.seat[p] : p \in Seated(tt)}
Eligible(tt)  == {p \in Seated(tt) : tt.status[p] = "active" /\ tt.stack[p] > 0 /\ p \notin tt.leaving}
WithChips(tt) == {p \in Seated(tt) : tt.stack[p] > 0}
Chips(tt, ps) == MapThenSumSet(LAMBDA p : tt.stack[p], ps)

(* Players in the order of their seats: the order of every loop over t.seats.  *)
BySeat(tt, ps) ==
    LET upTo[n \in 0 .. MaxSeats] ==
            IF n = 0 THEN <<>> ELSE upTo[n - 1] \o SetToSeq({p \in ps : tt.seat[p] = n - 1})
    IN  upTo[MaxSeats]
PlayerJobs(tt, ps) == LET s == BySeat(tt, ps) IN [i \in DOMAIN s |-> PlayerJob(tt, s[i])]

NewTable(s) ==
            [settings |-> s, state |-> "waiting", hands |-> 0, hand |-> "none", endAfter |-> FALSE,
             seat |-> [p \in Players |-> 0], pendingSeat |-> [p \in Players |-> -1], stack |-> [p \in Players |-> 0],
             status |-> [p \in Players |-> "none"],
             leaving |-> {}, inHand |-> {}, start |-> <<>>]

(* freeSeat: the row of the one who left, then the sessions.                   *)
Freed(tt, ps) == [tt EXCEPT !.status = [p \in Players |-> IF p \in ps THEN "left" ELSE tt.status[p]],
                            !.leaving = @ \ ps, !.inHand = @ \ ps]
\* Mutant: the row of who left stays as it was.
FreeJobsWithoutRow(tt, ps) ==
    LET s == BySeat(tt, ps) IN [i \in DOMAIN s |-> SessionsJob(s[i])]

FreeJobs(tt, ps) ==
    LET s == BySeat(tt, ps)
    IN  [i \in 1 .. 2 * Len(s) |-> IF i % 2 = 1 THEN PlayerJob(tt, s[(i + 1) \div 2]) ELSE SessionsJob(s[i \div 2])]

(* A command that runs: it replaces the memory and appends its jobs.  It waits *)
(* for room in the queue (enqueue blocks the actor).                           *)
Does(tt, jobs) ==
    /\ Len(queue) + Len(jobs) <= QueueCap
    /\ t' = tt
    /\ queue' = queue \o jobs
    /\ UNCHANGED <<proc, stage, tries, rowID, db, purge, lost, gaveUp, faults, restarts>>

(* The table in the registry: "live"; off it, the actor still serving handlers *)
(* that got hold of it before ("deleting"); stopped, for its deletion or for a *)
(* shutdown, the persister draining; and gone.                                 *)
Stages == {"live", "deleting", "stopped", "shutdown", "gone"}
Running == proc = "up" /\ stage \in {"live", "deleting"}

-------------------------------------------------------------------------------
(* Commands.                                                                   *)

(* A join takes the seat it asks for, or the lowest that is free.              *)
NewPlayerID == CHOOSE p \in Players : t.status[p] = "none"

Join(s) ==
    /\ Running /\ t.state # "ended" /\ s \in Seats \ Taken(t)
    /\ "seat" \in Commands \/ s = Min(Seats \ Taken(t))
    /\ \E p \in Players : t.status[p] = "none"
    /\ LET p  == NewPlayerID
           tt == [t EXCEPT !.seat[p] = s, !.stack[p] = StartMoney, !.status[p] = "active"]
       IN  Does(tt, <<PlayerJob(tt, p)>>)

SetState(tt, s) == [tt EXCEPT !.state = s]

(* maybeStartHand and startHand: a waiting table that may starts itself; then  *)
(* the hand's row, and the table's with the new number.                        *)
CanDeal(tt) ==
    /\ tt.hand = "none" /\ Cardinality(Eligible(tt)) >= 2 /\ tt.hands < MaxHands
    /\ tt.state = "running" \/ (tt.state = "waiting" /\ tt.settings.autoStart)
Dealt(tt) ==
    IF ~CanDeal(tt) THEN tt
    ELSE [tt EXCEPT !.state = "running", !.hands = @ + 1, !.hand = "playing", !.inHand = Eligible(tt),
                    !.start = [p \in Eligible(tt) |-> tt.stack[p]]]
DealJobs(tt) ==
    IF ~CanDeal(tt) THEN <<>>
    ELSE (IF tt.state = "waiting" THEN <<TableJob(SetState(tt, "running"))>> ELSE <<>>)
           \o <<InsertJob(Dealt(tt)), TableJob(Dealt(tt))>>

(* The callback of the start timer (TableActor says when it is armed).         *)
StartHand == Running /\ CanDeal(t) /\ Does(Dealt(t), DealJobs(t))

Start ==
    /\ Running /\ t.state = "waiting"
    /\ LET tt == SetState(t, "running") IN Does(Dealt(tt), <<TableJob(tt)>> \o DealJobs(tt))

Pause ==
    /\ Running /\ t.state = "running"
    /\ LET tt == SetState(t, "paused") IN Does(tt, <<TableJob(tt)>>)

Resume ==
    /\ Running /\ t.state = "paused"
    /\ LET tt == SetState(t, "running") IN Does(Dealt(tt), <<TableJob(tt)>> \o DealJobs(tt))


(* What a hand may do to the stacks: chips move between those dealt in, and    *)
(* whoever folded by leaving wins nothing.                                     *)
Outcomes(tt) ==
    {e \in [tt.inHand -> 0 .. Chips(tt, tt.inHand)] :
        /\ MapThenSumSet(LAMBDA p : e[p], tt.inHand) = Chips(tt, tt.inHand)
        /\ \A p \in tt.inHand \cap tt.leaving : e[p] <= tt.stack[p]}

(* Who missed too many turns of the hand, and sits out when it ends.           *)
Missed(tt) == IF "miss" \in Commands THEN SUBSET tt.inHand ELSE {{}}

(* finishHand: stacks, busts, sit-outs and, for whoever goes, the seat; the    *)
(* results, the rows of all who stay, of the leavers, of the hand, the table.  *)
StatusAfter(tt, e, missed, p) ==
    IF p \notin tt.inHand \/ tt.status[p] # "active" THEN tt.status[p]
    ELSE IF e[p] = 0 THEN "busted"
    ELSE IF p \in missed THEN "sitting_out" ELSE "active"
Settled(tt, e, missed) ==
    [tt EXCEPT !.hand = "result",
               !.stack = [p \in Players |-> IF p \in tt.inHand THEN e[p] ELSE tt.stack[p]],
               !.status = [p \in Players |-> StatusAfter(tt, e, missed, p)]]
Decided(tt) == ~tt.settings.rebuy /\ Cardinality(Seated(tt)) >= 2 /\ Cardinality(WithChips(tt)) <= 1

Finished(tt, e, missed) ==
    LET gone == Freed(Settled(tt, e, missed), tt.inHand \cap tt.leaving)
    IN  [gone EXCEPT !.endAfter = @ \/ Decided(gone)]
FinishJobs(tt, e, missed) ==
    LET settled == Settled(tt, e, missed)
        leavers == tt.inHand \cap tt.leaving
        done    == Finished(tt, e, missed)
    IN  <<ResultsJob(tt)>> \o PlayerJobs(settled, tt.inHand \ leavers)
          \o FreeJobs(Freed(settled, leavers), leavers) \o <<FinishJob(done, FALSE), TableJob(done)>>

Finishes(tt, jobs, outcomes) ==
    \E e \in outcomes, missed \in Missed(tt) :
        Does(Finished(tt, e, missed), jobs \o FinishJobs(tt, e, missed))

FinishHand == Running /\ t.hand = "playing" /\ Finishes(t, <<>>, Outcomes(t))

(* extendResultPhase: a late reveal stores the hand again.                     *)
LateReveal ==
    /\ Running /\ t.hand = "result" /\ t.state # "ended"
    /\ Does(t, <<FinishJob(t, FALSE)>>)

(* endTable: everybody's row (assignPlaces), then the table's.                 *)
Ended(tt)    == [tt EXCEPT !.hand = "none", !.state = "ended", !.inHand = {}]
EndJobs(tt)  == PlayerJobs(tt, Seated(tt)) \o <<TableJob(Ended(tt))>>

(* applySeatChange, and applyPendingSeatChanges in the order of the seats.     *)
CanMove(tt, p) == tt.pendingSeat[p] >= 0 /\ tt.pendingSeat[p] \notin Taken(tt)
Moved(tt, p) ==
    [tt EXCEPT !.pendingSeat[p] = -1, !.seat[p] = IF CanMove(tt, p) THEN tt.pendingSeat[p] ELSE tt.seat[p]]
\* Mutant: the new seat is not stored.
MoveJobsNone(tt, p) == <<>>

MoveJobs(tt, p) == IF CanMove(tt, p) THEN <<PlayerJob(Moved(tt, p), p)>> ELSE <<>>
AllMoved(tt) ==
    LET s == BySeat(tt, {p \in Seated(tt) : tt.pendingSeat[p] >= 0})
        after[n \in 0 .. Len(s)] ==
            IF n = 0 THEN [t |-> tt, jobs |-> <<>>]
            ELSE [t |-> Moved(after[n - 1].t, s[n]), jobs |-> after[n - 1].jobs \o MoveJobs(after[n - 1].t, s[n])]
    IN  after[Len(s)]

ChangeSeat(p, s) ==
    /\ Running /\ t.state # "ended" /\ p \in Seated(t) /\ t.pendingSeat[p] < 0
    /\ s \notin Taken(t) /\ \A q \in Seated(t) : t.pendingSeat[q] # s
    /\ LET tt == [t EXCEPT !.pendingSeat[p] = s]
       IN  IF t.hand = "playing" /\ p \in t.inHand THEN Does(tt, <<>>)
           ELSE Does(Moved(tt, p), MoveJobs(tt, p))

(* clearHand: the round ends, or whoever asked moves and the next hand starts. *)
ClearHand ==
    /\ Running /\ t.hand = "result"
    /\ LET tt    == [t EXCEPT !.hand = "none", !.inHand = {}, !.endAfter = FALSE]
           moved == AllMoved(tt)
       IN  IF t.endAfter THEN Does(Ended(tt), EndJobs(tt))
           ELSE Does(Dealt(moved.t), moved.jobs \o DealJobs(moved.t))

(* removePlayer: at once between hands; in a hand the player folds first, which *)
(* ends it when nobody else is left to play.                                   *)
Leave(p) ==
    /\ Running /\ p \in Seated(t) \ t.leaving
    /\ LET tt == [t EXCEPT !.leaving = @ \cup {p}]
       IN  \/ /\ t.hand = "playing" /\ p \in t.inHand
              /\ Cardinality(t.inHand \ tt.leaving) >= 2
              /\ Does(tt, <<>>)
           \/ /\ t.hand = "playing" /\ p \in t.inHand
              /\ Finishes(tt, <<>>, Outcomes(tt))
           \/ /\ ~(t.hand = "playing" /\ p \in t.inHand)
              /\ Does(Freed(tt, {p}), FreeJobs(Freed(tt, {p}), {p}))

SitOut(p) ==
    /\ Running /\ t.state # "ended" /\ p \in Seated(t) /\ t.status[p] = "active"
    /\ LET tt == [t EXCEPT !.status[p] = "sitting_out"] IN
       \/ Does(tt, <<PlayerJob(tt, p)>>)
       \/ /\ t.hand = "playing" /\ p \in t.inHand           \* the fold ended the hand
          /\ Finishes(tt, <<PlayerJob(tt, p)>>, {e \in Outcomes(tt) : e[p] <= t.stack[p]})

SitIn(p) ==
    /\ Running /\ t.state # "ended" /\ p \in Seated(t) /\ t.status[p] = "sitting_out"
    /\ LET tt == [t EXCEPT !.status[p] = IF t.stack[p] = 0 THEN "busted" ELSE "active"]
       IN  Does(tt, <<PlayerJob(tt, p)>>)

Rebuy(p) ==
    /\ Running /\ t.state # "ended" /\ t.settings.rebuy /\ p \in Seated(t)
    /\ t.status[p] = "busted" /\ t.hand # "playing"
    /\ LET tt == [t EXCEPT !.stack[p] = StartMoney, !.status[p] = "active"]
       IN  Does(tt, <<PlayerJob(tt, p)>>)

(* voidHand: stacks return (a map: in any order), the hand's row is closed as  *)
(* voided, leavers go.                                                         *)
Voided(tt) == [tt EXCEPT !.hand = "none", !.inHand = {},
                         !.stack = [p \in Players |-> IF p \in tt.inHand THEN tt.start[p] ELSE tt.stack[p]]]
VoidJobs(tt, order) == [i \in DOMAIN order |-> PlayerJob(Voided(tt), order[i])]
                         \o <<FinishJob(tt, TRUE)>> \o FreeJobs(Freed(Voided(tt), tt.leaving), tt.leaving)

End(immediate) ==
    /\ Running /\ t.state # "ended"
    /\ \/ /\ t.hand = "playing" /\ ~immediate
          /\ Does([t EXCEPT !.endAfter = TRUE], <<>>)
       \/ /\ t.hand = "playing" /\ immediate
          /\ LET tt == Freed(Voided(t), t.leaving)
             IN  \E order \in SetToSeqs(t.inHand) : Does(Ended(tt), VoidJobs(t, order) \o EndJobs(tt))
       \/ t.hand # "playing" /\ Does(Ended(t), EndJobs(t))

(* Restart: a new round on an ended table; hand numbers run on.                *)
Restart ==
    /\ Running /\ t.state = "ended"
    /\ LET tt == [t EXCEPT !.state = "waiting", !.endAfter = FALSE, !.leaving = {},
                           !.pendingSeat = [p \in Players |-> -1],
                           !.stack = [p \in Players |-> IF p \in Seated(t) THEN StartMoney ELSE t.stack[p]],
                           !.status = [p \in Players |-> IF p \in Seated(t) THEN "active" ELSE t.status[p]]]
       IN  Does(tt, PlayerJobs(tt, Seated(tt)) \o <<TableJob(tt)>>)

(* What the players and the host do beside joining and starting, MaxCommands   *)
(* times.                                                                      *)
Asked ==
    /\ commands < MaxCommands /\ commands' = commands + 1
    /\ \/ \E p \in Players : \/ "leave" \in Commands /\ Leave(p)
                             \/ "sit" \in Commands /\ (SitOut(p) \/ SitIn(p))
                             \/ "rebuy" \in Commands /\ Rebuy(p)
                             \/ "move" \in Commands /\ \E s \in Seats : ChangeSeat(p, s)
       \/ "pause" \in Commands /\ (Pause \/ Resume)
       \/ "end" \in Commands /\ (Restart \/ \E immediate \in BOOLEAN : End(immediate))
       \/ "reveal" \in Commands /\ LateReveal

Played ==
    /\ \/ \E s \in Seats : Join(s)
       \/ Start \/ StartHand \/ FinishHand \/ ClearHand
    /\ UNCHANGED commands

Command == Asked \/ Played

-------------------------------------------------------------------------------
(* The database.  Every job is one statement, or one transaction: it happens   *)
(* entirely or not at all.  Rows refer to their table (foreign keys, ON DELETE *)
(* CASCADE): without its row nothing can be written for it.                    *)

HasHand(n) == n \in DOMAIN db.hands

(* Whether the statement can succeed: hands are UNIQUE (table_id, number).     *)
Possible(job) ==
    /\ db.table # NoTable \/ job.kind \in {"finish", "sessions", "results"}
    /\ job.kind = "insert" => ~HasHand(job.n)

UpsertPlayer(p, row)     == [db EXCEPT !.players[p] = row]
UpdateTable(row)         == [db EXCEPT !.table = row]
InsertHand(n, start)     ==
    [db EXCEPT !.hands = [m \in DOMAIN db.hands \cup {n} |-> IF m = n THEN HandRow(start) ELSE db.hands[m]]]
InsertHandResults(n, ps) == [db EXCEPT !.results = @ \o SetToSeq({<<p, n>> : p \in ps})]

(* UPDATE ... WHERE id = handRowID: no row is not an error.                    *)
UpdateHand(n, voided) ==
    IF HasHand(rowID)
    THEN [db EXCEPT !.hands[rowID] = [db.hands[rowID] EXCEPT !.of = n, !.open = FALSE, !.voided = voided]]
    ELSE db

Written(job) ==
    CASE job.kind = "player"   -> UpsertPlayer(job.p, job.row)
      [] job.kind = "table"    -> UpdateTable(job.row)
      [] job.kind = "insert"   -> InsertHand(job.n, job.start)
      [] job.kind = "finish"   -> UpdateHand(job.n, job.voided)
      [] job.kind = "results"  -> InsertHandResults(job.n, job.of)
      [] job.kind = "sessions" -> db

\* Mutant: the rows of a hand's results are inserted without a transaction.
UnwrittenHalf(job) == IF job.kind = "results" THEN InsertHandResults(job.n, {CHOOSE p \in job.of : TRUE}) ELSE db

(* What a failed attempt leaves in the database: nothing.                      *)
Unwritten(job) == db

\* Mutant: a failed insert leaves the id of the hand before.
RowIDStays(job, ok) == IF job.kind = "insert" /\ ok THEN job.n ELSE rowID

(* The id the job leaves for the next FinishHand: InsertHand's, 0 if it failed.*)
RowIDAfter(job, ok) == IF job.kind # "insert" THEN rowID ELSE IF ok THEN job.n ELSE None

(* persister.execute: one attempt.                                             *)
Executed ==
    /\ queue # <<>> /\ Possible(Head(queue))
    /\ db' = Written(Head(queue)) /\ rowID' = RowIDAfter(Head(queue), TRUE)
    /\ queue' = Tail(queue) /\ tries' = 0
    /\ UNCHANGED <<proc, t, stage, purge, lost, gaveUp, commands, faults, restarts>>

\* Mutant: one attempt too many.
AttemptFailsOnceMore ==
    /\ queue # <<>>
    /\ IF Possible(Head(queue)) THEN faults < MaxFaults /\ faults' = faults + 1 ELSE faults' = faults
    /\ db' = Unwritten(Head(queue)) /\ rowID' = RowIDAfter(Head(queue), FALSE)
    /\ IF tries < Attempts
       THEN tries' = tries + 1 /\ UNCHANGED <<queue, lost, gaveUp>>
       ELSE tries' = 0 /\ queue' = Tail(queue) /\ lost' = TRUE /\ gaveUp' = TRUE
    /\ UNCHANGED <<proc, t, stage, purge, commands, restarts>>

(* A failed attempt; after the last one the job is dropped.                    *)
AttemptFails ==
    /\ queue # <<>>
    /\ IF Possible(Head(queue)) THEN faults < MaxFaults /\ faults' = faults + 1 ELSE faults' = faults
    /\ db' = Unwritten(Head(queue)) /\ rowID' = RowIDAfter(Head(queue), FALSE)
    /\ IF tries + 1 < Attempts
       THEN tries' = tries + 1 /\ UNCHANGED <<queue, lost, gaveUp>>
       ELSE tries' = 0 /\ queue' = Tail(queue) /\ lost' = TRUE /\ gaveUp' = TRUE
    /\ UNCHANGED <<proc, t, stage, purge, commands, restarts>>

Persister == proc = "up" /\ (Executed \/ AttemptFails)

-------------------------------------------------------------------------------
(* The process: restarts, shutdowns, recovery.                                  *)

(* Down at once: memory and queue are gone.                                    *)
Down ==
    /\ restarts < MaxRestarts /\ restarts' = restarts + 1
    /\ proc' = "down" /\ stage' = "gone" /\ t' = NewTable(db.settings)
    /\ queue' = <<>> /\ tries' = 0 /\ rowID' = None /\ purge' = FALSE
    /\ UNCHANGED <<db, lost, gaveUp, commands, faults>>

Crash == proc = "up" /\ Down

(* Registry.Shutdown takes every table off the registry and stops its actor;   *)
(* the process ends when the queue is drained, or when that takes too long.    *)
Shutdown ==
    /\ "shutdown" \in Commands /\ proc = "up" /\ stage = "live" /\ stage' = "shutdown"
    /\ restarts < MaxRestarts
    /\ UNCHANGED <<proc, t, queue, tries, rowID, db, purge, lost, gaveUp, commands, faults, restarts>>
ShutdownEnds == proc = "up" /\ stage = "shutdown" /\ Down

(* LoadAll: memory as the rows have it, open hands voided.                     *)
Back == {p \in Players : db.players[p].status \in Statuses \ {"left"}}
Restored ==
    [NewTable(db.settings) EXCEPT
        !.state = db.table.state, !.hands = db.table.hands,
        !.seat = [p \in Players |-> db.players[p].seat],
        !.stack = [p \in Players |-> db.players[p].stack],
        !.status = [p \in Players |-> db.players[p].status]]
VoidOpenHands ==
    [db EXCEPT !.hands = [n \in DOMAIN db.hands |->
                            IF db.hands[n].open THEN [db.hands[n] EXCEPT !.open = FALSE, !.voided = TRUE]
                            ELSE db.hands[n]]]
LoadAll ==
    /\ proc = "down" /\ db.table # NoTable
    /\ proc' = "up" /\ stage' = "live" /\ t' = Restored /\ db' = VoidOpenHands
    /\ lost' = FALSE
    /\ UNCHANGED <<queue, tries, rowID, purge, gaveUp, commands, faults, restarts>>

(* An ended table stays out once RematchWindow is over.                        *)
LoadSkipped ==
    /\ proc = "down" /\ db.table.state = "ended" /\ proc' = "up"
    /\ UNCHANGED <<t, stage, queue, tries, rowID, db, purge, lost, gaveUp, commands, faults, restarts>>

-------------------------------------------------------------------------------
(* Registry.Delete: off the registry unless the table runs, then Stop, then    *)
(* the rows, once the queue is drained.  Both wait for the request's context:  *)
(* when that ends first the table is off the registry and its rows stay.       *)

DeleteListed ==
    /\ "delete" \in Commands /\ proc = "up" /\ stage = "live" /\ t.state # "running"
    /\ stage' = "deleting"
    /\ UNCHANGED <<proc, t, queue, tries, rowID, db, purge, lost, gaveUp, commands, faults, restarts>>

DeleteStop ==
    /\ proc = "up" /\ stage = "deleting" /\ stage' = "stopped"
    /\ UNCHANGED <<proc, t, queue, tries, rowID, db, purge, lost, gaveUp, commands, faults, restarts>>

DeleteRows ==
    /\ proc = "up" /\ stage = "stopped" /\ queue = <<>> /\ stage' = "gone"
    /\ db' = [NoRows EXCEPT !.results = db.results]
    /\ UNCHANGED <<proc, t, queue, tries, rowID, purge, lost, gaveUp, commands, faults, restarts>>

DeleteAborted ==
    /\ proc = "up" /\ stage = "stopped" /\ stage' = "gone"
    /\ UNCHANGED <<proc, t, queue, tries, rowID, db, purge, lost, gaveUp, commands, faults, restarts>>

(* Retention: the table is selected because it ended, then its hands deleted.  *)
PurgeSelect ==
    /\ "purge" \in Commands /\ proc = "up" /\ ~purge /\ db.table.state = "ended" /\ purge' = TRUE
    /\ UNCHANGED <<proc, t, stage, queue, tries, rowID, db, lost, gaveUp, commands, faults, restarts>>
PurgeDelete ==
    /\ purge /\ purge' = FALSE /\ db' = [db EXCEPT !.hands = <<>>]
    /\ UNCHANGED <<proc, t, stage, queue, tries, rowID, lost, gaveUp, commands, faults, restarts>>

-------------------------------------------------------------------------------
(* Registry.Create: the rows first, then the actor.                            *)
Init ==
    /\ proc = "up" /\ t \in {NewTable(s) : s \in Settings} /\ stage = "live"
    /\ queue = <<>> /\ tries = 0 /\ rowID = None
    /\ db = [NoRows EXCEPT !.settings = t.settings, !.table = [state |-> "waiting", hands |-> 0]]
    /\ purge = FALSE /\ lost = FALSE /\ gaveUp = FALSE /\ commands = 0 /\ faults = 0 /\ restarts = 0

Next ==
    \/ Command \/ Persister
    \/ Crash \/ Shutdown \/ ShutdownEnds \/ LoadAll \/ LoadSkipped
    \/ DeleteListed \/ DeleteStop \/ DeleteRows \/ DeleteAborted
    \/ PurgeSelect \/ PurgeDelete

Spec == Init /\ [][Next]_vars

-------------------------------------------------------------------------------
(* Properties.                                                                 *)

(* Rows and memory have their types, and the persister is within its limits.   *)
TypeOK ==
    /\ proc \in {"up", "down"} /\ stage \in Stages
    /\ t.hand \in {"none", "playing", "result"} /\ t.inHand \subseteq Players
    /\ \A p \in Players : db.players[p] = NoRow \/ db.players[p] \in PlayerRow
    /\ db.table = NoTable \/ db.table \in TableRow
    /\ Len(queue) <= QueueCap /\ tries \in 0 .. Attempts - 1
    /\ rowID \in 0 .. MaxHands /\ {lost, purge} \subseteq BOOLEAN

(* A hand's row holds the events and results of that hand: whatever was given  *)
(* up, retried or lost in a crash, FinishHand never writes to another hand's   *)
(* row (persist.go:11-13).                                                     *)
HandRowsOwnOutcome == \A n \in DOMAIN db.hands : db.hands[n].of \in {None, n}

(* What every command changes of a row it also stores: with the queue drained  *)
(* and no job given up, the rows show what the actor knows, and the only open hand *)
(* is the one being played.                                                    *)
StoreCatchesUp ==
    (Running /\ queue = <<>> /\ ~lost) =>
        /\ db.table = [state |-> t.state, hands |-> t.hands]
        /\ \A p \in Players : t.status[p] # "none" =>
              db.players[p] = [seat |-> t.seat[p], stack |-> t.stack[p], status |-> t.status[p]]
        /\ \A n \in DOMAIN db.hands : db.hands[n].open <=> (t.hand = "playing" /\ n = t.hands)

(* Wherever a crash cuts the queue, no two players are restored into one seat  *)
(* (LoadAll would lose one of them).  A job given up may break this.           *)
RestoredSeatsDistinct ==
    ~gaveUp => \A p, q \in Back : p # q => db.players[p].seat # db.players[q].seat

(* A hand counts once in a profile's record, however often its job is retried. *)
CountedOnce == ~gaveUp => IsInjective(db.results)

(* What the rows promise whatever crash cuts the queue.                        *)
RowsAreSound == TypeOK /\ RestoredSeatsDistinct /\ CountedOnce

=============================================================================
