--------------------------- MODULE TableSeatsProofs ---------------------------
(* Proofs about TableSeats: nobody has two seats and no seat two players, the  *)
(* hand keeps the seats it was dealt to, who moves posts, moves are apart, and *)
(* what the host has set holds, for all players, seats and settings.           *)
EXTENDS TableSeats, WellFoundedInduction, TLAPS

-------------------------------------------------------------------------------
(* The invariant.                                                              *)

PlayerType ==
    [status : Statuses \cup {"none"}, seat : Seats \cup {-1}, chips : BOOLEAN,
     pending : Seats \cup {-1}, owes : BOOLEAN, moved : Nat, inHand : BOOLEAN, leaving : BOOLEAN]

TableType ==
    [state : {"waiting", "running", "paused", "ended"}, hand : {"none", "playing", "result"},
     hands : Nat, roundStart : Nat, endAfter : BOOLEAN, button : Seats \cup {-1}, settings : Settings,
     p : [Players -> PlayerType], grants : SUBSET Players, clock : BOOLEAN, held : BOOLEAN]

SeatsType == [Seats -> Players \cup {Nobody}]

(* Each player has one seat, and who sits nowhere else has it.                 *)
Placed(u, ss) ==
    /\ \A q \in Seated(u) : u.p[q].seat \in Seats
    /\ \A s \in Seats : \A q \in Players : ss[s] = q <=> (q \in Seated(u) /\ u.p[q].seat = s)

(* Who waits for a seat owes a blind, and nobody else waits for that seat.     *)
Promised(u) ==
    /\ \A q \in Seated(u) : u.p[q].pending >= 0 => u.p[q].owes
    /\ \A q \in Seated(u) : \A r \in Seated(u) \ {q} :
          u.p[q].pending >= 0 => u.p[q].pending # u.p[r].pending

(* Who sits elsewhere than dealt in last owes a blind; ld is lastDealt.        *)
Posts(u, ld) ==
    /\ \A q \in Seated(u) : (ld[q] >= 0 /\ ld[q] # u.p[q].seat) => u.p[q].owes
    /\ \A q \in Players : u.p[q].status = "none" => ld[q] = -1

Orderly(u, ss, ld) ==
    u \in TableType /\ ss \in SeatsType /\ Placed(u, ss) /\ Promised(u) /\ Posts(u, ld)

(* The hand keeps its seats; d is dealt.                                       *)
HandHeld(u, ss, d) ==
    u.hand = "playing" => \A s \in Seats : d[s] # Nobody => ss[s] = d[s] /\ u.p[d[s]].inHand

(* A table that has ended has no hand, and without one nobody waits to move.   *)
NobodyWaits(u) == \A q \in Seated(u) : u.p[q].pending < 0
Cleared(u) ==
    /\ u.state = "ended" => u.hand = "none"
    /\ u.hand = "none" /\ u.state # "ended" => NobodyWaits(u)

ClockFits(u) == u.state = "running" /\ u.settings.blindsUp => u.clock

Fits(u, ss, d, ld) ==
    /\ Orderly(u, ss, ld)
    /\ HandHeld(u, ss, d)
    /\ Cleared(u)
    /\ ClockFits(u)

(* A player knows when they moved last.                                        *)
Watching == lastMove \in [Players -> Nat] /\ \A q \in Seated(t) : t.p[q].moved = lastMove[q]

SeatsInv ==
    /\ dealt \in SeatsType
    /\ lastDealt \in [Players -> Seats \cup {-1}]
    /\ Fits(t, seats, dealt, lastDealt)
    /\ Watching

-------------------------------------------------------------------------------
(* Steps.                                                                      *)

(* What a player knows of their moves stays right, and a move is Cooldown      *)
(* hands after the one they know of.                                           *)
Noted(u, v) ==
    /\ \A q \in Seated(v) :
          v.p[q].moved = IF q \notin Seated(u) \/ NewRound(u, v) THEN 0
                         ELSE IF Moves(u, v, q) THEN u.hands ELSE u.p[q].moved
    /\ \A q \in Players : Moves(u, v, q) => u.p[q].moved = 0 \/ u.hands - u.p[q].moved >= Cooldown

(* No two players wait for one seat.                                           *)
Apart(v) ==
    \A q \in Players : \A r \in Players \ {q} :
        (q \in Seated(v) /\ r \in Seated(v) /\ v.p[q].pending >= 0) => v.p[q].pending # v.p[r].pending

(* What LockHolds says of a step.                                              *)
Locked(u, v) ==
    (u.settings.tournament /\ u.state # "waiting" /\ v.state # "waiting" /\ u.grants = {} /\ NobodyWaits(u)) =>
        /\ v.settings = u.settings
        /\ \A q \in Seated(u) \cap Seated(v) :
              /\ v.p[q].seat = u.p[q].seat
              /\ (v.p[q].chips /\ ~u.p[q].chips) => u.settings.rebuy

(* Nobody asks to move in the step, and no round begins.                       *)
Unasked(u, v) ==
    /\ \A q \in Seated(u) \cap Seated(v) :
          v.p[q].moved = u.p[q].moved /\ (u.p[q].pending < 0 => v.p[q].pending < 0 /\ v.p[q].seat = u.p[q].seat)
    /\ \A q \in Seated(v) \ Seated(u) : v.p[q].moved = 0
    /\ ~NewRound(u, v)

(* And no hand is dealt.                                                       *)
Calm(u, v) == v.hands = u.hands /\ Unasked(u, v)

(* A step that deals no hand and in which nobody asks to move.                 *)
Quiet(u, v) == Calm(u, v) /\ Locked(u, v)

(* All but the players is as it was.                                           *)
SameTable(v, u) ==
    /\ v.state = u.state /\ v.hand = u.hand /\ v.hands = u.hands /\ v.roundStart = u.roundStart
    /\ v.endAfter = u.endAfter /\ v.button = u.button /\ v.settings = u.settings
    /\ v.grants = u.grants /\ v.clock = u.clock /\ v.held = u.held

(* Nothing changes but chips and who plays.                                    *)
Alike(v, u) ==
    \A q \in Players :
        /\ (q \in Seated(v)) <=> (q \in Seated(u))
        /\ (v.p[q].status = "none") <=> (u.p[q].status = "none")
        /\ v.p[q].seat = u.p[q].seat /\ v.p[q].pending = u.p[q].pending
        /\ v.p[q].owes = u.p[q].owes /\ v.p[q].moved = u.p[q].moved

LEMMA AlikeKeeps ==
    ASSUME NEW u, NEW v \in TableType, NEW ss, NEW ld, Orderly(u, ss, ld), Alike(v, u)
    PROVE  /\ Orderly(v, ss, ld)
           /\ NobodyWaits(u) <=> NobodyWaits(v)
           /\ Seated(v) = Seated(u)
<1>1. Seated(v) = Seated(u) /\ Seated(u) \subseteq Players
    BY DEF Alike, Seated
<1>2. Placed(v, ss) /\ Promised(v) /\ Posts(v, ld)
    BY <1>1 DEF Orderly, Placed, Promised, Posts, Alike
<1> QED BY <1>1, <1>2 DEF Orderly, NobodyWaits, Alike

(* Somebody's seat is in the range of seats.                                   *)
LEMMA SeatsAreInts == Seats \subseteq Int /\ -1 \notin Seats /\ \A s \in Seats : s >= 0
BY SeatsAssumption DEF Seats

LEMMA PlayerIn ==
    ASSUME NEW u \in TableType, NEW q \in Players
    PROVE  /\ u.p[q] \in PlayerType /\ u.p[q].pending \in Int /\ u.p[q].seat \in Int
           /\ u.p[q].pending < 0 => u.p[q].pending = -1
           /\ ~(u.p[q].pending < 0) => u.p[q].pending >= 0 /\ u.p[q].pending \in Seats
<1>1. u.p[q] \in PlayerType
    BY DEF TableType
<1>2. u.p[q].pending \in Seats \cup {-1} /\ u.p[q].seat \in Seats \cup {-1}
    BY <1>1 DEF PlayerType
<1>3. \A x \in Seats \cup {-1} : x \in Int /\ (x < 0 => x = -1) /\ (~(x < 0) => x >= 0 /\ x \in Seats)
    BY SeatsAssumption DEF Seats
<1> QED BY <1>1, <1>2, <1>3

-------------------------------------------------------------------------------
(* Leaving.                                                                    *)

LEMMA FreedType ==
    ASSUME NEW u \in TableType, NEW qs
    PROVE  FreedPlayers(u, qs) \in TableType /\ SameTable(FreedPlayers(u, qs), u)
<1>1. PICK P : P = [q \in Players |-> IF q \in qs THEN [u.p[q] EXCEPT !.status = "left", !.inHand = FALSE] ELSE u.p[q]]
    OBVIOUS
<1>2. \A q \in Players : u.p[q] \in PlayerType
    BY DEF TableType
<1>3. ASSUME NEW q \in Players PROVE P[q] \in PlayerType
    BY <1>1, <1>2 DEF PlayerType, Statuses
<1>4. P \in [Players -> PlayerType]
    BY <1>1, <1>3
<1>5. FreedPlayers(u, qs) = [u EXCEPT !.p = P]
    BY <1>1 DEF FreedPlayers
<1> QED BY <1>4, <1>5 DEF TableType, SameTable

LEMMA FreedKeeps ==
    ASSUME NEW u, NEW ss, NEW ld, Orderly(u, ss, ld), NEW qs \in SUBSET Seated(u),
           NEW w \in TableType, w.p = FreedPlayers(u, qs).p
    PROVE  /\ Orderly(w, FreedSeats(u, ss, qs), ld)
           /\ Seated(w) = Seated(u) \ qs
           /\ \A q \in Seated(w) : w.p[q] = u.p[q]
<1>1. u \in TableType /\ ss \in SeatsType /\ Seated(u) \subseteq Players
    BY DEF Orderly, Seated
<1>2. \A q \in Players : w.p[q] = IF q \in qs THEN [u.p[q] EXCEPT !.status = "left", !.inHand = FALSE] ELSE u.p[q]
    BY <1>1 DEF FreedPlayers, TableType
<1>3. \A q \in Players : u.p[q] \in PlayerType
    BY <1>1 DEF TableType
<1>4. ASSUME NEW q \in qs PROVE w.p[q].status = "left" /\ q \in Players
    <2>1. q \in Players /\ u.p[q] \in PlayerType
        BY <1>1, <1>3
    <2>2. w.p[q] = [u.p[q] EXCEPT !.status = "left", !.inHand = FALSE]
        BY <1>2, <2>1
    <2> QED BY <2>1, <2>2 DEF PlayerType
<1>5. Seated(w) = Seated(u) \ qs
    BY <1>1, <1>2, <1>4 DEF Seated, Statuses
<1>6. \A q \in Seated(w) : w.p[q] = u.p[q] /\ q \in Players
    BY <1>1, <1>2, <1>5
<1>7. Promised(w)
    BY <1>5, <1>6 DEF Promised, Orderly
<1>8. Posts(w, ld)
    <2>1. \A q \in Players : w.p[q].status = "none" => u.p[q].status = "none"
        BY <1>2, <1>4
    <2> QED BY <1>5, <1>6, <2>1 DEF Posts, Orderly
<1>9. FreedSeats(u, ss, qs) \in SeatsType
    BY <1>1 DEF FreedSeats, SeatsType
<1>10. Placed(w, FreedSeats(u, ss, qs))
    <2>1. \A q \in Seated(w) : w.p[q].seat \in Seats
        BY <1>5, <1>6 DEF Placed, Orderly
    <2>2. ASSUME NEW s \in Seats, NEW q \in Players
          PROVE  FreedSeats(u, ss, qs)[s] = q <=> (q \in Seated(w) /\ w.p[q].seat = s)
        <3>1. FreedSeats(u, ss, qs)[s] = IF \E r \in qs : u.p[r].seat = s THEN Nobody ELSE ss[s]
            BY DEF FreedSeats
        <3>2. q # Nobody
            BY SeatsAssumption
        <3>3. \A r \in Players : ss[s] = r <=> (r \in Seated(u) /\ u.p[r].seat = s)
            BY DEF Orderly, Placed
        <3> QED BY <1>1, <1>5, <1>6, <3>1, <3>2, <3>3
    <2> QED BY <2>1, <2>2 DEF Placed
<1> QED BY <1>5, <1>6, <1>7, <1>8, <1>9, <1>10 DEF Orderly

-------------------------------------------------------------------------------
(* Moves.                                                                      *)

(* All but the seat and the wait for one is as it was.                         *)
SamePlayer(x, y) ==
    /\ x.status = y.status /\ x.chips = y.chips /\ x.owes = y.owes /\ x.moved = y.moved
    /\ x.inHand = y.inHand /\ x.leaving = y.leaving
    /\ y.pending < 0 => x.pending < 0 /\ x.seat = y.seat

LEMMA MoveKeeps ==
    ASSUME NEW u, NEW ss, NEW ld, Orderly(u, ss, ld), NEW q \in Seated(u), u.p[q].pending >= 0,
           NEW c, c = ApplySeatChange([t |-> u, ss |-> ss], q)
    PROVE  /\ c \in [t : TableType, ss : SeatsType]
           /\ Orderly(c.t, c.ss, ld) /\ SameTable(c.t, u)
           /\ SamePlayer(c.t.p[q], u.p[q]) /\ c.t.p[q].pending = -1
           /\ MayMove(u, ss, q) => c.t.p[q].seat = u.p[q].pending
           /\ \A r \in Players \ {q} : c.t.p[r] = u.p[r]
           /\ \A s \in Seats : ss[s] \notin {q, Nobody} => c.ss[s] = ss[s]
           /\ \A s \in Seats : ss[s] # Nobody => c.ss[s] \in {ss[s], Nobody}
<1> DEFINE to == u.p[q].pending
           asked == [u EXCEPT !.p[q].pending = -1]
<1>1. /\ u \in TableType /\ ss \in SeatsType /\ q \in Players
      /\ u.p \in [Players -> PlayerType] /\ u.p[q] \in PlayerType
    BY DEF Orderly, Seated, TableType
<1>2. u.p[q].seat \in Seats /\ to \in Seats
    BY <1>1, SeatsAreInts DEF Orderly, Placed, PlayerType
<1>3. /\ asked \in TableType /\ SameTable(asked, u)
      /\ asked.p = [u.p EXCEPT ![q] = [u.p[q] EXCEPT !.pending = -1]]
    BY <1>1 DEF TableType, PlayerType, SameTable
<1>4. PICK x : x = [u.p[q] EXCEPT !.pending = -1]
    OBVIOUS
<1>5. x \in PlayerType /\ SamePlayer(x, u.p[q]) /\ x.pending = -1 /\ x.seat = u.p[q].seat
    BY <1>1, <1>4 DEF PlayerType, SamePlayer
<1>6. asked.p[q] = x /\ \A r \in Players \ {q} : asked.p[r] = u.p[r]
    BY <1>1, <1>3, <1>4
<1> HIDE DEF asked
<1>7. CASE ~MayMove(u, ss, q)
    <2>1. c = [[t |-> u, ss |-> ss] EXCEPT !.t = asked]
        BY <1>7 DEF ApplySeatChange, asked
    <2>2. c = [t |-> asked, ss |-> ss]
        BY <2>1
    <2>3. Seated(asked) = Seated(u) /\ Seated(u) \subseteq Players
        BY <1>5, <1>6 DEF Seated, SamePlayer
    <2>4. Placed(asked, ss)
        BY <1>5, <1>6, <2>3 DEF Placed, Orderly
    <2>5. Promised(asked)
        BY <1>5, <1>6, <2>3, SeatsAreInts DEF Promised, Orderly
    <2>6. Posts(asked, ld)
        BY <1>5, <1>6, <2>3 DEF Posts, Orderly, SamePlayer
    <2> QED BY <1>1, <1>3, <1>5, <1>6, <1>7, <2>2, <2>4, <2>5, <2>6 DEF Orderly
<1>8. CASE MayMove(u, ss, q)
    <2> DEFINE v == [asked EXCEPT !.p[q].seat = to]
               ws == [ss EXCEPT ![u.p[q].seat] = Nobody, ![to] = q]
    <2>1. c = [t |-> v, ss |-> ws]
        BY <1>8 DEF ApplySeatChange, asked
    <2>2. PICK y : y = [x EXCEPT !.seat = to]
        OBVIOUS
    <2>3. y \in PlayerType /\ SamePlayer(y, u.p[q]) /\ y.pending = -1 /\ y.seat = to
        <3>1. ~(u.p[q].pending < 0)
            <4>1. u.p[q].pending >= 0 /\ u.p[q].pending \in Int
                BY <1>2, SeatsAreInts
            <4> QED BY <4>1
        <3> QED BY <1>2, <1>5, <2>2, <3>1 DEF PlayerType, SamePlayer
    <2>4. v \in TableType /\ SameTable(v, u) /\ v.p = [asked.p EXCEPT ![q] = [asked.p[q] EXCEPT !.seat = to]]
        BY <1>1, <1>2, <1>3, <1>5, <1>6 DEF TableType, PlayerType, SameTable
    <2>5. v.p[q] = y /\ \A r \in Players \ {q} : v.p[r] = u.p[r]
        BY <1>1, <1>3, <1>6, <2>2, <2>4 DEF TableType
    <2>6. ws \in SeatsType /\ ss[to] = Nobody /\ ss[u.p[q].seat] = q /\ q # Nobody
        BY <1>1, <1>2, <1>8, SeatsAssumption DEF SeatsType, MayMove, Orderly, Placed
    <2>7. \A s \in Seats : ws[s] = IF s = to THEN q ELSE IF s = u.p[q].seat THEN Nobody ELSE ss[s]
        BY <1>1, <1>2 DEF SeatsType
    <2> HIDE DEF v, ws
    <2>8. Seated(v) = Seated(u) /\ Seated(u) \subseteq Players
        BY <2>3, <2>5 DEF Seated, SamePlayer
    <2>9. Placed(v, ws)
        <3>1. \A r \in Seated(v) : v.p[r].seat \in Seats
            BY <1>2, <2>3, <2>5, <2>8 DEF Placed, Orderly
        <3>2. ASSUME NEW s \in Seats, NEW r \in Players
              PROVE  ws[s] = r <=> (r \in Seated(v) /\ v.p[r].seat = s)
            <4>1. ss[s] = r <=> (r \in Seated(u) /\ u.p[r].seat = s)
                BY DEF Orderly, Placed
            <4>2. CASE r = q
                BY <1>1, <1>2, <2>3, <2>5, <2>6, <2>7, <2>8, <4>1, <4>2
            <4>3. CASE r # q
                BY <1>1, <1>2, <2>5, <2>6, <2>7, <2>8, <4>1, <4>3, SeatsAssumption
            <4> QED BY <4>2, <4>3
        <3> QED BY <3>1, <3>2 DEF Placed
    <2>10. Promised(v)
        BY <2>3, <2>5, <2>8, SeatsAreInts DEF Promised, Orderly
    <2>11. Posts(v, ld)
        BY <2>3, <2>5, <2>8 DEF Posts, Orderly, Promised, SamePlayer
    <2>12. \A s \in Seats : /\ ss[s] \notin {q, Nobody} => ws[s] = ss[s]
                            /\ ss[s] # Nobody => ws[s] \in {ss[s], Nobody}
        BY <1>1, <1>2, <2>6, <2>7
    <2>13. c.t = v /\ c.ss = ws /\ c \in [t : TableType, ss : SeatsType]
        BY <2>1, <2>4, <2>6
    <2>14. Orderly(v, ws, ld)
        BY <2>4, <2>6, <2>9, <2>10, <2>11 DEF Orderly
    <2>15. SamePlayer(c.t.p[q], u.p[q]) /\ c.t.p[q].pending = -1 /\ c.t.p[q].seat = u.p[q].pending
        BY <2>3, <2>5, <2>13
    <2>16. Orderly(c.t, c.ss, ld) /\ SameTable(c.t, u)
        BY <2>4, <2>13, <2>14
    <2>17. \A r \in Players \ {q} : c.t.p[r] = u.p[r]
        BY <2>5, <2>13
    <2>18. \A s \in Seats : /\ ss[s] \notin {q, Nobody} => c.ss[s] = ss[s]
                            /\ ss[s] # Nobody => c.ss[s] \in {ss[s], Nobody}
        BY <2>12, <2>13
    <2>19. \A s \in Seats : ss[s] \notin {q, Nobody} => c.ss[s] = ss[s]
        BY <2>18
    <2>20. \A s \in Seats : ss[s] # Nobody => c.ss[s] \in {ss[s], Nobody}
        BY <2>18
    <2> QED BY <2>13, <2>15, <2>16, <2>17, <2>19, <2>20, Zenon
<1> QED BY <1>7, <1>8

(* One seat of applyPendingSeatChanges.                                        *)
AtSeat(at, s) == IF WaitsAt(at, s) THEN ApplySeatChange(at, at.ss[s]) ELSE at

(* The moves of u below the seat n are made.                                   *)
Passed(at, n, u, ss, ld) ==
    /\ at \in [t : TableType, ss : SeatsType]
    /\ Orderly(at.t, at.ss, ld) /\ SameTable(at.t, u)
    /\ \A q \in Players : SamePlayer(at.t.p[q], u.p[q])
    /\ \A q \in Seated(at.t) : at.t.p[q].seat < n => at.t.p[q].pending < 0
    /\ NobodyWaits(u) => at = [t |-> u, ss |-> ss]

LEMMA SeatPassed ==
    ASSUME NEW u, NEW ss, NEW ld, NEW n \in Seats, NEW at, Passed(at, n, u, ss, ld)
    PROVE  Passed(AtSeat(at, n), n + 1, u, ss, ld)
<1>1. /\ at \in [t : TableType, ss : SeatsType] /\ at = [t |-> at.t, ss |-> at.ss]
      /\ Orderly(at.t, at.ss, ld) /\ Seated(at.t) \subseteq Players
    BY DEF Passed, Seated
<1>2. /\ \A q \in Seated(at.t) : at.t.p[q].seat \in Seats
      /\ \A q \in Players : at.ss[n] = q <=> (q \in Seated(at.t) /\ at.t.p[q].seat = n)
      /\ at.ss[n] \in Players \cup {Nobody}
    BY <1>1 DEF Orderly, Placed, SeatsType
<1>3. \A q \in Seated(at.t) : at.t.p[q].seat < n => at.t.p[q].pending < 0
    BY DEF Passed
<1>4. CASE ~WaitsAt(at, n)
    <2>1. AtSeat(at, n) = at
        BY <1>4 DEF AtSeat
    <2>2. at.ss[n] = Nobody \/ ~(at.t.p[at.ss[n]].pending >= 0)
        BY <1>4 DEF WaitsAt
    <2>3. \A q \in Seated(at.t) : at.t.p[q].pending < 0 \/ at.t.p[q].pending >= 0
        BY <1>1, PlayerIn
    <2>4. \A q \in Seated(at.t) : at.t.p[q].seat = n => at.t.p[q].pending < 0
        BY <1>1, <1>2, <2>2, <2>3, SeatsAssumption
    <2>5. \A q \in Seated(at.t) : at.t.p[q].seat < n + 1 => at.t.p[q].pending < 0
        <3>1. ASSUME NEW q \in Seated(at.t), at.t.p[q].seat < n + 1 PROVE at.t.p[q].pending < 0
            <4>1. at.t.p[q].seat \in Int /\ n \in Int
                BY <1>2, SeatsAreInts
            <4>2. at.t.p[q].seat < n \/ at.t.p[q].seat = n
                BY <3>1, <4>1
            <4> QED BY <1>3, <2>4, <4>2
        <3> QED BY <3>1
    <2> QED BY <2>1, <2>5 DEF Passed
<1>5. CASE WaitsAt(at, n)
    <2>1. PICK q \in Seated(at.t) : at.ss[n] = q /\ at.t.p[q].seat = n /\ at.t.p[q].pending >= 0
        BY <1>2, <1>5 DEF WaitsAt
    <2>2. PICK c : c = ApplySeatChange([t |-> at.t, ss |-> at.ss], q)
        OBVIOUS
    <2>3. AtSeat(at, n) = c
        BY <1>1, <1>5, <2>1, <2>2 DEF AtSeat
    <2>4. /\ c \in [t : TableType, ss : SeatsType]
          /\ Orderly(c.t, c.ss, ld) /\ SameTable(c.t, at.t)
          /\ SamePlayer(c.t.p[q], at.t.p[q]) /\ c.t.p[q].pending = -1
          /\ \A r \in Players \ {q} : c.t.p[r] = at.t.p[r]
        BY <1>1, <2>1, <2>2, MoveKeeps
    <2>5. \A r \in Players : SamePlayer(c.t.p[r], u.p[r])
        BY <2>4 DEF Passed, SamePlayer
    <2>6. Seated(c.t) = Seated(at.t)
        BY <1>1, <2>4 DEF Seated, SamePlayer
    <2>7. ASSUME NEW r \in Seated(c.t), c.t.p[r].seat < n + 1 PROVE c.t.p[r].pending < 0
        <3>1. CASE r = q
            BY <2>4, <3>1
        <3>2. CASE r # q
            <4>1. c.t.p[r] = at.t.p[r] /\ r \in Seated(at.t) /\ r \in Players
                BY <1>1, <2>4, <2>6, <3>2
            <4>2. at.t.p[r].seat # n
                BY <1>2, <2>1, <3>2, <4>1
            <4>3. at.t.p[r].seat < n
                <5>1. at.t.p[r].seat \in Seats /\ at.t.p[r].seat < n + 1
                    BY <1>2, <2>7, <4>1
                <5>2. at.t.p[r].seat \in Int /\ n \in Int
                    BY <5>1, SeatsAreInts
                <5> QED BY <4>2, <5>1, <5>2
            <4> QED BY <1>3, <4>1, <4>3
        <3> QED BY <3>1, <3>2
    <2>8. ~NobodyWaits(u)
        <3>1. SUFFICES ASSUME NobodyWaits(u) PROVE FALSE
            OBVIOUS
        <3>2. at.t = u
            BY <3>1 DEF Passed
        <3>3. at.t.p[q].pending < 0 /\ at.t.p[q].pending \in Int
            BY <1>1, <2>1, <3>1, <3>2, PlayerIn DEF NobodyWaits
        <3> QED BY <2>1, <3>3
    <2>9. SameTable(c.t, u)
        BY <2>4 DEF SameTable, Passed
    <2> QED BY <2>3, <2>4, <2>5, <2>7, <2>8, <2>9 DEF Passed
<1> QED BY <1>4, <1>5

(* Induction up to n, with the property given as the set of those that have it.*)
LEMMA Climb ==
    ASSUME NEW n \in Nat, NEW M, 0 \in M, \A k \in 0 .. (n - 1) : k \in M => k + 1 \in M
    PROVE  0 .. n \subseteq M
<1> DEFINE R == {k \in 0 .. n : k \notin M}
           Less == OpToRel(<, Nat)
<1>1. SUFFICES ASSUME R # {} PROVE FALSE
    OBVIOUS
<1>2. R \subseteq Nat
    OBVIOUS
<1>3. PICK k \in R : \A j \in R : <<j, k>> \notin Less
    <2>1. IsWellFoundedOn(Less, Nat)
        BY NatLessThanWellFounded
    <2> HIDE DEF R, Less
    <2> QED BY <1>1, <1>2, <2>1, WFMin
<1>4. k \in 1 .. n /\ k - 1 \in 0 .. (n - 1) /\ k - 1 + 1 = k
    OBVIOUS
<1>5. <<k - 1, k>> \in Less
    BY <1>4 DEF OpToRel
<1>6. k - 1 \notin R
    BY <1>3, <1>5
<1> QED BY <1>4, <1>6

(* applyPendingSeatChanges: the loop has a result for every number of seats.   *)
LEMMA MovesKeep ==
    ASSUME NEW u, NEW ss, NEW ld, Orderly(u, ss, ld), NEW c, c = ApplyPendingSeatChanges(u, ss)
    PROVE  /\ Orderly(c.t, c.ss, ld) /\ SameTable(c.t, u)
           /\ \A q \in Players : SamePlayer(c.t.p[q], u.p[q])
           /\ NobodyWaits(c.t)
           /\ NobodyWaits(u) => c.t = u /\ c.ss = ss
<1> DEFINE N == MaxSeats
           Row(f, m) == [n \in 0 .. m |-> IF n = 0 THEN [t |-> u, ss |-> ss] ELSE AtSeat(f[n - 1], n - 1)]
           M == {m \in 0 .. N : \E f : f = Row(f, m)}
           after == CHOOSE f : f = Row(f, N)
           Good == {m \in 0 .. N : Passed(after[m], m, u, ss, ld)}
<1>1. N \in Nat /\ \A k \in 0 .. (N - 1) : k \in Seats
    BY SeatsAssumption DEF Seats
<1>2. c = after[N]
    BY DEF ApplyPendingSeatChanges, AtSeat
<1>3. 0 .. N \subseteq M
    <2>1. 0 \in M
        <3>1. PICK f : f = [n \in 0 .. 0 |-> [t |-> u, ss |-> ss]]
            OBVIOUS
        <3>2. f = Row(f, 0)
            BY <3>1
        <3> QED BY <1>1, <3>2
    <2>2. ASSUME NEW k \in 0 .. (N - 1), k \in M PROVE k + 1 \in M
        <3>1. PICK f : f = Row(f, k)
            BY <2>2
        <3>2. PICK e : e = [n \in 0 .. (k + 1) |-> IF n <= k THEN f[n] ELSE AtSeat(f[k], k)]
            OBVIOUS
        <3>3. ASSUME NEW n \in 0 .. (k + 1)
              PROVE  e[n] = IF n = 0 THEN [t |-> u, ss |-> ss] ELSE AtSeat(e[n - 1], n - 1)
            <4>1. CASE n = 0
                BY <3>1, <3>2, <4>1
            <4>2. CASE n \in 1 .. k
                BY <3>1, <3>2, <4>2
            <4>3. CASE n = k + 1
                BY <3>1, <3>2, <4>3
            <4> QED BY <4>1, <4>2, <4>3
        <3>4. e = Row(e, k + 1)
            BY <3>2, <3>3
        <3> QED BY <1>1, <3>4
    <2> HIDE DEF M
    <2> QED BY <1>1, <2>1, <2>2, Climb
<1>4. after = Row(after, N)
    <2>1. \E f : f = Row(f, N)
        BY <1>1, <1>3
    <2> HIDE DEF Row
    <2> QED BY <2>1
<1> HIDE DEF after
<1>5. 0 .. N \subseteq Good
    <2>1. 0 \in Good
        <3>1. after[0] = [t |-> u, ss |-> ss]
            BY <1>1, <1>4
        <3>2. u \in TableType /\ ss \in SeatsType
            BY DEF Orderly
        <3>3. \A q \in Seated(u) : ~(u.p[q].seat < 0)
            <4>1. \A q \in Seated(u) : u.p[q].seat \in Seats
                BY DEF Orderly, Placed
            <4>2. \A r \in Seats : ~(r < 0)
                BY SeatsAreInts
            <4> QED BY <4>1, <4>2
        <3>4. Passed(after[0], 0, u, ss, ld)
            BY <3>1, <3>2, <3>3 DEF Passed, SameTable, SamePlayer
        <3> QED BY <1>1, <3>4
    <2>2. ASSUME NEW k \in 0 .. (N - 1), k \in Good PROVE k + 1 \in Good
        <3>1. after[k + 1] = AtSeat(after[k], k)
            BY <1>1, <1>4
        <3>2. Passed(after[k + 1], k + 1, u, ss, ld)
            BY <1>1, <2>2, <3>1, SeatPassed
        <3> QED BY <1>1, <3>2
    <2> HIDE DEF Good
    <2> QED BY <1>1, <2>1, <2>2, Climb
<1>6. Passed(c, N, u, ss, ld)
    BY <1>1, <1>2, <1>5
<1>7. \A q \in Seated(c.t) : c.t.p[q].seat < N
    BY <1>1, <1>6, SeatsAssumption DEF Passed, Orderly, Placed, Seats
<1> QED BY <1>6, <1>7 DEF Passed, NobodyWaits

-------------------------------------------------------------------------------
(* Commands that change neither seats nor moves.                               *)

LEMMA AlikeStep ==
    ASSUME NEW u, NEW v \in TableType, NEW ss, NEW d, NEW ld, Fits(u, ss, d, ld), Alike(v, u),
           v.hand = u.hand \/ (u.hand = "playing" /\ v.hand = "result"),
           v.state = "ended" <=> u.state = "ended",
           v.hand = "playing" => \A q \in Players : v.p[q].inHand = u.p[q].inHand,
           d \in SeatsType, ClockFits(v)
    PROVE  Fits(v, ss, d, ld)
<1>1. Orderly(v, ss, ld) /\ (NobodyWaits(u) <=> NobodyWaits(v))
    BY AlikeKeeps DEF Fits
<1>2. HandHeld(v, ss, d)
    BY DEF Fits, HandHeld, SeatsType
<1>3. Cleared(v)
    BY <1>1 DEF Fits, Cleared
<1> QED BY <1>1, <1>2, <1>3 DEF Fits

(* Nothing that a tournament locks changes.                                    *)
Unlocked(v, u) ==
    /\ Alike(v, u) /\ v.settings = u.settings /\ v.grants = u.grants
    /\ v.state = u.state /\ v.hand = u.hand /\ v.hands = u.hands
    /\ \A q \in Players : v.p[q].chips = u.p[q].chips

(* A quiet step that began with such a change is quiet.                        *)
LEMMA QuietAfter ==
    ASSUME NEW u, NEW v, NEW w, Unlocked(v, u), Quiet(v, w)
    PROVE  Quiet(u, w)
<1>1. Seated(v) = Seated(u) /\ Seated(u) \subseteq Players
    BY DEF Unlocked, Alike, Seated
<1>2. NobodyWaits(u) <=> NobodyWaits(v)
    BY <1>1 DEF NobodyWaits, Unlocked, Alike
<1>3. Calm(u, w)
    BY <1>1 DEF Calm, Unasked, NewRound, Quiet, Unlocked, Alike
<1>4. Locked(u, w)
    BY <1>1, <1>2 DEF Locked, Quiet, Unlocked, Alike
<1> QED BY <1>3, <1>4 DEF Quiet

LEMMA UnlockedIsQuiet ==
    ASSUME NEW u, NEW v, Unlocked(v, u)
    PROVE  Quiet(u, v)
BY DEF Unlocked, Alike, Quiet, Calm, Unasked, NewRound, Locked, Seated

(* Whoever waits for a seat waits alone.                                       *)
LEMMA OrderlyIsApart ==
    ASSUME NEW v, NEW ss, NEW ld, Orderly(v, ss, ld)
    PROVE  Apart(v)
BY DEF Orderly, Promised, Apart

LEMMA UnaskedIsNoted ==
    ASSUME NEW u, NEW v, Unasked(u, v)
    PROVE  Noted(u, v)
<1>1. \A q : ~Moves(u, v, q)
    BY DEF Unasked, Moves
<1> QED BY <1>1 DEF Unasked, Noted

(* One player gets other values.                                               *)
LEMMA PlayerSet ==
    ASSUME NEW u \in TableType, NEW q \in Players, NEW x \in PlayerType, NEW v, v = [u EXCEPT !.p[q] = x]
    PROVE  /\ v \in TableType /\ SameTable(v, u)
           /\ v.p[q] = x
           /\ \A r \in Players \ {q} : v.p[r] = u.p[r]
BY DEF TableType, SameTable

(* Chips are granted.                                                          *)
LEMMA GrantedFacts ==
    ASSUME NEW u \in TableType, NEW qs \in SUBSET Seated(u)
    PROVE  /\ Granted(u, qs) \in TableType /\ SameTable(Granted(u, qs), u) /\ Alike(Granted(u, qs), u)
           /\ \A q \in Players : /\ Granted(u, qs).p[q].inHand = u.p[q].inHand
                                 /\ q \notin qs => Granted(u, qs).p[q] = u.p[q]
<1>1. PICK P : P = [q \in Players |->
                       IF q \notin qs THEN u.p[q]
                       ELSE [u.p[q] EXCEPT !.chips = TRUE, !.status = IF @ = "busted" THEN "active" ELSE @]]
    OBVIOUS
<1>2. \A q \in Players : u.p[q] \in PlayerType
    BY DEF TableType
<1>3. ASSUME NEW q \in Players
      PROVE  /\ P[q] \in PlayerType /\ P[q].inHand = u.p[q].inHand /\ (q \notin qs => P[q] = u.p[q])
             /\ P[q].seat = u.p[q].seat /\ P[q].pending = u.p[q].pending
             /\ P[q].owes = u.p[q].owes /\ P[q].moved = u.p[q].moved
             /\ (P[q].status = u.p[q].status \/ (q \in qs /\ P[q].status = "active"))
    BY <1>1, <1>2 DEF PlayerType, Statuses
<1>4. P \in [Players -> PlayerType]
    BY <1>1, <1>3
<1>5. Granted(u, qs) = [u EXCEPT !.p = P]
    BY <1>1 DEF Granted
<1>6. Granted(u, qs) \in TableType /\ SameTable(Granted(u, qs), u) /\ Granted(u, qs).p = P
    BY <1>4, <1>5 DEF TableType, SameTable
<1>7. PICK v : v = Granted(u, qs)
    OBVIOUS
<1>8. Alike(v, u)
    BY <1>3, <1>6, <1>7 DEF Alike, Seated, Statuses
<1> QED BY <1>3, <1>6, <1>7, <1>8

(* What a command that deals no hand has to show.                              *)
StepTo(v, ss) == Fits(v, ss, dealt, lastDealt) /\ Quiet(t, v)

(* One player's chips, status or leave change.                                 *)
LEMMA PlayerChanges ==
    ASSUME SeatsInv, NEW q \in Seated(t), NEW x \in PlayerType, x.status \in Statuses \ {"left"},
           x.seat = t.p[q].seat, x.pending = t.p[q].pending, x.owes = t.p[q].owes, x.moved = t.p[q].moved,
           x.inHand = t.p[q].inHand, NEW v, v = [t EXCEPT !.p[q] = x]
    PROVE  /\ Fits(v, seats, dealt, lastDealt)
           /\ Calm(t, v) /\ SameTable(v, t) /\ v \in TableType
           /\ x.chips = t.p[q].chips => Unlocked(v, t)
           /\ (x.chips /\ ~t.p[q].chips => t.settings.rebuy) => Locked(t, v)
<1>1. t \in TableType /\ q \in Players /\ dealt \in SeatsType
    BY DEF SeatsInv, Fits, Orderly, Seated
<1>2. v \in TableType /\ SameTable(v, t) /\ v.p[q] = x /\ \A r \in Players \ {q} : v.p[r] = t.p[r]
    BY <1>1 DEF TableType, SameTable
<1>3. Alike(v, t)
    BY <1>1, <1>2 DEF Alike, Seated, Statuses
<1>4. v.hand = t.hand /\ v.state = t.state /\ \A r \in Players : v.p[r].inHand = t.p[r].inHand
    BY <1>2 DEF SameTable
<1>5. ClockFits(v)
    BY <1>2 DEF SameTable, ClockFits, SeatsInv, Fits
<1>6. Fits(v, seats, dealt, lastDealt)
    <2>1. Fits(t, seats, dealt, lastDealt)
        BY DEF SeatsInv
    <2>2. v.hand = t.hand \/ (t.hand = "playing" /\ v.hand = "result")
        BY <1>4
    <2>3. v.state = "ended" <=> t.state = "ended"
        BY <1>4
    <2>4. v.hand = "playing" => \A r \in Players : v.p[r].inHand = t.p[r].inHand
        BY <1>4
    <2>5. v \in TableType /\ dealt \in SeatsType
        BY <1>1, <1>2
    <2> QED BY <1>3, <1>5, <2>1, <2>2, <2>3, <2>4, <2>5, AlikeStep
<1>7. Calm(t, v)
    BY <1>2, <1>3 DEF Calm, Unasked, NewRound, SameTable, Alike, Seated
<1>8. x.chips = t.p[q].chips => Unlocked(v, t)
    BY <1>2, <1>3 DEF Unlocked, SameTable
<1>9. (x.chips /\ ~t.p[q].chips => t.settings.rebuy) => Locked(t, v)
    BY <1>2, <1>3 DEF Locked, SameTable, Alike, Seated
<1> QED BY <1>2, <1>6, <1>7, <1>8, <1>9

-------------------------------------------------------------------------------
(* The end of a hand.                                                          *)

LEMMA FinishKeeps ==
    ASSUME NEW u, NEW ss, Fits(u, ss, dealt, lastDealt), u.hand = "playing", dealt \in SeatsType,
           FinishHand(u, ss)
    PROVE  /\ Fits(t', seats', dealt', lastDealt') /\ dealt' = dealt /\ lastDealt' = lastDealt
           /\ Quiet(u, t')
<1>1. PICK busts \in SUBSET InHand(u) :
         LET played  == Settled(u, Busted(u, ss, busts))
             leavers == {q \in InHand(u) : u.p[q].leaving}
             free    == FreedPlayers(played, leavers)
             paid    == Granted(free, u.grants \cap Seated(free))
         IN  Sets([paid EXCEPT !.endAfter = @ \/ Decided(paid)], FreedSeats(u, ss, leavers))
    BY DEF FinishHand
<1>2. PICK broke : broke = Busted(u, ss, busts)
    OBVIOUS
<1>3. PICK played : played = Settled(u, broke)
    OBVIOUS
<1>4. PICK leavers : leavers = {q \in InHand(u) : u.p[q].leaving}
    OBVIOUS
<1>5. PICK free : free = FreedPlayers(played, leavers)
    OBVIOUS
<1>6. PICK paid : paid = Granted(free, u.grants \cap Seated(free))
    OBVIOUS
<1>7. t' = [paid EXCEPT !.endAfter = @ \/ Decided(paid)] /\ seats' = FreedSeats(u, ss, leavers)
    BY <1>1, <1>2, <1>3, <1>4, <1>5, <1>6 DEF Sets
<1>8. dealt' = dealt /\ lastDealt' = lastDealt
    BY DEF FinishHand, Same
<1>9. u \in TableType /\ \A q \in Players : u.p[q] \in PlayerType
    BY DEF Fits, Orderly, TableType
<1>10. /\ played \in TableType /\ played.hand = "result" /\ played.grants = {}
       /\ played.state = u.state /\ played.hands = u.hands /\ played.settings = u.settings
       /\ played.clock = u.clock
       /\ \A q \in Players : /\ played.p[q] \in PlayerType
                             /\ played.p[q].chips => u.p[q].chips
                             /\ played.p[q].seat = u.p[q].seat /\ played.p[q].pending = u.p[q].pending
                             /\ played.p[q].owes = u.p[q].owes /\ played.p[q].moved = u.p[q].moved
                             /\ played.p[q].status \in {u.p[q].status, "busted"}
                             /\ played.p[q].status # u.p[q].status => u.p[q].status = "active"
    <2>1. ASSUME NEW q \in Players
          PROVE  LET x == IF q \notin broke THEN u.p[q]
                          ELSE [u.p[q] EXCEPT !.chips = FALSE, !.status = IF @ = "active" THEN "busted" ELSE @]
                 IN  /\ x \in PlayerType /\ (x.chips => u.p[q].chips)
                     /\ x.seat = u.p[q].seat /\ x.pending = u.p[q].pending
                     /\ x.owes = u.p[q].owes /\ x.moved = u.p[q].moved
                     /\ x.status \in {u.p[q].status, "busted"}
                     /\ (x.status # u.p[q].status => u.p[q].status = "active")
        BY <1>9 DEF PlayerType, Statuses
    <2>2. PICK P : P = [q \in Players |-> IF q \notin broke THEN u.p[q]
                          ELSE [u.p[q] EXCEPT !.chips = FALSE, !.status = IF @ = "active" THEN "busted" ELSE @]]
        OBVIOUS
    <2>3. \A q \in Players : /\ P[q] \in PlayerType
                             /\ P[q].chips => u.p[q].chips
                             /\ P[q].seat = u.p[q].seat /\ P[q].pending = u.p[q].pending
                             /\ P[q].owes = u.p[q].owes /\ P[q].moved = u.p[q].moved
                             /\ P[q].status \in {u.p[q].status, "busted"}
                             /\ P[q].status # u.p[q].status => u.p[q].status = "active"
        BY <2>1, <2>2
    <2>4. P \in [Players -> PlayerType]
        BY <2>2, <2>3
    <2>5. played = [u EXCEPT !.hand = "result", !.grants = {}, !.p = P]
        BY <1>3, <2>2 DEF Settled
    <2>6. /\ played \in TableType /\ played.hand = "result" /\ played.grants = {} /\ played.p = P
          /\ played.state = u.state /\ played.hands = u.hands /\ played.settings = u.settings
          /\ played.clock = u.clock
        BY <1>9, <2>4, <2>5 DEF TableType
    <2> QED BY <2>3, <2>6
<1>11. Alike(played, u) /\ Seated(u) \subseteq Players
    BY <1>10 DEF Alike, Seated, Statuses
<1>12. Orderly(played, ss, lastDealt) /\ Seated(played) = Seated(u)
    BY <1>10, <1>11, AlikeKeeps DEF Fits
<1>13. leavers \subseteq Seated(played)
    BY <1>4, <1>12 DEF InHand
<1>14. free \in TableType /\ SameTable(free, played) /\ free.p = FreedPlayers(played, leavers).p
    BY <1>5, <1>10, FreedType
<1>15. /\ Orderly(free, FreedSeats(played, ss, leavers), lastDealt)
       /\ Seated(free) = Seated(u) \ leavers
       /\ \A q \in Seated(free) : free.p[q] = played.p[q]
    BY <1>12, <1>13, <1>14, FreedKeeps
<1>16. FreedSeats(played, ss, leavers) = seats'
    <2>1. \A s \in Seats : (\E q \in leavers : played.p[q].seat = s) <=> (\E q \in leavers : u.p[q].seat = s)
        BY <1>10, <1>11, <1>12, <1>13
    <2> QED BY <1>7, <2>1 DEF FreedSeats
<1>17. PICK gs \in SUBSET Seated(free) : gs = u.grants \cap Seated(free)
    OBVIOUS
<1>18. /\ paid \in TableType /\ SameTable(paid, free) /\ Alike(paid, free)
       /\ \A q \in Players : q \notin gs => paid.p[q] = free.p[q]
    BY <1>6, <1>14, <1>17, GrantedFacts
<1>19. Orderly(paid, seats', lastDealt) /\ Seated(paid) = Seated(u) \ leavers
    BY <1>14, <1>15, <1>16, <1>18, AlikeKeeps
<1>20. PICK b \in BOOLEAN : b = (paid.endAfter \/ Decided(paid))
    <2>1. (paid.endAfter \/ Decided(paid)) \in BOOLEAN
        OBVIOUS
    <2> QED BY <2>1, Zenon
<1>21. t' = [paid EXCEPT !.endAfter = b]
    BY <1>7, <1>20
<1>22. /\ t' \in TableType /\ t'.p = paid.p /\ t'.hand = "result" /\ t'.state = u.state
       /\ t'.hands = u.hands /\ t'.settings = u.settings /\ t'.clock = u.clock
    BY <1>10, <1>14, <1>18, <1>21 DEF TableType, SameTable
<1>23. Alike(t', paid) /\ Seated(t') = Seated(u) \ leavers
    BY <1>19, <1>22 DEF Alike, Seated
<1>24. Orderly(t', seats', lastDealt)
    BY <1>19, <1>22, <1>23, AlikeKeeps
<1>25. Fits(t', seats', dealt', lastDealt')
    <2>1. HandHeld(t', seats', dealt)
        BY <1>22 DEF HandHeld
    <2>2. Cleared(t')
        BY <1>22 DEF Fits, Cleared
    <2>3. ClockFits(t')
        BY <1>22 DEF Fits, ClockFits
    <2> QED BY <1>8, <1>24, <2>1, <2>2, <2>3 DEF Fits
<1>26. \A q \in Seated(t') : /\ q \in Players /\ q \in Seated(free) /\ t'.p[q].seat = u.p[q].seat
                             /\ t'.p[q].pending = u.p[q].pending /\ q \in Seated(u)
                             /\ t'.p[q].moved = u.p[q].moved
                             /\ q \notin gs => (t'.p[q].chips => u.p[q].chips)
    BY <1>10, <1>11, <1>15, <1>18, <1>22, <1>23 DEF Alike
<1>27. Calm(u, t')
    BY <1>22, <1>26 DEF Calm, Unasked, NewRound
<1>28. Locked(u, t')
    BY <1>17, <1>22, <1>26 DEF Locked
<1> QED BY <1>8, <1>25, <1>27, <1>28 DEF Quiet

-------------------------------------------------------------------------------
(* What every step has to show: the invariant, and the rules of moves, of the  *)
(* dead blind and of the lock.                                                 *)
Posting ==
    t.hands # t'.hands =>
        \A q \in Players : (lastDealt'[q] # lastDealt[q] /\ lastDealt[q] >= 0) => q \in posted'

(* The invariant but for what the players know of their moves.                 *)
TableInv ==
    /\ dealt \in SeatsType
    /\ lastDealt \in [Players -> Seats \cup {-1}]
    /\ Fits(t, seats, dealt, lastDealt)

StepShown == TableInv' /\ Apart(t') /\ Noted(t, t') /\ Locked(t, t') /\ Posting

LEMMA QuietStep ==
    ASSUME SeatsInv, dealt' \in SeatsType, lastDealt' = lastDealt, Fits(t', seats', dealt', lastDealt'),
           Quiet(t, t')
    PROVE  StepShown
<1>1. TableInv'
    BY DEF SeatsInv, TableInv
<1>2. Orderly(t', seats', lastDealt') /\ Unasked(t, t') /\ Locked(t, t') /\ t'.hands = t.hands
    BY DEF Fits, Quiet, Calm
<1>3. Apart(t') /\ Noted(t, t')
    BY <1>2, OrderlyIsApart, UnaskedIsNoted
<1> QED BY <1>1, <1>2, <1>3 DEF StepShown, Posting

-------------------------------------------------------------------------------
(* The deal.                                                                   *)

LEMMA StartKeeps ==
    ASSUME lastDealt \in [Players -> Seats \cup {-1}], NEW u, NEW ss, Orderly(u, ss, lastDealt),
           NobodyWaits(u), u.state = "running", ClockFits(u), StartHand(u, ss)
    PROVE  /\ TableInv' /\ Posting
           /\ t'.settings = u.settings /\ t'.state = u.state
           /\ Seated(t') = Seated(u)
           /\ \A q \in Players : /\ t'.p[q].seat = u.p[q].seat /\ t'.p[q].moved = u.p[q].moved
                                 /\ t'.p[q].pending = u.p[q].pending
                                 /\ t'.p[q].chips = u.p[q].chips
<1>1. /\ u \in TableType /\ ss \in SeatsType /\ u.p \in [Players -> PlayerType]
      /\ \A q \in Players : u.p[q] \in PlayerType
    BY DEF Orderly, TableType
<1>2. PICK in : in = Eligible(u)
    OBVIOUS
<1>3. in \subseteq Seated(u) /\ Seated(u) \subseteq Players
    BY <1>2 DEF Eligible, Seated
<1>4. \A q \in Seated(u) : u.p[q].seat \in Seats
    BY DEF Orderly, Placed
<1>5. PICK b \in Seats : Sets(WithHand(u, in, b), ss)
    <2>1. PICK b \in Buttons(u) : Sets(WithHand(u, in, b), ss)
        BY <1>2 DEF StartHand
    <2>2. b \in {u.p[q].seat : q \in Eligible(u)}
        BY <2>1 DEF Buttons
    <2> QED BY <1>2, <1>3, <1>4, <2>1, <2>2
<1>6. /\ dealt' = [s \in Seats |-> IF ss[s] \in in THEN ss[s] ELSE Nobody]
      /\ posted' = {q \in in : u.p[q].owes}
      /\ lastDealt' = [q \in Players |-> IF q \in in THEN u.p[q].seat ELSE lastDealt[q]]
    BY <1>2 DEF StartHand
<1>7. PICK P : P = [q \in Players |-> IF q \in in THEN [u.p[q] EXCEPT !.inHand = TRUE, !.owes = FALSE] ELSE u.p[q]]
    OBVIOUS
<1>8. ASSUME NEW q \in Players
      PROVE  /\ P[q] \in PlayerType
             /\ P[q].status = u.p[q].status /\ P[q].seat = u.p[q].seat /\ P[q].pending = u.p[q].pending
             /\ P[q].moved = u.p[q].moved /\ P[q].chips = u.p[q].chips
             /\ (q \notin in => P[q].owes = u.p[q].owes)
             /\ (q \in in => P[q].inHand)
    BY <1>1, <1>7 DEF PlayerType
<1>9. P \in [Players -> PlayerType]
    BY <1>7, <1>8
<1>10. PICK c \in BOOLEAN : c = (IF u.clock THEN Armed(u) ELSE u.clock)
    <2>1. (IF u.clock THEN Armed(u) ELSE u.clock) \in BOOLEAN
        BY <1>1, SeatsAssumption DEF Armed, TableType
    <2> QED BY <2>1, Zenon
<1>11. t' = [u EXCEPT !.hand = "playing", !.hands = @ + 1, !.button = b, !.clock = c, !.p = P] /\ seats' = ss
    BY <1>5, <1>7, <1>10 DEF Sets, WithHand
<1>12. /\ t' \in TableType /\ t'.hand = "playing" /\ t'.p = P /\ t'.clock = c /\ t'.state = u.state
       /\ t'.settings = u.settings
    <2>1. PICK n \in Nat : n = u.hands + 1
        BY <1>1 DEF TableType
    <2>2. PICK w : w = [u EXCEPT !.hand = "playing", !.hands = n, !.button = b]
        OBVIOUS
    <2>3. /\ w \in TableType /\ w.hand = "playing" /\ w.state = u.state
          /\ w.settings = u.settings
        BY <1>1, <2>2 DEF TableType
    <2>4. t' = [w EXCEPT !.clock = c, !.p = P]
        BY <1>1, <1>11, <2>1, <2>2 DEF TableType
    <2> QED BY <1>9, <2>3, <2>4 DEF TableType
<1>13. Seated(t') = Seated(u)
    BY <1>8, <1>12 DEF Seated
<1>14. Placed(t', seats')
    <2>1. \A q \in Seated(t') : t'.p[q].seat \in Seats
        BY <1>3, <1>4, <1>8, <1>12, <1>13
    <2>2. \A s \in Seats : \A q \in Players : seats'[s] = q <=> (q \in Seated(t') /\ t'.p[q].seat = s)
        BY <1>8, <1>11, <1>12, <1>13 DEF Orderly, Placed
    <2> QED BY <2>1, <2>2 DEF Placed
<1>15. NobodyWaits(t')
    BY <1>3, <1>8, <1>12, <1>13 DEF NobodyWaits
<1>16. Promised(t')
    <2>1. \A q \in Seated(t') : ~(t'.p[q].pending >= 0)
        BY <1>3, <1>12, <1>13, <1>15, PlayerIn DEF NobodyWaits
    <2> QED BY <2>1 DEF Promised
<1>17. Posts(t', lastDealt')
    <2>1. \A q \in Players : q \in in => lastDealt'[q] = t'.p[q].seat
        BY <1>6, <1>8, <1>12
    <2>2. \A q \in Players : q \notin in => lastDealt'[q] = lastDealt[q] /\ t'.p[q].seat = u.p[q].seat /\ t'.p[q].owes = u.p[q].owes
        BY <1>6, <1>8, <1>12
    <2>3. \A q \in Players : t'.p[q].status = "none" => u.p[q].status = "none" /\ q \notin in
        BY <1>3, <1>8, <1>12 DEF Seated, Statuses
    <2> QED BY <1>3, <1>13, <2>1, <2>2, <2>3 DEF Posts, Orderly
<1>18. HandHeld(t', seats', dealt')
    <2>1. Nobody \notin Players
        BY SeatsAssumption
    <2> QED BY <1>3, <1>6, <1>8, <1>11, <1>12, <2>1 DEF HandHeld
<1>19. Cleared(t')
    BY <1>12 DEF Cleared
<1>20. ClockFits(t')
    BY <1>10, <1>12 DEF ClockFits, Armed
<1>21. dealt' \in SeatsType /\ lastDealt' \in [Players -> Seats \cup {-1}]
    BY <1>3, <1>4, <1>6 DEF SeatsType
<1>22. TableInv'
    <2>1. Orderly(t', seats', lastDealt')
        BY <1>1, <1>11, <1>12, <1>14, <1>16, <1>17 DEF Orderly
    <2>2. Fits(t', seats', dealt', lastDealt')
        BY <2>1, <1>18, <1>19, <1>20 DEF Fits
    <2> QED BY <1>21, <2>2 DEF TableInv
<1>23. Posting
    <2>1. ASSUME NEW q \in Players, lastDealt'[q] # lastDealt[q], lastDealt[q] >= 0 PROVE q \in posted'
        <3>1. q \in in /\ lastDealt'[q] = u.p[q].seat
            BY <1>6, <2>1
        <3>2. u.p[q].owes
            BY <1>3, <2>1, <3>1 DEF Orderly, Posts
        <3> QED BY <1>6, <3>1, <3>2
    <2> QED BY <2>1 DEF Posting
<1> QED BY <1>8, <1>12, <1>13, <1>22, <1>23

(* A deal from a table that is the old one but for the wait for seats.         *)
LEMMA StartShown ==
    ASSUME SeatsInv, NEW u, NEW ss, Orderly(u, ss, lastDealt), NobodyWaits(u), u.state = "running",
           ClockFits(u), StartHand(u, ss), Unasked(t, u), Locked(t, t')
    PROVE  StepShown
<1>1. lastDealt \in [Players -> Seats \cup {-1}]
    BY DEF SeatsInv
<1>2. /\ TableInv' /\ Posting /\ t'.state = u.state /\ Seated(t') = Seated(u)
      /\ \A q \in Players : /\ t'.p[q].moved = u.p[q].moved /\ t'.p[q].pending = u.p[q].pending
                            /\ t'.p[q].seat = u.p[q].seat
    BY <1>1, StartKeeps
<1>3. Orderly(t', seats', lastDealt')
    BY <1>2 DEF TableInv, Fits
<1>4. Unasked(t, t')
    BY <1>2 DEF Unasked, NewRound, Seated
<1>5. Apart(t') /\ Noted(t, t')
    BY <1>3, <1>4, OrderlyIsApart, UnaskedIsNoted
<1> QED BY <1>2, <1>5 DEF StepShown

LEMMA DealShown ==
    ASSUME SeatsInv, Deal
    PROVE  StepShown
<1>1. Orderly(t, seats, lastDealt) /\ Cleared(t) /\ ClockFits(t) /\ lastDealt \in [Players -> Seats \cup {-1}]
    BY DEF SeatsInv, Fits
<1>2. t.hand = "none" /\ t.state = "running" /\ StartHand(t, seats)
    BY DEF Deal, CanDeal
<1>3. NobodyWaits(t)
    BY <1>1, <1>2 DEF Cleared
<1>4. /\ t'.settings = t.settings /\ Seated(t') = Seated(t) /\ Seated(t) \subseteq Players
      /\ \A q \in Players : t'.p[q].seat = t.p[q].seat /\ t'.p[q].chips = t.p[q].chips
    BY <1>1, <1>2, <1>3, StartKeeps DEF Seated
<1>5. Locked(t, t')
    BY <1>4 DEF Locked
<1>6. Unasked(t, t)
    BY DEF Unasked, NewRound
<1> QED BY <1>1, <1>2, <1>3, <1>5, <1>6, StartShown

(* Start and Resume; u is the table that runs.                                 *)
LEMMA MaybeStartShown ==
    ASSUME SeatsInv, NEW u \in TableType, u.p = t.p, u.hand = t.hand, u.hands = t.hands, u.state = "running",
           t.state \in {"waiting", "paused"}, u.settings = t.settings, ClockFits(u), MaybeStartHand(u, seats)
    PROVE  StepShown
<1>1. /\ Fits(t, seats, dealt, lastDealt) /\ dealt \in SeatsType /\ lastDealt \in [Players -> Seats \cup {-1}]
      /\ Orderly(t, seats, lastDealt) /\ Cleared(t)
    BY DEF SeatsInv, Fits
<1>2. Alike(u, t) /\ Seated(u) = Seated(t) /\ Seated(t) \subseteq Players
    BY DEF Alike, Seated
<1>3. Fits(u, seats, dealt, lastDealt)
    <2>1. u.hand = t.hand \/ (t.hand = "playing" /\ u.hand = "result")
        OBVIOUS
    <2>2. u.state = "ended" <=> t.state = "ended"
        OBVIOUS
    <2>3. u.hand = "playing" => \A q \in Players : u.p[q].inHand = t.p[q].inHand
        OBVIOUS
    <2> QED BY <1>1, <1>2, <2>1, <2>2, <2>3, AlikeStep
<1>4. CASE CanDeal(u)
    <2>1. StartHand(u, seats) /\ u.hand = "none"
        BY <1>4 DEF MaybeStartHand, CanDeal
    <2>2. Orderly(u, seats, lastDealt) /\ NobodyWaits(u)
        BY <1>3, <2>1 DEF Fits, Cleared
    <2>3. /\ t'.settings = u.settings /\ Seated(t') = Seated(u)
          /\ \A q \in Players : t'.p[q].seat = u.p[q].seat /\ t'.p[q].chips = u.p[q].chips
        BY <1>1, <2>1, <2>2, StartKeeps
    <2>4. Locked(t, t')
        BY <1>2, <2>3 DEF Locked
    <2>5. Unasked(t, u)
        BY DEF Unasked, NewRound, Seated
    <2> QED BY <2>1, <2>2, <2>4, <2>5, StartShown
<1>5. CASE ~CanDeal(u)
    <2>1. t' = u /\ seats' = seats /\ dealt' = dealt /\ lastDealt' = lastDealt
        BY <1>5 DEF MaybeStartHand, Sets
    <2>2. Quiet(t, u)
        BY <1>2 DEF Quiet, Calm, Unasked, NewRound, Locked
    <2>3. dealt' \in SeatsType /\ Fits(t', seats', dealt', lastDealt') /\ Quiet(t, t')
        BY <1>1, <1>3, <2>1, <2>2
    <2> QED BY <2>1, <2>3, QuietStep
<1> QED BY <1>4, <1>5

(* The clock is armed when the blinds have a schedule.                         *)
LEMMA ArmedIs ==
    ASSUME NEW u \in TableType
    PROVE  Armed(u) \in BOOLEAN /\ (u.state = "running" => Armed(u) = u.settings.blindsUp)
<1>1. u.settings.blindsUp \in BOOLEAN
    BY SeatsAssumption DEF TableType
<1> QED BY <1>1 DEF Armed

LEMMA StartTableShown ==
    ASSUME SeatsInv, Start
    PROVE  StepShown
<1>1. t \in TableType /\ t.state = "waiting"
    BY DEF SeatsInv, Fits, Orderly, Start
<1>2. PICK r : r = [t EXCEPT !.state = "running"]
    OBVIOUS
<1>3. /\ r \in TableType /\ r.state = "running" /\ r.p = t.p /\ r.hand = t.hand /\ r.hands = t.hands
      /\ r.settings = t.settings
    BY <1>1, <1>2 DEF TableType
<1>4. PICK b \in BOOLEAN : b = Armed(r)
    BY <1>3, ArmedIs
<1>5. PICK u : u = [r EXCEPT !.clock = b]
    OBVIOUS
<1>6. /\ u \in TableType /\ u.state = "running" /\ u.p = t.p /\ u.hand = t.hand /\ u.hands = t.hands
      /\ u.settings = t.settings /\ u.clock = b
    BY <1>3, <1>5 DEF TableType
<1>7. ClockFits(u)
    BY <1>3, <1>4, <1>6, ArmedIs DEF ClockFits
<1>8. MaybeStartHand(u, seats)
    BY <1>2, <1>4, <1>5 DEF Start
<1>9. t.state \in {"waiting", "paused"}
    BY <1>1
<1> QED BY <1>6, <1>7, <1>8, <1>9, MaybeStartShown

LEMMA ResumeShown ==
    ASSUME SeatsInv, Resume
    PROVE  StepShown
<1>1. t \in TableType /\ t.state = "paused"
    BY DEF SeatsInv, Fits, Orderly, Resume
<1>2. PICK r : r = [t EXCEPT !.state = "running"]
    OBVIOUS
<1>3. /\ r \in TableType /\ r.state = "running" /\ r.p = t.p /\ r.hand = t.hand /\ r.hands = t.hands
      /\ r.settings = t.settings
    BY <1>1, <1>2 DEF TableType
<1>4. PICK b \in BOOLEAN : b = (IF r.held /\ r.settings.blindsUp THEN TRUE ELSE Armed(r))
    <2>1. Armed(r) \in BOOLEAN
        BY <1>3, ArmedIs
    <2>2. (IF r.held /\ r.settings.blindsUp THEN TRUE ELSE Armed(r)) \in BOOLEAN
        BY <2>1
    <2> QED BY <2>2, Zenon
<1>5. PICK u : u = [r EXCEPT !.clock = b, !.held = FALSE]
    OBVIOUS
<1>6. /\ u \in TableType /\ u.state = "running" /\ u.p = t.p /\ u.hand = t.hand /\ u.hands = t.hands
      /\ u.settings = t.settings /\ u.clock = b
    BY <1>3, <1>5 DEF TableType
<1>7. ClockFits(u)
    BY <1>3, <1>4, <1>6, ArmedIs DEF ClockFits
<1>8. MaybeStartHand(u, seats)
    BY <1>2, <1>4, <1>5 DEF Resume, Resumed
<1>9. t.state \in {"waiting", "paused"}
    BY <1>1
<1> QED BY <1>6, <1>7, <1>8, <1>9, MaybeStartShown

-------------------------------------------------------------------------------
(* The end of the table.                                                       *)

LEMMA NotInHandIs ==
    ASSUME NEW u \in TableType
    PROVE  /\ NotInHand(u) \in [Players -> PlayerType]
           /\ \A q \in Players : /\ NotInHand(u)[q].status = u.p[q].status /\ NotInHand(u)[q].seat = u.p[q].seat
                                 /\ NotInHand(u)[q].pending = u.p[q].pending
                                 /\ NotInHand(u)[q].owes = u.p[q].owes
                                 /\ NotInHand(u)[q].moved = u.p[q].moved
                                 /\ NotInHand(u)[q].chips = u.p[q].chips
<1>1. \A q \in Players : u.p[q] \in PlayerType
    BY DEF TableType
<1>2. ASSUME NEW q \in Players
      PROVE  /\ NotInHand(u)[q] \in PlayerType
             /\ NotInHand(u)[q].status = u.p[q].status /\ NotInHand(u)[q].seat = u.p[q].seat
             /\ NotInHand(u)[q].pending = u.p[q].pending
             /\ NotInHand(u)[q].owes = u.p[q].owes
             /\ NotInHand(u)[q].moved = u.p[q].moved
             /\ NotInHand(u)[q].chips = u.p[q].chips
    <2>1. NotInHand(u)[q] = [u.p[q] EXCEPT !.inHand = FALSE]
        BY DEF NotInHand
    <2>2. u.p[q] \in PlayerType
        BY <1>1
    <2> QED BY <2>1, <2>2 DEF PlayerType
<1> QED BY <1>2 DEF NotInHand

LEMMA EndKeeps ==
    ASSUME NEW u, NEW ss, Orderly(u, ss, lastDealt), EndTable(u, ss)
    PROVE  /\ Fits(t', seats', dealt', lastDealt') /\ dealt' \in SeatsType /\ lastDealt' = lastDealt
           /\ t'.settings = u.settings /\ t'.hands = u.hands /\ Seated(t') = Seated(u)
           /\ t'.state = "ended"
           /\ \A q \in Players : /\ t'.p[q].seat = u.p[q].seat /\ t'.p[q].moved = u.p[q].moved
                                 /\ t'.p[q].pending = u.p[q].pending /\ t'.p[q].chips = u.p[q].chips
<1>1. u \in TableType
    BY DEF Orderly
<1>2. PICK P : P = NotInHand(u)
    OBVIOUS
<1>3. /\ P \in [Players -> PlayerType]
      /\ \A q \in Players : /\ P[q].status = u.p[q].status /\ P[q].seat = u.p[q].seat /\ P[q].pending = u.p[q].pending
                            /\ P[q].owes = u.p[q].owes /\ P[q].moved = u.p[q].moved /\ P[q].chips = u.p[q].chips
    BY <1>1, <1>2, NotInHandIs
<1>4. t' = [u EXCEPT !.hand = "none", !.state = "ended", !.clock = FALSE, !.p = P] /\ seats' = ss
    BY <1>2 DEF EndTable, Sets
<1>5. dealt' \in SeatsType /\ lastDealt' = lastDealt
    BY DEF EndTable, SeatsType
<1>6. PICK w : w = [u EXCEPT !.hand = "none", !.state = "ended", !.clock = FALSE]
    OBVIOUS
<1>7. w \in TableType /\ w.hand = "none" /\ w.state = "ended" /\ w.settings = u.settings /\ w.hands = u.hands
    BY <1>1, <1>6 DEF TableType
<1>8. t' = [w EXCEPT !.p = P]
    BY <1>1, <1>4, <1>6 DEF TableType
<1>9. /\ t' \in TableType /\ t'.hand = "none" /\ t'.state = "ended" /\ t'.settings = u.settings
      /\ t'.hands = u.hands /\ t'.p = P
    BY <1>3, <1>7, <1>8 DEF TableType
<1>10. Alike(t', u)
    BY <1>3, <1>9 DEF Alike, Seated
<1>11. Orderly(t', seats', lastDealt') /\ Seated(t') = Seated(u)
    BY <1>4, <1>5, <1>9, <1>10, AlikeKeeps
<1>12. Fits(t', seats', dealt', lastDealt')
    BY <1>9, <1>11 DEF Fits, HandHeld, Cleared, ClockFits
<1> QED BY <1>3, <1>5, <1>9, <1>11, <1>12

(* The table ends, of itself or with the players in qs gone.                   *)
LEMMA EndShown ==
    ASSUME SeatsInv, NEW u, NEW ss, Orderly(u, ss, lastDealt), EndTable(u, ss),
           u.settings = t.settings, u.hands = t.hands, Seated(u) \subseteq Seated(t),
           \A q \in Seated(u) : /\ u.p[q].seat = t.p[q].seat /\ u.p[q].moved = t.p[q].moved
                                /\ u.p[q].pending = t.p[q].pending /\ u.p[q].chips = t.p[q].chips
    PROVE  StepShown
<1>1. /\ Fits(t', seats', dealt', lastDealt') /\ dealt' \in SeatsType /\ lastDealt' = lastDealt
      /\ t'.settings = u.settings /\ t'.hands = u.hands /\ Seated(t') = Seated(u)
      /\ t'.state = "ended"
      /\ \A q \in Players : /\ t'.p[q].seat = u.p[q].seat /\ t'.p[q].moved = u.p[q].moved
                            /\ t'.p[q].pending = u.p[q].pending /\ t'.p[q].chips = u.p[q].chips
    BY EndKeeps
<1>2. \A q \in Seated(t') : /\ t'.p[q].seat = t.p[q].seat /\ t'.p[q].moved = t.p[q].moved
                            /\ t'.p[q].pending = t.p[q].pending /\ t'.p[q].chips = t.p[q].chips
    BY <1>1 DEF Seated
<1>3. Quiet(t, t')
    BY <1>1, <1>2 DEF Quiet, Calm, Unasked, NewRound, Locked
<1> QED BY <1>1, <1>3, QuietStep

LEMMA ClearShown ==
    ASSUME SeatsInv, ClearHand
    PROVE  StepShown
<1>1. /\ t \in TableType /\ t.hand = "result" /\ t.state # "ended"
      /\ Orderly(t, seats, lastDealt) /\ ClockFits(t)
      /\ lastDealt \in [Players -> Seats \cup {-1}]
    BY DEF SeatsInv, Fits, Orderly, Cleared, ClearHand
<1>2. PICK P : P = NotInHand(t)
    OBVIOUS
<1>3. /\ P \in [Players -> PlayerType]
      /\ \A q \in Players : /\ P[q].status = t.p[q].status /\ P[q].seat = t.p[q].seat /\ P[q].pending = t.p[q].pending
                            /\ P[q].owes = t.p[q].owes /\ P[q].moved = t.p[q].moved /\ P[q].chips = t.p[q].chips
    BY <1>1, <1>2, NotInHandIs
<1>4. PICK done : done = [t EXCEPT !.hand = "none", !.p = NotInHand(t), !.endAfter = FALSE]
    OBVIOUS
<1>5. /\ done \in TableType /\ done.hand = "none" /\ done.p = P /\ done.state = t.state /\ done.hands = t.hands
      /\ done.settings = t.settings /\ done.clock = t.clock
    BY <1>1, <1>2, <1>3, <1>4 DEF TableType
<1>6. Alike(done, t) /\ Seated(done) = Seated(t) /\ Seated(t) \subseteq Players
    BY <1>3, <1>5 DEF Alike, Seated
<1>7. Orderly(done, seats, lastDealt) /\ (NobodyWaits(t) <=> NobodyWaits(done))
    BY <1>1, <1>5, <1>6, AlikeKeeps
<1>8. PICK at : at = ApplyPendingSeatChanges(done, seats)
    OBVIOUS
<1>9. /\ Orderly(at.t, at.ss, lastDealt) /\ SameTable(at.t, done)
      /\ \A q \in Players : SamePlayer(at.t.p[q], done.p[q])
      /\ NobodyWaits(at.t)
      /\ NobodyWaits(done) => at.t = done /\ at.ss = seats
    BY <1>7, <1>8, MovesKeep
<1>10. \A q \in Players : at.t.p[q].moved = t.p[q].moved /\ at.t.p[q].chips = t.p[q].chips
    BY <1>3, <1>5, <1>9 DEF SamePlayer
<1>11. NobodyWaits(t) => \A q \in Players : at.t.p[q].seat = t.p[q].seat
    BY <1>3, <1>5, <1>7, <1>9
<1>12. at.t.state = t.state /\ at.t.settings = t.settings /\ at.t.hands = t.hands /\ at.t.hand = "none"
    BY <1>5, <1>9 DEF SameTable
<1>17. Unasked(t, at.t)
    <2>1. Seated(at.t) = Seated(t)
        BY <1>5, <1>6, <1>9 DEF SamePlayer, Seated
    <2>2. \A q \in Seated(t) : t.p[q].pending < 0 => at.t.p[q].pending < 0 /\ at.t.p[q].seat = t.p[q].seat
        BY <1>3, <1>5, <1>6, <1>9 DEF SamePlayer
    <2> QED BY <1>6, <1>10, <1>12, <2>1, <2>2 DEF Unasked, NewRound
<1>13. ClockFits(at.t)
    BY <1>1, <1>5, <1>9 DEF SameTable, ClockFits
<1>14. CASE t.endAfter
    <2>1. EndTable(done, seats)
        BY <1>4, <1>14 DEF ClearHand
    <2>2. \A q \in Seated(done) : /\ done.p[q].seat = t.p[q].seat /\ done.p[q].moved = t.p[q].moved
                                  /\ done.p[q].pending = t.p[q].pending /\ done.p[q].chips = t.p[q].chips
        BY <1>3, <1>5, <1>6
    <2> QED BY <1>5, <1>6, <1>7, <2>1, <2>2, EndShown
<1>15. CASE ~t.endAfter /\ CanDeal(at.t)
    <2>1. StartHand(at.t, at.ss) /\ at.t.state = "running"
        BY <1>4, <1>8, <1>15 DEF ClearHand, CanDeal
    <2>2. /\ t'.settings = at.t.settings /\ Seated(t') = Seated(at.t)
          /\ \A q \in Players : t'.p[q].seat = at.t.p[q].seat /\ t'.p[q].chips = at.t.p[q].chips
        BY <1>1, <1>9, <1>13, <2>1, StartKeeps
    <2>3. Locked(t, t')
        BY <1>6, <1>10, <1>11, <1>12, <2>2 DEF Locked
    <2> QED BY <1>9, <1>13, <1>17, <2>1, <2>3, StartShown
<1>16. CASE ~t.endAfter /\ ~CanDeal(at.t)
    <2>1. t' = at.t /\ seats' = at.ss /\ dealt' = [s \in Seats |-> Nobody] /\ lastDealt' = lastDealt
        BY <1>4, <1>8, <1>16 DEF ClearHand, Sets
    <2>2. dealt' \in SeatsType
        BY <2>1 DEF SeatsType
    <2>3. HandHeld(at.t, at.ss, dealt') /\ Cleared(at.t)
        BY <1>1, <1>9, <1>12 DEF HandHeld, Cleared
    <2>4. Fits(t', seats', dealt', lastDealt')
        BY <1>9, <1>13, <2>1, <2>3 DEF Fits
    <2>5. Quiet(t, t')
        BY <1>6, <1>10, <1>11, <1>12, <1>17, <2>1 DEF Quiet, Calm, Locked
    <2> QED BY <2>1, <2>2, <2>4, <2>5, QuietStep
<1> QED BY <1>14, <1>15, <1>16

LEMMA EndNowShown ==
    ASSUME SeatsInv, NEW immediate, End(immediate)
    PROVE  StepShown
<1>1. /\ t \in TableType /\ t.state # "ended" /\ Fits(t, seats, dealt, lastDealt) /\ dealt \in SeatsType
      /\ Orderly(t, seats, lastDealt)
    BY DEF SeatsInv, Fits, Orderly, End
<1>2. CASE HandInProgress /\ ~immediate
    <2>1. t' = [t EXCEPT !.endAfter = TRUE] /\ seats' = seats /\ dealt' = dealt /\ lastDealt' = lastDealt
        BY <1>2 DEF End, Sets, Same
    <2>2. /\ t' \in TableType /\ t'.p = t.p /\ t'.hand = t.hand /\ t'.state = t.state /\ t'.hands = t.hands
          /\ t'.settings = t.settings /\ t'.clock = t.clock /\ t'.grants = t.grants
        BY <1>1, <2>1 DEF TableType
    <2>3. Alike(t', t) /\ Unlocked(t', t)
        BY <2>2 DEF Alike, Unlocked, Seated
    <2>4. ClockFits(t')
        BY <1>1, <2>2 DEF Fits, ClockFits
    <2>5. t'.hand = t.hand \/ (t.hand = "playing" /\ t'.hand = "result")
        BY <2>2
    <2>6. t'.state = "ended" <=> t.state = "ended"
        BY <2>2
    <2>7. t'.hand = "playing" => \A q \in Players : t'.p[q].inHand = t.p[q].inHand
        BY <2>2
    <2>8. Fits(t', seats, dealt, lastDealt)
        BY <1>1, <2>2, <2>3, <2>4, <2>5, <2>6, <2>7, AlikeStep
    <2>9. Quiet(t, t')
        BY <2>3, UnlockedIsQuiet
    <2>10. dealt' \in SeatsType /\ lastDealt' = lastDealt /\ Fits(t', seats', dealt', lastDealt')
        BY <1>1, <2>1, <2>8
    <2> QED BY <2>9, <2>10, QuietStep
<1>3. CASE HandInProgress /\ immediate
    <2>1. PICK leavers \in SUBSET Seated(t) : leavers = {q \in Seated(t) : t.p[q].leaving}
        OBVIOUS
    <2>2. EndTable(FreedPlayers(t, leavers), FreedSeats(t, seats, leavers))
        BY <1>3, <2>1 DEF End
    <2>3. PICK w : w = FreedPlayers(t, leavers)
        OBVIOUS
    <2>4. w \in TableType /\ SameTable(w, t) /\ w.p = FreedPlayers(t, leavers).p
        BY <1>1, <2>3, FreedType
    <2>5. /\ Orderly(w, FreedSeats(t, seats, leavers), lastDealt)
          /\ Seated(w) \subseteq Seated(t)
          /\ \A q \in Seated(w) : w.p[q] = t.p[q]
        BY <1>1, <2>4, FreedKeeps
    <2>6. \A q \in Seated(w) : /\ w.p[q].seat = t.p[q].seat /\ w.p[q].moved = t.p[q].moved
                               /\ w.p[q].pending = t.p[q].pending /\ w.p[q].chips = t.p[q].chips
        BY <2>5
    <2>7. w.settings = t.settings /\ w.hands = t.hands
        BY <2>4 DEF SameTable
    <2> QED BY <2>2, <2>3, <2>5, <2>6, <2>7, EndShown
<1>4. CASE ~HandInProgress
    <2>1. EndTable(t, seats)
        BY <1>4 DEF End
    <2> QED BY <1>1, <2>1, EndShown
<1> QED BY <1>2, <1>3, <1>4 DEF End

-------------------------------------------------------------------------------
(* The commands.                                                               *)

(* The hand ends in a step that began with a quiet change of the table.        *)
LEMMA FinishShown ==
    ASSUME SeatsInv, NEW u, Unlocked(u, t) \/ u = t, Fits(u, seats, dealt, lastDealt), t.hand = "playing",
           FinishHand(u, seats)
    PROVE  StepShown
<1>1. u.hand = "playing" /\ dealt \in SeatsType
    BY DEF Unlocked, SeatsInv
<1>2. Fits(t', seats', dealt', lastDealt') /\ dealt' = dealt /\ lastDealt' = lastDealt /\ Quiet(u, t')
    BY <1>1, FinishKeeps
<1>3. Quiet(t, t')
    BY <1>2, QuietAfter
<1>4. dealt' \in SeatsType
    BY <1>1, <1>2
<1> QED BY <1>2, <1>3, <1>4, QuietStep

LEMMA HandEndsShown ==
    ASSUME SeatsInv, HandEnds
    PROVE  StepShown
<1>1. FinishHand(t, seats) /\ t.hand = "playing" /\ Fits(t, seats, dealt, lastDealt)
    BY DEF HandEnds, HandInProgress, SeatsInv
<1> QED BY <1>1, FinishShown

(* Changes beside the players, by the host or the clock.                       *)
LEMMA TableSet ==
    ASSUME SeatsInv, NEW v \in TableType, v.p = t.p, v.hand = t.hand, v.hands = t.hands,
           v.state = "ended" <=> t.state = "ended", ClockFits(v), Locked(t, v),
           Sets(v, seats), Same
    PROVE  StepShown
<1>1. Fits(t, seats, dealt, lastDealt) /\ dealt \in SeatsType
    BY DEF SeatsInv
<1>2. Alike(v, t)
    BY DEF Alike, Seated
<1>3. Fits(v, seats, dealt, lastDealt)
    <2>1. v.hand = t.hand \/ (t.hand = "playing" /\ v.hand = "result")
        OBVIOUS
    <2>2. v.hand = "playing" => \A q \in Players : v.p[q].inHand = t.p[q].inHand
        OBVIOUS
    <2> QED BY <1>1, <1>2, <2>1, <2>2, AlikeStep
<1>4. t' = v /\ seats' = seats /\ dealt' = dealt /\ lastDealt' = lastDealt
    BY DEF Sets, Same
<1>5. Quiet(t, v)
    BY DEF Quiet, Calm, Unasked, NewRound, Seated
<1>6. dealt' \in SeatsType /\ Fits(t', seats', dealt', lastDealt') /\ Quiet(t, t')
    BY <1>1, <1>3, <1>4, <1>5
<1> QED BY <1>4, <1>6, QuietStep

(* Nothing happens to seats, settings or chips.                                *)
LEMMA LockedBySame ==
    ASSUME NEW v, v.p = t.p, v.settings = t.settings
    PROVE  Locked(t, v)
BY DEF Locked

LEMMA TableIsTyped ==
    ASSUME SeatsInv
    PROVE  t \in TableType /\ t.p \in [Players -> PlayerType] /\ \A q \in Players : t.p[q] \in PlayerType
BY DEF SeatsInv, Fits, Orderly, TableType

LEMMA BlindsUpShown ==
    ASSUME SeatsInv, BlindsUp
    PROVE  StepShown
<1>1. t \in TableType
    BY TableIsTyped
<1>2. PICK b \in BOOLEAN : b = Armed(t)
    BY <1>1, ArmedIs
<1>3. PICK v : v = [t EXCEPT !.clock = b]
    OBVIOUS
<1>4. /\ v \in TableType /\ v.p = t.p /\ v.hand = t.hand /\ v.hands = t.hands /\ v.state = t.state
      /\ v.settings = t.settings /\ v.clock = b
    BY <1>1, <1>3 DEF TableType
<1>5. ClockFits(v)
    BY <1>1, <1>2, <1>4, ArmedIs DEF ClockFits
<1>6. Sets(v, seats) /\ Same /\ (v.state = "ended" <=> t.state = "ended")
    BY <1>2, <1>3, <1>4 DEF BlindsUp
<1>7. Locked(t, v)
    BY <1>4, LockedBySame
<1> QED BY <1>4, <1>5, <1>6, <1>7, TableSet

LEMMA PauseShown ==
    ASSUME SeatsInv, Pause
    PROVE  StepShown
<1>1. t \in TableType /\ t.state = "running"
    BY TableIsTyped DEF Pause
<1>2. PICK left \in BOOLEAN :
          Sets([t EXCEPT !.state = "paused", !.clock = FALSE, !.held = IF t.clock THEN left ELSE @], seats)
    BY DEF Pause
<1>3. PICK b \in BOOLEAN : b = (IF t.clock THEN left ELSE t.held)
    <2>1. (IF t.clock THEN left ELSE t.held) \in BOOLEAN
        BY <1>1 DEF TableType
    <2> QED BY <2>1, Zenon
<1>4. PICK v : v = [t EXCEPT !.state = "paused", !.clock = FALSE, !.held = b]
    OBVIOUS
<1>5. /\ v \in TableType /\ v.p = t.p /\ v.hand = t.hand /\ v.hands = t.hands /\ v.state = "paused"
      /\ v.settings = t.settings
    BY <1>1, <1>4 DEF TableType
<1>6. Sets(v, seats) /\ Same
    BY <1>2, <1>3, <1>4 DEF Pause
<1>7. ClockFits(v) /\ (v.state = "ended" <=> t.state = "ended")
    BY <1>1, <1>5 DEF ClockFits
<1>8. Locked(t, v)
    BY <1>5, LockedBySame
<1> QED BY <1>5, <1>6, <1>7, <1>8, TableSet

LEMMA UpdateSettingsShown ==
    ASSUME SeatsInv, NEW s \in Settings, UpdateSettings(s)
    PROVE  StepShown
<1>1. t \in TableType /\ t.state # "ended" /\ s # t.settings /\ ClockFits(t)
    BY TableIsTyped DEF UpdateSettings, SeatsInv, Fits
<1>2. PICK w : w = [t EXCEPT !.settings = s]
    OBVIOUS
<1>3. /\ w \in TableType /\ w.p = t.p /\ w.hand = t.hand /\ w.hands = t.hands /\ w.state = t.state
      /\ w.settings = s /\ w.clock = t.clock
    BY <1>1, <1>2 DEF TableType
<1>4. PICK b \in BOOLEAN :
          b = (IF s.blindsUp # t.settings.blindsUp /\ t.state = "running" THEN Armed(w) ELSE t.clock)
    <2>1. Armed(w) \in BOOLEAN /\ t.clock \in BOOLEAN
        BY <1>1, <1>3, ArmedIs DEF TableType
    <2>2. (IF s.blindsUp # t.settings.blindsUp /\ t.state = "running" THEN Armed(w) ELSE t.clock) \in BOOLEAN
        BY <2>1
    <2> QED BY <2>2, Zenon
<1>5. PICK v : v = [w EXCEPT !.clock = b]
    OBVIOUS
<1>6. /\ v \in TableType /\ v.p = t.p /\ v.hand = t.hand /\ v.hands = t.hands /\ v.state = t.state
      /\ v.settings = s /\ v.clock = b
    BY <1>3, <1>5 DEF TableType
<1>7. ClockFits(v)
    <2>1. SUFFICES ASSUME t.state = "running", s.blindsUp PROVE b
        BY <1>6 DEF ClockFits
    <2>2. CASE s.blindsUp # t.settings.blindsUp
        BY <1>3, <1>4, <2>1, <2>2, ArmedIs
    <2>3. CASE s.blindsUp = t.settings.blindsUp
        BY <1>1, <1>4, <2>1, <2>3 DEF ClockFits
    <2> QED BY <2>2, <2>3
<1>8. Sets(v, seats) /\ Same /\ (v.state = "ended" <=> t.state = "ended")
    BY <1>1, <1>2, <1>3, <1>4, <1>5, <1>6 DEF UpdateSettings
<1>9. Locked(t, v)
    BY <1>1 DEF UpdateSettings, Acceptable, TournamentLocked, Locked
<1> QED BY <1>6, <1>7, <1>8, <1>9, TableSet

(* A seated player's chips, status or leave change, and nothing else.          *)
LEMMA PlayerShown ==
    ASSUME SeatsInv, NEW q \in Seated(t), NEW x \in PlayerType, x.status \in Statuses \ {"left"},
           x.seat = t.p[q].seat, x.pending = t.p[q].pending, x.owes = t.p[q].owes, x.moved = t.p[q].moved,
           x.inHand = t.p[q].inHand, Sets([t EXCEPT !.p[q] = x], seats), Same,
           x.chips /\ ~t.p[q].chips => t.settings.rebuy
    PROVE  StepShown
<1>1. PICK v : v = [t EXCEPT !.p[q] = x]
    OBVIOUS
<1>2. Fits(v, seats, dealt, lastDealt) /\ Calm(t, v) /\ Locked(t, v)
    BY <1>1, PlayerChanges
<1>3. t' = v /\ seats' = seats /\ dealt' = dealt /\ lastDealt' = lastDealt /\ dealt \in SeatsType
    BY <1>1 DEF Sets, Same, SeatsInv
<1>4. dealt' \in SeatsType /\ Fits(t', seats', dealt', lastDealt') /\ Quiet(t, t')
    BY <1>2, <1>3 DEF Quiet
<1> QED BY <1>3, <1>4, QuietStep

LEMMA SitInShown ==
    ASSUME SeatsInv, NEW q \in Players, SitIn(q)
    PROVE  StepShown
<1>1. t.p[q] \in PlayerType /\ q \in Seated(t)
    BY TableIsTyped DEF SitIn
<1>2. PICK x : x = [t.p[q] EXCEPT !.status = IF t.p[q].chips THEN "active" ELSE "busted"]
    OBVIOUS
<1>3. /\ x \in PlayerType /\ x.status \in Statuses \ {"left"} /\ x.chips = t.p[q].chips
      /\ x.seat = t.p[q].seat /\ x.pending = t.p[q].pending /\ x.owes = t.p[q].owes /\ x.moved = t.p[q].moved
      /\ x.inHand = t.p[q].inHand
    BY <1>1, <1>2 DEF PlayerType, Statuses
<1>4. [t EXCEPT !.p[q].status = IF t.p[q].chips THEN "active" ELSE "busted"] = [t EXCEPT !.p[q] = x]
    BY <1>2, TableIsTyped DEF TableType
<1>5. Sets([t EXCEPT !.p[q] = x], seats) /\ Same
    BY <1>4 DEF SitIn
<1> QED BY <1>1, <1>3, <1>5, PlayerShown

LEMMA RebuyShown ==
    ASSUME SeatsInv, NEW q \in Players, Rebuy(q)
    PROVE  StepShown
<1>1. t.p[q] \in PlayerType /\ q \in Seated(t) /\ t.settings.rebuy
    BY TableIsTyped DEF Rebuy
<1>2. PICK x : x = [t.p[q] EXCEPT !.status = "active", !.chips = TRUE]
    OBVIOUS
<1>3. /\ x \in PlayerType /\ x.status \in Statuses \ {"left"}
      /\ x.seat = t.p[q].seat /\ x.pending = t.p[q].pending /\ x.owes = t.p[q].owes /\ x.moved = t.p[q].moved
      /\ x.inHand = t.p[q].inHand
    BY <1>1, <1>2 DEF PlayerType, Statuses
<1>4. [t EXCEPT !.p[q].status = "active", !.p[q].chips = TRUE] = [t EXCEPT !.p[q] = x]
    BY <1>2, TableIsTyped DEF TableType
<1>5. Sets([t EXCEPT !.p[q] = x], seats) /\ Same
    BY <1>4 DEF Rebuy
<1> QED BY <1>1, <1>3, <1>5, PlayerShown

LEMMA SitOutShown ==
    ASSUME SeatsInv, NEW q \in Players, SitOut(q)
    PROVE  StepShown
<1>1. t.p[q] \in PlayerType /\ q \in Seated(t)
    BY TableIsTyped DEF SitOut
<1>2. PICK x : x = [t.p[q] EXCEPT !.status = "sitting_out"]
    OBVIOUS
<1>3. /\ x \in PlayerType /\ x.status \in Statuses \ {"left"} /\ x.chips = t.p[q].chips
      /\ x.seat = t.p[q].seat /\ x.pending = t.p[q].pending /\ x.owes = t.p[q].owes /\ x.moved = t.p[q].moved
      /\ x.inHand = t.p[q].inHand
    BY <1>1, <1>2 DEF PlayerType, Statuses
<1>4. PICK tt : tt = [t EXCEPT !.p[q].status = "sitting_out"]
    OBVIOUS
<1>5. tt = [t EXCEPT !.p[q] = x]
    BY <1>2, <1>4, TableIsTyped DEF TableType
<1>6. \/ Sets(tt, seats) /\ Same
      \/ HandInProgress /\ FinishHand(tt, seats)
    BY <1>4 DEF SitOut
<1>7. CASE Sets(tt, seats) /\ Same
    <2>1. Sets([t EXCEPT !.p[q] = x], seats) /\ Same
        BY <1>5, <1>7
    <2> QED BY <1>1, <1>3, <2>1, PlayerShown
<1>8. CASE HandInProgress /\ FinishHand(tt, seats)
    <2>1. Fits(tt, seats, dealt, lastDealt) /\ Unlocked(tt, t)
        BY <1>1, <1>3, <1>5, PlayerChanges
    <2>2. t.hand = "playing" /\ FinishHand(tt, seats)
        BY <1>8 DEF HandInProgress
    <2> QED BY <2>1, <2>2, FinishShown
<1> QED BY <1>6, <1>7, <1>8

LEMMA AdjustChipsShown ==
    ASSUME SeatsInv, NEW q \in Players, AdjustChips(q)
    PROVE  StepShown
<1>1. /\ t \in TableType /\ q \in Seated(t) /\ ~t.settings.tournament /\ ClockFits(t)
      /\ Fits(t, seats, dealt, lastDealt) /\ dealt \in SeatsType
    BY TableIsTyped DEF AdjustChips, SeatsInv, Fits
<1>2. \A v : Locked(t, v)
    BY <1>1 DEF Locked
<1>3. CASE HandInProgress
    <2>1. PICK v : v = [t EXCEPT !.grants = @ \cup {q}]
        OBVIOUS
    <2>2. /\ v \in TableType /\ v.p = t.p /\ v.hand = t.hand /\ v.hands = t.hands /\ v.state = t.state
          /\ v.settings = t.settings /\ v.clock = t.clock
        BY <1>1, <2>1 DEF TableType, Seated
    <2>3. Sets(v, seats) /\ Same /\ (v.state = "ended" <=> t.state = "ended") /\ ClockFits(v)
        BY <1>1, <1>3, <2>1, <2>2 DEF AdjustChips, ClockFits
    <2> QED BY <1>2, <2>2, <2>3, TableSet
<1>4. CASE ~HandInProgress
    <2>1. PICK v : v = Granted(t, {q})
        OBVIOUS
    <2>2. /\ v \in TableType /\ SameTable(v, t) /\ Alike(v, t)
          /\ \A r \in Players : v.p[r].inHand = t.p[r].inHand
        BY <1>1, <2>1, GrantedFacts
    <2>3. v.hand = t.hand \/ (t.hand = "playing" /\ v.hand = "result")
        BY <2>2 DEF SameTable
    <2>4. v.state = "ended" <=> t.state = "ended"
        BY <2>2 DEF SameTable
    <2>5. v.hand = "playing" => \A r \in Players : v.p[r].inHand = t.p[r].inHand
        BY <2>2
    <2>6. ClockFits(v)
        BY <1>1, <2>2 DEF SameTable, ClockFits
    <2>7. Fits(v, seats, dealt, lastDealt)
        BY <1>1, <2>2, <2>3, <2>4, <2>5, <2>6, AlikeStep
    <2>8. Quiet(t, v)
        BY <1>2, <2>2 DEF Quiet, Calm, Unasked, NewRound, SameTable, Alike, Seated
    <2>9. t' = v /\ seats' = seats /\ dealt' = dealt /\ lastDealt' = lastDealt
        BY <1>4, <2>1 DEF AdjustChips, Sets, Same
    <2>10. dealt' \in SeatsType /\ Fits(t', seats', dealt', lastDealt') /\ Quiet(t, t')
        BY <1>1, <2>7, <2>8, <2>9
    <2> QED BY <2>9, <2>10, QuietStep
<1> QED BY <1>3, <1>4

(* A player who is not in the hand goes.                                       *)
LEMMA GoneKeeps ==
    ASSUME NEW u, NEW ss, NEW d \in SeatsType, NEW ld, Fits(u, ss, d, ld), NEW q \in Seated(u),
           u.hand = "playing" => ~u.p[q].inHand, NEW w, w = FreedPlayers(u, {q})
    PROVE  Fits(w, FreedSeats(u, ss, {q}), d, ld) /\ Quiet(u, w)
<1>1. u \in TableType /\ q \in Players /\ Orderly(u, ss, ld) /\ Seated(u) \subseteq Players
    BY DEF Fits, Orderly, Seated
<1>2. w \in TableType /\ SameTable(w, u) /\ w.p = FreedPlayers(u, {q}).p
    BY <1>1, FreedType
<1>3. /\ Orderly(w, FreedSeats(u, ss, {q}), ld)
      /\ Seated(w) = Seated(u) \ {q}
      /\ \A r \in Seated(w) : w.p[r] = u.p[r]
    <2>1. {q} \in SUBSET Seated(u)
        OBVIOUS
    <2> QED BY <1>1, <1>2, <2>1, FreedKeeps
<1>4. HandHeld(w, FreedSeats(u, ss, {q}), d)
    <2>1. SUFFICES ASSUME u.hand = "playing", NEW s \in Seats, d[s] # Nobody
                   PROVE  FreedSeats(u, ss, {q})[s] = d[s] /\ w.p[d[s]].inHand
        BY <1>2 DEF HandHeld, SameTable
    <2>2. ss[s] = d[s] /\ u.p[d[s]].inHand /\ d[s] \in Players
        BY <2>1 DEF Fits, HandHeld, SeatsType
    <2>3. d[s] # q /\ d[s] \in Seated(u) /\ u.p[q].seat # s
        BY <1>1, <2>1, <2>2 DEF Orderly, Placed
    <2>4. FreedSeats(u, ss, {q})[s] = ss[s]
        BY <2>3 DEF FreedSeats
    <2> QED BY <1>3, <2>2, <2>3, <2>4
<1>5. Cleared(w)
    BY <1>2, <1>3 DEF Fits, Cleared, NobodyWaits, SameTable
<1>6. ClockFits(w)
    BY <1>2 DEF Fits, ClockFits, SameTable
<1>7. Quiet(u, w)
    BY <1>2, <1>3 DEF Quiet, Calm, Unasked, NewRound, Locked, SameTable
<1> QED BY <1>3, <1>4, <1>5, <1>6, <1>7 DEF Fits

LEMMA LeaveShown ==
    ASSUME SeatsInv, NEW q \in Players, Leave(q)
    PROVE  StepShown
<1>1. t.p[q] \in PlayerType /\ q \in Seated(t) /\ dealt \in SeatsType
    BY TableIsTyped DEF Leave, SeatsInv
<1>2. PICK x : x = [t.p[q] EXCEPT !.leaving = TRUE]
    OBVIOUS
<1>3. /\ x \in PlayerType /\ x.status = t.p[q].status /\ x.chips = t.p[q].chips
      /\ x.seat = t.p[q].seat /\ x.pending = t.p[q].pending /\ x.owes = t.p[q].owes /\ x.moved = t.p[q].moved
      /\ x.inHand = t.p[q].inHand
    BY <1>1, <1>2 DEF PlayerType
<1>4. x.status \in Statuses \ {"left"}
    BY <1>1, <1>3 DEF Seated
<1>5. PICK tt : tt = [t EXCEPT !.p[q].leaving = TRUE]
    OBVIOUS
<1>6. tt = [t EXCEPT !.p[q] = x]
    BY <1>2, <1>5, TableIsTyped DEF TableType
<1>7. /\ Fits(tt, seats, dealt, lastDealt) /\ Unlocked(tt, t) /\ SameTable(tt, t)
      /\ tt.p[q] = x
    BY <1>1, <1>3, <1>4, <1>6, PlayerChanges, TableIsTyped DEF TableType
<1>8. \/ Sets(tt, seats) /\ Same
      \/ HandInProgress /\ t.p[q].inHand /\ FinishHand(tt, seats)
      \/ /\ ~(HandInProgress /\ t.p[q].inHand) /\ Same
         /\ Sets(FreedPlayers(tt, {q}), FreedSeats(tt, seats, {q}))
    BY <1>5 DEF Leave
<1>9. CASE Sets(tt, seats) /\ Same
    <2>1. Sets([t EXCEPT !.p[q] = x], seats) /\ Same
        BY <1>6, <1>9
    <2> QED BY <1>1, <1>3, <1>4, <2>1, PlayerShown
<1>10. CASE HandInProgress /\ t.p[q].inHand /\ FinishHand(tt, seats)
    <2>1. t.hand = "playing" /\ FinishHand(tt, seats)
        BY <1>10 DEF HandInProgress
    <2> QED BY <1>7, <2>1, FinishShown
<1>11. CASE /\ ~(HandInProgress /\ t.p[q].inHand) /\ Same
            /\ Sets(FreedPlayers(tt, {q}), FreedSeats(tt, seats, {q}))
    <2>1. q \in Seated(tt)
        BY <1>1, <1>7 DEF Unlocked, Alike
    <2>2. tt.hand = "playing" => ~tt.p[q].inHand
        BY <1>3, <1>7, <1>11 DEF HandInProgress, SameTable
    <2>3. PICK w : w = FreedPlayers(tt, {q})
        OBVIOUS
    <2>4. Fits(w, FreedSeats(tt, seats, {q}), dealt, lastDealt) /\ Quiet(tt, w)
        BY <1>1, <1>7, <2>1, <2>2, <2>3, GoneKeeps
    <2>5. Quiet(t, w)
        BY <1>7, <2>4, QuietAfter
    <2>6. t' = w /\ seats' = FreedSeats(tt, seats, {q}) /\ dealt' = dealt /\ lastDealt' = lastDealt
        BY <1>11, <2>3 DEF Sets, Same
    <2>7. dealt' \in SeatsType /\ Fits(t', seats', dealt', lastDealt') /\ Quiet(t, t')
        BY <1>1, <2>4, <2>5, <2>6
    <2> QED BY <2>6, <2>7, QuietStep
<1> QED BY <1>8, <1>9, <1>10, <1>11

LEMMA NewPlayerIs ==
    ASSUME NEW s \in Seats, NEW x, x = NewPlayer(s)
    PROVE  /\ x \in PlayerType /\ x.status = "active" /\ x.seat = s /\ x.pending = -1
           /\ ~(x.pending >= 0) /\ x.pending < 0 /\ x.moved = 0
<1>1. x = [status |-> "active", seat |-> s, chips |-> TRUE, pending |-> -1, owes |-> FALSE, moved |-> 0,
           inHand |-> FALSE, leaving |-> FALSE]
    BY DEF NewPlayer, Unknown
<1>2. x.status = "active" /\ x.seat = s /\ x.pending = -1 /\ x.moved = 0
    BY <1>1
<1>3. x \in PlayerType
    BY <1>1 DEF PlayerType, Statuses
<1>4. ~(x.pending >= 0) /\ x.pending < 0
    BY <1>2
<1> QED BY <1>2, <1>3, <1>4

LEMMA JoinShown ==
    ASSUME SeatsInv, NEW s \in Seats, Join(s)
    PROVE  StepShown
<1>1. /\ t \in TableType /\ dealt \in SeatsType /\ Orderly(t, seats, lastDealt) /\ seats \in SeatsType
      /\ Fits(t, seats, dealt, lastDealt) /\ seats[s] = Nobody /\ Seated(t) \subseteq Players
      /\ t.p \in [Players -> PlayerType]
    BY TableIsTyped DEF SeatsInv, Fits, Orderly, Join, Seated
<1>2. PICK q \in Players : q = NewPlayerID /\ t.p[q].status = "none"
    BY DEF Join, NewPlayerID
<1>3. PICK x : x = NewPlayer(s)
    OBVIOUS
<1>4. /\ x \in PlayerType /\ x.status = "active" /\ x.seat = s /\ x.pending = -1
      /\ ~(x.pending >= 0) /\ x.pending < 0 /\ x.moved = 0
    BY <1>3, NewPlayerIs
<1>5. PICK v : v = [t EXCEPT !.p[q] = x]
    OBVIOUS
<1>6. v \in TableType /\ SameTable(v, t) /\ v.p[q] = x /\ \A r \in Players \ {q} : v.p[r] = t.p[r]
    BY <1>1, <1>4, <1>5, PlayerSet
<1>7. PICK ws : ws = [seats EXCEPT ![s] = q]
    OBVIOUS
<1>8. ws \in SeatsType /\ \A r \in Seats : ws[r] = IF r = s THEN q ELSE seats[r]
    BY <1>1, <1>7 DEF SeatsType
<1>9. t' = v /\ seats' = ws /\ dealt' = dealt /\ lastDealt' = lastDealt
    BY <1>2, <1>3, <1>5, <1>7 DEF Join, Sets, Same
<1>10. q \notin Seated(t) /\ Seated(v) = Seated(t) \cup {q}
    BY <1>2, <1>4, <1>6 DEF Seated, Statuses
<1>11. Placed(v, ws)
    <2>1. \A r \in Seated(v) : v.p[r].seat \in Seats
        BY <1>1, <1>4, <1>6, <1>10 DEF Orderly, Placed
    <2>2. ASSUME NEW z \in Seats, NEW r \in Players
          PROVE  ws[z] = r <=> (r \in Seated(v) /\ v.p[r].seat = z)
        <3>1. seats[z] = r <=> (r \in Seated(t) /\ t.p[r].seat = z)
            BY <1>1 DEF Orderly, Placed
        <3>2. CASE r = q
            BY <1>4, <1>6, <1>8, <1>10, <3>1, <3>2
        <3>3. CASE r # q
            BY <1>1, <1>6, <1>8, <1>10, <3>1, <3>3, SeatsAssumption
        <3> QED BY <3>2, <3>3
    <2> QED BY <2>1, <2>2 DEF Placed
<1>12. Promised(v)
    <2>1. \A r \in Seated(v) : v.p[r].pending >= 0 => r # q /\ r \in Seated(t) /\ v.p[r] = t.p[r]
        BY <1>1, <1>4, <1>6, <1>10
    <2>2. \A r \in Seated(t) : v.p[r] = t.p[r]
        BY <1>1, <1>6, <1>10
    <2>3. \A r \in Seated(v) : v.p[r].pending >= 0 => v.p[r].pending # x.pending
        BY <1>4
    <2> QED BY <1>1, <1>6, <1>10, <2>1, <2>2, <2>3 DEF Promised, Orderly
<1>13. Posts(v, lastDealt)
    <2>1. lastDealt[q] = -1 /\ ~(lastDealt[q] >= 0)
        BY <1>1, <1>2 DEF Orderly, Posts
    <2> QED BY <1>1, <1>4, <1>6, <1>10, <2>1 DEF Orderly, Posts
<1>14. HandHeld(v, ws, dealt)
    <2>1. SUFFICES ASSUME t.hand = "playing", NEW z \in Seats, dealt[z] # Nobody
                   PROVE  ws[z] = dealt[z] /\ v.p[dealt[z]].inHand
        BY <1>6 DEF HandHeld, SameTable
    <2>2. seats[z] = dealt[z] /\ t.p[dealt[z]].inHand /\ dealt[z] \in Players
        BY <1>1, <2>1 DEF Fits, HandHeld, SeatsType
    <2>3. z # s /\ dealt[z] \in Seated(t)
        BY <1>1, <2>1, <2>2 DEF Orderly, Placed
    <2> QED BY <1>6, <1>8, <1>10, <2>2, <2>3
<1>15. Cleared(v)
    BY <1>1, <1>4, <1>6, <1>10 DEF Fits, Cleared, NobodyWaits, SameTable
<1>16. ClockFits(v)
    BY <1>1, <1>6 DEF Fits, ClockFits, SameTable
<1>17. Fits(v, ws, dealt, lastDealt)
    BY <1>6, <1>8, <1>11, <1>12, <1>13, <1>14, <1>15, <1>16 DEF Fits, Orderly
<1>18. Quiet(t, v)
    <2>1. \A r \in Seated(t) : r \in Players /\ v.p[r] = t.p[r]
        BY <1>1, <1>6, <1>10 DEF Seated
    <2>2. Unasked(t, v)
        BY <1>1, <1>4, <1>6, <1>10, <2>1 DEF Unasked, NewRound, SameTable
    <2> QED BY <1>1, <1>6, <1>10, <2>1, <2>2 DEF Quiet, Calm, Locked, SameTable
<1>19. dealt' \in SeatsType /\ Fits(t', seats', dealt', lastDealt') /\ Quiet(t, t')
    BY <1>1, <1>9, <1>17, <1>18
<1> QED BY <1>9, <1>19, QuietStep

(* A move is asked for.                                                        *)
LEMMA AskedKeeps ==
    ASSUME SeatsInv, NEW q \in Seated(t), NEW s \in Seats, ~SeatReserved(t, s), NEW a, a = Asked(q, s)
    PROVE  /\ Orderly(a, seats, lastDealt) /\ SameTable(a, t)
           /\ a.p[q].pending = s /\ a.p[q].moved = t.hands /\ a.p[q].inHand = t.p[q].inHand
           /\ \A r \in Players \ {q} : a.p[r] = t.p[r]
<1>1. /\ t \in TableType /\ t.p \in [Players -> PlayerType] /\ q \in Players /\ t.p[q] \in PlayerType
      /\ Seated(t) \subseteq Players /\ Orderly(t, seats, lastDealt) /\ t.hands \in Nat
    BY TableIsTyped DEF Seated, SeatsInv, Fits, TableType
<1>2. PICK x : x = [t.p[q] EXCEPT !.pending = s, !.owes = TRUE, !.moved = t.hands]
    OBVIOUS
<1>3. /\ x \in PlayerType /\ x.status = t.p[q].status /\ x.seat = t.p[q].seat /\ x.inHand = t.p[q].inHand
      /\ x.pending = s /\ x.owes /\ x.moved = t.hands
    BY <1>1, <1>2 DEF PlayerType
<1>4. a = [t EXCEPT !.p[q] = x]
    BY <1>1, <1>2 DEF Asked, TableType
<1>5. a \in TableType /\ SameTable(a, t) /\ a.p[q] = x /\ \A r \in Players \ {q} : a.p[r] = t.p[r]
    BY <1>1, <1>3, <1>4, PlayerSet
<1>6. Seated(a) = Seated(t)
    BY <1>3, <1>5 DEF Seated
<1>7. Placed(a, seats)
    BY <1>1, <1>3, <1>5, <1>6 DEF Orderly, Placed
<1>8. Promised(a)
    <2>1. \A r \in Seated(t) : t.p[r].pending # s
        BY DEF SeatReserved
    <2> QED BY <1>1, <1>3, <1>5, <1>6, <2>1 DEF Orderly, Promised
<1>9. Posts(a, lastDealt)
    BY <1>1, <1>3, <1>5, <1>6 DEF Orderly, Posts
<1> QED BY <1>1, <1>3, <1>5, <1>7, <1>8, <1>9 DEF Orderly

LEMMA ChangeSeatShown ==
    ASSUME SeatsInv, NEW q \in Players, NEW s \in Seats, ChangeSeat(q, s)
    PROVE  StepShown
<1>1. /\ t.state # "ended" /\ q \in Seated(t) /\ CanChangeSeat(t, q) /\ ~SeatReserved(t, s)
      /\ Fits(t, seats, dealt, lastDealt) /\ dealt \in SeatsType /\ t.hands \in Nat /\ ClockFits(t)
      /\ lastDealt \in [Players -> Seats \cup {-1}] /\ t.p[q].moved \in Nat
      /\ seats \in SeatsType /\ Orderly(t, seats, lastDealt) /\ Seated(t) \subseteq Players
    BY TableIsTyped DEF ChangeSeat, SeatsInv, Fits, Orderly, TableType, PlayerType, Seated
<1>2. PICK a : a = Asked(q, s)
    OBVIOUS
<1>3. /\ Orderly(a, seats, lastDealt) /\ SameTable(a, t)
      /\ a.p[q].pending = s /\ a.p[q].moved = t.hands /\ a.p[q].inHand = t.p[q].inHand
      /\ \A r \in Players \ {q} : a.p[r] = t.p[r]
    BY <1>1, <1>2, AskedKeeps
<1>4. PICK c : c = IF MovesNow(q) THEN ApplySeatChange([t |-> a, ss |-> seats], q) ELSE [t |-> a, ss |-> seats]
    OBVIOUS
<1>5. t' = c.t /\ seats' = c.ss /\ dealt' = dealt /\ lastDealt' = lastDealt
    BY <1>2, <1>4 DEF ChangeSeat, Sets, Same
<1>6. /\ Orderly(c.t, c.ss, lastDealt) /\ SameTable(c.t, t)
      /\ c.t.p[q].moved = t.hands /\ ~(c.t.p[q].pending < 0 /\ c.t.p[q].seat = t.p[q].seat)
      /\ \A r \in Players \ {q} : c.t.p[r] = t.p[r]
      /\ HandHeld(c.t, c.ss, dealt) /\ Cleared(c.t)
    <2>1. CASE MovesNow(q)
        <3>1. a.p[q].pending >= 0 /\ q \in Seated(a)
            <4>1. a \in TableType /\ s >= 0
                BY <1>3, SeatsAreInts DEF Orderly
            <4>2. \A z \in Seats : seats[z] = q <=> (q \in Seated(a) /\ a.p[q].seat = z)
                BY <1>1, <1>3 DEF Orderly, Placed
            <4>3. t.p[q].seat \in Seats /\ seats[t.p[q].seat] = q
                BY <1>1 DEF Orderly, Placed
            <4> QED BY <1>3, <4>1, <4>2, <4>3
        <3>2. c = ApplySeatChange([t |-> a, ss |-> seats], q)
            BY <1>4, <2>1
        <3>3. /\ Orderly(c.t, c.ss, lastDealt) /\ SameTable(c.t, a)
              /\ SamePlayer(c.t.p[q], a.p[q]) /\ c.t.p[q].pending = -1
              /\ \A r \in Players \ {q} : c.t.p[r] = a.p[r]
              /\ \A z \in Seats : seats[z] \notin {q, Nobody} => c.ss[z] = seats[z]
            BY <1>3, <3>1, <3>2, MoveKeeps
        <3>4. SameTable(c.t, t) /\ c.t.p[q].moved = t.hands /\ \A r \in Players \ {q} : c.t.p[r] = t.p[r]
            BY <1>3, <3>3 DEF SameTable, SamePlayer
        <3>5. HandHeld(c.t, c.ss, dealt)
            <4>1. SUFFICES ASSUME t.hand = "playing", NEW z \in Seats, dealt[z] # Nobody
                           PROVE  c.ss[z] = dealt[z] /\ c.t.p[dealt[z]].inHand
                BY <3>4 DEF HandHeld, SameTable
            <4>2. seats[z] = dealt[z] /\ t.p[dealt[z]].inHand /\ dealt[z] \in Players
                BY <1>1, <4>1 DEF Fits, HandHeld, SeatsType
            <4>3. dealt[z] # q
                BY <2>1, <4>1, <4>2 DEF MovesNow, HandInProgress
            <4> QED BY <3>3, <3>4, <4>1, <4>2, <4>3
        <3>6. Cleared(c.t)
            <4>1. t.hand = "none" => NobodyWaits(t)
                BY <1>1 DEF Fits, Cleared
            <4>2. \A r \in Seated(c.t) : r # q => r \in Seated(t) /\ c.t.p[r] = t.p[r]
                BY <3>4 DEF Seated
            <4>3. t.hand = "none" => NobodyWaits(c.t)
                BY <3>3, <4>1, <4>2 DEF NobodyWaits
            <4> QED BY <1>1, <3>4, <4>3 DEF Cleared, SameTable
        <3>7. c.t.p[q].seat # t.p[q].seat
            <4>1. MayMove(a, seats, q)
                <5>1. s \in 0 .. a.settings.max - 1
                    BY <1>3, SeatsAssumption DEF ChangeSeat, SameTable, Seats, Orderly, TableType
                <5> QED BY <1>3, <5>1 DEF MayMove, ChangeSeat
            <4> QED BY <1>3, <3>1, <3>2, <4>1, MoveKeeps DEF ChangeSeat
        <3> QED BY <3>3, <3>4, <3>5, <3>6, <3>7
    <2>2. CASE ~MovesNow(q)
        <3>1. c.t = a /\ c.ss = seats
            BY <1>4, <2>2
        <3>2. t.hand = "playing"
            BY <2>2 DEF MovesNow, HandInProgress
        <3>3. HandHeld(a, seats, dealt)
            <4>1. SUFFICES ASSUME NEW z \in Seats, dealt[z] # Nobody
                           PROVE  seats[z] = dealt[z] /\ a.p[dealt[z]].inHand
                BY DEF HandHeld
            <4>2. seats[z] = dealt[z] /\ t.p[dealt[z]].inHand /\ dealt[z] \in Players
                BY <1>1, <3>2, <4>1 DEF Fits, HandHeld, SeatsType
            <4> QED BY <1>3, <4>2
        <3>4. Cleared(a)
            BY <1>1, <1>3, <3>2 DEF Cleared, SameTable
        <3>5. ~(a.p[q].pending < 0)
            BY <1>3, SeatsAreInts, SeatsAssumption DEF Seats
        <3> QED BY <1>3, <3>1, <3>3, <3>4, <3>5
    <2> QED BY <2>1, <2>2
<1>7. ClockFits(c.t)
    BY <1>1, <1>6 DEF ClockFits, SameTable
<1>8. TableInv'
    <2>1. Fits(c.t, c.ss, dealt, lastDealt)
        BY <1>6, <1>7 DEF Fits
    <2>2. Fits(t', seats', dealt', lastDealt')
        BY <1>5, <2>1
    <2> QED BY <1>1, <1>5, <2>2 DEF TableInv
<1>9. Apart(c.t)
    BY <1>6, OrderlyIsApart
<1>10. Noted(t, c.t)
    <2>1. Seated(c.t) \subseteq Seated(t) \cup {q} /\ t.p[q].pending < 0 /\ ~NewRound(t, c.t)
        BY <1>1, <1>6 DEF Seated, CanChangeSeat, NewRound
    <2>2. \A r \in Players \ {q} : ~Moves(t, c.t, r)
        BY <1>6 DEF Moves
    <2>3. q \in Seated(c.t) => Moves(t, c.t, q)
        BY <1>1, <1>6, <2>1 DEF Moves
    <2>4. t.p[q].moved = 0 \/ t.hands - t.p[q].moved >= Cooldown
        BY <1>1 DEF CanChangeSeat
    <2>5. \A r \in Seated(c.t) : r \in Seated(t) /\ (r # q => r \in Players)
        BY <1>1, <2>1
    <2> QED BY <1>6, <2>1, <2>2, <2>3, <2>4, <2>5 DEF Noted
<1>11. Locked(t, c.t)
    BY <1>1 DEF CanChangeSeat, TournamentLocked, Locked
<1>12. Posting
    BY <1>5, <1>6 DEF Posting, SameTable
<1>13. Apart(t') /\ Noted(t, t') /\ Locked(t, t')
    BY <1>5, <1>9, <1>10, <1>11
<1> QED BY <1>8, <1>12, <1>13 DEF StepShown

LEMMA RestartShown ==
    ASSUME SeatsInv, Restart
    PROVE  StepShown
<1>1. /\ t \in TableType /\ t.p \in [Players -> PlayerType] /\ \A q \in Players : t.p[q] \in PlayerType
      /\ Orderly(t, seats, lastDealt) /\ dealt \in SeatsType /\ seats \in SeatsType
      /\ t.state = "ended" /\ t.hand = "none" /\ Seated(t) \subseteq Players
    BY TableIsTyped DEF Restart, SeatsInv, Fits, Orderly, Cleared, Seated
<1>2. PICK P : P = [q \in Players |-> IF q \in Seated(t) THEN NewPlayer(t.p[q].seat) ELSE t.p[q]]
    OBVIOUS
<1>3. \A q \in Seated(t) : t.p[q].seat \in Seats
    BY <1>1 DEF Orderly, Placed
<1>4. ASSUME NEW q \in Seated(t)
      PROVE  /\ P[q] \in PlayerType /\ P[q].status = "active" /\ P[q].seat = t.p[q].seat /\ P[q].pending < 0
             /\ ~(P[q].pending >= 0) /\ P[q].moved = 0
    <2>1. P[q] = NewPlayer(t.p[q].seat) /\ t.p[q].seat \in Seats
        BY <1>1, <1>2, <1>3
    <2> QED BY <2>1, NewPlayerIs
<1>5. \A q \in Players \ Seated(t) : P[q] = t.p[q]
    BY <1>2
<1>6. P \in [Players -> PlayerType]
    BY <1>1, <1>2, <1>4, <1>5
<1>7. PICK w : w = [t EXCEPT !.state = "waiting", !.roundStart = t.hands, !.endAfter = FALSE, !.button = -1]
    OBVIOUS
<1>8. w \in TableType /\ w.hand = "none" /\ w.state = "waiting" /\ w.hands = t.hands
    BY <1>1, <1>7 DEF TableType
<1>9. PICK v : v = [w EXCEPT !.grants = {}, !.clock = FALSE, !.held = FALSE, !.p = P]
    OBVIOUS
<1>10. v \in TableType /\ v.hand = "none" /\ v.state = "waiting" /\ v.hands = t.hands /\ v.p = P
    BY <1>6, <1>8, <1>9 DEF TableType
<1>11. Sets(v, seats) /\ dealt' = dealt /\ lastDealt' = [q \in Players |-> -1]
    <2>1. v = [t EXCEPT !.state = "waiting", !.roundStart = t.hands, !.endAfter = FALSE, !.button = -1, !.grants = {},
                        !.clock = FALSE, !.held = FALSE, !.p = P]
        BY <1>1, <1>7, <1>9 DEF TableType
    <2> QED BY <1>2, <2>1 DEF Restart
<1>12. t' = v /\ seats' = seats
    BY <1>11 DEF Sets
<1>13. Seated(v) = Seated(t)
    BY <1>1, <1>4, <1>5, <1>10 DEF Seated, Statuses
<1>14. Placed(v, seats)
    BY <1>1, <1>3, <1>4, <1>10, <1>13 DEF Orderly, Placed
<1>15. Promised(v)
    BY <1>4, <1>10, <1>13 DEF Promised
<1>16. Posts(v, lastDealt')
    BY <1>1, <1>11, <1>13 DEF Posts
<1>17. Fits(v, seats, dealt, lastDealt')
    <2>1. NobodyWaits(v)
        BY <1>4, <1>10, <1>13 DEF NobodyWaits
    <2>2. HandHeld(v, seats, dealt) /\ Cleared(v) /\ ClockFits(v)
        BY <1>10, <2>1 DEF HandHeld, Cleared, ClockFits
    <2>3. Orderly(v, seats, lastDealt')
        BY <1>1, <1>10, <1>14, <1>15, <1>16 DEF Orderly
    <2> QED BY <2>2, <2>3 DEF Fits
<1>18. TableInv'
    <2>1. Fits(t', seats', dealt', lastDealt')
        BY <1>11, <1>12, <1>17
    <2>2. dealt' \in SeatsType /\ lastDealt' \in [Players -> Seats \cup {-1}]
        BY <1>1, <1>11
    <2> QED BY <2>1, <2>2 DEF TableInv
<1>19. Apart(v) /\ Noted(t, v)
    <2>1. \A q \in Seated(v) : v.p[q].moved = 0
        BY <1>4, <1>10, <1>13
    <2>2. \A q : ~Moves(t, v, q)
        BY <1>1, <1>4, <1>10, <1>13 DEF Moves
    <2>3. NewRound(t, v)
        BY <1>1, <1>10 DEF NewRound
    <2> QED BY <1>1, <1>4, <1>10, <1>13, <2>1, <2>2, <2>3 DEF Apart, Noted
<1>20. Locked(t, v)
    BY <1>10 DEF Locked
<1> QED BY <1>10, <1>12, <1>18, <1>19, <1>20 DEF StepShown, Posting

-------------------------------------------------------------------------------
(* The theorems.                                                               *)

LEMMA AtFirst == Init => SeatsInv
<1> SUFFICES ASSUME Init PROVE SeatsInv
    OBVIOUS
<1>1. PICK s \in Settings : t = NewTable(s)
    BY DEF Init
<1>2. /\ seats = [r \in Seats |-> Nobody] /\ dealt = [r \in Seats |-> Nobody]
      /\ lastDealt = [q \in Players |-> -1] /\ lastMove = [q \in Players |-> 0]
    BY DEF Init
<1>3. Unknown \in PlayerType /\ Unknown.status = "none"
    BY DEF Unknown, PlayerType, Statuses
<1>4. \A q \in Players : t.p[q] = Unknown
    BY <1>1 DEF NewTable
<1>5. t \in TableType /\ t.state = "waiting" /\ t.hand = "none"
    BY <1>1, <1>3 DEF NewTable, TableType
<1>6. Seated(t) = {}
    BY <1>3, <1>4 DEF Seated, Statuses
<1>7. seats \in SeatsType /\ dealt \in SeatsType /\ lastDealt \in [Players -> Seats \cup {-1}]
    BY <1>2 DEF SeatsType
<1>8. Orderly(t, seats, lastDealt)
    <2>1. Placed(t, seats)
        BY <1>2, <1>6, SeatsAssumption DEF Placed
    <2>2. Promised(t) /\ Posts(t, lastDealt)
        BY <1>2, <1>6 DEF Promised, Posts
    <2> QED BY <1>5, <1>7, <2>1, <2>2 DEF Orderly
<1> QED BY <1>2, <1>5, <1>6, <1>7, <1>8 DEF SeatsInv, Fits, HandHeld, Cleared, NobodyWaits, ClockFits, Watching

(* Each step of the table, whatever it is, shows the rules.                    *)
LEMMA StepIsShown ==
    ASSUME SeatsInv, Played \/ Command
    PROVE  StepShown
<1>1. CASE Played
    <2>1. CASE Start
        BY <2>1, StartTableShown
    <2>2. CASE Deal
        BY <2>2, DealShown
    <2>3. CASE HandEnds
        BY <2>3, HandEndsShown
    <2>4. CASE ClearHand
        BY <2>4, ClearShown
    <2>5. CASE \E s \in Seats : Join(s)
        BY <2>5, JoinShown
    <2> QED BY <1>1, <2>1, <2>2, <2>3, <2>4, <2>5 DEF Played
<1>2. CASE Command
    <2>1. CASE \E q \in Players : \E s \in Seats : ChangeSeat(q, s)
        BY <2>1, ChangeSeatShown
    <2>2. CASE \E q \in Players : Leave(q)
        BY <2>2, LeaveShown
    <2>3. CASE \E q \in Players : SitOut(q) \/ SitIn(q)
        BY <2>3, SitOutShown, SitInShown
    <2>4. CASE \E q \in Players : Rebuy(q) \/ AdjustChips(q)
        BY <2>4, RebuyShown, AdjustChipsShown
    <2>5. CASE \E s \in Settings : UpdateSettings(s)
        BY <2>5, UpdateSettingsShown
    <2>6. CASE BlindsUp
        BY <2>6, BlindsUpShown
    <2>7. CASE Pause \/ Resume
        BY <2>7, PauseShown, ResumeShown
    <2>8. CASE Restart \/ \E immediate \in BOOLEAN : End(immediate)
        BY <2>8, RestartShown, EndNowShown
    <2> QED BY <1>2, <2>1, <2>2, <2>3, <2>4, <2>5, <2>6, <2>7, <2>8 DEF Command
<1> QED BY <1>1, <1>2

(* And it keeps the invariant.                                                 *)
LEMMA EveryStep ==
    ASSUME SeatsInv, Next
    PROVE  StepShown /\ SeatsInv'
<1>1. Played \/ Command
    BY DEF Next
<1>2. StepShown
    BY <1>1, StepIsShown
<1>3. Watching'
    <2>1. lastMove' = [q \in Players |-> IF q \notin Seated(t) \/ NewRound(t, t') THEN 0
                                         ELSE IF Moves(t, t', q) THEN t.hands ELSE lastMove[q]]
        BY DEF Next, Watched
    <2>2. lastMove \in [Players -> Nat] /\ t.hands \in Nat /\ Seated(t') \subseteq Players
          /\ \A q \in Seated(t) : t.p[q].moved = lastMove[q]
        BY TableIsTyped DEF SeatsInv, Watching, TableType, Seated
    <2>3. \A q \in Seated(t') :
             t'.p[q].moved = IF q \notin Seated(t) \/ NewRound(t, t') THEN 0
                             ELSE IF Moves(t, t', q) THEN t.hands ELSE t.p[q].moved
        BY <1>2 DEF StepShown, Noted
    <2>4. lastMove' \in [Players -> Nat]
        BY <2>1, <2>2
    <2>5. \A q \in Seated(t') : t'.p[q].moved = lastMove'[q]
        BY <2>1, <2>2, <2>3
    <2> QED BY <2>4, <2>5 DEF Watching
<1> QED BY <1>2, <1>3 DEF StepShown, TableInv, SeatsInv

LEMMA Stutters ==
    ASSUME SeatsInv, UNCHANGED vars
    PROVE  SeatsInv'
BY DEF vars, SeatsInv, Watching

(* The invariant holds always.                                                 *)
THEOREM SeatsInvAlways == Spec => []SeatsInv
<1>1. SeatsInv /\ [Next]_vars => SeatsInv'
    BY EveryStep, Stutters
<1> QED BY AtFirst, <1>1, PTL DEF Spec

(* However joins, late moves and departures meet, everybody has one seat, no   *)
(* seat is lost, and a hand keeps the seats it was dealt to (table.go:1063,    *)
(* table.go:1090).                                                             *)
THEOREM SeatsAgreeAlways == Spec => []SeatsAgree
<1>1. SeatsInv => SeatsAgree
    <2> SUFFICES ASSUME SeatsInv PROVE SeatsAgree
        OBVIOUS
    <2>1. /\ t \in TableType /\ seats \in SeatsType /\ dealt \in SeatsType /\ Placed(t, seats)
          /\ HandHeld(t, seats, dealt)
        BY DEF SeatsInv, Fits, Orderly
    <2>2. \A q \in Seated(t) : t.p[q].pending \in Seats \cup {-1}
        BY <2>1 DEF TableType, PlayerType, Seated
    <2>3. TypeOK
        BY <2>1, <2>2 DEF TypeOK, TableType, SeatsType, Placed
    <2>4. OneSeatEach
        BY <2>1 DEF OneSeatEach, Placed
    <2>5. HandSeatsHold
        BY <2>1 DEF HandSeatsHold, HandHeld
    <2> QED BY <2>3, <2>4, <2>5 DEF SeatsAgree
<1> QED BY SeatsInvAlways, <1>1, PTL

(* Nobody dodges a blind by moving, once a hand has been dealt the moves of one*)
(* player in a round are Cooldown hands apart, two moves in one hand among     *)
(* them, and no two wait for the same seat (rules.md:210, rules.md:212).       *)
THEOREM MovesAlwaysKeepTheRules == Spec => MovesKeepTheRules
<1>1. SeatsInv /\ [Next]_vars =>
          [t.hands # t'.hands =>
              \A q \in Players : (lastDealt'[q] # lastDealt[q] /\ lastDealt[q] >= 0) => q \in posted']_vars
    BY EveryStep DEF StepShown, Posting
<1>2. SeatsInv /\ [Next]_vars =>
          [\A q \in Players :
              /\ (Moves(t, t', q) /\ lastMove[q] > 0) => t.hands - lastMove[q] >= Cooldown
              /\ \A r \in Players \ {q} :
                    (q \in Seated(t') /\ r \in Seated(t') /\ t'.p[q].pending >= 0) => t'.p[q].pending # t'.p[r].pending]_vars
    <2>1. ASSUME SeatsInv, Next, NEW q \in Players, Moves(t, t', q), lastMove[q] > 0
          PROVE  t.hands - lastMove[q] >= Cooldown
        <3>1. t.p[q].moved = 0 \/ t.hands - t.p[q].moved >= Cooldown
            BY <2>1, EveryStep DEF StepShown, Noted
        <3>2. t.p[q].moved = lastMove[q] /\ lastMove[q] \in Nat
            BY <2>1 DEF SeatsInv, Watching, Moves
        <3> QED BY <2>1, <3>1, <3>2
    <2>2. ASSUME SeatsInv, Next PROVE Apart(t')
        BY <2>2, EveryStep DEF StepShown
    <2> QED BY <2>1, <2>2 DEF Apart
<1>3. Spec => MoversPost
    BY SeatsInvAlways, <1>1, PTL DEF Spec, MoversPost
<1>4. Spec => MovesAreApart
    BY SeatsInvAlways, <1>2, PTL DEF Spec, MovesAreApart
<1> QED BY <1>3, <1>4 DEF MovesKeepTheRules

(* A tournament that has dealt keeps seats, settings and rebuys, and a running *)
(* table with a schedule has its clock running, whoever stops, resumes,        *)
(* changes or ends it (protocol.md:160, rules.md:204).                         *)
THEOREM HostRulesAlwaysHold == Spec => HostRulesHold
<1>1. SeatsInv /\ [Next]_vars => [LockHolds /\ ClockRuns']_vars
    <2>1. ASSUME SeatsInv, Next PROVE LockHolds /\ ClockRuns'
        <3>1. SeatsInv' /\ Locked(t, t')
            BY <2>1, EveryStep DEF StepShown
        <3>2. ClockRuns'
            BY <3>1 DEF SeatsInv, Fits, ClockFits, ClockRuns
        <3>3. LockHolds
            BY <3>1 DEF Locked, LockHolds, NothingPending, NobodyWaits
        <3> QED BY <3>2, <3>3
    <2> QED BY <2>1
<1> QED BY SeatsInvAlways, <1>1, PTL DEF Spec, HostRulesHold
=============================================================================
