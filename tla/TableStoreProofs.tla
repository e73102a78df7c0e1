-------------------------- MODULE TableStoreProofs --------------------------
(* Proofs about TableStore, for any players, seats, settings and bounds.       *)
(*                                                                            *)
(* The rows lag behind the actor's memory by the jobs of the queue.  A view    *)
(* is what one moment of that memory shows of itself to the rows; every job    *)
(* takes the view it was enqueued in to the next.  The invariant: some run of  *)
(* views leads through the queue, it ends in the view of the memory, and the   *)
(* rows are what it starts from (Lag).  Executing a job drops the first view   *)
(* of the run, a command adds views at its end, a crash keeps the first only.  *)
EXTENDS TableStore, TLAPS, SequenceTheorems, FiniteSetTheorems, NaturalsInduction, WellFoundedInduction

-------------------------------------------------------------------------------
(* Views.                                                                      *)

Stacks == UNION {[S -> Nat] : S \in SUBSET Players}
Rows   == [Players -> PlayerRow \cup {NoRow}]

(* The rows of the players and of the table, the hand that is open, the hand   *)
(* that has not been counted, and the hand a finish job would be for.          *)
View == [players : Rows, table : TableRow \cup {NoTable}, live : SUBSET Nat, due : SUBSET Nat, name : Nat]

RowOf(tt, p) == IF tt.status[p] = "none" THEN NoRow
                ELSE [seat |-> tt.seat[p], stack |-> tt.stack[p], status |-> tt.status[p]]
RowsOf(tt)   == [p \in Players |-> RowOf(tt, p)]
RowOfTable(tt) == [state |-> tt.state, hands |-> tt.hands]
Live(tt)     == IF tt.hand = "playing" THEN {tt.hands} ELSE {}
ViewOf(tt)   == [players |-> RowsOf(tt), table |-> RowOfTable(tt), live |-> Live(tt), due |-> Live(tt), name |-> tt.hands]

(* No two players who would come back have one seat.                           *)
BackIn(rows) == {p \in Players : rows[p].status \in Statuses \ {"left"}}
Apart(rows)   == \A p, q \in BackIn(rows) : p # q => rows[p].seat # rows[q].seat

PlayerType   == [kind : {"player"}, p : Players, row : PlayerRow]
TableType    == [kind : {"table"}, row : TableRow]
InsertType   == [kind : {"insert"}, n : 1 .. MaxHands, start : Stacks]
FinishType   == [kind : {"finish"}, n : 0 .. MaxHands, voided : BOOLEAN]
SessionsType == [kind : {"sessions"}, p : Players]
ResultsType  == [kind : {"results"}, n : 0 .. MaxHands, of : SUBSET Players]
Job == UNION {PlayerType, TableType, InsertType, FinishType, SessionsType, ResultsType}

(* What a job makes of the view, and when it may be next.                      *)
WritesPlayer(V, job, W) ==
    /\ job \in PlayerType /\ W = [V EXCEPT !.players[job.p] = job.row]
    /\ Apart(V.players) => Apart(W.players)
WritesTable(V, job, W) ==
    /\ job \in TableType /\ W = [V EXCEPT !.table = job.row]
    /\ V.table.hands <= job.row.hands /\ job.row.hands <= MaxHands
OpensHand(V, job, W) ==
    /\ job \in InsertType /\ W = [V EXCEPT !.live = {job.n}, !.due = {job.n}, !.name = job.n]
    /\ V.live = {} /\ V.table.hands < job.n
Closed(V) == [V EXCEPT !.live = {}, !.due = {}]
ClosesHand(V, job, W) ==
    /\ job \in FinishType /\ W = Closed(V)
    /\ job.n = V.name
CountsHand(V, job, W) ==
    /\ job \in ResultsType /\ W = [V EXCEPT !.due = {}]
    /\ job.n \in V.due /\ job.n <= V.table.hands
EndsSessions(V, job, W) == job \in SessionsType /\ W = V

Step(V, job, W) ==
    \/ WritesPlayer(V, job, W) \/ WritesTable(V, job, W) \/ OpensHand(V, job, W)
    \/ ClosesHand(V, job, W) \/ CountsHand(V, job, W) \/ EndsSessions(V, job, W)

Leads(V, js, W) ==
    \E f \in [0 .. Len(js) -> View] :
        /\ f[0] = V /\ f[Len(js)] = W
        /\ \A k \in 1 .. Len(js) : Step(f[k - 1], js[k], f[k])

-------------------------------------------------------------------------------
(* The invariant.                                                              *)

Memory == [settings : [rebuy : BOOLEAN, autoStart : BOOLEAN], state : {"waiting", "running", "paused", "ended"},
           hands : 0 .. MaxHands, hand : {"none", "playing", "result"}, endAfter : BOOLEAN,
           seat : [Players -> Seats], pendingSeat : [Players -> Seats \cup {-1}], stack : [Players -> Nat],
           status : [Players -> Statuses \cup {"none"}],
           leaving : SUBSET Players, inHand : SUBSET Players, start : Stacks]

(* What the actor knows makes sense.                                           *)
Sane(tt) ==
    /\ tt \in Memory
    /\ tt.leaving \subseteq Seated(tt) /\ tt.inHand \subseteq Seated(tt)
    /\ tt.hand = "playing" => tt.inHand \subseteq DOMAIN tt.start

HandRows == UNION {[S -> [start : Stacks, of : 0 .. MaxHands, open : BOOLEAN, voided : BOOLEAN]] : S \in SUBSET (1 .. MaxHands)}
Database == [table : TableRow \cup {NoTable}, settings : [rebuy : BOOLEAN, autoStart : BOOLEAN], players : Rows,
             hands : HandRows, results : Seq(Players \X Nat)]

(* The rows are those of the view; its hand, and no other, is open, and a      *)
(* finish would close it; no hand is counted twice.                            *)
Shown(d, V)     == d.players = V.players /\ d.table = V.table
Opened(d, r, V) == /\ \A n \in DOMAIN d.hands : d.hands[n].open <=> n \in V.live
                   /\ V.live \subseteq {r}
Counted(d, V)   ==
    /\ IsInjective(d.results)
    /\ \A i \in DOMAIN d.results :
          d.results[i][2] \notin V.due /\ (V.table # NoTable => d.results[i][2] <= V.table.hands)

Shows(d, r, V) ==
    /\ r \in {None, V.name}
    /\ ~lost => Shown(d, V)
    /\ ~lost /\ stage # "gone" => Opened(d, r, V)
    /\ ~gaveUp => Apart(V.players) /\ Counted(d, V)

Behind(V, W) ==
    /\ Leads(V, queue, W) /\ Shows(db, rowID, V)
    /\ stage # "gone" => W = ViewOf(t)
Lag == \E V \in View, W \in View : Behind(V, W)

Kept(d, r) ==
    /\ d \in Database /\ d.table.hands \in 0 .. MaxHands /\ r \in 0 .. MaxHands
    /\ \A n \in DOMAIN d.hands : d.hands[n].of \in {None, n}

Typed ==
    /\ proc \in {"up", "down"} /\ stage \in Stages /\ Sane(t)
    /\ queue \in Seq(Job) /\ Len(queue) <= QueueCap
    /\ tries \in 0 .. Attempts - 1 /\ Kept(db, rowID)
    /\ purge \in BOOLEAN /\ lost \in BOOLEAN /\ gaveUp \in BOOLEAN
    /\ lost => gaveUp
    /\ proc = "down" => stage = "gone" /\ queue = <<>> /\ rowID = None /\ tries = 0

StoreInv == Typed /\ Lag
(* Runs of views.                                                              *)

LEMMA LengthIsNat ==
    ASSUME NEW S, NEW s \in Seq(S)
    PROVE  Len(s) \in Nat /\ DOMAIN s = 1 .. Len(s) /\ \A i \in 1 .. Len(s) : s[i] \in S
BY LenProperties, ElementOfSeq

LEMMA SomeSeqOfOne ==
    ASSUME NEW S, NEW x \in S
    PROVE  <<x>> \in Seq(S) /\ Len(<<x>>) = 1 /\ <<x>>[1] = x
OBVIOUS

LEMMA StepKinds ==
    ASSUME NEW V \in View, NEW job, NEW W, Step(V, job, W)
    PROVE  job \in Job /\ W \in View
<1>1. CASE WritesPlayer(V, job, W)
    <2>1. job \in PlayerType /\ job.p \in Players /\ job.row \in PlayerRow /\ W = [V EXCEPT !.players[job.p] = job.row]
        BY <1>1 DEF WritesPlayer, PlayerType
    <2>2. V.players \in Rows /\ [V.players EXCEPT ![job.p] = job.row] \in Rows
        BY <2>1 DEF View, Rows
    <2>3. W = [V EXCEPT !.players = [V.players EXCEPT ![job.p] = job.row]]
        BY <2>1
    <2> QED BY <2>1, <2>2, <2>3 DEF View, Job
<1>2. CASE WritesTable(V, job, W)
    BY <1>2 DEF WritesTable, TableType, View, Job
<1>3. CASE OpensHand(V, job, W)
    <2>1. job \in InsertType /\ job.n \in Nat /\ W = [V EXCEPT !.live = {job.n}, !.due = {job.n}, !.name = job.n]
        BY <1>3, StoreAssumption DEF OpensHand, InsertType
    <2> QED BY <2>1 DEF View, Job
<1>4. CASE ClosesHand(V, job, W)
    BY <1>4 DEF ClosesHand, Closed, View, Job
<1>5. CASE CountsHand(V, job, W)
    BY <1>5 DEF CountsHand, View, Job
<1>6. CASE EndsSessions(V, job, W)
    BY <1>6 DEF EndsSessions, Job
<1> QED BY <1>1, <1>2, <1>3, <1>4, <1>5, <1>6 DEF Step

LEMMA LeadsNone ==
    ASSUME NEW V \in View
    PROVE  Leads(V, <<>>, V)
<1>1. Len(<<>>) = 0
    OBVIOUS
<1>2. PICK f : f = [k \in 0 .. 0 |-> V]
    OBVIOUS
<1>3. f \in [0 .. Len(<<>>) -> View] /\ f[0] = V /\ f[Len(<<>>)] = V
    BY <1>1, <1>2
<1>4. \A k \in 1 .. Len(<<>>) : FALSE
    BY <1>1
<1> QED BY <1>3, <1>4 DEF Leads

LEMMA LeadsNowhere ==
    ASSUME NEW V \in View, NEW W, Leads(V, <<>>, W)
    PROVE  W = V
<1>1. Len(<<>>) = 0
    OBVIOUS
<1> QED BY <1>1 DEF Leads

LEMMA LeadsOne ==
    ASSUME NEW V \in View, NEW job, NEW W, Step(V, job, W)
    PROVE  Leads(V, <<job>>, W)
<1>1. Len(<<job>>) = 1 /\ <<job>>[1] = job /\ 0 .. 1 = {0, 1} /\ 1 .. 1 = {1}
    OBVIOUS
<1>2. W \in View
    BY StepKinds
<1>3. PICK f : f = [k \in 0 .. 1 |-> IF k = 0 THEN V ELSE W]
    OBVIOUS
<1>4. f \in [0 .. 1 -> View] /\ f[0] = V /\ f[1] = W
    BY <1>1, <1>2, <1>3
<1>5. \A k \in 1 .. 1 : Step(f[k - 1], <<job>>[k], f[k])
    BY <1>1, <1>4
<1> QED BY <1>1, <1>4, <1>5 DEF Leads

LEMMA LeadsToViews ==
    ASSUME NEW V, NEW W, NEW js \in Seq(Job), Leads(V, js, W)
    PROVE  V \in View /\ W \in View
BY LengthIsNat DEF Leads

LEMMA LeadsOn ==
    ASSUME NEW U, NEW V, NEW W, NEW a \in Seq(Job), NEW b \in Seq(Job), Leads(U, a, V), Leads(V, b, W)
    PROVE  Leads(U, a \o b, W) /\ a \o b \in Seq(Job)
<1> DEFINE m == Len(a)
           n == Len(b)
<1>1. /\ m \in Nat /\ n \in Nat /\ a \o b \in Seq(Job) /\ Len(a \o b) = m + n
      /\ \A i \in 1 .. m + n : (a \o b)[i] = IF i <= m THEN a[i] ELSE b[i - m]
    BY ConcatProperties, LengthIsNat
<1>2. PICK f \in [0 .. m -> View] : f[0] = U /\ f[m] = V /\ \A k \in 1 .. m : Step(f[k - 1], a[k], f[k])
    BY DEF Leads
<1>3. PICK g \in [0 .. n -> View] : g[0] = V /\ g[n] = W /\ \A k \in 1 .. n : Step(g[k - 1], b[k], g[k])
    BY DEF Leads
<1> HIDE DEF m, n
<1>4. PICK h : h = [k \in 0 .. m + n |-> IF k <= m THEN f[k] ELSE g[k - m]]
    OBVIOUS
<1>5. h \in [0 .. m + n -> View]
    <2>1. \A k \in 0 .. m + n : IF k <= m THEN k \in 0 .. m ELSE k - m \in 0 .. n
        BY <1>1
    <2> QED BY <1>4, <2>1
<1>6. h[0] = U
    BY <1>1, <1>2, <1>4
<1>7. h[m + n] = W
    <2>1. CASE n = 0
        BY <1>1, <1>2, <1>3, <1>4, <2>1
    <2>2. CASE n # 0
        <3>1. m + n \in 0 .. m + n /\ ~(m + n <= m) /\ m + n - m = n
            BY <1>1, <2>2
        <3>2. h[m + n] = g[m + n - m]
            BY <1>1, <1>4, <3>1
        <3> QED BY <1>3, <3>1, <3>2
    <2> QED BY <2>1, <2>2
<1>8. ASSUME NEW k \in 1 .. m + n PROVE Step(h[k - 1], (a \o b)[k], h[k])
    <2>1. CASE k <= m
        <3>1. k \in 1 .. m /\ k \in 0 .. m + n /\ k - 1 \in 0 .. m + n /\ k - 1 <= m
            BY <1>1, <2>1
        <3>2. h[k] = f[k] /\ h[k - 1] = f[k - 1] /\ (a \o b)[k] = a[k]
            BY <1>1, <1>4, <2>1, <3>1
        <3> QED BY <1>2, <3>1, <3>2
    <2>2. CASE ~(k <= m)
        <3>1. k - m \in 1 .. n /\ k \in 0 .. m + n /\ k - 1 \in 0 .. m + n /\ (k - m) - 1 = (k - 1) - m
            BY <1>1, <2>2
        <3>2. h[k] = g[k - m] /\ (a \o b)[k] = b[k - m]
            BY <1>1, <1>4, <2>2, <3>1
        <3>3. h[k - 1] = g[(k - m) - 1]
            <4>1. CASE k - 1 <= m
                <5>1. k - 1 = m /\ (k - m) - 1 = 0
                    BY <1>1, <2>2, <4>1
                <5> QED BY <1>2, <1>3, <1>4, <3>1, <5>1
            <4>2. CASE ~(k - 1 <= m)
                BY <1>4, <3>1, <4>2
            <4> QED BY <4>1, <4>2
        <3> QED BY <1>3, <3>1, <3>2, <3>3
    <2> QED BY <2>1, <2>2
<1> QED BY <1>1, <1>5, <1>6, <1>7, <1>8 DEF Leads

LEMMA LeadsThrough ==
    ASSUME NEW V, NEW W, NEW js \in Seq(Job), js # <<>>, Leads(V, js, W)
    PROVE  \E U \in View : Step(V, Head(js), U) /\ Leads(U, Tail(js), W)
<1> DEFINE n == Len(js)
<1>1. /\ n \in Nat \ {0} /\ Tail(js) \in Seq(Job) /\ Len(Tail(js)) = n - 1 /\ Head(js) = js[1]
      /\ \A i \in 1 .. n - 1 : Tail(js)[i] = js[i + 1]
    BY HeadTailProperties, LengthIsNat, EmptySeq
<1>2. PICK f \in [0 .. n -> View] : f[0] = V /\ f[n] = W /\ \A k \in 1 .. n : Step(f[k - 1], js[k], f[k])
    BY DEF Leads
<1> HIDE DEF n
<1>3. PICK g : g = [k \in 0 .. n - 1 |-> f[k + 1]]
    OBVIOUS
<1>4. g \in [0 .. n - 1 -> View] /\ g[0] = f[1] /\ g[n - 1] = W
    <2>1. \A k \in 0 .. n - 1 : k + 1 \in 0 .. n
        BY <1>1
    <2>2. 0 \in 0 .. n - 1 /\ n - 1 \in 0 .. n - 1 /\ n - 1 + 1 = n /\ 0 + 1 = 1
        BY <1>1
    <2> QED BY <1>2, <1>3, <2>1, <2>2
<1>5. ASSUME NEW k \in 1 .. n - 1 PROVE Step(g[k - 1], Tail(js)[k], g[k])
    <2>1. k + 1 \in 1 .. n /\ k - 1 \in 0 .. n - 1 /\ k \in 0 .. n - 1 /\ k - 1 + 1 = k /\ (k + 1) - 1 = k
        BY <1>1
    <2>2. g[k] = f[k + 1] /\ g[k - 1] = f[k] /\ Tail(js)[k] = js[k + 1]
        BY <1>1, <1>3, <2>1
    <2> QED BY <1>2, <2>1, <2>2
<1>6. Leads(f[1], Tail(js), W)
    BY <1>1, <1>4, <1>5 DEF Leads
<1>7. f[1] \in View /\ Step(V, js[1], f[1])
    <2>1. 1 \in 1 .. n /\ 1 \in 0 .. n /\ 1 - 1 = 0
        BY <1>1
    <2> QED BY <1>2, <2>1
<1> QED BY <1>1, <1>6, <1>7

-------------------------------------------------------------------------------
(* Lists of players.                                                           *)

(* Induction up to n, with the property given as the set of those that have it.*)
LEMMA Climb ==
    ASSUME NEW n \in Nat, NEW M, 0 \in M, \A k \in 0 .. (n - 1) : k \in M => k + 1 \in M
    PROVE  0 .. n \subseteq M
<1> DEFINE R == {k \in 0 .. n : k \notin M}
           Less == OpToRel(<, Nat)
<1>1. SUFFICES ASSUME R # {} PROVE FALSE
    OBVIOUS
<1>2. R \subseteq Nat
    OBVIOUS
<1>3. PICK k \in R : \A j \in R : <<j, k>> \notin Less
    <2>1. IsWellFoundedOn(Less, Nat)
        BY NatLessThanWellFounded
    <2> HIDE DEF R, Less
    <2> QED BY <1>1, <1>2, <2>1, WFMin
<1>4. k \in 1 .. n /\ k - 1 \in 0 .. (n - 1) /\ k - 1 + 1 = k
    OBVIOUS
<1>5. <<k - 1, k>> \in Less
    BY <1>4 DEF OpToRel
<1>6. k - 1 \notin R
    BY <1>3, <1>5
<1> QED BY <1>4, <1>6

(* A finite set as a sequence of its elements, each once.                      *)
LEMMA SetListed ==
    ASSUME NEW S, IsFiniteSet(S)
    PROVE  /\ SetToSeq(S) \in Seq(S) /\ IsInjective(SetToSeq(S))
           /\ \A x \in S : \E i \in 1 .. Len(SetToSeq(S)) : SetToSeq(S)[i] = x
<1> DEFINE n == Cardinality(S)
           s == SetToSeq(S)
<1>1. n \in Nat /\ ExistsBijection(1 .. n, S)
    BY FS_CardinalityType
<1>2. PICK b : b \in Bijection(1 .. n, S)
    BY <1>1 DEF ExistsBijection
<1>3. b \in [1 .. n -> S] /\ IsInjective(b)
    BY <1>2 DEF Bijection, Injection, IsInjective
<1>4. s \in [1 .. n -> S] /\ IsInjective(s)
    BY <1>3 DEF SetToSeq
<1>5. s \in Injection(1 .. n, S)
    BY <1>4 DEF Injection, IsInjective
<1>6. Cardinality(1 .. n) = n
    BY <1>1, FS_Interval
<1>7. s \in Surjection(1 .. n, S)
    BY <1>5, <1>6, FS_Injection
<1>8. s \in Seq(S) /\ Len(s) = n
    BY <1>1, <1>4
<1> QED BY <1>4, <1>7, <1>8 DEF Surjection

(* BySeat lists the players it is given, whatever seats they have.             *)
LEMMA SeatOrder ==
    ASSUME NEW tt \in Memory, NEW ps \in SUBSET Players
    PROVE  /\ BySeat(tt, ps) \in Seq(ps)
           /\ \A p \in ps : \E i \in 1 .. Len(BySeat(tt, ps)) : BySeat(tt, ps)[i] = p
<1> DEFINE N == MaxSeats
           At(n) == {p \in ps : tt.seat[p] = n - 1}
           List(f, m) == [n \in 0 .. m |-> IF n = 0 THEN <<>> ELSE f[n - 1] \o SetToSeq(At(n))]
           M == {m \in 0 .. N : \E f : f = List(f, m)}
           upTo == CHOOSE f : f = List(f, N)
           Good == {m \in 0 .. N :
                      /\ upTo[m] \in Seq(ps)
                      /\ \A p \in ps : tt.seat[p] < m => \E i \in 1 .. Len(upTo[m]) : upTo[m][i] = p}
<1>1. N \in Nat
    BY StoreAssumption
<1>2. BySeat(tt, ps) = upTo[N]
    BY DEF BySeat
<1>3. 0 .. N \subseteq M
    <2>1. 0 \in M
        <3>1. PICK f : f = [n \in 0 .. 0 |-> <<>>]
            OBVIOUS
        <3>2. f = List(f, 0)
            BY <3>1
        <3> QED BY <1>1, <3>2
    <2>2. ASSUME NEW k \in 0 .. (N - 1), k \in M PROVE k + 1 \in M
        <3>1. PICK f : f = List(f, k)
            BY <2>2
        <3>2. PICK g : g = [n \in 0 .. k + 1 |-> IF n = k + 1 THEN f[k] \o SetToSeq(At(k + 1)) ELSE f[n]]
            OBVIOUS
        <3>3. g = List(g, k + 1)
            <4> HIDE DEF At
            <4>1. ASSUME NEW n \in 0 .. k + 1
                  PROVE  g[n] = IF n = 0 THEN <<>> ELSE g[n - 1] \o SetToSeq(At(n))
                <5>1. CASE n = 0
                    BY <3>1, <3>2, <5>1
                <5>2. CASE n # 0 /\ n # k + 1
                    <6>1. n \in 0 .. k /\ n - 1 \in 0 .. k + 1 /\ n - 1 # k + 1
                        BY <5>2
                    <6>2. g[n] = f[n] /\ g[n - 1] = f[n - 1]
                        BY <3>2, <5>2, <6>1
                    <6>3. f[n] = f[n - 1] \o SetToSeq(At(n))
                        BY <3>1, <5>2, <6>1
                    <6> QED BY <5>2, <6>2, <6>3
                <5>3. CASE n = k + 1
                    <6>1. n # 0 /\ n - 1 = k /\ k \in 0 .. k + 1 /\ k # k + 1
                        BY <5>3
                    <6>2. g[n] = f[k] \o SetToSeq(At(n)) /\ g[n - 1] = f[k]
                        BY <3>2, <5>3, <6>1
                    <6> QED BY <6>1, <6>2
                <5> QED BY <5>1, <5>2, <5>3
            <4>2. g = [n \in 0 .. k + 1 |-> g[n]]
                BY <3>2
            <4> QED BY <4>1, <4>2
        <3>4. k + 1 \in 0 .. N
            BY <1>1
        <3> QED BY <3>3, <3>4
    <2> HIDE DEF M
    <2> QED BY <1>1, <2>1, <2>2, Climb
<1>4. upTo = List(upTo, N)
    <2> HIDE DEF List
    <2>1. \E f : f = List(f, N)
        BY <1>1, <1>3
    <2> QED BY <2>1
<1> HIDE DEF upTo
<1>5. ASSUME NEW n \in 0 .. N, n # 0
      PROVE  upTo[n] = upTo[n - 1] \o SetToSeq(At(n))
    <2> HIDE DEF At
    <2> QED BY <1>4, <1>5
<1>6. 0 .. N \subseteq Good
    <2>1. 0 \in Good
        <3>1. upTo[0] = <<>>
            BY <1>1, <1>4
        <3>2. \A p \in ps : ~(tt.seat[p] < 0)
            BY <1>1 DEF Memory, Seats
        <3>3. upTo[0] \in Seq(ps) /\ 0 \in 0 .. N
            BY <1>1, <3>1, EmptySeq
        <3> QED BY <3>2, <3>3
    <2>2. ASSUME NEW k \in 0 .. (N - 1), k \in Good PROVE k + 1 \in Good
        <3>1. upTo[k + 1] = upTo[k] \o SetToSeq(At(k + 1)) /\ k + 1 \in 0 .. N
            <4>1. k + 1 \in 0 .. N /\ k + 1 # 0 /\ k + 1 - 1 = k
                BY <1>1
            <4> HIDE DEF At
            <4>2. PICK j \in 0 .. N : j = k + 1
                BY <4>1
            <4>3. j # 0 /\ j - 1 = k
                BY <4>1, <4>2
            <4>4. upTo[j] = upTo[j - 1] \o SetToSeq(At(j))
                BY <1>5, <4>3
            <4>5. upTo[j] = upTo[k] \o SetToSeq(At(j))
                BY <4>3, <4>4
            <4> QED BY <4>1, <4>2, <4>5
        <3>2. IsFiniteSet(At(k + 1)) /\ At(k + 1) \subseteq ps
            BY StoreAssumption, FS_Subset
        <3>3. \A p \in ps : tt.seat[p] < k + 1 => tt.seat[p] < k \/ p \in At(k + 1)
            BY <1>1 DEF Memory, Seats
        <3> HIDE DEF At
        <3> DEFINE a == upTo[k]
                   b == SetToSeq(At(k + 1))
        <3>4. b \in Seq(At(k + 1)) /\ \A p \in At(k + 1) : \E i \in 1 .. Len(b) : b[i] = p
            BY <3>2, SetListed
        <3>5. b \in Seq(ps) /\ a \in Seq(ps)
            BY <2>2, <3>2, <3>4, SeqMonotonic
        <3>6. \A p \in ps : tt.seat[p] < k => \E i \in 1 .. Len(a) : a[i] = p
            BY <2>2
        <3> HIDE DEF a, b
        <3>7. /\ a \o b \in Seq(ps) /\ Len(a \o b) = Len(a) + Len(b) /\ Len(a) \in Nat /\ Len(b) \in Nat
              /\ \A i \in 1 .. Len(a) + Len(b) : (a \o b)[i] = IF i <= Len(a) THEN a[i] ELSE b[i - Len(a)]
            BY <3>5, ConcatProperties, LengthIsNat
        <3>8. ASSUME NEW p \in ps, tt.seat[p] < k + 1
              PROVE  \E i \in 1 .. Len(a \o b) : (a \o b)[i] = p
            <4>1. CASE tt.seat[p] < k
                <5>1. PICK i \in 1 .. Len(a) : a[i] = p
                    BY <3>6, <4>1
                <5>2. i \in 1 .. Len(a) + Len(b) /\ i <= Len(a)
                    BY <3>7
                <5> QED BY <3>7, <5>1, <5>2
            <4>2. CASE p \in At(k + 1)
                <5>1. PICK i \in 1 .. Len(b) : b[i] = p
                    BY <3>4, <4>2
                <5>2. Len(a) + i \in 1 .. Len(a) + Len(b) /\ ~(Len(a) + i <= Len(a)) /\ Len(a) + i - Len(a) = i
                    BY <3>7
                <5>3. (a \o b)[Len(a) + i] = b[Len(a) + i - Len(a)]
                    BY <3>7, <5>2
                <5> QED BY <3>7, <5>1, <5>2, <5>3
            <4> QED BY <3>3, <3>8, <4>1, <4>2
        <3>9. upTo[k + 1] = a \o b
            BY <3>1 DEF a, b
        <3> QED BY <3>1, <3>7, <3>8, <3>9
    <2> HIDE DEF Good
    <2> QED BY <1>1, <2>1, <2>2, Climb
<1>7. \A p \in ps : tt.seat[p] < N
    BY <1>1 DEF Memory, Seats
<1> QED BY <1>1, <1>2, <1>6, <1>7

-------------------------------------------------------------------------------
(* Jobs that write players.                                                    *)

LEMMA ViewTyped ==
    ASSUME NEW tt \in Memory
    PROVE  ViewOf(tt) \in View /\ RowsOf(tt) \in Rows /\ \A p \in Players : tt.status[p] # "none" => RowOf(tt, p) \in PlayerRow
<1>1. ASSUME NEW p \in Players
      PROVE  /\ RowOf(tt, p) \in PlayerRow \cup {NoRow}
             /\ tt.status[p] # "none" => RowOf(tt, p) \in PlayerRow
    <2>1. tt.seat[p] \in Seats /\ tt.stack[p] \in Nat /\ tt.status[p] \in Statuses \cup {"none"}
        BY DEF Memory
    <2> QED BY <2>1 DEF RowOf, PlayerRow
<1>2. RowsOf(tt) \in Rows
    BY <1>1 DEF RowsOf, Rows
<1>3. tt.hands \in Nat /\ tt.state \in {"waiting", "running", "paused", "ended"}
    BY StoreAssumption DEF Memory
<1>4. Live(tt) \in SUBSET Nat /\ RowOfTable(tt) \in TableRow
    BY <1>3 DEF Live, RowOfTable, TableRow
<1> QED BY <1>1, <1>2, <1>3, <1>4 DEF ViewOf, View

(* A row that leaves its player in the seat it has, or without one.            *)
Keeps(old, new) == \/ new.status = "left"
                   \/ old.status \in Statuses \ {"left"} /\ new.seat = old.seat

LEMMA KeepsApart ==
    ASSUME NEW rows \in Rows, NEW p \in Players, NEW row \in PlayerRow, Apart(rows), Keeps(rows[p], row)
    PROVE  Apart([rows EXCEPT ![p] = row])
<1> DEFINE new == [rows EXCEPT ![p] = row]
<1>1. new[p] = row /\ \A q \in Players : q # p => new[q] = rows[q]
    BY DEF Rows
<1> HIDE DEF new
<1>2. \A q \in BackIn(new) : q \in BackIn(rows) /\ new[q].seat = rows[q].seat
    BY <1>1 DEF BackIn, Keeps
<1>3. Apart(new)
    BY <1>2 DEF Apart
<1> QED BY <1>3 DEF new

(* The view once the players of ps have the rows that tt gives them.           *)
Over(V, tt, ps) == [V EXCEPT !.players = [p \in Players |-> IF p \in ps THEN RowOf(tt, p) ELSE V.players[p]]]
Writable(V, tt, ps) == \A p \in ps : tt.status[p] \in Statuses /\ Keeps(V.players[p], RowOf(tt, p))

(* Jobs that write the rows of tt, in any order and however often, end the     *)
(* sessions of some, and write everybody of ps.                                *)
LEMMA RowsWritten ==
    ASSUME NEW V \in View, NEW tt \in Memory, NEW ps \in SUBSET Players, Writable(V, tt, ps),
           NEW js \in Seq(Job),
           \A i \in 1 .. Len(js) : \E p \in ps : js[i] \in {PlayerJob(tt, p), SessionsJob(p)},
           \A p \in ps : \E i \in 1 .. Len(js) : js[i] = PlayerJob(tt, p)
    PROVE  Leads(V, js, Over(V, tt, ps))
<1> DEFINE n == Len(js)
           By(k) == {p \in ps : \E i \in 1 .. k : js[i] = PlayerJob(tt, p)}
           Mix(k) == [p \in Players |-> IF p \in By(k) THEN RowOf(tt, p) ELSE V.players[p]]
<1>1. n \in Nat
    BY LengthIsNat
<1>2. \A p \in ps : RowOf(tt, p) \in PlayerRow /\ PlayerJob(tt, p) = [kind |-> "player", p |-> p, row |-> RowOf(tt, p)]
    <2>1. \A p \in ps : tt.status[p] # "none" /\ p \in Players
        BY DEF Writable, Statuses
    <2> QED BY <2>1, ViewTyped DEF RowOf, PlayerJob
<1>3. V.players \in Rows
    BY DEF View
<1>4. \A k \in 0 .. n : Mix(k) \in Rows
    <2>1. ASSUME NEW k, NEW p \in Players PROVE (IF p \in By(k) THEN RowOf(tt, p) ELSE V.players[p]) \in PlayerRow \cup {NoRow}
        <3>1. p \in By(k) => p \in ps
            OBVIOUS
        <3> HIDE DEF By
        <3> QED BY <1>2, <1>3, <3>1 DEF Rows
    <2> HIDE DEF By
    <2> QED BY <2>1 DEF Rows
<1>5. By(0) = {} /\ By(n) = ps
    BY <1>1
<1>6. ASSUME NEW k \in 1 .. n
      PROVE  \/ js[k] \in SessionsType /\ Mix(k) = Mix(k - 1)
             \/ /\ js[k] \in PlayerType /\ Mix(k) = [Mix(k - 1) EXCEPT ![js[k].p] = js[k].row]
                /\ Keeps(Mix(k - 1)[js[k].p], js[k].row)
    <2>1. PICK p \in ps : js[k] \in {PlayerJob(tt, p), SessionsJob(p)}
        OBVIOUS
    <2>2. 1 .. k = (1 .. k - 1) \cup {k}
        BY <1>1
    <2>3. CASE js[k] = SessionsJob(p)
        <3>1. \A q \in ps : js[k] # PlayerJob(tt, q)
            BY <1>2, <2>3 DEF SessionsJob
        <3>2. By(k) = By(k - 1)
            BY <2>2, <3>1
        <3>3. js[k] \in SessionsType
            BY <2>3 DEF SessionsJob, SessionsType
        <3> HIDE DEF By
        <3> QED BY <3>2, <3>3
    <2>4. CASE js[k] = PlayerJob(tt, p)
        <3>1. js[k] \in PlayerType /\ js[k].p = p /\ js[k].row = RowOf(tt, p)
            BY <1>2, <2>4 DEF PlayerType
        <3>2. \A q \in ps : js[k] = PlayerJob(tt, q) <=> q = p
            BY <1>2, <2>4
        <3>3. By(k) = By(k - 1) \cup {p}
            BY <2>2, <3>2
        <3>4. p \in Players /\ p \in ps
            OBVIOUS
        <3> HIDE DEF By
        <3>5. Mix(k) = [Mix(k - 1) EXCEPT ![p] = RowOf(tt, p)]
            BY <3>3, <3>4
        <3>6. Keeps(V.players[p], RowOf(tt, p)) /\ RowOf(tt, p).status = tt.status[p] /\ tt.status[p] \in Statuses
            <4>1. tt.status[p] \in Statuses /\ Keeps(V.players[p], RowOf(tt, p))
                BY DEF Writable
            <4>2. tt.status[p] # "none"
                BY <4>1 DEF Statuses
            <4> QED BY <4>1, <4>2 DEF RowOf
        <3>7. Keeps(Mix(k - 1)[p], RowOf(tt, p))
            <4>1. CASE p \in By(k - 1)
                <5>1. Mix(k - 1)[p] = RowOf(tt, p)
                    BY <3>4, <4>1
                <5> QED BY <3>6, <5>1 DEF Keeps
            <4>2. CASE p \notin By(k - 1)
                <5>1. Mix(k - 1)[p] = V.players[p]
                    BY <3>4, <4>2
                <5> QED BY <3>6, <5>1
            <4> QED BY <4>1, <4>2
        <3> HIDE DEF Mix
        <3> QED BY <3>1, <3>5, <3>7
    <2> QED BY <2>1, <2>3, <2>4
<1>7. Mix(0) = V.players
    <2> HIDE DEF By
    <2> QED BY <1>3, <1>5 DEF Rows
<1>8. [V EXCEPT !.players = Mix(n)] = Over(V, tt, ps)
    <2>1. Mix(n) = [p \in Players |-> IF p \in ps THEN RowOf(tt, p) ELSE V.players[p]]
        <3> HIDE DEF By
        <3> QED BY <1>5
    <2> QED BY <2>1 DEF Over
<1> HIDE DEF Mix
<1>9. PICK f : f = [k \in 0 .. n |-> [V EXCEPT !.players = Mix(k)]]
    OBVIOUS
<1>10. f \in [0 .. n -> View]
    <2>1. ASSUME NEW k \in 0 .. n PROVE [V EXCEPT !.players = Mix(k)] \in View
        BY <1>4 DEF View
    <2> QED BY <1>9, <2>1
<1>11. f[0] = V /\ f[n] = Over(V, tt, ps)
    <2>1. f[0] = [V EXCEPT !.players = V.players]
        BY <1>1, <1>7, <1>9
    <2>2. f[n] = [V EXCEPT !.players = Mix(n)]
        BY <1>1, <1>9
    <2> QED BY <1>8, <2>1, <2>2 DEF View
<1>12. ASSUME NEW k \in 1 .. n PROVE Step(f[k - 1], js[k], f[k])
    <2>1. k \in 0 .. n /\ k - 1 \in 0 .. n
        BY <1>1
    <2>2. f[k] = [V EXCEPT !.players = Mix(k)] /\ f[k - 1] = [V EXCEPT !.players = Mix(k - 1)]
        BY <1>9, <2>1
    <2>3. CASE js[k] \in SessionsType /\ Mix(k) = Mix(k - 1)
        BY <2>2, <2>3 DEF Step, EndsSessions
    <2>4. CASE /\ js[k] \in PlayerType /\ Mix(k) = [Mix(k - 1) EXCEPT ![js[k].p] = js[k].row]
               /\ Keeps(Mix(k - 1)[js[k].p], js[k].row)
        <3>1. js[k].p \in Players /\ js[k].row \in PlayerRow
            BY <2>4 DEF PlayerType
        <3>2. f[k].players = Mix(k) /\ f[k - 1].players = Mix(k - 1)
            BY <2>2 DEF View
        <3>3. Apart(f[k - 1].players) => Apart(f[k].players)
            <4>1. Mix(k - 1) \in Rows /\ Keeps(Mix(k - 1)[js[k].p], js[k].row)
                BY <1>4, <2>1, <2>4
            <4>2. Apart(Mix(k - 1)) => Apart([Mix(k - 1) EXCEPT ![js[k].p] = js[k].row])
                BY <3>1, <4>1, KeepsApart
            <4> QED BY <2>4, <3>2, <4>2
        <3>4. f[k] = [f[k - 1] EXCEPT !.players[js[k].p] = js[k].row]
            BY <2>2, <2>4 DEF View
        <3> QED BY <2>4, <3>3, <3>4 DEF Step, WritesPlayer
    <2> QED BY <1>6, <2>3, <2>4
<1> QED BY <1>10, <1>11, <1>12 DEF Leads

LEMMA RowJobs ==
    ASSUME NEW V \in View, NEW tt \in Memory, NEW ps \in SUBSET Players, Writable(V, tt, ps), NEW p \in ps
    PROVE  PlayerJob(tt, p) \in Job /\ SessionsJob(p) \in Job
<1>1. tt.status[p] # "none" /\ p \in Players
    BY DEF Writable, Statuses
<1>2. RowOf(tt, p) \in PlayerRow
    BY <1>1, ViewTyped
<1>3. PlayerJob(tt, p) = [kind |-> "player", p |-> p, row |-> RowOf(tt, p)]
    BY <1>1 DEF RowOf, PlayerJob
<1> QED BY <1>1, <1>2, <1>3 DEF Job, PlayerType, SessionsJob, SessionsType

(* A job for each of a list.                                                   *)
LEMMA ListWritten ==
    ASSUME NEW V \in View, NEW tt \in Memory, NEW ps \in SUBSET Players, Writable(V, tt, ps),
           NEW s \in Seq(ps), \A p \in ps : \E i \in 1 .. Len(s) : s[i] = p,
           NEW js, js = [i \in DOMAIN s |-> PlayerJob(tt, s[i])]
    PROVE  js \in Seq(Job) /\ Leads(V, js, Over(V, tt, ps))
<1>1. Len(s) \in Nat /\ DOMAIN s = 1 .. Len(s) /\ \A i \in 1 .. Len(s) : s[i] \in ps
    BY LengthIsNat
<1>2. \A i \in 1 .. Len(s) : js[i] = PlayerJob(tt, s[i]) /\ js[i] \in Job
    BY <1>1, RowJobs
<1>3. js \in Seq(Job) /\ Len(js) = Len(s)
    <2>1. js \in [1 .. Len(s) -> Job]
        BY <1>1, <1>2
    <2> QED BY <1>1, <2>1
<1>4. \A i \in 1 .. Len(js) : \E p \in ps : js[i] \in {PlayerJob(tt, p), SessionsJob(p)}
    BY <1>1, <1>2, <1>3
<1>5. \A p \in ps : \E i \in 1 .. Len(js) : js[i] = PlayerJob(tt, p)
    BY <1>2, <1>3
<1> QED BY <1>3, <1>4, <1>5, RowsWritten

LEMMA PlayerJobsLead ==
    ASSUME NEW V \in View, NEW tt \in Memory, NEW ps \in SUBSET Players, Writable(V, tt, ps)
    PROVE  PlayerJobs(tt, ps) \in Seq(Job) /\ Leads(V, PlayerJobs(tt, ps), Over(V, tt, ps))
<1> DEFINE s == BySeat(tt, ps)
<1>1. s \in Seq(ps) /\ \A p \in ps : \E i \in 1 .. Len(s) : s[i] = p
    BY SeatOrder
<1>2. PlayerJobs(tt, ps) = [i \in DOMAIN s |-> PlayerJob(tt, s[i])]
    BY DEF PlayerJobs
<1> HIDE DEF s
<1> QED BY <1>1, <1>2, ListWritten

(* freeSeat, for each of those who go.                                         *)
LEMMA FreeJobsLead ==
    ASSUME NEW V \in View, NEW tt \in Memory, NEW ps \in SUBSET Players, Writable(V, tt, ps)
    PROVE  FreeJobs(tt, ps) \in Seq(Job) /\ Leads(V, FreeJobs(tt, ps), Over(V, tt, ps))
<1> DEFINE s == BySeat(tt, ps)
           js == FreeJobs(tt, ps)
<1>1. /\ s \in Seq(ps) /\ \A p \in ps : \E i \in 1 .. Len(s) : s[i] = p
      /\ Len(s) \in Nat /\ \A i \in 1 .. Len(s) : s[i] \in ps
    BY SeatOrder, LengthIsNat
<1>2. js = [i \in 1 .. 2 * Len(s) |-> IF i % 2 = 1 THEN PlayerJob(tt, s[(i + 1) \div 2]) ELSE SessionsJob(s[i \div 2])]
    BY DEF FreeJobs
<1> HIDE DEF s, js
<1>3. ASSUME NEW i \in 1 .. 2 * Len(s)
      PROVE  \E p \in ps : js[i] \in {PlayerJob(tt, p), SessionsJob(p)}
    <2>1. CASE i % 2 = 1
        <3>1. (i + 1) \div 2 \in 1 .. Len(s)
            BY <1>1, <2>1
        <3> QED BY <1>1, <1>2, <2>1, <3>1
    <2>2. CASE i % 2 # 1
        <3>1. i \div 2 \in 1 .. Len(s)
            BY <1>1, <2>2
        <3> QED BY <1>1, <1>2, <2>2, <3>1
    <2> QED BY <2>1, <2>2
<1>4. js \in Seq(Job) /\ Len(js) = 2 * Len(s)
    <2>1. \A i \in 1 .. 2 * Len(s) : js[i] \in Job
        BY <1>3, RowJobs
    <2>2. 2 * Len(s) \in Nat
        BY <1>1
    <2>3. js \in [1 .. 2 * Len(s) -> Job]
        BY <1>2, <2>1
    <2> QED BY <2>2, <2>3
<1>5. ASSUME NEW p \in ps PROVE \E i \in 1 .. Len(js) : js[i] = PlayerJob(tt, p)
    <2>1. PICK i \in 1 .. Len(s) : s[i] = p
        BY <1>1
    <2>2. 2 * i - 1 \in 1 .. 2 * Len(s) /\ (2 * i - 1) % 2 = 1 /\ (2 * i - 1 + 1) \div 2 = i
        BY <1>1
    <2>3. js[2 * i - 1] = PlayerJob(tt, s[(2 * i - 1 + 1) \div 2])
        BY <1>2, <2>2
    <2> QED BY <1>4, <2>1, <2>2, <2>3
<1>6. \A i \in 1 .. Len(js) : \E p \in ps : js[i] \in {PlayerJob(tt, p), SessionsJob(p)}
    BY <1>3, <1>4
<1>7. Leads(V, js, Over(V, tt, ps))
    BY <1>4, <1>5, <1>6, RowsWritten
<1> QED BY <1>4, <1>7 DEF js

-------------------------------------------------------------------------------
(* Commands: what each makes of the memory, its jobs make of the view.         *)

Turn(u, js, v) == js \in Seq(Job) /\ Sane(v) /\ Leads(ViewOf(u), js, ViewOf(v))

LEMMA TurnOn ==
    ASSUME NEW u, NEW v, NEW w, NEW a, NEW b, Turn(u, a, v), Turn(v, b, w)
    PROVE  Turn(u, a \o b, w)
BY LeadsOn DEF Turn

LEMMA SaneMemory ==
    ASSUME NEW u, Sane(u)
    PROVE  /\ u \in Memory /\ ViewOf(u) \in View /\ u.hands \in Nat
           /\ \A p \in Seated(u) : p \in Players /\ u.status[p] \in Statuses /\ u.status[p] # "none" /\ u.status[p] # "left"
           /\ u.leaving \subseteq Seated(u) /\ u.inHand \subseteq Seated(u)
BY ViewTyped, StoreAssumption DEF Sane, Memory, Seated, Statuses

LEMMA ViewsEqual ==
    ASSUME NEW A \in View, NEW B \in View,
           A.players = B.players, A.table = B.table, A.live = B.live, A.due = B.due, A.name = B.name
    PROVE  A = B
BY DEF View

(* Nothing of it is stored.                                                    *)
LEMMA TurnNone ==
    ASSUME NEW u, NEW v, Sane(u), Sane(v), ViewOf(v) = ViewOf(u)
    PROVE  Turn(u, <<>>, v)
<1>1. ViewOf(u) \in View
    BY SaneMemory
<1>2. Leads(ViewOf(u), <<>>, ViewOf(v))
    BY <1>1, LeadsNone
<1> QED BY <1>2, EmptySeq DEF Turn

LEMMA OneStep ==
    ASSUME NEW V \in View, NEW job, NEW W, Step(V, job, W)
    PROVE  <<job>> \in Seq(Job) /\ Leads(V, <<job>>, W) /\ W \in View
BY StepKinds, LeadsOne, SomeSeqOfOne

LEMMA TwoSteps ==
    ASSUME NEW U \in View, NEW V, NEW W, NEW x, NEW y, Step(U, x, V), Step(V, y, W)
    PROVE  <<x, y>> \in Seq(Job) /\ Leads(U, <<x, y>>, W) /\ W \in View
<1>1. <<x>> \in Seq(Job) /\ Leads(U, <<x>>, V) /\ V \in View
    BY OneStep
<1>2. <<y>> \in Seq(Job) /\ Leads(V, <<y>>, W) /\ W \in View
    BY <1>1, OneStep
<1>3. x \in Job /\ y \in Job
    BY <1>1, StepKinds
<1>4. <<x, y>> \in Seq(Job) /\ Len(<<x, y>>) = 2 /\ <<x, y>>[1] = x /\ <<x, y>>[2] = y
    BY <1>3
<1>5. /\ <<x>> \o <<y>> \in Seq(Job) /\ Len(<<x>> \o <<y>>) = 2
      /\ (<<x>> \o <<y>>)[1] = x /\ (<<x>> \o <<y>>)[2] = y
    BY <1>3, ConcatProperties
<1>6. \A i \in 1 .. 2 : <<x, y>>[i] = (<<x>> \o <<y>>)[i]
    <2>1. 1 .. 2 = {1, 2}
        OBVIOUS
    <2> QED BY <1>4, <1>5, <2>1
<1>7. <<x, y>> = <<x>> \o <<y>>
    BY <1>4, <1>5, <1>6, SeqEqual
<1>8. Leads(U, <<x>> \o <<y>>, W)
    BY <1>1, <1>2, LeadsOn
<1> QED BY <1>2, <1>4, <1>7, <1>8

(* The row of one player.                                                      *)
LEMMA TurnPlayer ==
    ASSUME NEW u, NEW v, Sane(u), Sane(v), NEW p \in Players,
           v.status[p] # "none", \A q \in Players \ {p} : RowOf(v, q) = RowOf(u, q),
           RowOfTable(v) = RowOfTable(u), v.hand = u.hand,
           Apart(RowsOf(u)) => Apart(RowsOf(v))
    PROVE  Turn(u, <<PlayerJob(v, p)>>, v)
<1> DEFINE V == ViewOf(u)
           W == ViewOf(v)
           job == PlayerJob(v, p)
<1>1. V \in View /\ u \in Memory /\ v \in Memory
    BY SaneMemory
<1>2. RowOf(v, p) \in PlayerRow /\ job = [kind |-> "player", p |-> p, row |-> RowOf(v, p)]
    BY <1>1, ViewTyped DEF RowOf, PlayerJob
<1>3. job \in PlayerType /\ job.p = p /\ job.row = RowOf(v, p)
    BY <1>2 DEF PlayerType
<1>4. RowsOf(v) = [RowsOf(u) EXCEPT ![p] = RowOf(v, p)]
    BY DEF RowsOf
<1>5. Live(v) = Live(u) /\ v.hands = u.hands
    BY DEF Live, RowOfTable
<1>6. W = [V EXCEPT !.players[job.p] = job.row] /\ V.players = RowsOf(u) /\ W.players = RowsOf(v)
    BY <1>3, <1>4, <1>5 DEF ViewOf
<1> HIDE DEF V, W, job
<1>7. Step(V, job, W)
    BY <1>3, <1>6 DEF Step, WritesPlayer
<1>8. <<job>> \in Seq(Job) /\ Leads(V, <<job>>, W)
    BY <1>1, <1>7, OneStep
<1> QED BY <1>8 DEF Turn, V, W, job

(* The row of the table, with or without a new number.                         *)
LEMMA WritesTableStep ==
    ASSUME NEW V \in View, NEW v \in Memory, V.table.hands <= v.hands
    PROVE  Step(V, TableJob(v), [V EXCEPT !.table = RowOfTable(v)])
<1>1. TableJob(v) \in TableType /\ TableJob(v).row = RowOfTable(v) /\ RowOfTable(v).hands = v.hands /\ v.hands <= MaxHands
    BY StoreAssumption DEF TableJob, TableType, TableRow, RowOfTable, Memory
<1> QED BY <1>1 DEF Step, WritesTable

LEMMA TurnTable ==
    ASSUME NEW u, Sane(u), NEW s \in {"waiting", "running", "paused", "ended"}
    PROVE  Turn(u, <<TableJob(SetState(u, s))>>, SetState(u, s))
<1> DEFINE v == SetState(u, s)
           V == ViewOf(u)
           W == ViewOf(v)
<1>1. V \in View /\ u \in Memory /\ u.hands \in Nat
    BY SaneMemory
<1>2. /\ v.hands = u.hands /\ v.hand = u.hand /\ v.status = u.status /\ v.seat = u.seat /\ v.stack = u.stack
      /\ v.leaving = u.leaving /\ v.inHand = u.inHand /\ v.start = u.start /\ v \in Memory
    BY <1>1 DEF Memory, SetState
<1> HIDE DEF v
<1>3. Sane(v)
    BY <1>2 DEF Sane, Seated
<1>4. RowsOf(v) = RowsOf(u) /\ Live(v) = Live(u)
    BY <1>2 DEF RowsOf, RowOf, Live
<1>5. V.table.hands = u.hands /\ W = [V EXCEPT !.table = RowOfTable(v)]
    BY <1>2, <1>4 DEF ViewOf, RowOfTable
<1> HIDE DEF V, W
<1>6. V.table.hands <= v.hands
    BY <1>1, <1>2, <1>5
<1>7. Step(V, TableJob(v), W)
    BY <1>1, <1>2, <1>5, <1>6, WritesTableStep
<1>8. Leads(V, <<TableJob(v)>>, W) /\ <<TableJob(v)>> \in Seq(Job)
    BY <1>1, <1>7, OneStep
<1> QED BY <1>3, <1>8 DEF Turn, V, W, v

(* startHand, if a hand may start.                                             *)
LEMMA TurnDeal ==
    ASSUME NEW u, Sane(u)
    PROVE  Turn(u, DealJobs(u), Dealt(u))
<1>1. CASE ~CanDeal(u)
    <2>1. Dealt(u) = u /\ DealJobs(u) = <<>>
        BY <1>1 DEF Dealt, DealJobs
    <2> QED BY <2>1, TurnNone
<1>2. CASE CanDeal(u)
    <2> DEFINE v == SetState(u, "running")
               d == Dealt(u)
               a == IF u.state = "waiting" THEN <<TableJob(v)>> ELSE <<>>
               U == ViewOf(v)
               V == [U EXCEPT !.live = {d.hands}, !.due = {d.hands}, !.name = d.hands]
               W == ViewOf(d)
    <2>1. /\ u \in Memory /\ u.hands \in Nat /\ u.hands + 1 \in 1 .. MaxHands /\ u.hand = "none"
          /\ u.state \in {"running", "waiting"}
        BY <1>2, SaneMemory, StoreAssumption DEF CanDeal, Memory
    <2>2. Turn(u, a, v)
        <3>1. CASE u.state = "waiting"
            BY <3>1, TurnTable
        <3>2. CASE u.state # "waiting"
            <4>1. v = u
                BY <2>1, <3>2 DEF SetState, Memory
            <4> QED BY <3>2, <4>1, TurnNone
        <3> QED BY <3>1, <3>2
    <2>3. /\ v.hands = u.hands /\ v.hand = "none" /\ v.status = u.status /\ v.seat = u.seat /\ v.stack = u.stack
        BY <2>1 DEF SetState, Memory
    <2>4. d = [u EXCEPT !.state = "running", !.hands = u.hands + 1, !.hand = "playing", !.inHand = Eligible(u),
                        !.start = [p \in Eligible(u) |-> u.stack[p]]]
        BY <1>2 DEF Dealt
    <2>5. Eligible(u) \subseteq Seated(u) /\ Seated(u) \subseteq Players /\ [p \in Eligible(u) |-> u.stack[p]] \in Stacks
        <3>1. Eligible(u) \subseteq Seated(u) /\ Seated(u) \subseteq Players
            BY DEF Eligible, Seated
        <3>2. [p \in Eligible(u) |-> u.stack[p]] \in [Eligible(u) -> Nat]
            BY <2>1, <3>1 DEF Memory
        <3> QED BY <3>1, <3>2 DEF Stacks
    <2>6. /\ d.hands = u.hands + 1 /\ d.hand = "playing" /\ d.state = "running" /\ d.inHand = Eligible(u)
          /\ d.start = [p \in Eligible(u) |-> u.stack[p]] /\ d.status = u.status /\ d.seat = u.seat
          /\ d.stack = u.stack /\ d.leaving = u.leaving /\ d \in Memory
        <3> HIDE DEF d
        <3>1. Eligible(u) \in SUBSET Players /\ u.hands + 1 \in 0 .. MaxHands
            BY <2>1, <2>5
        <3> QED BY <2>1, <2>4, <2>5, <3>1 DEF Memory
    <2> HIDE DEF v, d
    <2>7. Sane(d)
        <3>1. Seated(d) = Seated(u)
            BY <2>6 DEF Seated
        <3> QED BY <2>5, <2>6, <3>1 DEF Sane
    <2>8. U \in View /\ v \in Memory
        BY <2>2, SaneMemory DEF Turn
    <2>9. U.live = {} /\ U.table.hands = u.hands
        BY <2>3 DEF ViewOf, Live, RowOfTable
    <2>10. W = [V EXCEPT !.table = RowOfTable(d)] /\ V.table = U.table
        <3>1. RowsOf(d) = RowsOf(v) /\ Live(d) = {d.hands}
            BY <2>3, <2>6 DEF RowsOf, RowOf, Live
        <3>2. W \in View /\ W.players = RowsOf(v) /\ W.table = RowOfTable(d) /\ W.live = {d.hands} /\ W.due = {d.hands}
                /\ W.name = d.hands
            BY <2>6, <3>1, ViewTyped DEF ViewOf
        <3>3. U.players = RowsOf(v)
            BY DEF ViewOf
        <3>4. RowOfTable(d) \in TableRow /\ d.hands \in Nat
            BY <2>6, StoreAssumption DEF RowOfTable, TableRow, Memory
        <3> HIDE DEF U, W
        <3>5. V \in View /\ V.players = U.players /\ V.table = U.table /\ V.live = {d.hands} /\ V.due = {d.hands}
                /\ V.name = d.hands
            BY <2>8, <3>4 DEF View
        <3> HIDE DEF V
        <3>6. [V EXCEPT !.table = RowOfTable(d)] \in View
            BY <3>4, <3>5 DEF View
        <3> QED BY <3>2, <3>3, <3>5, <3>6, ViewsEqual DEF View
    <2>11. Step(U, InsertJob(d), V)
        <3>1. InsertJob(d) \in InsertType /\ InsertJob(d).n = d.hands
            BY <2>1, <2>5, <2>6 DEF InsertJob, InsertType
        <3>2. U.table.hands < d.hands
            BY <2>1, <2>6, <2>9
        <3> HIDE DEF U
        <3> QED BY <2>9, <3>1, <3>2 DEF Step, OpensHand
    <2>12. V \in View
        BY <2>8, <2>11, StepKinds
    <2> HIDE DEF U, V, W
    <2>13. Step(V, TableJob(d), W)
        <3>1. V.table.hands <= d.hands
            BY <2>1, <2>6, <2>9, <2>10
        <3> QED BY <2>6, <2>10, <2>12, <3>1, WritesTableStep
    <2>14. <<InsertJob(d), TableJob(d)>> \in Seq(Job) /\ Leads(U, <<InsertJob(d), TableJob(d)>>, W)
        BY <2>8, <2>11, <2>13, TwoSteps
    <2>15. Turn(v, <<InsertJob(d), TableJob(d)>>, d)
        BY <2>7, <2>14 DEF Turn, U, W
    <2>16. DealJobs(u) = a \o <<InsertJob(d), TableJob(d)>>
        BY <1>2 DEF DealJobs, v, d
    <2> HIDE DEF a
    <2>17. Turn(u, a \o <<InsertJob(d), TableJob(d)>>, d)
        BY <2>2, <2>15, TurnOn
    <2> QED BY <2>16, <2>17 DEF d
<1> QED BY <1>1, <1>2

-------------------------------------------------------------------------------
(* The end of a hand and of a round.                                           *)

LEMMA FreedFacts ==
    ASSUME NEW u, Sane(u), NEW ps \in SUBSET Players
    PROVE  /\ Sane(Freed(u, ps)) /\ Seated(Freed(u, ps)) = Seated(u) \ ps
           /\ Freed(u, ps).hand = u.hand /\ Freed(u, ps).hands = u.hands /\ Freed(u, ps).state = u.state
           /\ Freed(u, ps).inHand = u.inHand \ ps /\ Freed(u, ps).leaving = u.leaving \ ps
           /\ \A p \in Players :
                /\ Freed(u, ps).seat[p] = u.seat[p] /\ Freed(u, ps).stack[p] = u.stack[p]
                /\ Freed(u, ps).status[p] = IF p \in ps THEN "left" ELSE u.status[p]
<1> DEFINE v == Freed(u, ps)
           st == [p \in Players |-> IF p \in ps THEN "left" ELSE u.status[p]]
<1>1. u \in Memory /\ u.leaving \subseteq Seated(u) /\ u.inHand \subseteq Seated(u)
      /\ (u.hand = "playing" => u.inHand \subseteq DOMAIN u.start)
    BY DEF Sane
<1>2. st \in [Players -> Statuses \cup {"none"}]
    BY <1>1 DEF Memory, Statuses
<1>3. v = [u EXCEPT !.status = st, !.leaving = u.leaving \ ps, !.inHand = u.inHand \ ps]
    BY DEF Freed
<1>4. \A p \in Players : st[p] = IF p \in ps THEN "left" ELSE u.status[p]
    OBVIOUS
<1> HIDE DEF v, st
<1>5. /\ v \in Memory /\ v.status = st /\ v.leaving = u.leaving \ ps /\ v.inHand = u.inHand \ ps
      /\ v.hand = u.hand /\ v.hands = u.hands /\ v.state = u.state /\ v.seat = u.seat /\ v.stack = u.stack
      /\ v.start = u.start
    BY <1>1, <1>2, <1>3 DEF Memory
<1>6. Seated(v) = Seated(u) \ ps
    BY <1>4, <1>5 DEF Seated
<1>7. Sane(v)
    BY <1>1, <1>5, <1>6 DEF Sane
<1> QED BY <1>4, <1>5, <1>6, <1>7 DEF v

(* Players of the hand, between two of its jobs: their rows may be written.    *)
LEMMA SeatKept ==
    ASSUME NEW u \in Memory, NEW v \in Memory, NEW p \in Seated(u), v.status[p] \in Statuses, v.seat[p] = u.seat[p]
    PROVE  Keeps(RowOf(u, p), RowOf(v, p))
<1>1. u.status[p] \in Statuses \ {"left"} /\ u.status[p] # "none" /\ v.status[p] # "none"
    BY DEF Seated, Statuses
<1> QED BY <1>1 DEF Keeps, RowOf

LEMMA LeftKept ==
    ASSUME NEW old, NEW v \in Memory, NEW p, v.status[p] = "left"
    PROVE  Keeps(old, RowOf(v, p))
BY DEF Keeps, RowOf

(* Fields of a view that has been written over.                                *)
LEMMA OverFields ==
    ASSUME NEW V \in View, NEW tt \in Memory, NEW ps \in SUBSET Players
    PROVE  /\ Over(V, tt, ps).table = V.table /\ Over(V, tt, ps).live = V.live /\ Over(V, tt, ps).due = V.due
           /\ Over(V, tt, ps).name = V.name
           /\ \A p \in Players : Over(V, tt, ps).players[p] = IF p \in ps THEN RowOf(tt, p) ELSE V.players[p]
BY DEF Over, View

LEMMA RowsAre ==
    ASSUME NEW rows \in Rows, NEW v \in Memory, \A p \in Players : rows[p] = RowOf(v, p)
    PROVE  rows = RowsOf(v)
BY DEF Rows, RowsOf

(* finishHand's job for the hand's row, then the table's.                      *)
LEMMA HandCloses ==
    ASSUME NEW V \in View, NEW job \in FinishType, V.name = job.n, NEW W, W = Closed(V)
    PROVE  /\ Step(V, job, W) /\ W \in View
           /\ W.players = V.players /\ W.table = V.table /\ W.live = {} /\ W.due = {} /\ W.name = V.name
<1>1. Step(V, job, W)
    BY DEF Step, ClosesHand
<1>2. W \in View /\ W.players = V.players /\ W.table = V.table /\ W.live = {} /\ W.due = {} /\ W.name = V.name
    BY DEF View, Closed
<1> QED BY <1>1, <1>2

LEMMA FinishJobTyped ==
    ASSUME NEW v \in Memory
    PROVE  /\ FinishJob(v, FALSE) \in FinishType /\ FinishJob(v, FALSE).n = v.hands
           /\ FinishJob(v, TRUE) \in FinishType /\ FinishJob(v, TRUE).n = v.hands
BY DEF FinishJob, FinishType, Memory

LEMMA SettledFacts ==
    ASSUME NEW u, Sane(u), u.hand = "playing", NEW e \in Outcomes(u), NEW missed
    PROVE  LET v == Settled(u, e, missed) IN
           /\ Sane(v) /\ Seated(v) = Seated(u)
           /\ v.hand = "result" /\ v.hands = u.hands /\ v.inHand = u.inHand /\ v.leaving = u.leaving
           /\ v.seat = u.seat
           /\ \A p \in Players \ u.inHand : v.stack[p] = u.stack[p] /\ v.status[p] = u.status[p]
<1> DEFINE v == Settled(u, e, missed)
           sk == [p \in Players |-> IF p \in u.inHand THEN e[p] ELSE u.stack[p]]
           st == [p \in Players |-> StatusAfter(u, e, missed, p)]
<1>1. u \in Memory /\ u.leaving \subseteq Seated(u) /\ u.inHand \subseteq Seated(u) /\ Seated(u) \subseteq Players
    BY DEF Sane, Seated
<1>2. sk \in [Players -> Nat]
    <2>1. e \in [u.inHand -> 0 .. Chips(u, u.inHand)]
        BY DEF Outcomes
    <2>2. \A p \in u.inHand : e[p] \in Nat
        BY <2>1
    <2> QED BY <1>1, <2>2 DEF Memory
<1>3. ASSUME NEW p \in Players
      PROVE  /\ StatusAfter(u, e, missed, p) \in Statuses \cup {"none"}
             /\ StatusAfter(u, e, missed, p) \in Statuses \ {"left"} <=> u.status[p] \in Statuses \ {"left"}
             /\ p \notin u.inHand => StatusAfter(u, e, missed, p) = u.status[p]
    <2>1. CASE p \notin u.inHand \/ u.status[p] # "active"
        <3>1. StatusAfter(u, e, missed, p) = u.status[p]
            BY <2>1 DEF StatusAfter
        <3> QED BY <1>1, <3>1 DEF Memory
    <2>2. CASE ~(p \notin u.inHand \/ u.status[p] # "active")
        <3>1. StatusAfter(u, e, missed, p) \in {"busted", "sitting_out", "active"}
            BY <2>2 DEF StatusAfter
        <3> QED BY <2>2, <3>1 DEF Statuses
    <2> QED BY <2>1, <2>2
<1>4. st \in [Players -> Statuses \cup {"none"}]
    BY <1>3
<1>5. v = [u EXCEPT !.hand = "result", !.stack = sk, !.status = st]
    BY DEF Settled
<1>6. \A p \in Players : st[p] = StatusAfter(u, e, missed, p) /\ sk[p] = IF p \in u.inHand THEN e[p] ELSE u.stack[p]
    OBVIOUS
<1> HIDE DEF v, sk, st
<1>7. /\ v \in Memory /\ v.hand = "result" /\ v.stack = sk /\ v.status = st /\ v.hands = u.hands
      /\ v.inHand = u.inHand /\ v.leaving = u.leaving /\ v.seat = u.seat
    BY <1>1, <1>2, <1>4, <1>5 DEF Memory
<1>8. Seated(v) = Seated(u)
    BY <1>3, <1>6, <1>7 DEF Seated
<1>9. Sane(v)
    BY <1>1, <1>7, <1>8 DEF Sane
<1>10. \A p \in Players \ u.inHand : v.stack[p] = u.stack[p] /\ v.status[p] = u.status[p]
    BY <1>3, <1>6, <1>7
<1> QED BY <1>7, <1>8, <1>9, <1>10 DEF v

(* finishHand: the results, the rows of those who stay, then of the leavers,   *)
(* the hand, the table.                                                        *)
LEMMA TurnFinish ==
    ASSUME NEW u, Sane(u), u.hand = "playing", NEW e \in Outcomes(u), NEW missed
    PROVE  Turn(u, FinishJobs(u, e, missed), Finished(u, e, missed))
<1> DEFINE settled == Settled(u, e, missed)
           leavers == u.inHand \cap u.leaving
           stay    == u.inHand \ leavers
           gone    == Freed(settled, leavers)
           done    == Finished(u, e, missed)
           V0 == ViewOf(u)
           V1 == [V0 EXCEPT !.due = {}]
           V2 == Over(V1, settled, stay)
           V3 == Over(V2, gone, leavers)
           V4 == Closed(V3)
           V5 == [V4 EXCEPT !.table = RowOfTable(done)]
<1>1. /\ u \in Memory /\ V0 \in View /\ u.hands \in Nat /\ u.inHand \subseteq Seated(u) /\ Seated(u) \subseteq Players
      /\ \A p \in Seated(u) : u.status[p] \in Statuses /\ u.status[p] # "none" /\ u.status[p] # "left"
    BY SaneMemory DEF Seated
<1>2. /\ Sane(settled) /\ Seated(settled) = Seated(u)
      /\ settled.hand = "result" /\ settled.hands = u.hands /\ settled.inHand = u.inHand
      /\ settled.leaving = u.leaving /\ settled.seat = u.seat
      /\ \A p \in Players \ u.inHand : settled.stack[p] = u.stack[p] /\ settled.status[p] = u.status[p]
    BY SettledFacts
<1>3. leavers \in SUBSET Players /\ stay \in SUBSET Players /\ stay \subseteq Seated(u) /\ leavers \cup stay = u.inHand
      /\ leavers \cap stay = {}
    BY <1>1
<1> HIDE DEF settled, leavers, stay
<1>4. /\ Sane(gone) /\ gone.hand = "result" /\ gone.hands = u.hands
      /\ \A p \in Players :
            /\ gone.seat[p] = u.seat[p] /\ gone.stack[p] = settled.stack[p]
            /\ gone.status[p] = IF p \in leavers THEN "left" ELSE settled.status[p]
    BY <1>2, <1>3, FreedFacts
<1>5. done = [gone EXCEPT !.endAfter = gone.endAfter \/ Decided(gone)]
    BY DEF Finished, gone, settled, leavers
<1> HIDE DEF gone, done
<1>6. /\ Sane(done) /\ done \in Memory /\ done.hand = "result" /\ done.hands = u.hands
      /\ done.seat = gone.seat /\ done.stack = gone.stack /\ done.status = gone.status
    <2>1. gone \in Memory /\ (gone.endAfter \/ Decided(gone)) \in BOOLEAN
        BY <1>4 DEF Sane, Decided
    <2>2. PICK b \in BOOLEAN : b = (gone.endAfter \/ Decided(gone))
        BY <2>1, Zenon
    <2>3. done = [gone EXCEPT !.endAfter = b]
        BY <1>5, <2>2, Zenon
    <2>4. /\ done \in Memory /\ done.hand = gone.hand /\ done.hands = gone.hands /\ done.seat = gone.seat
          /\ done.stack = gone.stack /\ done.status = gone.status /\ done.leaving = gone.leaving
          /\ done.inHand = gone.inHand /\ done.start = gone.start
        BY <2>1, <2>3 DEF Memory
    <2> QED BY <1>4, <2>4 DEF Sane, Seated
<1>7. settled \in Memory /\ gone \in Memory
    BY <1>2, <1>4 DEF Sane
<1>8. /\ V0.players = RowsOf(u) /\ V0.live = {u.hands} /\ V0.due = {u.hands} /\ V0.name = u.hands
      /\ V0.table.hands = u.hands
    BY DEF ViewOf, Live, RowOfTable
<1> HIDE DEF V0
<1>9. /\ V1 \in View /\ V1.players = RowsOf(u) /\ V1.live = {u.hands} /\ V1.name = u.hands /\ V1.table = V0.table
      /\ Step(V0, ResultsJob(u), V1)
    <2>1. ResultsJob(u) \in ResultsType /\ ResultsJob(u).n = u.hands
        BY <1>1 DEF ResultsJob, ResultsType, Memory
    <2>2. Step(V0, ResultsJob(u), V1)
        BY <1>1, <1>8, <2>1 DEF Step, CountsHand
    <2> QED BY <1>1, <1>8, <2>2 DEF View
<1> HIDE DEF V1
<1>10. Writable(V1, settled, stay)
    <2>1. ASSUME NEW p \in stay PROVE settled.status[p] \in Statuses /\ Keeps(V1.players[p], RowOf(settled, p))
        <3>1. p \in Seated(u) /\ p \in Seated(settled) /\ V1.players[p] = RowOf(u, p)
            BY <1>2, <1>3, <1>9, <1>1 DEF RowsOf
        <3>2. settled.status[p] \in Statuses /\ settled.seat[p] = u.seat[p]
            BY <1>2, <3>1 DEF Seated
        <3> QED BY <1>1, <1>7, <3>1, <3>2, SeatKept
    <2> QED BY <2>1 DEF Writable
<1>11. PlayerJobs(settled, stay) \in Seq(Job) /\ Leads(V1, PlayerJobs(settled, stay), V2) /\ V2 \in View
    BY <1>3, <1>7, <1>9, <1>10, PlayerJobsLead, LeadsToViews
<1>12. /\ V2.table = V1.table /\ V2.live = V1.live /\ V2.due = V1.due /\ V2.name = V1.name
       /\ \A p \in Players : V2.players[p] = IF p \in stay THEN RowOf(settled, p) ELSE RowOf(u, p)
    BY <1>3, <1>7, <1>9, OverFields DEF RowsOf
<1> HIDE DEF V2
<1>13. Writable(V2, gone, leavers)
    <2>1. ASSUME NEW p \in leavers PROVE gone.status[p] \in Statuses /\ Keeps(V2.players[p], RowOf(gone, p))
        <3>1. gone.status[p] = "left"
            BY <1>3, <1>4
        <3> QED BY <1>7, <3>1, LeftKept DEF Statuses
    <2> QED BY <2>1 DEF Writable
<1>14. FreeJobs(gone, leavers) \in Seq(Job) /\ Leads(V2, FreeJobs(gone, leavers), V3) /\ V3 \in View
    BY <1>3, <1>7, <1>11, <1>13, FreeJobsLead, LeadsToViews
<1>15. /\ V3.table = V0.table /\ V3.live = {u.hands} /\ V3.name = u.hands
       /\ \A p \in Players : V3.players[p] = IF p \in leavers THEN RowOf(gone, p) ELSE V2.players[p]
    BY <1>3, <1>7, <1>9, <1>11, <1>12, OverFields
<1> HIDE DEF V3
<1>16. /\ Step(V3, FinishJob(done, FALSE), V4) /\ V4 \in View /\ V4.players = V3.players /\ V4.table = V0.table
       /\ V4.live = {} /\ V4.due = {} /\ V4.name = u.hands
    <2>1. V3.name = done.hands /\ FALSE \in BOOLEAN /\ done \in Memory /\ V3 \in View
        BY <1>6, <1>14, <1>15
    <2>2. /\ Step(V3, FinishJob(done, FALSE), V4) /\ V4 \in View /\ V4.players = V3.players /\ V4.table = V3.table
          /\ V4.live = {} /\ V4.due = {} /\ V4.name = V3.name
        <3>1. V4 = Closed(V3)
            OBVIOUS
        <3> HIDE DEF V4
        <3>2. PICK job \in FinishType : job = FinishJob(done, FALSE) /\ job.n = done.hands
            BY <2>1, FinishJobTyped
        <3>3. /\ Step(V3, job, V4) /\ V4 \in View /\ V4.players = V3.players /\ V4.table = V3.table
              /\ V4.live = {} /\ V4.due = {} /\ V4.name = V3.name
            BY <2>1, <3>1, <3>2, HandCloses
        <3> QED BY <3>2, <3>3
    <2> QED BY <1>15, <2>2
<1> HIDE DEF V4
<1>17. Step(V4, TableJob(done), V5)
    BY <1>1, <1>6, <1>8, <1>16, WritesTableStep
<1>18. <<FinishJob(done, FALSE), TableJob(done)>> \in Seq(Job) /\ Leads(V3, <<FinishJob(done, FALSE), TableJob(done)>>, V5)
       /\ V5 \in View
    BY <1>14, <1>16, <1>17, TwoSteps
<1>19. V5 = ViewOf(done)
    <2>1. ViewOf(done) \in View
        BY <1>6, ViewTyped
    <2>2. V5.players = V3.players /\ V5.table = RowOfTable(done) /\ V5.live = {} /\ V5.due = {} /\ V5.name = u.hands
        BY <1>16 DEF View
    <2>3. ASSUME NEW p \in Players PROVE V3.players[p] = RowOf(done, p)
        <3>1. RowOf(done, p) = RowOf(gone, p)
            BY <1>6 DEF RowOf
        <3>2. CASE p \in leavers
            BY <1>15, <3>1, <3>2
        <3>3. CASE p \in stay
            <4>1. gone.seat[p] = settled.seat[p] /\ gone.stack[p] = settled.stack[p] /\ gone.status[p] = settled.status[p]
                BY <1>2, <1>3, <1>4, <3>3
            <4>2. RowOf(gone, p) = RowOf(settled, p) /\ p \notin leavers
                BY <1>3, <3>3, <4>1 DEF RowOf
            <4> QED BY <1>12, <1>15, <3>1, <3>3, <4>2
        <3>4. CASE p \notin leavers /\ p \notin stay
            <4>1. gone.seat[p] = u.seat[p] /\ gone.stack[p] = u.stack[p] /\ gone.status[p] = u.status[p]
                BY <1>2, <1>3, <1>4, <3>4
            <4>2. RowOf(gone, p) = RowOf(u, p)
                BY <4>1 DEF RowOf
            <4> QED BY <1>12, <1>15, <3>1, <3>4, <4>2
        <3> QED BY <3>2, <3>3, <3>4
    <2>4. V3.players = RowsOf(done)
        BY <1>6, <1>14, <2>3, RowsAre DEF View
    <2>5. /\ ViewOf(done).players = RowsOf(done) /\ ViewOf(done).table = RowOfTable(done) /\ ViewOf(done).live = {}
          /\ ViewOf(done).due = {} /\ ViewOf(done).name = u.hands
        BY <1>6 DEF ViewOf, Live
    <2> QED BY <1>18, <2>1, <2>2, <2>4, <2>5, ViewsEqual
<1>20. FinishJobs(u, e, missed) =
          <<ResultsJob(u)>> \o PlayerJobs(settled, stay) \o FreeJobs(gone, leavers) \o <<FinishJob(done, FALSE), TableJob(done)>>
    BY DEF FinishJobs, gone, done, settled, stay, leavers
<1> HIDE DEF V5
<1>21. <<ResultsJob(u)>> \in Seq(Job) /\ Leads(V0, <<ResultsJob(u)>>, V1)
    BY <1>1, <1>9, OneStep
<1> DEFINE a == <<ResultsJob(u)>>
           b == PlayerJobs(settled, stay)
           c == FreeJobs(gone, leavers)
           d == <<FinishJob(done, FALSE), TableJob(done)>>
<1>22. FinishJobs(u, e, missed) = a \o b \o c \o d
    BY <1>20
<1>23. a \in Seq(Job) /\ b \in Seq(Job) /\ c \in Seq(Job) /\ d \in Seq(Job)
       /\ Leads(V0, a, V1) /\ Leads(V1, b, V2) /\ Leads(V2, c, V3) /\ Leads(V3, d, V5)
    BY <1>11, <1>14, <1>18, <1>21
<1> HIDE DEF a, b, c, d
<1>24. a \o b \in Seq(Job) /\ Leads(V0, a \o b, V2)
    BY <1>23, LeadsOn
<1>25. (a \o b) \o c \in Seq(Job) /\ Leads(V0, (a \o b) \o c, V3)
    BY <1>23, <1>24, LeadsOn
<1>26. ((a \o b) \o c) \o d \in Seq(Job) /\ Leads(V0, ((a \o b) \o c) \o d, V5)
    BY <1>23, <1>25, LeadsOn
<1>27. FinishJobs(u, e, missed) \in Seq(Job) /\ Leads(V0, FinishJobs(u, e, missed), V5)
    BY <1>22, <1>26
<1> QED BY <1>6, <1>19, <1>27 DEF Turn, V0, done

(* endTable: everybody's row, then the table's.                                *)
LEMMA TurnEnd ==
    ASSUME NEW u, Sane(u), u.hand # "playing"
    PROVE  Turn(u, EndJobs(u), Ended(u))
<1> DEFINE v == Ended(u)
           ps == Seated(u)
           V0 == ViewOf(u)
           V1 == Over(V0, u, ps)
           V2 == [V1 EXCEPT !.table = RowOfTable(v)]
<1>1. /\ u \in Memory /\ V0 \in View /\ u.hands \in Nat /\ ps \in SUBSET Players
      /\ \A p \in ps : u.status[p] \in Statuses /\ u.status[p] # "none" /\ u.status[p] # "left"
    BY SaneMemory DEF Seated
<1>2. /\ v \in Memory /\ v.hand = "none" /\ v.hands = u.hands /\ v.seat = u.seat /\ v.stack = u.stack
      /\ v.status = u.status /\ v.leaving = u.leaving /\ v.inHand = {}
    BY <1>1 DEF Ended, Memory
<1> HIDE DEF v
<1>3. Sane(v)
    BY <1>2 DEF Sane, Seated
<1>4. V0.players = RowsOf(u) /\ V0.live = {} /\ V0.due = {} /\ V0.name = u.hands /\ V0.table.hands = u.hands
    BY DEF ViewOf, Live, RowOfTable
<1> HIDE DEF V0
<1>5. Writable(V0, u, ps)
    <2>1. ASSUME NEW p \in ps PROVE Keeps(V0.players[p], RowOf(u, p))
        <3>1. V0.players[p] = RowOf(u, p) /\ p \in Seated(u)
            BY <1>1, <1>4 DEF RowsOf
        <3> QED BY <1>1, <3>1, SeatKept
    <2> QED BY <1>1, <2>1 DEF Writable
<1>6. PlayerJobs(u, ps) \in Seq(Job) /\ Leads(V0, PlayerJobs(u, ps), V1) /\ V1 \in View
    BY <1>1, <1>5, PlayerJobsLead, LeadsToViews
<1>7. /\ V1.table = V0.table /\ V1.live = V0.live /\ V1.due = V0.due /\ V1.name = V0.name
      /\ \A p \in Players : V1.players[p] = RowOf(u, p)
    BY <1>1, <1>4, OverFields DEF RowsOf
<1> HIDE DEF V1
<1>8. Step(V1, TableJob(v), V2)
    BY <1>1, <1>2, <1>4, <1>6, <1>7, WritesTableStep
<1>9. <<TableJob(v)>> \in Seq(Job) /\ Leads(V1, <<TableJob(v)>>, V2) /\ V2 \in View
    BY <1>6, <1>8, OneStep
<1>10. V2 = ViewOf(v)
    <2>1. ViewOf(v) \in View
        BY <1>2, ViewTyped
    <2>2. V2.players = V1.players /\ V2.table = RowOfTable(v) /\ V2.live = {} /\ V2.due = {} /\ V2.name = u.hands
        BY <1>4, <1>6, <1>7 DEF View
    <2>3. \A p \in Players : V1.players[p] = RowOf(v, p)
        BY <1>2, <1>7 DEF RowOf
    <2>4. V1.players = RowsOf(v)
        BY <1>2, <1>6, <2>3, RowsAre DEF View
    <2>5. /\ ViewOf(v).players = RowsOf(v) /\ ViewOf(v).table = RowOfTable(v) /\ ViewOf(v).live = {}
          /\ ViewOf(v).due = {} /\ ViewOf(v).name = u.hands
        BY <1>2 DEF ViewOf, Live
    <2> QED BY <1>9, <2>1, <2>2, <2>4, <2>5, ViewsEqual
<1> HIDE DEF V2
<1>11. EndJobs(u) = PlayerJobs(u, ps) \o <<TableJob(v)>>
    BY DEF EndJobs, v
<1> HIDE DEF ps
<1>12. EndJobs(u) \in Seq(Job) /\ Leads(V0, EndJobs(u), V2)
    <2>1. /\ PlayerJobs(u, ps) \o <<TableJob(v)>> \in Seq(Job)
          /\ Leads(V0, PlayerJobs(u, ps) \o <<TableJob(v)>>, V2)
        BY <1>6, <1>9, LeadsOn
    <2> QED BY <1>11, <2>1
<1> QED BY <1>3, <1>10, <1>12 DEF Turn, V0, v

LEMMA VoidedFacts ==
    ASSUME NEW u, Sane(u), u.hand = "playing"
    PROVE  LET v == Voided(u) IN
           /\ Sane(v) /\ Seated(v) = Seated(u) /\ v.hand = "none" /\ v.hands = u.hands /\ v.state = u.state
           /\ v.leaving = u.leaving /\ v.seat = u.seat /\ v.status = u.status
           /\ \A p \in Players \ u.inHand : v.stack[p] = u.stack[p]
<1> DEFINE v == Voided(u)
           sk == [p \in Players |-> IF p \in u.inHand THEN u.start[p] ELSE u.stack[p]]
<1>1. u \in Memory /\ u.leaving \subseteq Seated(u) /\ u.inHand \subseteq DOMAIN u.start
    BY DEF Sane
<1>2. sk \in [Players -> Nat]
    <2>1. PICK S \in SUBSET Players : u.start \in [S -> Nat]
        BY <1>1 DEF Memory, Stacks
    <2>2. \A p \in u.inHand : u.start[p] \in Nat
        BY <1>1, <2>1
    <2> QED BY <1>1, <2>2 DEF Memory
<1>3. v = [u EXCEPT !.hand = "none", !.inHand = {}, !.stack = sk]
    BY DEF Voided
<1>4. \A p \in Players \ u.inHand : sk[p] = u.stack[p]
    OBVIOUS
<1> HIDE DEF v, sk
<1>5. /\ v \in Memory /\ v.hand = "none" /\ v.stack = sk /\ v.status = u.status /\ v.hands = u.hands /\ v.inHand = {}
      /\ v.leaving = u.leaving /\ v.seat = u.seat /\ v.state = u.state
    BY <1>1, <1>2, <1>3 DEF Memory
<1>6. Seated(v) = Seated(u)
    BY <1>5 DEF Seated
<1>7. Sane(v)
    BY <1>1, <1>5, <1>6 DEF Sane
<1> QED BY <1>4, <1>5, <1>6, <1>7 DEF v

(* voidHand: the rows with the stacks of the start, in any order; the hand;    *)
(* the leavers.                                                                *)
LEMMA TurnVoid ==
    ASSUME NEW u, Sane(u), u.hand = "playing", NEW order \in SetToSeqs(u.inHand)
    PROVE  Turn(u, VoidJobs(u, order), Freed(Voided(u), u.leaving))
<1> DEFINE vd   == Voided(u)
           ps   == u.inHand
           qs   == u.leaving
           done == Freed(vd, qs)
           V0 == ViewOf(u)
           V1 == Over(V0, vd, ps)
           V2 == Closed(V1)
           V3 == Over(V2, done, qs)
           a == [i \in DOMAIN order |-> PlayerJob(vd, order[i])]
           b == <<FinishJob(u, TRUE)>>
           c == FreeJobs(done, qs)
<1>1. /\ u \in Memory /\ V0 \in View /\ u.hands \in Nat /\ ps \subseteq Seated(u) /\ Seated(u) \subseteq Players
      /\ qs \subseteq Seated(u)
      /\ \A p \in Seated(u) : u.status[p] \in Statuses /\ u.status[p] # "none" /\ u.status[p] # "left"
    BY SaneMemory DEF Seated
<1>2. /\ Sane(vd) /\ vd.hand = "none" /\ vd.hands = u.hands /\ vd.state = u.state
      /\ vd.leaving = u.leaving /\ vd.seat = u.seat /\ vd.status = u.status
      /\ \A p \in Players \ ps : vd.stack[p] = u.stack[p]
    BY VoidedFacts
<1>3. ps \in SUBSET Players /\ qs \in SUBSET Players
    BY <1>1
<1>4. VoidJobs(u, order) = a \o b \o c
    BY DEF VoidJobs
<1> HIDE DEF vd
<1>5. /\ Sane(done) /\ done.hand = "none" /\ done.hands = u.hands /\ done.state = u.state
      /\ \A p \in Players :
            /\ done.seat[p] = u.seat[p] /\ done.stack[p] = vd.stack[p]
            /\ done.status[p] = IF p \in qs THEN "left" ELSE u.status[p]
    BY <1>2, <1>3, FreedFacts
<1> HIDE DEF done
<1>6. vd \in Memory /\ done \in Memory
    BY <1>2, <1>5 DEF Sane
<1>7. /\ V0.players = RowsOf(u) /\ V0.name = u.hands /\ V0.table = RowOfTable(u)
    BY DEF ViewOf
<1> HIDE DEF V0
<1>8. Writable(V0, vd, ps)
    <2>1. ASSUME NEW p \in ps PROVE vd.status[p] \in Statuses /\ Keeps(V0.players[p], RowOf(vd, p))
        <3>1. V0.players[p] = RowOf(u, p) /\ p \in Seated(u) /\ vd.status[p] \in Statuses /\ vd.seat[p] = u.seat[p]
            BY <1>1, <1>2, <1>7 DEF RowsOf
        <3> QED BY <1>1, <1>6, <3>1, SeatKept
    <2> QED BY <2>1 DEF Writable
<1>9. order \in Seq(ps) /\ \A p \in ps : \E i \in 1 .. Len(order) : order[i] = p
    <2>1. IsFiniteSet(ps)
        BY <1>3, StoreAssumption, FS_Subset
    <2>2. Cardinality(ps) \in Nat
        BY <2>1, FS_CardinalityType
    <2>3. order \in [1 .. Cardinality(ps) -> ps] /\ \A i, j \in 1 .. Cardinality(ps) : i # j => order[i] # order[j]
        BY DEF SetToSeqs
    <2>4. order \in Injection(1 .. Cardinality(ps), ps)
        BY <2>3 DEF Injection, IsInjective
    <2>7. Cardinality(1 .. Cardinality(ps)) = Cardinality(ps)
        BY <2>2, FS_Interval
    <2>5. order \in Surjection(1 .. Cardinality(ps), ps)
        BY <2>1, <2>4, <2>7, FS_Injection
    <2>6. order \in Seq(ps) /\ Len(order) = Cardinality(ps)
        BY <2>2, <2>3
    <2> QED BY <2>5, <2>6 DEF Surjection
<1>10. a = [i \in DOMAIN order |-> PlayerJob(vd, order[i])]
    OBVIOUS
<1> HIDE DEF a, b, c, ps, qs
<1>11. a \in Seq(Job) /\ Leads(V0, a, V1)
    <2>1. V0 \in View /\ vd \in Memory /\ ps \in SUBSET Players
        BY <1>1, <1>3, <1>6
    <2> HIDE DEF V1
    <2>2. a \in Seq(Job) /\ Leads(V0, a, Over(V0, vd, ps))
        BY <1>8, <1>9, <1>10, <2>1, ListWritten
    <2> QED BY <2>2 DEF V1
<1>12. V1 \in View
    BY <1>11, LeadsToViews
<1>13. /\ V1.table = V0.table /\ V1.name = V0.name
       /\ \A p \in Players : V1.players[p] = IF p \in ps THEN RowOf(vd, p) ELSE RowOf(u, p)
    BY <1>1, <1>3, <1>6, <1>7, OverFields DEF RowsOf
<1> HIDE DEF V1
<1>14. /\ Step(V1, FinishJob(u, TRUE), V2) /\ V2 \in View /\ V2.players = V1.players /\ V2.table = V0.table
       /\ V2.live = {} /\ V2.due = {} /\ V2.name = u.hands
    <2>1. V1.name = u.hands
        BY <1>7, <1>13
    <2>2. V2 = Closed(V1)
        OBVIOUS
    <2> HIDE DEF V2
    <2>3. PICK job \in FinishType : job = FinishJob(u, TRUE) /\ job.n = u.hands
        BY <1>1, FinishJobTyped
    <2>4. /\ Step(V1, job, V2) /\ V2 \in View /\ V2.players = V1.players /\ V2.table = V1.table
          /\ V2.live = {} /\ V2.due = {} /\ V2.name = V1.name
        BY <1>12, <2>1, <2>2, <2>3, HandCloses
    <2> QED BY <1>13, <2>1, <2>3, <2>4
<1> HIDE DEF V2
<1>15. b \in Seq(Job) /\ Leads(V1, b, V2)
    BY <1>12, <1>14, OneStep DEF b
<1>16. Writable(V2, done, qs)
    <2>1. ASSUME NEW p \in qs PROVE done.status[p] \in Statuses /\ Keeps(V2.players[p], RowOf(done, p))
        <3>1. done.status[p] = "left"
            BY <1>3, <1>5
        <3> QED BY <1>6, <3>1, LeftKept DEF Statuses
    <2> QED BY <2>1 DEF Writable
<1>17. c \in Seq(Job) /\ Leads(V2, c, V3) /\ V3 \in View
    <2>1. FreeJobs(done, qs) \in Seq(Job) /\ Leads(V2, FreeJobs(done, qs), V3)
        BY <1>3, <1>6, <1>14, <1>16, FreeJobsLead
    <2> QED BY <2>1, LeadsToViews DEF c
<1>18. V3 = ViewOf(done)
    <2>1. /\ V3.table = RowOfTable(u) /\ V3.live = {} /\ V3.due = {} /\ V3.name = u.hands
          /\ \A p \in Players : V3.players[p] = IF p \in qs THEN RowOf(done, p) ELSE V1.players[p]
        BY <1>3, <1>6, <1>7, <1>14, OverFields
    <2>2. ViewOf(done) \in View
        BY <1>6, ViewTyped
    <2>3. ASSUME NEW p \in Players PROVE V3.players[p] = RowOf(done, p)
        <3>1. CASE p \in qs
            BY <2>1, <3>1
        <3>2. CASE p \notin qs /\ p \in ps
            <4>1. RowOf(done, p) = RowOf(vd, p)
                BY <1>2, <1>5, <3>2 DEF RowOf
            <4> QED BY <1>13, <2>1, <3>2, <4>1
        <3>3. CASE p \notin qs /\ p \notin ps
            <4>1. done.stack[p] = u.stack[p] /\ done.seat[p] = u.seat[p] /\ done.status[p] = u.status[p]
                BY <1>2, <1>5, <3>3
            <4>2. RowOf(done, p) = RowOf(u, p)
                BY <4>1 DEF RowOf
            <4> QED BY <1>13, <2>1, <3>3, <4>2
        <3> QED BY <3>1, <3>2, <3>3
    <2>4. V3.players = RowsOf(done)
        BY <1>6, <1>17, <2>3, RowsAre DEF View
    <2>5. /\ ViewOf(done).players = RowsOf(done) /\ ViewOf(done).table = RowOfTable(u) /\ ViewOf(done).live = {}
          /\ ViewOf(done).due = {} /\ ViewOf(done).name = u.hands
        BY <1>5 DEF ViewOf, Live, RowOfTable
    <2> QED BY <1>17, <2>1, <2>2, <2>4, <2>5, ViewsEqual
<1> HIDE DEF V3
<1>19. a \o b \in Seq(Job) /\ Leads(V0, a \o b, V2)
    BY <1>11, <1>15, LeadsOn
<1>20. (a \o b) \o c \in Seq(Job) /\ Leads(V0, (a \o b) \o c, V3)
    BY <1>17, <1>19, LeadsOn
<1>21. VoidJobs(u, order) \in Seq(Job) /\ Leads(V0, VoidJobs(u, order), V3)
    BY <1>4, <1>20
<1> QED BY <1>5, <1>18, <1>21 DEF Turn, V0, done, vd, qs

(* A hand that has ended is stored again.                                      *)
LEMMA TurnReveal ==
    ASSUME NEW u, Sane(u), u.hand = "result"
    PROVE  Turn(u, <<FinishJob(u, FALSE)>>, u)
<1> DEFINE V == ViewOf(u)
<1>1. u \in Memory /\ V \in View
    BY SaneMemory
<1>2. V.live = {} /\ V.due = {} /\ V.name = u.hands
    BY DEF ViewOf, Live
<1> HIDE DEF V
<1>3. PICK W : W = Closed(V)
    OBVIOUS
<1>4. /\ Step(V, FinishJob(u, FALSE), W) /\ W \in View
      /\ W.players = V.players /\ W.table = V.table /\ W.live = {} /\ W.due = {} /\ W.name = V.name
    <2>1. PICK job \in FinishType : job = FinishJob(u, FALSE) /\ job.n = u.hands
        BY <1>1, FinishJobTyped
    <2>2. /\ Step(V, job, W) /\ W \in View
          /\ W.players = V.players /\ W.table = V.table /\ W.live = {} /\ W.due = {} /\ W.name = V.name
        BY <1>1, <1>2, <1>3, <2>1, HandCloses
    <2> QED BY <2>1, <2>2
<1>5. W = V
    BY <1>1, <1>2, <1>4, ViewsEqual
<1>6. <<FinishJob(u, FALSE)>> \in Seq(Job) /\ Leads(V, <<FinishJob(u, FALSE)>>, V)
    BY <1>1, <1>4, <1>5, OneStep
<1> QED BY <1>6 DEF Turn, V

(* freeSeat of one who is not in a hand.                                       *)
LEMMA TurnFree ==
    ASSUME NEW u, Sane(u), NEW p \in Seated(u)
    PROVE  Turn(u, FreeJobs(Freed(u, {p}), {p}), Freed(u, {p}))
<1> DEFINE v  == Freed(u, {p})
           V0 == ViewOf(u)
           V1 == Over(V0, v, {p})
<1>1. p \in Players /\ {p} \in SUBSET Players /\ u \in Memory /\ V0 \in View
    BY SaneMemory DEF Seated
<1>2. /\ Sane(v) /\ v.hand = u.hand /\ v.hands = u.hands /\ v.state = u.state
      /\ \A q \in Players : v.seat[q] = u.seat[q] /\ v.stack[q] = u.stack[q]
                             /\ v.status[q] = IF q \in {p} THEN "left" ELSE u.status[q]
    BY <1>1, FreedFacts
<1> HIDE DEF v
<1>3. v \in Memory
    BY <1>2 DEF Sane
<1>4. V0.players = RowsOf(u) /\ V0.table = RowOfTable(u) /\ V0.live = Live(u) /\ V0.due = Live(u) /\ V0.name = u.hands
    BY DEF ViewOf
<1> HIDE DEF V0
<1>5. Writable(V0, v, {p})
    <2>1. v.status[p] = "left"
        BY <1>1, <1>2
    <2> QED BY <1>3, <2>1, LeftKept DEF Writable, Statuses
<1>6. FreeJobs(v, {p}) \in Seq(Job) /\ Leads(V0, FreeJobs(v, {p}), V1) /\ V1 \in View
    BY <1>1, <1>3, <1>5, FreeJobsLead, LeadsToViews
<1>7. V1 = ViewOf(v)
    <2>1. /\ V1.table = V0.table /\ V1.live = V0.live /\ V1.due = V0.due /\ V1.name = V0.name
          /\ \A q \in Players : V1.players[q] = IF q \in {p} THEN RowOf(v, q) ELSE RowOf(u, q)
        BY <1>1, <1>3, <1>4, OverFields DEF RowsOf
    <2>2. \A q \in Players : V1.players[q] = RowOf(v, q)
        <3>1. ASSUME NEW q \in Players, q # p PROVE RowOf(v, q) = RowOf(u, q)
            BY <1>2, <3>1 DEF RowOf
        <3> QED BY <2>1, <3>1
    <2>3. V1.players = RowsOf(v)
        BY <1>3, <1>6, <2>2, RowsAre DEF View
    <2>4. /\ ViewOf(v).players = RowsOf(v) /\ ViewOf(v).table = RowOfTable(u) /\ ViewOf(v).live = Live(u)
          /\ ViewOf(v).due = Live(u) /\ ViewOf(v).name = u.hands /\ ViewOf(v) \in View
        BY <1>2, <1>3, ViewTyped DEF ViewOf, Live, RowOfTable
    <2> QED BY <1>4, <1>6, <2>1, <2>3, <2>4, ViewsEqual
<1> QED BY <1>2, <1>6, <1>7 DEF Turn, V0, v

-------------------------------------------------------------------------------
(* Moves to another seat.                                                      *)

LEMMA RowsBack ==
    ASSUME NEW u \in Memory
    PROVE  /\ BackIn(RowsOf(u)) = Seated(u)
           /\ \A p \in Seated(u) : RowsOf(u)[p].seat = u.seat[p]
<1>1. ASSUME NEW p \in Players
      PROVE  /\ RowsOf(u)[p].status \in Statuses \ {"left"} <=> u.status[p] \in Statuses \ {"left"}
             /\ u.status[p] # "none" => RowsOf(u)[p].seat = u.seat[p]
    <2>1. RowsOf(u)[p] = RowOf(u, p)
        BY DEF RowsOf
    <2>2. CASE u.status[p] = "none"
        BY <2>1, <2>2 DEF RowOf, NoRow, Statuses
    <2>3. CASE u.status[p] # "none"
        BY <2>1, <2>3 DEF RowOf
    <2> QED BY <2>2, <2>3
<1> QED BY <1>1 DEF BackIn, Seated, Statuses

(* Nobody sits down where somebody sits.                                       *)
LEMMA StayApart ==
    ASSUME NEW u \in Memory, NEW v \in Memory,
           \A p, q \in Seated(v) : p # q /\ v.seat[p] = v.seat[q]
               => p \in Seated(u) /\ q \in Seated(u) /\ u.seat[p] = u.seat[q]
    PROVE  Apart(RowsOf(u)) => Apart(RowsOf(v))
<1>1. BackIn(RowsOf(u)) = Seated(u) /\ \A p \in Seated(u) : RowsOf(u)[p].seat = u.seat[p]
    BY RowsBack
<1>2. BackIn(RowsOf(v)) = Seated(v) /\ \A p \in Seated(v) : RowsOf(v)[p].seat = v.seat[p]
    BY RowsBack
<1> QED BY <1>1, <1>2 DEF Apart

LEMMA MovedFacts ==
    ASSUME NEW u, Sane(u), NEW p \in Players
    PROVE  LET v == Moved(u, p) IN
           /\ Sane(v) /\ v.status = u.status /\ v.stack = u.stack /\ v.hand = u.hand /\ v.hands = u.hands /\ v.state = u.state
           /\ v.seat[p] = IF CanMove(u, p) THEN u.pendingSeat[p] ELSE u.seat[p]
           /\ \A q \in Players \ {p} : v.seat[q] = u.seat[q]
<1> DEFINE v == Moved(u, p)
           s == IF CanMove(u, p) THEN u.pendingSeat[p] ELSE u.seat[p]
           sts == [u.seat EXCEPT ![p] = s]
           pnd == [u.pendingSeat EXCEPT ![p] = -1]
<1>1. u \in Memory /\ u.leaving \subseteq Seated(u) /\ u.inHand \subseteq Seated(u)
      /\ (u.hand = "playing" => u.inHand \subseteq DOMAIN u.start)
    BY DEF Sane
<1>2. s \in Seats
    <2>1. u.seat[p] \in Seats /\ u.pendingSeat[p] \in Seats \cup {-1} /\ ~(-1 >= 0)
        BY <1>1 DEF Memory
    <2>2. CanMove(u, p) => u.pendingSeat[p] \in Seats
        BY <2>1 DEF CanMove
    <2> QED BY <2>1, <2>2
<1>3. v = [u EXCEPT !.pendingSeat[p] = -1, !.seat[p] = s]
    BY DEF Moved
<1> HIDE DEF v, s
<1>4. sts \in [Players -> Seats] /\ pnd \in [Players -> Seats \cup {-1}]
      /\ sts[p] = s /\ \A q \in Players \ {p} : sts[q] = u.seat[q]
    BY <1>1, <1>2 DEF Memory
<1>5. v = [u EXCEPT !.pendingSeat = pnd, !.seat = sts]
    BY <1>1, <1>3 DEF Memory
<1> HIDE DEF sts, pnd
<1>6. /\ v \in Memory /\ v.seat = sts /\ v.status = u.status /\ v.stack = u.stack /\ v.hand = u.hand /\ v.hands = u.hands
      /\ v.state = u.state /\ v.leaving = u.leaving /\ v.inHand = u.inHand /\ v.start = u.start
    BY <1>1, <1>4, <1>5 DEF Memory
<1>7. Sane(v)
    BY <1>1, <1>6 DEF Sane, Seated
<1> QED BY <1>4, <1>6, <1>7 DEF v, s

(* applySeatChange.                                                            *)
LEMMA TurnMove ==
    ASSUME NEW u, Sane(u), NEW p \in Seated(u)
    PROVE  Turn(u, MoveJobs(u, p), Moved(u, p))
<1> DEFINE v == Moved(u, p)
<1>1. u \in Memory /\ p \in Players /\ u.status[p] # "none"
    BY SaneMemory
<1>2. /\ Sane(v) /\ v.status = u.status /\ v.stack = u.stack /\ v.hand = u.hand /\ v.hands = u.hands /\ v.state = u.state
      /\ v.seat[p] = (IF CanMove(u, p) THEN u.pendingSeat[p] ELSE u.seat[p])
      /\ \A q \in Players \ {p} : v.seat[q] = u.seat[q]
    BY <1>1, MovedFacts
<1> HIDE DEF v
<1>3. v \in Memory /\ Seated(v) = Seated(u) /\ RowOfTable(v) = RowOfTable(u)
    BY <1>2 DEF Sane, Seated, RowOfTable
<1>4. CASE CanMove(u, p)
    <2>1. MoveJobs(u, p) = <<PlayerJob(v, p)>>
        BY <1>4 DEF MoveJobs, v
    <2>2. \A q \in Players \ {p} : RowOf(v, q) = RowOf(u, q)
        BY <1>2 DEF RowOf
    <2>3. \A q \in Seated(u) \ {p} : v.seat[p] # v.seat[q]
        <3>1. \A q \in Seated(u) : u.pendingSeat[p] # u.seat[q]
            BY <1>4 DEF CanMove, Taken
        <3>2. Seated(u) \subseteq Players
            BY DEF Seated
        <3> QED BY <1>2, <1>4, <3>1, <3>2
    <2>4. \A q, r \in Seated(v) : q # r /\ v.seat[q] = v.seat[r]
                => q \in Seated(u) /\ r \in Seated(u) /\ u.seat[q] = u.seat[r]
        <3>1. Seated(u) \subseteq Players
            BY DEF Seated
        <3>2. ASSUME NEW q \in Seated(u), NEW r \in Seated(u), q # r, v.seat[q] = v.seat[r]
              PROVE  u.seat[q] = u.seat[r]
            <4>1. q # p /\ r # p
                BY <2>3, <3>2
            <4> QED BY <1>2, <3>1, <3>2, <4>1
        <3> QED BY <1>3, <3>2
    <2>5. Apart(RowsOf(u)) => Apart(RowsOf(v))
        BY <1>1, <1>3, <2>4, StayApart
    <2>6. v.status[p] # "none"
        BY <1>1, <1>2
    <2>7. Turn(u, <<PlayerJob(v, p)>>, v)
        BY <1>1, <1>2, <1>3, <2>2, <2>5, <2>6, TurnPlayer
    <2> QED BY <2>1, <2>7 DEF v
<1>5. CASE ~CanMove(u, p)
    <2>1. MoveJobs(u, p) = <<>>
        BY <1>5 DEF MoveJobs
    <2>2. \A q \in Players : RowOf(v, q) = RowOf(u, q)
        BY <1>2, <1>5 DEF RowOf
    <2>3. ViewOf(v) = ViewOf(u)
        BY <1>2, <1>3, <2>2 DEF ViewOf, RowsOf, Live
    <2> QED BY <1>2, <2>1, <2>3, TurnNone DEF v
<1> QED BY <1>4, <1>5

(* applyPendingSeatChanges: one player of the list after the other.            *)
LEMMA TurnMoves ==
    ASSUME NEW u, Sane(u)
    PROVE  Turn(u, AllMoved(u).jobs, AllMoved(u).t) /\ AllMoved(u).t.hand = u.hand
<1> DEFINE ps == {p \in Seated(u) : u.pendingSeat[p] >= 0}
           s  == BySeat(u, ps)
           N  == Len(s)
           Next1(a, n) == [t |-> Moved(a.t, s[n]), jobs |-> a.jobs \o MoveJobs(a.t, s[n])]
           Row(f, m) == [n \in 0 .. m |->
                           IF n = 0 THEN [t |-> u, jobs |-> <<>>]
                           ELSE [t |-> Moved(f[n - 1].t, s[n]), jobs |-> f[n - 1].jobs \o MoveJobs(f[n - 1].t, s[n])]]
           M == {m \in 0 .. N : \E f : f = Row(f, m)}
           after == CHOOSE f : f = Row(f, N)
           Good == {m \in 0 .. N : /\ Turn(u, after[m].jobs, after[m].t)
                                   /\ after[m].t.status = u.status /\ after[m].t.hand = u.hand}
<1>1. u \in Memory /\ ps \in SUBSET Players /\ ps \subseteq Seated(u)
    BY DEF Sane, Seated
<1>2. N \in Nat /\ \A i \in 1 .. N : s[i] \in Seated(u)
    <2>1. s \in Seq(ps)
        BY <1>1, SeatOrder
    <2> HIDE DEF s, ps
    <2> QED BY <1>1, <2>1, LengthIsNat
<1>3. AllMoved(u) = after[N]
    BY DEF AllMoved
<1> HIDE DEF s, N
<1>4. 0 .. N \subseteq M
    <2>1. 0 \in M
        <3>1. PICK f : f = [n \in 0 .. 0 |-> [t |-> u, jobs |-> <<>>]]
            OBVIOUS
        <3>2. f = Row(f, 0)
            BY <3>1
        <3>3. 0 \in 0 .. N
            BY <1>2
        <3> HIDE DEF Row
        <3> QED BY <3>2, <3>3
    <2>2. ASSUME NEW k \in 0 .. (N - 1), k \in M PROVE k + 1 \in M
        <3>1. PICK f : f = Row(f, k)
            BY <2>2
        <3>2. PICK g : g = [n \in 0 .. k + 1 |-> IF n = k + 1 THEN Next1(f[k], k + 1) ELSE f[n]]
            OBVIOUS
        <3>3. g = Row(g, k + 1)
            <4>1. ASSUME NEW n \in 0 .. k + 1
                  PROVE  g[n] = IF n = 0 THEN [t |-> u, jobs |-> <<>>] ELSE Next1(g[n - 1], n)
                <5>1. CASE n = 0
                    <6>1. n \in 0 .. k /\ n # k + 1
                        BY <5>1
                    <6> HIDE DEF Next1
                    <6>2. g[n] = f[n]
                        BY <3>2, <6>1
                    <6>3. f[n] = [t |-> u, jobs |-> <<>>]
                        BY <3>1, <5>1, <6>1
                    <6> QED BY <5>1, <6>2, <6>3
                <5>2. CASE n # 0 /\ n # k + 1
                    <6>1. n \in 0 .. k /\ n - 1 \in 0 .. k + 1 /\ n - 1 # k + 1
                        BY <5>2
                    <6>2. f[n] = Next1(f[n - 1], n)
                        BY <3>1, <5>2, <6>1
                    <6> HIDE DEF Next1
                    <6>3. g[n] = f[n] /\ g[n - 1] = f[n - 1]
                        BY <3>2, <5>2, <6>1
                    <6> QED BY <5>2, <6>2, <6>3
                <5>3. CASE n = k + 1
                    <6>1. n # 0 /\ n - 1 = k /\ k \in 0 .. k + 1 /\ k # k + 1
                        BY <5>3
                    <6> HIDE DEF Next1
                    <6>2. g[n] = Next1(f[k], n) /\ g[n - 1] = f[k]
                        BY <3>2, <5>3, <6>1
                    <6> QED BY <6>1, <6>2
                <5> QED BY <5>1, <5>2, <5>3
            <4>2. g = [n \in 0 .. k + 1 |-> g[n]]
                BY <3>2
            <4> QED BY <4>1, <4>2
        <3>4. k + 1 \in 0 .. N
            BY <1>2
        <3> QED BY <3>3, <3>4
    <2> HIDE DEF M
    <2> QED BY <1>2, <2>1, <2>2, Climb
<1>5. after = Row(after, N)
    <2> HIDE DEF Row
    <2>1. \E f : f = Row(f, N)
        BY <1>2, <1>4
    <2> QED BY <2>1
<1> HIDE DEF after
<1>6. after[0] = [t |-> u, jobs |-> <<>>]
    BY <1>2, <1>5
<1>7. ASSUME NEW n \in 0 .. N, n # 0
      PROVE  after[n].t = Moved(after[n - 1].t, s[n]) /\ after[n].jobs = after[n - 1].jobs \o MoveJobs(after[n - 1].t, s[n])
    <2>1. after[n] = [t |-> Moved(after[n - 1].t, s[n]), jobs |-> after[n - 1].jobs \o MoveJobs(after[n - 1].t, s[n])]
        BY <1>5, <1>7
    <2>2. PICK x : x = Moved(after[n - 1].t, s[n])
        OBVIOUS
    <2>3. PICK y : y = after[n - 1].jobs \o MoveJobs(after[n - 1].t, s[n])
        OBVIOUS
    <2>4. after[n] = [t |-> x, jobs |-> y]
        BY <2>1, <2>2, <2>3
    <2>5. after[n].t = x
        BY <2>4
    <2>6. after[n].jobs = y
        BY <2>4
    <2> QED BY <2>2, <2>3, <2>5, <2>6, Zenon
<1>8. 0 .. N \subseteq Good
    <2>1. 0 \in Good
        BY <1>2, <1>6, TurnNone
    <2>2. ASSUME NEW k \in 0 .. (N - 1), k \in Good PROVE k + 1 \in Good
        <3>1. PICK j \in 0 .. N : j = k + 1
            BY <1>2
        <3>2. j # 0 /\ j - 1 = k /\ j \in 1 .. N
            BY <1>2, <3>1
        <3>3. PICK a : a = after[k]
            OBVIOUS
        <3>4. Turn(u, a.jobs, a.t) /\ a.t.status = u.status /\ a.t.hand = u.hand
            BY <2>2, <3>3
        <3>5. after[j].t = Moved(a.t, s[j]) /\ after[j].jobs = a.jobs \o MoveJobs(a.t, s[j])
            BY <1>7, <3>2, <3>3
        <3>6. Sane(a.t) /\ s[j] \in Seated(a.t)
            BY <1>2, <3>2, <3>4 DEF Turn, Seated
        <3>7. Turn(a.t, MoveJobs(a.t, s[j]), Moved(a.t, s[j]))
            BY <3>6, TurnMove
        <3>8. Turn(u, a.jobs \o MoveJobs(a.t, s[j]), Moved(a.t, s[j]))
            BY <3>4, <3>7, TurnOn
        <3>9. Moved(a.t, s[j]).status = a.t.status /\ Moved(a.t, s[j]).hand = a.t.hand
            <4>1. s[j] \in Players
                BY <3>6 DEF Seated
            <4> QED BY <3>6, <4>1, MovedFacts
        <3>10. Turn(u, after[j].jobs, after[j].t) /\ after[j].t.status = u.status /\ after[j].t.hand = u.hand
            BY <3>4, <3>5, <3>8, <3>9
        <3> QED BY <3>1, <3>10
    <2> HIDE DEF Good
    <2> QED BY <1>2, <2>1, <2>2, Climb
<1>9. N \in Good
    BY <1>2, <1>8
<1> QED BY <1>3, <1>9

-------------------------------------------------------------------------------
(* Every command.                                                              *)

Obeys == \E js, v : Turn(t, js, v) /\ Does(v, js)

LEMMA PlayerCommand ==
    ASSUME Sane(t), NEW v, NEW p \in Seated(t), v \in Memory,
           v.seat = t.seat, v.hand = t.hand, v.hands = t.hands, v.state = t.state,
           v.leaving = t.leaving, v.inHand = t.inHand, v.start = t.start,
           v.status[p] \in Statuses \ {"left"},
           \A q \in Players \ {p} : v.status[q] = t.status[q] /\ v.stack[q] = t.stack[q]
    PROVE  Turn(t, <<PlayerJob(v, p)>>, v) /\ Sane(v)
<1>1. t \in Memory /\ p \in Players /\ t.status[p] \in Statuses \ {"left"}
    BY SaneMemory DEF Seated
<1>2. Seated(v) = Seated(t)
    BY <1>1 DEF Seated
<1>3. Sane(v)
    BY <1>2 DEF Sane
<1>4. \A q \in Players \ {p} : RowOf(v, q) = RowOf(t, q)
    BY DEF RowOf
<1>5. Apart(RowsOf(t)) => Apart(RowsOf(v))
    BY <1>1, <1>2, StayApart
<1>6. v.status[p] # "none" /\ RowOfTable(v) = RowOfTable(t)
    BY DEF Statuses, RowOfTable
<1>7. Turn(t, <<PlayerJob(v, p)>>, v)
    BY <1>1, <1>3, <1>4, <1>5, <1>6, TurnPlayer
<1> QED BY <1>3, <1>7

LEMMA JoinObeys ==
    ASSUME Sane(t), NEW s \in Seats, Join(s)
    PROVE  Obeys
<1> DEFINE p == NewPlayerID
           v == [t EXCEPT !.seat[p] = s, !.stack[p] = StartMoney, !.status[p] = "active"]
           sts == [t.seat EXCEPT ![p] = s]
           sks == [t.stack EXCEPT ![p] = StartMoney]
           sss == [t.status EXCEPT ![p] = "active"]
<1>1. p \in Players /\ t.status[p] = "none"
    BY DEF Join, NewPlayerID
<1>2. Does(v, <<PlayerJob(v, p)>>) /\ s \notin Taken(t)
    BY DEF Join
<1> HIDE DEF p
<1>3. t \in Memory
    BY SaneMemory
<1>4. /\ sts \in [Players -> Seats] /\ sks \in [Players -> Nat] /\ sss \in [Players -> Statuses \cup {"none"}]
      /\ sts[p] = s /\ sss[p] = "active"
      /\ \A q \in Players \ {p} : sts[q] = t.seat[q] /\ sks[q] = t.stack[q] /\ sss[q] = t.status[q]
    BY <1>1, <1>3, StoreAssumption DEF Memory, Statuses
<1>5. v = [t EXCEPT !.seat = sts, !.stack = sks, !.status = sss]
    BY <1>3 DEF Memory
<1> HIDE DEF v, sts, sks, sss
<1>6. /\ v \in Memory /\ v.seat = sts /\ v.stack = sks /\ v.status = sss /\ v.hand = t.hand /\ v.hands = t.hands
      /\ v.state = t.state /\ v.leaving = t.leaving /\ v.inHand = t.inHand /\ v.start = t.start
    BY <1>3, <1>4, <1>5 DEF Memory
<1>7. Seated(v) = Seated(t) \cup {p}
    BY <1>1, <1>4, <1>6 DEF Seated, Statuses
<1>8. Sane(v)
    BY <1>6, <1>7 DEF Sane
<1>9. \A q \in Players \ {p} : RowOf(v, q) = RowOf(t, q)
    BY <1>4, <1>6 DEF RowOf
<1>10. Apart(RowsOf(t)) => Apart(RowsOf(v))
    <2>1. \A q \in Seated(t) : t.seat[q] # s /\ q # p /\ q \in Players
        BY <1>1, <1>2 DEF Taken, Seated, Statuses
    <2>2. \A q, r \in Seated(v) : q # r /\ v.seat[q] = v.seat[r]
            => q \in Seated(t) /\ r \in Seated(t) /\ t.seat[q] = t.seat[r]
        BY <1>4, <1>6, <1>7, <2>1
    <2> QED BY <1>3, <1>6, <2>2, StayApart
<1>11. v.status[p] # "none" /\ RowOfTable(v) = RowOfTable(t)
    BY <1>4, <1>6 DEF RowOfTable
<1>12. Turn(t, <<PlayerJob(v, p)>>, v)
    BY <1>1, <1>6, <1>8, <1>9, <1>10, <1>11, TurnPlayer
<1> QED BY <1>2, <1>12 DEF Obeys

LEMMA StartObeys ==
    ASSUME Sane(t), Start \/ Resume
    PROVE  Obeys
<1> DEFINE v == SetState(t, "running")
<1>1. Does(Dealt(v), <<TableJob(v)>> \o DealJobs(v))
    BY DEF Start, Resume
<1>2. Turn(t, <<TableJob(v)>>, v)
    BY TurnTable
<1> HIDE DEF v
<1>3. Turn(v, DealJobs(v), Dealt(v))
    BY <1>2, TurnDeal DEF Turn
<1>4. Turn(t, <<TableJob(v)>> \o DealJobs(v), Dealt(v))
    BY <1>2, <1>3, TurnOn
<1> QED BY <1>1, <1>4 DEF Obeys

LEMMA PauseObeys ==
    ASSUME Sane(t), Pause
    PROVE  Obeys
<1>1. Does(SetState(t, "paused"), <<TableJob(SetState(t, "paused"))>>)
    BY DEF Pause
<1>2. Turn(t, <<TableJob(SetState(t, "paused"))>>, SetState(t, "paused"))
    BY TurnTable
<1> QED BY <1>1, <1>2 DEF Obeys

LEMMA StartHandObeys ==
    ASSUME Sane(t), StartHand
    PROVE  Obeys
BY TurnDeal DEF StartHand, Obeys

LEMMA LateRevealObeys ==
    ASSUME Sane(t), LateReveal
    PROVE  Obeys
BY TurnReveal DEF LateReveal, Obeys

(* A hand that ends, by itself or at the end of a longer command.              *)
LEMMA FinishesObeys ==
    ASSUME NEW u, NEW jobs, NEW outcomes, Turn(t, jobs, u), u.hand = "playing", outcomes \subseteq Outcomes(u),
           Finishes(u, jobs, outcomes)
    PROVE  Obeys
<1>1. PICK e \in outcomes, missed \in Missed(u) : Does(Finished(u, e, missed), jobs \o FinishJobs(u, e, missed))
    BY DEF Finishes
<1>2. e \in Outcomes(u) /\ Sane(u)
    BY DEF Turn
<1>3. Turn(u, FinishJobs(u, e, missed), Finished(u, e, missed))
    BY <1>2, TurnFinish
<1>4. Turn(t, jobs \o FinishJobs(u, e, missed), Finished(u, e, missed))
    BY <1>3, TurnOn
<1> QED BY <1>1, <1>4 DEF Obeys

LEMMA FinishHandObeys ==
    ASSUME Sane(t), FinishHand
    PROVE  Obeys
<1>1. Turn(t, <<>>, t)
    BY TurnNone
<1> QED BY <1>1, FinishesObeys DEF FinishHand

LEMMA ChangeSeatObeys ==
    ASSUME Sane(t), NEW p \in Players, NEW s \in Seats, ChangeSeat(p, s)
    PROVE  Obeys
<1> DEFINE u == [t EXCEPT !.pendingSeat[p] = s]
           pnd == [t.pendingSeat EXCEPT ![p] = s]
<1>1. p \in Seated(t) /\ (Does(u, <<>>) \/ Does(Moved(u, p), MoveJobs(u, p)))
    BY DEF ChangeSeat
<1>2. t \in Memory
    BY SaneMemory
<1>3. pnd \in [Players -> Seats \cup {-1}] /\ u = [t EXCEPT !.pendingSeat = pnd]
    BY <1>2 DEF Memory
<1> HIDE DEF u, pnd
<1>4. /\ u \in Memory /\ u.seat = t.seat /\ u.stack = t.stack /\ u.status = t.status /\ u.hand = t.hand /\ u.hands = t.hands
      /\ u.state = t.state /\ u.leaving = t.leaving /\ u.inHand = t.inHand /\ u.start = t.start
    BY <1>2, <1>3 DEF Memory
<1>5. Seated(u) = Seated(t) /\ ViewOf(u) = ViewOf(t)
    BY <1>4 DEF Seated, ViewOf, RowsOf, RowOf, RowOfTable, Live
<1>6. Sane(u)
    BY <1>4, <1>5 DEF Sane
<1>7. Turn(t, <<>>, u)
    BY <1>5, <1>6, TurnNone
<1>8. Turn(t, MoveJobs(u, p), Moved(u, p))
    <2>1. Turn(u, MoveJobs(u, p), Moved(u, p))
        BY <1>1, <1>5, <1>6, TurnMove
    <2> QED BY <1>5, <2>1 DEF Turn
<1> QED BY <1>1, <1>7, <1>8 DEF Obeys

LEMMA ClearHandObeys ==
    ASSUME Sane(t), ClearHand
    PROVE  Obeys
<1> DEFINE u == [t EXCEPT !.hand = "none", !.inHand = {}, !.endAfter = FALSE]
           m == AllMoved(u)
<1>1. t.hand = "result" /\ (Does(Ended(u), EndJobs(u)) \/ Does(Dealt(m.t), m.jobs \o DealJobs(m.t)))
    BY DEF ClearHand
<1>2. t \in Memory
    BY SaneMemory
<1> HIDE DEF u, m
<1>3. /\ u \in Memory /\ u.seat = t.seat /\ u.stack = t.stack /\ u.status = t.status /\ u.hand = "none" /\ u.hands = t.hands
      /\ u.state = t.state /\ u.leaving = t.leaving /\ u.inHand = {} /\ u.start = t.start
    BY <1>2 DEF Memory, u
<1>4. Seated(u) = Seated(t) /\ ViewOf(u) = ViewOf(t)
    BY <1>1, <1>3 DEF Seated, ViewOf, RowsOf, RowOf, RowOfTable, Live
<1>5. Sane(u)
    BY <1>3, <1>4 DEF Sane
<1>6. Turn(t, EndJobs(u), Ended(u))
    <2>1. Turn(u, EndJobs(u), Ended(u))
        BY <1>3, <1>5, TurnEnd
    <2> QED BY <1>4, <2>1 DEF Turn
<1>7. Turn(t, m.jobs \o DealJobs(m.t), Dealt(m.t))
    <2>1. Turn(u, m.jobs, m.t)
        BY <1>5, TurnMoves DEF m
    <2>2. Turn(t, m.jobs, m.t)
        BY <1>4, <2>1 DEF Turn
    <2>3. Turn(m.t, DealJobs(m.t), Dealt(m.t))
        BY <2>1, TurnDeal DEF Turn
    <2> QED BY <2>2, <2>3, TurnOn
<1> QED BY <1>1, <1>6, <1>7 DEF Obeys

LEMMA LeaveObeys ==
    ASSUME Sane(t), NEW p \in Players, Leave(p)
    PROVE  Obeys
<1> DEFINE u == [t EXCEPT !.leaving = t.leaving \cup {p}]
<1>1. /\ p \in Seated(t)
      /\ \/ Does(u, <<>>)
         \/ t.hand = "playing" /\ Finishes(u, <<>>, Outcomes(u))
         \/ Does(Freed(u, {p}), FreeJobs(Freed(u, {p}), {p}))
    BY DEF Leave
<1>2. t \in Memory
    BY SaneMemory
<1> HIDE DEF u
<1>3. /\ u \in Memory /\ u.seat = t.seat /\ u.stack = t.stack /\ u.status = t.status /\ u.hand = t.hand /\ u.hands = t.hands
      /\ u.state = t.state /\ u.leaving = t.leaving \cup {p} /\ u.inHand = t.inHand /\ u.start = t.start
    BY <1>2 DEF Memory, u
<1>4. Seated(u) = Seated(t) /\ ViewOf(u) = ViewOf(t)
    BY <1>3 DEF Seated, ViewOf, RowsOf, RowOf, RowOfTable, Live
<1>5. Sane(u)
    BY <1>1, <1>3, <1>4 DEF Sane
<1>6. Turn(t, <<>>, u)
    BY <1>4, <1>5, TurnNone
<1>7. Turn(t, FreeJobs(Freed(u, {p}), {p}), Freed(u, {p}))
    <2>1. Turn(u, FreeJobs(Freed(u, {p}), {p}), Freed(u, {p}))
        BY <1>1, <1>4, <1>5, TurnFree
    <2> QED BY <1>4, <2>1 DEF Turn
<1>8. CASE t.hand = "playing" /\ Finishes(u, <<>>, Outcomes(u))
    BY <1>3, <1>6, <1>8, FinishesObeys
<1> QED BY <1>1, <1>6, <1>7, <1>8 DEF Obeys

LEMMA SitOutObeys ==
    ASSUME Sane(t), NEW p \in Players, SitOut(p)
    PROVE  Obeys
<1> DEFINE u == [t EXCEPT !.status[p] = "sitting_out"]
           st == [t.status EXCEPT ![p] = "sitting_out"]
           outcomes == {e \in Outcomes(u) : e[p] <= t.stack[p]}
<1>1. /\ p \in Seated(t)
      /\ \/ Does(u, <<PlayerJob(u, p)>>)
         \/ t.hand = "playing" /\ Finishes(u, <<PlayerJob(u, p)>>, outcomes)
    BY DEF SitOut
<1>2. t \in Memory
    BY SaneMemory
<1>3. /\ st \in [Players -> Statuses \cup {"none"}] /\ u = [t EXCEPT !.status = st]
      /\ st[p] = "sitting_out" /\ \A q \in Players \ {p} : st[q] = t.status[q]
    BY <1>2 DEF Memory, Statuses
<1>4. outcomes \subseteq Outcomes(u)
    OBVIOUS
<1> HIDE DEF u, st, outcomes
<1>5. /\ u \in Memory /\ u.seat = t.seat /\ u.stack = t.stack /\ u.status = st /\ u.hand = t.hand /\ u.hands = t.hands
      /\ u.state = t.state /\ u.leaving = t.leaving /\ u.inHand = t.inHand /\ u.start = t.start
    BY <1>2, <1>3 DEF Memory
<1>6. /\ u.status[p] \in Statuses \ {"left"}
      /\ \A q \in Players \ {p} : u.status[q] = t.status[q] /\ u.stack[q] = t.stack[q]
    BY <1>3, <1>5 DEF Statuses
<1>7. Turn(t, <<PlayerJob(u, p)>>, u)
    BY <1>1, <1>5, <1>6, PlayerCommand
<1>8. CASE t.hand = "playing" /\ Finishes(u, <<PlayerJob(u, p)>>, outcomes)
    BY <1>4, <1>5, <1>7, <1>8, FinishesObeys
<1> QED BY <1>1, <1>7, <1>8 DEF Obeys

LEMMA SitInObeys ==
    ASSUME Sane(t), NEW p \in Players, SitIn(p)
    PROVE  Obeys
<1> DEFINE s == IF t.stack[p] = 0 THEN "busted" ELSE "active"
           u == [t EXCEPT !.status[p] = s]
           st == [t.status EXCEPT ![p] = s]
<1>1. p \in Seated(t) /\ Does(u, <<PlayerJob(u, p)>>)
    BY DEF SitIn
<1>2. t \in Memory /\ s \in Statuses \ {"left"}
    BY SaneMemory DEF Statuses
<1> HIDE DEF s
<1>3. /\ st \in [Players -> Statuses \cup {"none"}] /\ u = [t EXCEPT !.status = st]
      /\ st[p] = s /\ \A q \in Players \ {p} : st[q] = t.status[q]
    BY <1>2 DEF Memory
<1> HIDE DEF u, st
<1>4. /\ u \in Memory /\ u.seat = t.seat /\ u.stack = t.stack /\ u.status = st /\ u.hand = t.hand /\ u.hands = t.hands
      /\ u.state = t.state /\ u.leaving = t.leaving /\ u.inHand = t.inHand /\ u.start = t.start
    BY <1>2, <1>3 DEF Memory
<1>5. /\ u.status[p] \in Statuses \ {"left"}
      /\ \A q \in Players \ {p} : u.status[q] = t.status[q] /\ u.stack[q] = t.stack[q]
    BY <1>2, <1>3, <1>4
<1>6. Turn(t, <<PlayerJob(u, p)>>, u)
    BY <1>1, <1>4, <1>5, PlayerCommand
<1> QED BY <1>1, <1>6 DEF Obeys

LEMMA RebuyObeys ==
    ASSUME Sane(t), NEW p \in Players, Rebuy(p)
    PROVE  Obeys
<1> DEFINE u == [t EXCEPT !.stack[p] = StartMoney, !.status[p] = "active"]
           sk == [t.stack EXCEPT ![p] = StartMoney]
           st == [t.status EXCEPT ![p] = "active"]
<1>1. p \in Seated(t) /\ Does(u, <<PlayerJob(u, p)>>)
    BY DEF Rebuy
<1>2. t \in Memory
    BY SaneMemory
<1>3. /\ st \in [Players -> Statuses \cup {"none"}] /\ sk \in [Players -> Nat]
      /\ st[p] = "active" /\ \A q \in Players \ {p} : st[q] = t.status[q] /\ sk[q] = t.stack[q]
    BY <1>2, StoreAssumption DEF Memory, Statuses
<1>4. u = [t EXCEPT !.stack = sk, !.status = st]
    BY <1>2 DEF Memory
<1> HIDE DEF u, st, sk
<1>5. /\ u \in Memory /\ u.seat = t.seat /\ u.stack = sk /\ u.status = st /\ u.hand = t.hand /\ u.hands = t.hands
      /\ u.state = t.state /\ u.leaving = t.leaving /\ u.inHand = t.inHand /\ u.start = t.start
    BY <1>2, <1>3, <1>4 DEF Memory
<1>6. /\ u.status[p] \in Statuses \ {"left"}
      /\ \A q \in Players \ {p} : u.status[q] = t.status[q] /\ u.stack[q] = t.stack[q]
    BY <1>3, <1>5 DEF Statuses
<1>7. Turn(t, <<PlayerJob(u, p)>>, u)
    BY <1>1, <1>5, <1>6, PlayerCommand
<1> QED BY <1>1, <1>7 DEF Obeys

LEMMA EndObeys ==
    ASSUME Sane(t), NEW immediate \in BOOLEAN, End(immediate)
    PROVE  Obeys
<1> DEFINE u == [t EXCEPT !.endAfter = TRUE]
           d == Freed(Voided(t), t.leaving)
<1>1. \/ Does(u, <<>>)
      \/ t.hand = "playing" /\ \E order \in SetToSeqs(t.inHand) : Does(Ended(d), VoidJobs(t, order) \o EndJobs(d))
      \/ t.hand # "playing" /\ Does(Ended(t), EndJobs(t))
    BY DEF End
<1>2. t \in Memory
    BY SaneMemory
<1>3. CASE Does(u, <<>>)
    <2> HIDE DEF u
    <2>1. /\ u \in Memory /\ u.seat = t.seat /\ u.stack = t.stack /\ u.status = t.status /\ u.hand = t.hand /\ u.hands = t.hands
          /\ u.state = t.state /\ u.leaving = t.leaving /\ u.inHand = t.inHand /\ u.start = t.start
        BY <1>2 DEF Memory, u
    <2>2. Seated(u) = Seated(t) /\ ViewOf(u) = ViewOf(t)
        BY <2>1 DEF Seated, ViewOf, RowsOf, RowOf, RowOfTable, Live
    <2>3. Sane(u)
        BY <2>1, <2>2 DEF Sane
    <2>4. Turn(t, <<>>, u)
        BY <2>2, <2>3, TurnNone
    <2> QED BY <1>3, <2>4 DEF Obeys
<1>4. CASE t.hand = "playing" /\ \E order \in SetToSeqs(t.inHand) : Does(Ended(d), VoidJobs(t, order) \o EndJobs(d))
    <2>1. PICK order \in SetToSeqs(t.inHand) : Does(Ended(d), VoidJobs(t, order) \o EndJobs(d))
        BY <1>4
    <2>2. Turn(t, VoidJobs(t, order), d)
        BY <1>4, TurnVoid
    <2>3. d.hand = "none"
        <3>1. Sane(Voided(t)) /\ Voided(t).hand = "none" /\ t.leaving \in SUBSET Players
            BY <1>2, <1>4, VoidedFacts DEF Memory
        <3> QED BY <3>1, FreedFacts
    <2> HIDE DEF d
    <2>4. Turn(d, EndJobs(d), Ended(d))
        BY <2>2, <2>3, TurnEnd DEF Turn
    <2>5. Turn(t, VoidJobs(t, order) \o EndJobs(d), Ended(d))
        BY <2>2, <2>4, TurnOn
    <2> QED BY <2>1, <2>5 DEF Obeys
<1>5. CASE t.hand # "playing" /\ Does(Ended(t), EndJobs(t))
    <2>1. Turn(t, EndJobs(t), Ended(t))
        BY <1>5, TurnEnd
    <2> QED BY <1>5, <2>1 DEF Obeys
<1> QED BY <1>1, <1>3, <1>4, <1>5

LEMMA RestartObeys ==
    ASSUME Sane(t), Restart
    PROVE  Obeys
<1> DEFINE pnd == [p \in Players |-> -1]
           sk  == [p \in Players |-> IF p \in Seated(t) THEN StartMoney ELSE t.stack[p]]
           st  == [p \in Players |-> IF p \in Seated(t) THEN "active" ELSE t.status[p]]
           u   == [t EXCEPT !.state = "waiting", !.endAfter = FALSE, !.leaving = {}, !.pendingSeat = pnd,
                            !.stack = sk, !.status = st]
           ps  == Seated(t)
           V0  == ViewOf(t)
           V1  == Over(V0, u, ps)
           V2  == [V1 EXCEPT !.table = RowOfTable(u)]
<1>1. Does(u, PlayerJobs(u, Seated(u)) \o <<TableJob(u)>>)
    BY DEF Restart
<1>2. t \in Memory /\ V0 \in View /\ t.hands \in Nat /\ ps \in SUBSET Players /\ t.inHand \subseteq ps
    BY SaneMemory DEF Seated
<1>3. pnd \in [Players -> Seats \cup {-1}] /\ sk \in [Players -> Nat] /\ st \in [Players -> Statuses \cup {"none"}]
    BY <1>2, StoreAssumption DEF Memory, Statuses
<1>4. \A p \in Players : /\ sk[p] = IF p \in ps THEN StartMoney ELSE t.stack[p]
                         /\ st[p] = IF p \in ps THEN "active" ELSE t.status[p]
    OBVIOUS
<1>5. u = [t EXCEPT !.state = "waiting", !.endAfter = FALSE, !.leaving = {}, !.pendingSeat = pnd, !.stack = sk, !.status = st]
    OBVIOUS
<1> HIDE DEF u, pnd, sk, st
<1>6. /\ u \in Memory /\ u.seat = t.seat /\ u.stack = sk /\ u.status = st /\ u.hand = t.hand /\ u.hands = t.hands
      /\ u.leaving = {} /\ u.inHand = t.inHand /\ u.start = t.start
    BY <1>2, <1>3, <1>5 DEF Memory
<1>7. Seated(u) = ps
    BY <1>2, <1>4, <1>6 DEF Seated, Statuses
<1>8. Sane(u)
    BY <1>2, <1>6, <1>7 DEF Sane
<1>9. V0.players = RowsOf(t) /\ V0.table.hands = t.hands /\ V0.live = Live(t) /\ V0.due = Live(t) /\ V0.name = t.hands
    BY DEF ViewOf, RowOfTable
<1> HIDE DEF V0
<1>10. Writable(V0, u, ps)
    <2>1. ASSUME NEW p \in ps PROVE u.status[p] \in Statuses /\ Keeps(V0.players[p], RowOf(u, p))
        <3>1. V0.players[p] = RowOf(t, p) /\ p \in Seated(t) /\ u.status[p] \in Statuses /\ u.seat[p] = t.seat[p]
            BY <1>2, <1>4, <1>6, <1>9 DEF RowsOf, Statuses
        <3> QED BY <1>2, <1>6, <3>1, SeatKept
    <2> QED BY <2>1 DEF Writable
<1>11. PlayerJobs(u, ps) \in Seq(Job) /\ Leads(V0, PlayerJobs(u, ps), V1) /\ V1 \in View
    BY <1>2, <1>6, <1>10, PlayerJobsLead, LeadsToViews
<1>12. /\ V1.table = V0.table /\ V1.live = V0.live /\ V1.due = V0.due /\ V1.name = V0.name
       /\ \A p \in Players : V1.players[p] = IF p \in ps THEN RowOf(u, p) ELSE RowOf(t, p)
    BY <1>2, <1>6, <1>9, OverFields DEF RowsOf
<1> HIDE DEF V1
<1>13. Step(V1, TableJob(u), V2)
    BY <1>2, <1>6, <1>9, <1>11, <1>12, WritesTableStep
<1>14. <<TableJob(u)>> \in Seq(Job) /\ Leads(V1, <<TableJob(u)>>, V2) /\ V2 \in View
    BY <1>11, <1>13, OneStep
<1>15. V2 = ViewOf(u)
    <2>1. V2.players = V1.players /\ V2.table = RowOfTable(u) /\ V2.live = Live(t) /\ V2.due = Live(t) /\ V2.name = t.hands
        BY <1>9, <1>11, <1>12 DEF View
    <2>2. \A p \in Players : V1.players[p] = RowOf(u, p)
        <3>1. ASSUME NEW p \in Players, p \notin ps PROVE RowOf(u, p) = RowOf(t, p)
            BY <1>4, <1>6, <3>1 DEF RowOf
        <3> QED BY <1>12, <3>1
    <2>3. V1.players = RowsOf(u)
        BY <1>6, <1>11, <2>2, RowsAre DEF View
    <2>4. /\ ViewOf(u).players = RowsOf(u) /\ ViewOf(u).table = RowOfTable(u) /\ ViewOf(u).live = Live(t)
          /\ ViewOf(u).due = Live(t) /\ ViewOf(u).name = t.hands /\ ViewOf(u) \in View
        BY <1>6, ViewTyped DEF ViewOf, Live
    <2> QED BY <1>14, <2>1, <2>3, <2>4, ViewsEqual
<1> HIDE DEF V2
<1>16. PlayerJobs(u, ps) \o <<TableJob(u)>> \in Seq(Job) /\ Leads(V0, PlayerJobs(u, ps) \o <<TableJob(u)>>, V2)
    BY <1>11, <1>14, LeadsOn
<1>17. Turn(t, PlayerJobs(u, ps) \o <<TableJob(u)>>, u)
    BY <1>8, <1>15, <1>16 DEF Turn, V0
<1> QED BY <1>1, <1>7, <1>17 DEF Obeys


LEMMA CommandObeys ==
    ASSUME Sane(t), Command
    PROVE  Obeys /\ Running
<1>1. CASE \E p \in Players : Leave(p) \/ SitOut(p) \/ SitIn(p) \/ Rebuy(p) \/ \E s \in Seats : ChangeSeat(p, s)
    <2>1. PICK p \in Players : Leave(p) \/ SitOut(p) \/ SitIn(p) \/ Rebuy(p) \/ \E s \in Seats : ChangeSeat(p, s)
        BY <1>1
    <2>2. CASE Leave(p)
        BY <2>2, LeaveObeys DEF Leave
    <2>3. CASE SitOut(p)
        BY <2>3, SitOutObeys DEF SitOut
    <2>4. CASE SitIn(p)
        BY <2>4, SitInObeys DEF SitIn
    <2>5. CASE Rebuy(p)
        BY <2>5, RebuyObeys DEF Rebuy
    <2>6. CASE \E s \in Seats : ChangeSeat(p, s)
        BY <2>6, ChangeSeatObeys DEF ChangeSeat
    <2> QED BY <2>1, <2>2, <2>3, <2>4, <2>5, <2>6
<1>2. CASE Start \/ Resume
    BY <1>2, StartObeys DEF Start, Resume
<1>3. CASE Pause
    BY <1>3, PauseObeys DEF Pause
<1>4. CASE Restart
    BY <1>4, RestartObeys DEF Restart
<1>5. CASE \E immediate \in BOOLEAN : End(immediate)
    BY <1>5, EndObeys DEF End
<1>6. CASE LateReveal
    BY <1>6, LateRevealObeys DEF LateReveal
<1>7. CASE \E s \in Seats : Join(s)
    BY <1>7, JoinObeys DEF Join
<1>8. CASE StartHand
    BY <1>8, StartHandObeys DEF StartHand
<1>9. CASE FinishHand
    BY <1>9, FinishHandObeys DEF FinishHand
<1>10. CASE ClearHand
    BY <1>10, ClearHandObeys DEF ClearHand
<1> QED BY <1>1, <1>2, <1>3, <1>4, <1>5, <1>6, <1>7, <1>8, <1>9, <1>10 DEF Command, Asked, Played

-------------------------------------------------------------------------------
(* The start.                                                                  *)

LEMMA NothingYet ==
    ASSUME NEW S
    PROVE  <<>> \in Seq(S) /\ Len(<<>>) = 0 /\ DOMAIN <<>> = {} /\ <<>> \in [{} -> S]
<1>1. <<>> \in Seq(S) /\ Len(<<>>) = 0
    BY EmptySeq
<1>2. <<>> \in [1 .. 0 -> S] /\ DOMAIN <<>> = 1 .. 0
    BY <1>1, LenProperties
<1>3. 1 .. 0 = {}
    OBVIOUS
<1> QED BY <1>1, <1>2, <1>3

LEMMA NoHandRows == <<>> \in HandRows /\ <<>> \in Stacks /\ DOMAIN <<>> = {}
<1> DEFINE R == [start : Stacks, of : 0 .. MaxHands, open : BOOLEAN, voided : BOOLEAN]
           A == SUBSET (1 .. MaxHands)
           B == SUBSET Players
<1>1. <<>> \in [{} -> R] /\ <<>> \in [{} -> Nat] /\ DOMAIN <<>> = {}
    BY NothingYet
<1>2. {} \in A /\ {} \in B
    OBVIOUS
<1>3. Stacks = UNION {[S -> Nat] : S \in B} /\ HandRows = UNION {[S -> R] : S \in A}
    BY DEF Stacks, HandRows
<1> HIDE DEF R, A, B
<1> QED BY <1>1, <1>2, <1>3

(* Before anybody joined: nobody, no hand.                                     *)
LEMMA NewTableSane ==
    ASSUME NEW s \in [rebuy : BOOLEAN, autoStart : BOOLEAN]
    PROVE  Sane(NewTable(s)) /\ NewTable(s).hand = "none"
<1> DEFINE u == NewTable(s)
<1>1. /\ 0 \in Seats /\ 0 \in 0 .. MaxHands /\ <<>> \in Stacks
    BY StoreAssumption, NoHandRows DEF Seats
<1>2. u \in Memory /\ u.leaving = {} /\ u.inHand = {} /\ u.hand = "none"
    BY <1>1 DEF NewTable, Memory
<1> QED BY <1>2 DEF Sane

LEMMA EmptyQueue ==
    ASSUME queue = <<>>
    PROVE  queue \in Seq(Job) /\ Len(queue) = 0
BY NothingYet

LEMMA NobodyBack ==
    ASSUME NEW rows, rows = [p \in Players |-> NoRow]
    PROVE  rows \in Rows /\ Apart(rows)
<1>1. BackIn(rows) = {}
    BY DEF BackIn, NoRow, Statuses
<1> QED BY <1>1 DEF Apart, Rows

LEMMA InitInv == Init => StoreInv
<1> SUFFICES ASSUME Init PROVE StoreInv
    OBVIOUS
<1>1. PICK s \in Settings : t = NewTable(s)
    BY DEF Init
<1>2. s \in [rebuy : BOOLEAN, autoStart : BOOLEAN]
    BY <1>1, StoreAssumption
<1>3. Sane(t) /\ t.hand = "none" /\ t.settings = s /\ t.hands = 0 /\ t.state = "waiting" /\ \A p \in Players : t.status[p] = "none"
    BY <1>1, <1>2, NewTableSane DEF NewTable
<1>4. /\ db.table = [state |-> "waiting", hands |-> 0] /\ db.settings = s /\ db.players = [p \in Players |-> NoRow]
      /\ db.hands = <<>> /\ db.results = <<>> /\ db = [table |-> db.table, settings |-> db.settings, players |-> db.players,
                                                       hands |-> db.hands, results |-> db.results]
    BY <1>3 DEF Init, NoRows
<1>5. db.table \in TableRow /\ db.table.hands \in 0 .. MaxHands /\ db.players \in Rows /\ db.hands \in HandRows /\ DOMAIN db.hands = {}
    BY <1>4, StoreAssumption, NoHandRows DEF TableRow, Rows
<1>6. db.results \in Seq(Players \X Nat) /\ DOMAIN db.results = {}
    BY <1>4, NothingYet
<1>7. db \in Database
    BY <1>2, <1>4, <1>5, <1>6 DEF Database
<1>8. queue = <<>> /\ queue \in Seq(Job) /\ Len(queue) = 0
    BY EmptyQueue DEF Init
<1>9. Kept(db, rowID)
    BY <1>5, <1>7, StoreAssumption DEF Init, None, Kept
<1>10. Typed
    <2>1. /\ proc = "up" /\ stage = "live" /\ tries = 0
          /\ purge = FALSE /\ lost = FALSE /\ gaveUp = FALSE
        BY DEF Init
    <2>2. 0 <= QueueCap /\ 0 \in 0 .. Attempts - 1
        BY StoreAssumption
    <2>3. stage \in Stages
        BY <2>1 DEF Stages
    <2> QED BY <1>3, <1>8, <1>9, <2>1, <2>2, <2>3 DEF Typed
<1> DEFINE V == ViewOf(t)
<1>11. V \in View /\ V.players = RowsOf(t) /\ V.table = RowOfTable(t) /\ V.live = {} /\ V.due = {}
    BY <1>3, SaneMemory DEF ViewOf, Live
<1>12. V.players = db.players /\ V.table = db.table
    BY <1>3, <1>4, <1>11 DEF RowsOf, RowOf, RowOfTable
<1>13. Apart(V.players)
    BY <1>4, <1>12, NobodyBack
<1>14. Counted(db, V)
    BY <1>6 DEF Counted, IsInjective
<1>15. Opened(db, rowID, V)
    BY <1>5, <1>11 DEF Opened
<1>16. Shown(db, V)
    BY <1>12 DEF Shown
<1>17. Leads(V, queue, V)
    BY <1>8, <1>11, LeadsNone
<1>18. rowID = None
    BY DEF Init
<1> HIDE DEF V
<1>19. Behind(V, V)
    BY <1>13, <1>14, <1>15, <1>16, <1>17, <1>18 DEF Behind, Shows, V
<1> QED BY <1>10, <1>11, <1>19 DEF StoreInv, Lag

-------------------------------------------------------------------------------
(* A command: the run goes on to what the memory has become.                   *)

LEMMA CommandInv ==
    ASSUME StoreInv, Command
    PROVE  StoreInv'
<1>1. Typed /\ Lag /\ Sane(t)
    BY DEF StoreInv, Typed
<1>2. Running /\ Obeys
    BY <1>1, CommandObeys
<1>3. PICK js, v : Turn(t, js, v) /\ Does(v, js)
    BY <1>2 DEF Obeys
<1>4. js \in Seq(Job) /\ Sane(v) /\ Leads(ViewOf(t), js, ViewOf(v))
    BY <1>3 DEF Turn
<1>5. /\ t' = v /\ queue' = queue \o js /\ Len(queue) + Len(js) <= QueueCap
      /\ proc' = proc /\ stage' = stage /\ tries' = tries /\ rowID' = rowID /\ db' = db
      /\ purge' = purge /\ lost' = lost /\ gaveUp' = gaveUp
    BY <1>3 DEF Does
<1>6. queue' \in Seq(Job) /\ Len(queue') <= QueueCap
    BY <1>1, <1>4, <1>5, ConcatProperties DEF Typed
<1>7. proc = "up" /\ stage # "gone"
    BY <1>2 DEF Running
<1>8. Typed'
    BY <1>1, <1>4, <1>5, <1>6, <1>7 DEF Typed
<1>9. PICK V \in View, W \in View : Behind(V, W)
    BY <1>1 DEF Lag
<1>10. W = ViewOf(t) /\ Leads(V, queue, W)
    BY <1>7, <1>9 DEF Behind
<1>11. Leads(V, queue', ViewOf(v)) /\ ViewOf(v) \in View
    BY <1>1, <1>4, <1>5, <1>10, LeadsOn, SaneMemory DEF Typed
<1>12. Shows(db, rowID, V)' /\ ViewOf(t)' = ViewOf(v)
    BY <1>5, <1>9 DEF Behind, Shows, ViewOf, RowsOf, RowOf, RowOfTable, Live
<1>13. Behind(V, ViewOf(v))'
    BY <1>5, <1>9, <1>11, <1>12 DEF Behind
<1> QED BY <1>1, <1>8, <1>11, <1>12, <1>13 DEF StoreInv, Lag

-------------------------------------------------------------------------------
(* The persister: the first job of the queue, done or given up.                *)

LEMMA AttemptFacts ==
    ASSUME StoreInv, queue # <<>>
    PROVE  /\ Head(queue) \in Job /\ Tail(queue) \in Seq(Job) /\ Len(Tail(queue)) <= QueueCap
           /\ \E V \in View, U \in View, W \in View :
                 Behind(V, W) /\ Step(V, Head(queue), U) /\ Leads(U, Tail(queue), W)
<1>1. queue \in Seq(Job) /\ Len(queue) <= QueueCap
    BY DEF StoreInv, Typed
<1>2. PICK V \in View, W \in View : Behind(V, W)
    BY DEF StoreInv, Lag
<1>3. Leads(V, queue, W)
    BY <1>2 DEF Behind
<1>4. PICK U \in View : Step(V, Head(queue), U) /\ Leads(U, Tail(queue), W)
    BY <1>1, <1>3, LeadsThrough
<1>5. Tail(queue) \in Seq(Job) /\ Len(Tail(queue)) = Len(queue) - 1 /\ Head(queue) \in Job /\ Len(queue) \in Nat
    BY <1>1, HeadTailProperties, LengthIsNat
<1>6. Len(Tail(queue)) <= QueueCap
    BY <1>1, <1>5, StoreAssumption
<1> QED BY <1>2, <1>4, <1>5, <1>6

(* One job done: the rows show the next view.  First the jobs that write the   *)
(* rows of a player, of the table and of sessions.                             *)
LEMMA PlayerWritten ==
    ASSUME Kept(db, rowID), lost => gaveUp, NEW V \in View, NEW U, NEW job, Shows(db, rowID, V), WritesPlayer(V, job, U)
    PROVE  Kept(Written(job), rowID) /\ RowIDAfter(job, TRUE) = rowID /\ Shows(Written(job), rowID, U)
<1> DEFINE d == Written(job)
           rows == [V.players EXCEPT ![job.p] = job.row]
<1>1. job.kind = "player" /\ job.p \in Players /\ job.row \in PlayerRow /\ U = [V EXCEPT !.players[job.p] = job.row]
    BY DEF WritesPlayer, PlayerType
<1>2. d = [db EXCEPT !.players[job.p] = job.row] /\ RowIDAfter(job, TRUE) = rowID
    BY <1>1 DEF Written, UpsertPlayer, RowIDAfter
<1>3. U.players = rows /\ U.table = V.table /\ U.live = V.live /\ U.due = V.due /\ U.name = V.name
    BY <1>1 DEF View
<1>4. db \in Database
    BY DEF Kept
<1>5. /\ d.players = [db.players EXCEPT ![job.p] = job.row] /\ d.table = db.table /\ d.hands = db.hands
      /\ d.results = db.results /\ d.settings = db.settings
      /\ d = [db EXCEPT !.players = [db.players EXCEPT ![job.p] = job.row]]
    BY <1>2, <1>4 DEF Database
<1>6. [db.players EXCEPT ![job.p] = job.row] \in Rows
    BY <1>1, <1>4 DEF Database, Rows
<1>7. d \in Database
    BY <1>4, <1>5, <1>6 DEF Database
<1> HIDE DEF d, rows
<1>8. Kept(d, rowID)
    BY <1>5, <1>7 DEF Kept
<1>9. ~lost => Shown(d, U)
    BY <1>3, <1>5 DEF Shows, Shown, rows
<1>10. ~lost /\ stage # "gone" => Opened(d, rowID, U)
    BY <1>3, <1>5 DEF Shows, Opened
<1>11. ~gaveUp => Apart(U.players) /\ Counted(d, U)
    BY <1>3, <1>5 DEF Shows, Counted, WritesPlayer
<1> QED BY <1>2, <1>3, <1>8, <1>9, <1>10, <1>11 DEF Shows, d

LEMMA TableWritten ==
    ASSUME Kept(db, rowID), lost => gaveUp, NEW V \in View, NEW U, NEW job, Shows(db, rowID, V), WritesTable(V, job, U),
           db.table # NoTable
    PROVE  Kept(Written(job), rowID) /\ RowIDAfter(job, TRUE) = rowID /\ Shows(Written(job), rowID, U)
<1> DEFINE d == Written(job)
<1>1. /\ job.kind = "table" /\ job.row \in TableRow /\ U = [V EXCEPT !.table = job.row]
      /\ V.table.hands <= job.row.hands /\ job.row.hands <= MaxHands /\ job.row.hands \in Nat
    BY DEF WritesTable, TableType, TableRow
<1>2. d = [db EXCEPT !.table = job.row] /\ RowIDAfter(job, TRUE) = rowID
    BY <1>1 DEF Written, UpdateTable, RowIDAfter
<1>3. U.players = V.players /\ U.table = job.row /\ U.live = V.live /\ U.due = V.due /\ U.name = V.name
    BY <1>1 DEF View
<1>4. db \in Database
    BY DEF Kept
<1>5. /\ d.players = db.players /\ d.table = job.row /\ d.hands = db.hands
      /\ d.results = db.results /\ d \in Database
    BY <1>1, <1>2, <1>4 DEF Database
<1>6. job.row.hands \in 0 .. MaxHands
    BY <1>1, StoreAssumption
<1>7. V.table.hands \in Nat
    BY DEF View, TableRow, NoTable
<1> HIDE DEF d
<1>8. Kept(d, rowID)
    BY <1>5, <1>6 DEF Kept
<1>9. ~lost => Shown(d, U)
    BY <1>3, <1>5 DEF Shows, Shown
<1>10. ~lost /\ stage # "gone" => Opened(d, rowID, U)
    BY <1>3, <1>5 DEF Shows, Opened
<1>11. ASSUME ~gaveUp PROVE Apart(U.players) /\ Counted(d, U)
    <2>1. V.table # NoTable /\ Apart(V.players) /\ Counted(db, V)
        BY <1>11 DEF Shows, Shown
    <2>2. \A i \in DOMAIN db.results : db.results[i][2] \in Nat
        BY <1>4, LengthIsNat DEF Database
    <2> QED BY <1>1, <1>3, <1>5, <1>7, <2>1, <2>2 DEF Counted
<1> QED BY <1>2, <1>3, <1>8, <1>9, <1>10, <1>11 DEF Shows, d

LEMMA SessionsWritten ==
    ASSUME Kept(db, rowID), NEW V \in View, NEW U, NEW job, Shows(db, rowID, V), EndsSessions(V, job, U)
    PROVE  Kept(Written(job), rowID) /\ RowIDAfter(job, TRUE) = rowID /\ Shows(Written(job), rowID, U)
<1>1. job.kind = "sessions" /\ U = V
    BY DEF EndsSessions, SessionsType
<1>2. Written(job) = db /\ RowIDAfter(job, TRUE) = rowID
    BY <1>1 DEF Written, RowIDAfter
<1> QED BY <1>1, <1>2

(* The row of a hand: new, and open until it is finished.                      *)
LEMMA HandOpened ==
    ASSUME Kept(db, rowID), lost => gaveUp, NEW V \in View, NEW U, NEW job, Shows(db, rowID, V), OpensHand(V, job, U),
           db.table # NoTable
    PROVE  Kept(Written(job), job.n) /\ RowIDAfter(job, TRUE) = job.n /\ Shows(Written(job), job.n, U)
<1> DEFINE d == Written(job)
           n == job.n
           R == [start : Stacks, of : 0 .. MaxHands, open : BOOLEAN, voided : BOOLEAN]
           hs == [m \in DOMAIN db.hands \cup {n} |-> IF m = n THEN HandRow(job.start) ELSE db.hands[m]]
<1>1. /\ job.kind = "insert" /\ n \in 1 .. MaxHands /\ job.start \in Stacks /\ n \in 0 .. MaxHands /\ n \in Nat
      /\ U = [V EXCEPT !.live = {n}, !.due = {n}, !.name = n] /\ V.live = {} /\ V.table.hands < n
    BY StoreAssumption DEF OpensHand, InsertType
<1>2. d = [db EXCEPT !.hands = hs] /\ RowIDAfter(job, TRUE) = n
    BY <1>1 DEF Written, InsertHand, RowIDAfter
<1>3. U.players = V.players /\ U.table = V.table /\ U.live = {n} /\ U.due = {n} /\ U.name = n
    BY <1>1 DEF View
<1>4. db \in Database
    BY DEF Kept
<1>5. PICK S \in SUBSET (1 .. MaxHands) : db.hands \in [S -> R]
    BY <1>4 DEF Database, HandRows
<1>6. /\ HandRow(job.start) \in R /\ HandRow(job.start).open = TRUE /\ HandRow(job.start).of = None
    BY <1>1, StoreAssumption DEF HandRow, None
<1>7. /\ hs \in [S \cup {n} -> R] /\ S \cup {n} \in SUBSET (1 .. MaxHands) /\ DOMAIN hs = DOMAIN db.hands \cup {n}
      /\ hs[n] = HandRow(job.start) /\ \A m \in DOMAIN db.hands : m # n => hs[m] = db.hands[m]
    <2> HIDE DEF R
    <2> QED BY <1>1, <1>5, <1>6
<1>8. hs \in HandRows
    BY <1>7 DEF HandRows
<1> HIDE DEF hs, R
<1>9. /\ d.players = db.players /\ d.table = db.table /\ d.hands = hs
      /\ d.results = db.results /\ d \in Database
    BY <1>2, <1>4, <1>8 DEF Database
<1> HIDE DEF d, n
<1>10. Kept(d, n)
    BY <1>1, <1>6, <1>7, <1>9 DEF Kept
<1>11. ~lost => Shown(d, U)
    BY <1>3, <1>9 DEF Shows, Shown
<1>12. ASSUME ~lost, stage # "gone" PROVE Opened(d, n, U)
    <2>1. \A m \in DOMAIN db.hands : ~db.hands[m].open
        BY <1>1, <1>12 DEF Shows, Opened
    <2>2. \A m \in DOMAIN hs : hs[m].open <=> m \in {n}
        BY <1>6, <1>7, <2>1
    <2> QED BY <1>3, <1>9, <2>2 DEF Opened
<1>13. ASSUME ~gaveUp PROVE Apart(U.players) /\ Counted(d, U)
    <2>1. V.table # NoTable /\ Apart(V.players) /\ Counted(db, V)
        BY <1>13 DEF Shows, Shown
    <2>2. \A i \in DOMAIN db.results : db.results[i][2] \in Nat
        BY <1>4, LengthIsNat DEF Database
    <2>3. V.table.hands \in Nat
        BY DEF View, TableRow, NoTable
    <2>4. \A i \in DOMAIN db.results : db.results[i][2] <= V.table.hands /\ db.results[i][2] \notin {n}
        BY <1>1, <2>1, <2>2, <2>3 DEF Counted
    <2> QED BY <1>3, <1>9, <2>1, <2>4 DEF Counted
<1> QED BY <1>2, <1>3, <1>10, <1>11, <1>12, <1>13 DEF Shows, d, n

(* FinishHand writes to the row handRowID names: that of its own hand.         *)
LEMMA HandClosed ==
    ASSUME Kept(db, rowID), NEW V \in View, NEW U, NEW job, Shows(db, rowID, V), ClosesHand(V, job, U)
    PROVE  Kept(Written(job), rowID) /\ RowIDAfter(job, TRUE) = rowID /\ Shows(Written(job), rowID, U)
<1> DEFINE d == Written(job)
           R == [start : Stacks, of : 0 .. MaxHands, open : BOOLEAN, voided : BOOLEAN]
<1>1. /\ job.kind = "finish" /\ job.n \in 0 .. MaxHands /\ job.voided \in BOOLEAN
      /\ U = Closed(V) /\ job.n = V.name
    BY DEF ClosesHand, FinishType
<1>2. d = UpdateHand(job.n, job.voided) /\ RowIDAfter(job, TRUE) = rowID
    BY <1>1 DEF Written, RowIDAfter
<1>3. U.players = V.players /\ U.table = V.table /\ U.live = {} /\ U.due = {} /\ U.name = V.name
    BY <1>1 DEF View, Closed
<1>4. db \in Database
    BY DEF Kept
<1>5. PICK S \in SUBSET (1 .. MaxHands) : db.hands \in [S -> R]
    BY <1>4 DEF Database, HandRows
<1>6. ASSUME HasHand(rowID)
      PROVE  /\ d \in Database /\ d.players = db.players /\ d.table = db.table /\ d.results = db.results
             /\ DOMAIN d.hands = DOMAIN db.hands /\ d.hands[rowID].of = rowID /\ ~d.hands[rowID].open
             /\ \A m \in DOMAIN db.hands : m # rowID => d.hands[m] = db.hands[m]
    <2> DEFINE row == [db.hands[rowID] EXCEPT !.of = job.n, !.open = FALSE, !.voided = job.voided]
               hs  == [db.hands EXCEPT ![rowID] = row]
    <2>1. rowID \in S /\ rowID # None
        BY <1>5, <1>6 DEF HasHand, None
    <2>2. job.n = rowID
        BY <1>1, <2>1 DEF Shows
    <2>3. row \in R /\ row.of = rowID /\ ~row.open
        BY <1>1, <1>5, <2>1, <2>2
    <2>4. d = [db EXCEPT !.hands = hs]
        BY <1>2, <1>4, <1>6 DEF UpdateHand, Database
    <2> HIDE DEF row, R
    <2>5. hs \in [S -> R] /\ hs[rowID] = row /\ \A m \in S : m # rowID => hs[m] = db.hands[m]
        BY <1>5, <2>1, <2>3
    <2>6. hs \in HandRows
        BY <2>5 DEF HandRows, R
    <2> HIDE DEF hs
    <2>7. /\ d \in Database /\ d.players = db.players /\ d.table = db.table /\ d.results = db.results /\ d.hands = hs
        BY <1>4, <2>4, <2>6 DEF Database
    <2> QED BY <1>5, <2>3, <2>5, <2>7
<1>7. ASSUME ~HasHand(rowID) PROVE d = db
    BY <1>2, <1>7 DEF UpdateHand
<1> HIDE DEF d, R
<1>8. Kept(d, rowID)
    BY <1>6, <1>7 DEF Kept
<1>9. d.players = db.players /\ d.table = db.table /\ d.results = db.results
    BY <1>6, <1>7
<1>10. ~lost => Shown(d, U)
    BY <1>3, <1>9 DEF Shows, Shown
<1>11. ASSUME ~lost, stage # "gone" PROVE Opened(d, rowID, U)
    <2>1. \A m \in DOMAIN db.hands : m # rowID => ~db.hands[m].open
        BY <1>11 DEF Shows, Opened
    <2>2. \A m \in DOMAIN d.hands : ~d.hands[m].open
        BY <1>6, <1>7, <2>1 DEF HasHand
    <2> QED BY <1>3, <2>2 DEF Opened
<1>12. ~gaveUp => Apart(U.players) /\ Counted(d, U)
    BY <1>3, <1>9 DEF Shows, Counted
<1> QED BY <1>2, <1>3, <1>8, <1>10, <1>11, <1>12 DEF Shows, d

LEMMA EachOnce ==
    ASSUME NEW ps, IsFiniteSet(ps), NEW n
    PROVE  IsFiniteSet({<<p, n>> : p \in ps})
<1> DEFINE T == {<<p, n>> : p \in ps}
<1>1. PICK f : f = [p \in ps |-> <<p, n>>]
    OBVIOUS
<1>2. f \in Surjection(ps, T)
    BY <1>1 DEF Surjection
<1> QED BY <1>2, FS_Surjection DEF ExistsSurjection

LEMMA ResultsCounted ==
    ASSUME Kept(db, rowID), NEW V \in View, NEW U, NEW job, Shows(db, rowID, V), CountsHand(V, job, U)
    PROVE  Kept(Written(job), rowID) /\ RowIDAfter(job, TRUE) = rowID /\ Shows(Written(job), rowID, U)
<1> DEFINE d == Written(job)
           n == job.n
           T == {<<p, n>> : p \in job.of}
           a == db.results
           b == SetToSeq(T)
<1>1. /\ job.kind = "results" /\ n \in Nat /\ job.of \in SUBSET Players
      /\ U = [V EXCEPT !.due = {}] /\ n \in V.due /\ n <= V.table.hands
    BY StoreAssumption DEF CountsHand, ResultsType
<1>2. d = [db EXCEPT !.results = a \o b] /\ RowIDAfter(job, TRUE) = rowID
    <2>1. d = InsertHandResults(n, job.of) /\ RowIDAfter(job, TRUE) = rowID
        BY <1>1 DEF Written, RowIDAfter
    <2> QED BY <2>1 DEF InsertHandResults
<1>3. U.players = V.players /\ U.table = V.table /\ U.live = V.live /\ U.due = {} /\ U.name = V.name
    BY <1>1 DEF View
<1>4. db \in Database /\ a \in Seq(Players \X Nat)
    BY DEF Kept, Database
<1>5. IsFiniteSet(T) /\ T \subseteq Players \X Nat /\ \A x \in T : x[2] = n
    <2>1. IsFiniteSet(job.of)
        BY <1>1, StoreAssumption, FS_Subset
    <2>2. IsFiniteSet(T)
        BY <2>1, EachOnce
    <2>3. \A x \in T : x \in Players \X Nat /\ x[2] = n
        BY <1>1
    <2> QED BY <2>2, <2>3
<1> HIDE DEF T
<1>6. b \in Seq(T) /\ IsInjective(b)
    BY <1>5, SetListed
<1>7. b \in Seq(Players \X Nat)
    BY <1>5, <1>6, SeqMonotonic
<1> HIDE DEF b
<1>8. /\ a \o b \in Seq(Players \X Nat) /\ Len(a) \in Nat /\ Len(b) \in Nat
      /\ DOMAIN a = 1 .. Len(a) /\ DOMAIN b = 1 .. Len(b) /\ DOMAIN (a \o b) = 1 .. Len(a) + Len(b)
      /\ \A i \in 1 .. Len(a) + Len(b) : (a \o b)[i] = IF i <= Len(a) THEN a[i] ELSE b[i - Len(a)]
    BY <1>4, <1>7, ConcatProperties, LengthIsNat
<1>9. \A i \in 1 .. Len(b) : b[i][2] = n
    BY <1>5, <1>6, LengthIsNat
<1>10. /\ d.players = db.players /\ d.table = db.table /\ d.hands = db.hands
       /\ d.results = a \o b /\ d \in Database
    BY <1>2, <1>4, <1>8 DEF Database
<1>11. V.table.hands \in Nat
    BY DEF View, TableRow, NoTable
<1> HIDE DEF d
<1>12. Kept(d, rowID)
    BY <1>10 DEF Kept
<1>13. ~lost => Shown(d, U)
    BY <1>3, <1>10 DEF Shows, Shown
<1>14. ~lost /\ stage # "gone" => Opened(d, rowID, U)
    BY <1>3, <1>10 DEF Shows, Opened
<1>15. ASSUME ~gaveUp PROVE Apart(U.players) /\ Counted(d, U)
    <2>1. Apart(V.players) /\ IsInjective(a)
          /\ \A i \in 1 .. Len(a) : a[i][2] \notin V.due /\ (V.table # NoTable => a[i][2] <= V.table.hands)
        BY <1>8, <1>15 DEF Shows, Counted
    <2> DEFINE c == a \o b
               l == Len(a)
               m == Len(b)
    <2>2. \A i \in 1 .. l + m : IF i <= l THEN c[i] = a[i] /\ i \in 1 .. l
                                ELSE c[i] = b[i - l] /\ i - l \in 1 .. m
        BY <1>8
    <2>3. \A i \in 1 .. l + m : i > l => c[i][2] = n
        BY <1>8, <1>9, <2>2
    <2>4. \A i \in 1 .. l + m : i <= l => c[i][2] # n /\ (V.table # NoTable => c[i][2] <= V.table.hands)
        BY <1>1, <1>8, <2>1, <2>2
    <2> HIDE DEF c, l, m
    <2>5. IsInjective(c)
        <3> SUFFICES ASSUME NEW i \in 1 .. l + m, NEW j \in 1 .. l + m, c[i] = c[j] PROVE i = j
            BY <1>8 DEF IsInjective, c, l, m
        <3>1. l \in Nat /\ m \in Nat
            BY <1>8 DEF l, m
        <3>2. CASE i <= l /\ j <= l
            <4>1. a[i] = a[j] /\ i \in 1 .. l /\ j \in 1 .. l
                BY <2>2, <3>2
            <4> QED BY <1>8, <2>1, <4>1 DEF IsInjective, l
        <3>3. CASE ~(i <= l) /\ ~(j <= l)
            <4>1. b[i - l] = b[j - l] /\ i - l \in 1 .. m /\ j - l \in 1 .. m
                BY <2>2, <3>3
            <4>2. i - l = j - l
                BY <1>6, <1>8, <4>1 DEF IsInjective, m
            <4> QED BY <3>1, <4>2
        <3>4. CASE i <= l /\ ~(j <= l)
            BY <2>3, <2>4, <3>1, <3>4
        <3>5. CASE ~(i <= l) /\ j <= l
            BY <2>3, <2>4, <3>1, <3>5
        <3> QED BY <3>2, <3>3, <3>4, <3>5
    <2>6. \A i \in 1 .. l + m : V.table # NoTable => c[i][2] <= V.table.hands
        <3>1. l \in Nat /\ m \in Nat
            BY <1>8 DEF l, m
        <3> QED BY <1>1, <1>11, <2>3, <2>4, <3>1
    <2> QED BY <1>3, <1>8, <1>10, <2>1, <2>5, <2>6 DEF Counted, c, l, m
<1> QED BY <1>2, <1>3, <1>12, <1>13, <1>14, <1>15 DEF Shows, d

LEMMA ExecutedInv ==
    ASSUME StoreInv, proc = "up", Executed
    PROVE  StoreInv'
<1> DEFINE job == Head(queue)
<1>1. /\ Typed /\ Kept(db, rowID) /\ (lost => gaveUp)
    BY DEF StoreInv, Typed
<1>2. /\ queue # <<>> /\ Possible(job) /\ db' = Written(job) /\ rowID' = RowIDAfter(job, TRUE)
      /\ queue' = Tail(queue) /\ tries' = 0
      /\ proc' = proc /\ t' = t /\ stage' = stage /\ purge' = purge /\ lost' = lost /\ gaveUp' = gaveUp
    BY DEF Executed
<1>3. /\ job \in Job /\ queue' \in Seq(Job) /\ Len(queue') <= QueueCap
      /\ \E V \in View, U \in View, W \in View :
            Behind(V, W) /\ Step(V, job, U) /\ Leads(U, queue', W)
    BY <1>2, AttemptFacts
<1>4. PICK V \in View, U \in View, W \in View : Behind(V, W) /\ Step(V, job, U) /\ Leads(U, queue', W)
    BY <1>3
<1>5. Shows(db, rowID, V)
    BY <1>4 DEF Behind
<1>6. job.kind \notin {"finish", "sessions", "results"} => db.table # NoTable
    BY <1>2 DEF Possible
<1> HIDE DEF job
<1>7. Kept(db', rowID') /\ Shows(db', rowID', U)
    <2>1. CASE WritesPlayer(V, job, U)
        BY <1>1, <1>2, <1>5, <2>1, PlayerWritten
    <2>2. CASE WritesTable(V, job, U)
        <3>1. job.kind = "table"
            BY <2>2 DEF WritesTable, TableType
        <3> QED BY <1>1, <1>2, <1>5, <1>6, <2>2, <3>1, TableWritten
    <2>3. CASE OpensHand(V, job, U)
        <3>1. job.kind = "insert"
            BY <2>3 DEF OpensHand, InsertType
        <3> QED BY <1>1, <1>2, <1>5, <1>6, <2>3, <3>1, HandOpened
    <2>4. CASE ClosesHand(V, job, U)
        BY <1>1, <1>2, <1>5, <2>4, HandClosed
    <2>5. CASE CountsHand(V, job, U)
        BY <1>1, <1>2, <1>5, <2>5, ResultsCounted
    <2>6. CASE EndsSessions(V, job, U)
        BY <1>1, <1>2, <1>5, <2>6, SessionsWritten
    <2> QED BY <1>4, <2>1, <2>2, <2>3, <2>4, <2>5, <2>6 DEF Step
<1>8. Kept(db, rowID)' /\ Shows(db, rowID, U)'
    <2>1. Kept(db, rowID)'
        BY <1>7 DEF Kept
    <2>2. Shows(db, rowID, U)'
        BY <1>2, <1>7 DEF Shows
    <2> QED BY <2>1, <2>2
<1>9. ViewOf(t)' = ViewOf(t)
    BY <1>2 DEF ViewOf, RowsOf, RowOf, RowOfTable, Live
<1>10. Sane(t)'
    BY <1>1, <1>2 DEF Typed
<1>11. 0 \in 0 .. Attempts - 1
    BY StoreAssumption
<1>12. Typed'
    BY <1>1, <1>2, <1>3, <1>8, <1>10, <1>11 DEF Typed
<1>13. Behind(U, W)'
    BY <1>2, <1>4, <1>8, <1>9 DEF Behind
<1> QED BY <1>4, <1>12, <1>13 DEF StoreInv, Lag

(* An attempt that failed: tried again, or given up with its job.              *)
LEMMA AttemptFailsInv ==
    ASSUME StoreInv, proc = "up", AttemptFails
    PROVE  StoreInv'
<1> DEFINE job == Head(queue)
<1>1. Typed /\ Kept(db, rowID) /\ (lost => gaveUp) /\ tries \in 0 .. Attempts - 1
    BY DEF StoreInv, Typed
<1>2. /\ queue # <<>> /\ db' = db /\ rowID' = RowIDAfter(job, FALSE)
      /\ proc' = proc /\ t' = t /\ stage' = stage /\ purge' = purge
      /\ \/ tries + 1 < Attempts /\ tries' = tries + 1 /\ queue' = queue /\ lost' = lost /\ gaveUp' = gaveUp
         \/ tries' = 0 /\ queue' = Tail(queue) /\ lost' = TRUE /\ gaveUp' = TRUE
    BY DEF AttemptFails, Unwritten
<1>3. /\ Tail(queue) \in Seq(Job) /\ Len(Tail(queue)) <= QueueCap
      /\ \E V \in View, U \in View, W \in View :
            Behind(V, W) /\ Step(V, job, U) /\ Leads(U, Tail(queue), W)
    BY <1>2, AttemptFacts
<1>4. PICK V \in View, U \in View, W \in View : Behind(V, W) /\ Step(V, job, U) /\ Leads(U, Tail(queue), W)
    BY <1>3
<1>5. Shows(db, rowID, V) /\ Leads(V, queue, W) /\ (stage # "gone" => W = ViewOf(t))
    BY <1>4 DEF Behind
<1> HIDE DEF job
<1>6. /\ rowID' \in {rowID, None}
      /\ rowID' = rowID \/ V.live = {}
      /\ rowID' = None \/ U.name = V.name
    <2>1. CASE job.kind = "insert"
        <3>1. rowID' = None
            BY <1>2, <2>1 DEF RowIDAfter
        <3>2. OpensHand(V, job, U)
            BY <1>4, <2>1 DEF Step, WritesPlayer, WritesTable, ClosesHand, CountsHand, EndsSessions,
                              PlayerType, TableType, FinishType, ResultsType, SessionsType
        <3> QED BY <3>1, <3>2 DEF OpensHand
    <2>2. CASE job.kind # "insert"
        <3>1. rowID' = rowID
            BY <1>2, <2>2 DEF RowIDAfter
        <3>2. ~OpensHand(V, job, U)
            BY <2>2 DEF OpensHand, InsertType
        <3>3. U.name = V.name
            BY <1>4, <3>2 DEF Step, WritesPlayer, WritesTable, ClosesHand, CountsHand, EndsSessions, Closed, View
        <3> QED BY <3>1, <3>3
    <2> QED BY <2>1, <2>2
<1>7. rowID' \in 0 .. MaxHands
    BY <1>1, <1>6, StoreAssumption DEF Kept, None
<1>8. Kept(db, rowID)'
    BY <1>1, <1>2, <1>7 DEF Kept
<1>9. ViewOf(t)' = ViewOf(t)
    BY <1>2 DEF ViewOf, RowsOf, RowOf, RowOfTable, Live
<1>10. Sane(t)'
    BY <1>1, <1>2 DEF Typed
<1>11. CASE tries + 1 < Attempts /\ tries' = tries + 1 /\ queue' = queue /\ lost' = lost /\ gaveUp' = gaveUp
    <2>1. tries' \in 0 .. Attempts - 1
        BY <1>1, <1>11, StoreAssumption
    <2>2. Typed'
        BY <1>1, <1>2, <1>8, <1>10, <1>11, <2>1 DEF Typed
    <2>3. Shows(db, rowID, V)'
        <3>1. rowID' \in {None, V.name}
            BY <1>5, <1>6 DEF Shows
        <3>2. ~lost /\ stage # "gone" => Opened(db, rowID', V)
            BY <1>5, <1>6 DEF Shows, Opened
        <3> QED BY <1>2, <1>5, <1>11, <3>1, <3>2 DEF Shows
    <2>4. Behind(V, W)'
        BY <1>2, <1>5, <1>9, <1>11, <2>3 DEF Behind
    <2> QED BY <1>4, <2>2, <2>4 DEF StoreInv, Lag
<1>12. CASE tries' = 0 /\ queue' = Tail(queue) /\ lost' = TRUE /\ gaveUp' = TRUE
    <2>1. 0 \in 0 .. Attempts - 1
        BY StoreAssumption
    <2>2. Typed'
        BY <1>1, <1>2, <1>3, <1>8, <1>10, <1>12, <2>1 DEF Typed
    <2>3. rowID' \in {None, U.name}
        BY <1>5, <1>6 DEF Shows
    <2>4. Shows(db, rowID, U)'
        BY <1>12, <2>3 DEF Shows
    <2>5. Behind(U, W)'
        BY <1>2, <1>4, <1>5, <1>9, <1>12, <2>4 DEF Behind
    <2> QED BY <1>4, <2>2, <2>5 DEF StoreInv, Lag
<1> QED BY <1>2, <1>11, <1>12

-------------------------------------------------------------------------------
(* A crash or the end of a shutdown: the first view of the run is all that is  *)
(* left.                                                                       *)

LEMMA DownInv ==
    ASSUME StoreInv, Down
    PROVE  StoreInv'
<1>1. Typed /\ Kept(db, rowID) /\ db \in Database
    BY DEF StoreInv, Typed, Kept
<1>2. /\ proc' = "down" /\ stage' = "gone" /\ t' = NewTable(db.settings)
      /\ queue' = <<>> /\ tries' = 0 /\ rowID' = None /\ purge' = FALSE
      /\ db' = db /\ lost' = lost /\ gaveUp' = gaveUp
    BY DEF Down
<1>3. PICK V \in View, W \in View : Behind(V, W)
    BY DEF StoreInv, Lag
<1>4. Sane(t')
    <2>1. db.settings \in [rebuy : BOOLEAN, autoStart : BOOLEAN]
        BY <1>1 DEF Database
    <2> QED BY <1>2, <2>1, NewTableSane
<1>5. Sane(t)'
    BY <1>4 DEF Sane, Memory, Seated
<1>6. queue' \in Seq(Job) /\ Len(queue') = 0
    BY <1>2, NothingYet
<1>7. 0 <= QueueCap /\ 0 \in 0 .. Attempts - 1 /\ None \in 0 .. MaxHands /\ "gone" \in Stages
    BY StoreAssumption DEF None, Stages
<1>8. Kept(db, rowID)'
    BY <1>1, <1>2, <1>7 DEF Kept
<1>9. Typed'
    BY <1>1, <1>2, <1>5, <1>6, <1>7, <1>8 DEF Typed
<1>10. Leads(V, queue', V)
    BY <1>2, LeadsNone
<1>11. Shows(db, rowID, V)'
    BY <1>2, <1>3 DEF Behind, Shows
<1>12. Behind(V, V)'
    BY <1>2, <1>10, <1>11 DEF Behind
<1> QED BY <1>9, <1>12 DEF StoreInv, Lag

(* The next start: the memory is what the rows show, every hand is closed.     *)
LEMMA RestoredFacts ==
    ASSUME Kept(db, rowID), db.table # NoTable
    PROVE  /\ Sane(Restored) /\ Restored.hand = "none" /\ RowsOf(Restored) = db.players /\ RowOfTable(Restored) = db.table
<1> DEFINE u == Restored
           s == db.settings
<1>1. db \in Database /\ db.table.hands \in 0 .. MaxHands
    BY DEF Kept
<1>2. s \in [rebuy : BOOLEAN, autoStart : BOOLEAN] /\ db.table \in TableRow /\ db.players \in Rows
    BY <1>1 DEF Database
<1>3. Sane(NewTable(s)) /\ NewTable(s) \in Memory
    BY <1>2, NewTableSane DEF Sane
<1>4. /\ NewTable(s).leaving = {} /\ NewTable(s).inHand = {} /\ NewTable(s).hand = "none"
    BY DEF NewTable
<1>5. ASSUME NEW p \in Players
      PROVE  /\ db.players[p].seat \in Seats /\ db.players[p].stack \in Nat
             /\ db.players[p].status \in Statuses \cup {"none"}
             /\ IF db.players[p].status = "none" THEN db.players[p] = NoRow
                ELSE db.players[p] = [seat |-> db.players[p].seat, stack |-> db.players[p].stack, status |-> db.players[p].status]
    <2>1. 0 \in Seats /\ "none" \notin Statuses
        BY StoreAssumption DEF Seats, Statuses
    <2>2. db.players[p] \in PlayerRow \/ db.players[p] = NoRow
        BY <1>2 DEF Rows
    <2> QED BY <2>1, <2>2 DEF PlayerRow, NoRow
<1> DEFINE seat == [p \in Players |-> db.players[p].seat]
           stack == [p \in Players |-> db.players[p].stack]
           status == [p \in Players |-> db.players[p].status]
<1>6. seat \in [Players -> Seats] /\ stack \in [Players -> Nat] /\ status \in [Players -> Statuses \cup {"none"}]
    BY <1>5
<1>7. \A p \in Players : /\ seat[p] = db.players[p].seat /\ stack[p] = db.players[p].stack
                         /\ status[p] = db.players[p].status
    OBVIOUS
<1>8. u = [NewTable(s) EXCEPT !.state = db.table.state, !.hands = db.table.hands,
                              !.seat = seat, !.stack = stack, !.status = status]
    BY DEF Restored
<1>9. db.table.state \in {"waiting", "running", "paused", "ended"} /\ db.table = [state |-> db.table.state, hands |-> db.table.hands]
    BY <1>2 DEF TableRow
<1> HIDE DEF u, seat, stack, status
<1>10. /\ u \in Memory /\ u.state = db.table.state /\ u.hands = db.table.hands
       /\ u.seat = seat /\ u.stack = stack /\ u.status = status
       /\ u.leaving = {} /\ u.inHand = {} /\ u.hand = "none"
    BY <1>1, <1>3, <1>4, <1>6, <1>8, <1>9 DEF Memory
<1>11. Sane(u)
    BY <1>10 DEF Sane
<1>12. \A p \in Players : db.players[p] = RowOf(u, p)
    BY <1>5, <1>7, <1>10 DEF RowOf
<1>13. RowsOf(u) = db.players
    BY <1>2, <1>10, <1>12, RowsAre
<1>14. RowOfTable(u) = db.table
    BY <1>9, <1>10 DEF RowOfTable
<1> QED BY <1>10, <1>11, <1>13, <1>14 DEF u

LEMMA OpenHandsVoided ==
    ASSUME Kept(db, rowID)
    PROVE  /\ Kept(VoidOpenHands, rowID)
           /\ VoidOpenHands.players = db.players /\ VoidOpenHands.table = db.table /\ VoidOpenHands.results = db.results
           /\ \A n \in DOMAIN VoidOpenHands.hands : ~VoidOpenHands.hands[n].open
<1> DEFINE R == [start : Stacks, of : 0 .. MaxHands, open : BOOLEAN, voided : BOOLEAN]
           row(n) == IF db.hands[n].open THEN [db.hands[n] EXCEPT !.open = FALSE, !.voided = TRUE] ELSE db.hands[n]
           hs == [n \in DOMAIN db.hands |-> row(n)]
           d == VoidOpenHands
<1>1. db \in Database
    BY DEF Kept
<1>2. PICK S \in SUBSET (1 .. MaxHands) : db.hands \in [S -> R]
    BY <1>1 DEF Database, HandRows
<1>3. \A n \in S : row(n) \in R /\ ~row(n).open /\ row(n).of = db.hands[n].of
    BY <1>2
<1>4. d = [db EXCEPT !.hands = hs]
    BY DEF VoidOpenHands
<1> HIDE DEF row, R
<1>5. hs \in [S -> R] /\ DOMAIN hs = S /\ \A n \in S : hs[n] = row(n)
    BY <1>2, <1>3
<1>6. hs \in HandRows
    BY <1>5 DEF HandRows, R
<1> HIDE DEF hs, d
<1>7. d \in Database /\ d.players = db.players /\ d.table = db.table /\ d.results = db.results /\ d.hands = hs
    BY <1>1, <1>4, <1>6 DEF Database
<1>8. Kept(d, rowID)
    BY <1>2, <1>3, <1>5, <1>7 DEF Kept
<1> QED BY <1>3, <1>5, <1>7, <1>8 DEF d

LEMMA LoadAllInv ==
    ASSUME StoreInv, LoadAll
    PROVE  StoreInv'
<1>1. /\ Typed /\ Kept(db, rowID) /\ db \in Database /\ (lost => gaveUp) /\ gaveUp \in BOOLEAN
      /\ queue \in Seq(Job) /\ Len(queue) <= QueueCap
    BY DEF StoreInv, Typed, Kept
<1>2. /\ proc = "down" /\ db.table # NoTable
      /\ proc' = "up" /\ stage' = "live" /\ t' = Restored /\ db' = VoidOpenHands /\ lost' = FALSE
      /\ queue' = queue /\ tries' = tries /\ rowID' = rowID /\ purge' = purge /\ gaveUp' = gaveUp
    BY DEF LoadAll
<1>3. queue = <<>> /\ rowID = None
    BY <1>1, <1>2 DEF Typed
<1>4. PICK V \in View, W \in View : Behind(V, W)
    BY DEF StoreInv, Lag
<1>5. PICK X : X = ViewOf(Restored)
    OBVIOUS
<1>6. /\ Sane(Restored) /\ X \in View /\ X.players = db.players /\ X.table = db.table /\ X.live = {} /\ X.due = {}
    BY <1>1, <1>2, <1>5, RestoredFacts, SaneMemory DEF ViewOf, Live
<1>7. ViewOf(t)' = X
    BY <1>2, <1>5 DEF ViewOf, RowsOf, RowOf, RowOfTable, Live
<1>8. Sane(t)'
    <2>1. Sane(t')
        BY <1>2, <1>6
    <2> QED BY <2>1 DEF Sane, Memory, Seated
<1>9. /\ Kept(db', rowID) /\ db'.players = db.players /\ db'.table = db.table /\ db'.results = db.results
      /\ \A n \in DOMAIN db'.hands : ~db'.hands[n].open
    BY <1>1, <1>2, OpenHandsVoided
<1>10. Kept(db, rowID)'
    BY <1>2, <1>9 DEF Kept
<1>11. "live" \in Stages
    BY DEF Stages
<1>12. Typed'
    BY <1>1, <1>2, <1>8, <1>10, <1>11 DEF Typed
<1>13. Shown(db', X) /\ Opened(db', rowID, X)
    BY <1>6, <1>9 DEF Shown, Opened
<1>14. ASSUME ~gaveUp PROVE Apart(X.players) /\ Counted(db', X)
    <2>1. Shown(db, V) /\ Apart(V.players) /\ Counted(db, V)
        BY <1>1, <1>4, <1>14 DEF Behind, Shows
    <2>2. X.players = V.players /\ X.table = V.table
        BY <1>6, <2>1 DEF Shown
    <2> QED BY <1>6, <1>9, <2>1, <2>2 DEF Counted
<1>15. Shows(db, rowID, X)'
    BY <1>2, <1>3, <1>13, <1>14 DEF Shows
<1>16. Leads(X, queue', X)
    BY <1>2, <1>3, <1>6, LeadsNone
<1>17. Behind(X, X)'
    BY <1>7, <1>15, <1>16 DEF Behind
<1> QED BY <1>6, <1>12, <1>17 DEF StoreInv, Lag

-------------------------------------------------------------------------------
(* Deletion and retention.                                                     *)

(* Off the registry, stopped, or deleted: the rest stays.                      *)
LEMMA StageInv ==
    ASSUME StoreInv, proc' = "up", stage' \in Stages, stage # "gone" \/ stage' = "gone",
           UNCHANGED <<t, queue, tries, rowID, db, lost, gaveUp>>, purge' \in BOOLEAN
    PROVE  StoreInv'
<1>1. PICK V \in View, W \in View : Behind(V, W)
    BY DEF StoreInv, Lag
<1>2. ViewOf(t)' = ViewOf(t)
    BY DEF ViewOf, RowsOf, RowOf, RowOfTable, Live
<1>3. Shows(db, rowID, V)'
    BY <1>1 DEF Behind, Shows
<1>4. Behind(V, W)'
    BY <1>1, <1>2, <1>3 DEF Behind
<1>5. Kept(db, rowID)' /\ Sane(t)'
    BY DEF StoreInv, Typed, Kept, Sane, Memory, Seated
<1>6. Typed'
    BY <1>5 DEF StoreInv, Typed
<1> QED BY <1>4, <1>6 DEF StoreInv, Lag

LEMMA ShutdownInv ==
    ASSUME StoreInv, Shutdown \/ DeleteListed \/ DeleteStop \/ DeleteAborted \/ LoadSkipped \/ PurgeSelect
    PROVE  StoreInv'
<1>1. stage \in Stages /\ purge \in BOOLEAN /\ (proc = "down" => stage = "gone")
    BY DEF StoreInv, Typed
<1>2. {"live", "deleting", "stopped", "shutdown", "gone"} = Stages
    BY DEF Stages
<1>3. CASE Shutdown
    BY <1>1, <1>2, <1>3, StageInv DEF Shutdown
<1>4. CASE DeleteListed
    BY <1>1, <1>2, <1>4, StageInv DEF DeleteListed
<1>5. CASE DeleteStop
    BY <1>1, <1>2, <1>5, StageInv DEF DeleteStop
<1>6. CASE DeleteAborted
    BY <1>1, <1>2, <1>6, StageInv DEF DeleteAborted
<1>7. CASE LoadSkipped
    BY <1>1, <1>2, <1>7, StageInv DEF LoadSkipped
<1>8. CASE PurgeSelect
    BY <1>1, <1>2, <1>8, StageInv DEF PurgeSelect
<1> QED BY <1>3, <1>4, <1>5, <1>6, <1>7, <1>8

LEMMA DeleteRowsInv ==
    ASSUME StoreInv, DeleteRows
    PROVE  StoreInv'
<1>1. Typed /\ db \in Database /\ rowID \in 0 .. MaxHands
    BY DEF StoreInv, Typed, Kept
<1>2. /\ proc = "up" /\ proc' = proc /\ stage' = "gone" /\ queue = <<>> /\ db' = [NoRows EXCEPT !.results = db.results]
      /\ t' = t /\ queue' = queue /\ tries' = tries /\ rowID' = rowID /\ purge' = purge /\ lost' = lost /\ gaveUp' = gaveUp
    BY DEF DeleteRows
<1>3. PICK V \in View, W \in View : Behind(V, W)
    BY DEF StoreInv, Lag
<1>4. PICK none : none = [p \in Players |-> NoRow]
    OBVIOUS
<1>5. PICK r : r = rowID
    OBVIOUS
<1>6. PICK X : X = [players |-> none, table |-> NoTable, live |-> {}, due |-> {}, name |-> r]
    OBVIOUS
<1>7. none \in Rows /\ Apart(none)
    BY <1>4, NobodyBack
<1>8. r \in Nat
    BY <1>1, <1>5, StoreAssumption
<1>9. /\ X \in View /\ X.players = none /\ X.table = NoTable /\ X.live = {} /\ X.due = {} /\ X.name = r
    BY <1>6, <1>7, <1>8 DEF View
<1>10. /\ db'.players = none /\ db'.table = NoTable /\ db'.results = db.results /\ db'.hands = <<>>
       /\ db'.settings = NoSettings
       /\ db' = [table |-> NoTable, settings |-> NoSettings, players |-> none, hands |-> <<>>, results |-> db.results]
    BY <1>2, <1>4 DEF NoRows
<1>11. NoTable.hands = 0 /\ NoSettings \in [rebuy : BOOLEAN, autoStart : BOOLEAN] /\ 0 \in 0 .. MaxHands
    BY StoreAssumption DEF NoTable, NoSettings
<1>12. db.results \in Seq(Players \X Nat)
    BY <1>1 DEF Database
<1>13. db' \in Database
    BY <1>7, <1>10, <1>11, <1>12, NoHandRows DEF Database
<1>14. Kept(db, rowID)'
    BY <1>1, <1>2, <1>10, <1>11, <1>13, NoHandRows DEF Kept
<1>15. Sane(t)'
    BY <1>1, <1>2 DEF Typed, Sane, Memory, Seated
<1>16. "gone" \in Stages
    BY DEF Stages
<1>17. Typed'
    BY <1>1, <1>2, <1>14, <1>15, <1>16 DEF Typed
<1>18. Shown(db', X)
    BY <1>9, <1>10 DEF Shown
<1>19. ~gaveUp => Apart(X.players) /\ Counted(db', X)
    BY <1>3, <1>7, <1>9, <1>10 DEF Behind, Shows, Counted
<1>20. Shows(db, rowID, X)'
    BY <1>2, <1>5, <1>9, <1>18, <1>19 DEF Shows
<1>21. Leads(X, queue', X)
    BY <1>2, <1>9, LeadsNone
<1>22. Behind(X, X)'
    BY <1>2, <1>20, <1>21 DEF Behind
<1> QED BY <1>9, <1>17, <1>22 DEF StoreInv, Lag

LEMMA PurgeDeleteInv ==
    ASSUME StoreInv, PurgeDelete
    PROVE  StoreInv'
<1>1. Typed /\ Kept(db, rowID) /\ db \in Database
    BY DEF StoreInv, Typed, Kept
<1>2. /\ purge' = FALSE /\ db' = [db EXCEPT !.hands = <<>>]
      /\ t' = t /\ queue' = queue /\ tries' = tries /\ rowID' = rowID /\ lost' = lost /\ gaveUp' = gaveUp
      /\ proc' = proc /\ stage' = stage
    BY DEF PurgeDelete
<1>3. PICK V \in View, W \in View : Behind(V, W)
    BY DEF StoreInv, Lag
<1>4. /\ db'.players = db.players /\ db'.table = db.table /\ db'.results = db.results /\ db'.hands = <<>> /\ db' \in Database
    BY <1>1, <1>2, NoHandRows DEF Database
<1>5. Kept(db, rowID)'
    BY <1>1, <1>2, <1>4, NoHandRows DEF Kept
<1>6. Sane(t)' /\ ViewOf(t)' = ViewOf(t)
    BY <1>1, <1>2 DEF Typed, Sane, Memory, Seated, ViewOf, RowsOf, RowOf, RowOfTable, Live
<1>7. Typed'
    BY <1>1, <1>2, <1>5, <1>6 DEF Typed
<1>8. Shows(db, rowID, V)
    BY <1>3 DEF Behind
<1>9. ~lost /\ stage # "gone" => Opened(db', rowID, V)
    BY <1>4, <1>8, NoHandRows DEF Shows, Opened
<1>10. ~lost => Shown(db', V)
    BY <1>4, <1>8 DEF Shows, Shown
<1>11. ~gaveUp => Apart(V.players) /\ Counted(db', V)
    BY <1>4, <1>8 DEF Shows, Counted
<1>12. Shows(db, rowID, V)'
    BY <1>2, <1>8, <1>9, <1>10, <1>11 DEF Shows
<1>13. Behind(V, W)'
    BY <1>2, <1>3, <1>6, <1>12 DEF Behind
<1> QED BY <1>7, <1>13 DEF StoreInv, Lag

-------------------------------------------------------------------------------
(* The theorems.                                                               *)

LEMMA StoreStep ==
    ASSUME StoreInv, [Next]_vars
    PROVE  StoreInv'
<1>1. CASE Command
    BY <1>1, CommandInv
<1>2. CASE Persister
    BY <1>2, ExecutedInv, AttemptFailsInv DEF Persister
<1>3. CASE Crash \/ ShutdownEnds
    BY <1>3, DownInv DEF Crash, ShutdownEnds
<1>4. CASE LoadAll
    BY <1>4, LoadAllInv
<1>5. CASE Shutdown \/ DeleteListed \/ DeleteStop \/ DeleteAborted \/ LoadSkipped \/ PurgeSelect
    BY <1>5, ShutdownInv
<1>6. CASE DeleteRows
    BY <1>6, DeleteRowsInv
<1>7. CASE PurgeDelete
    BY <1>7, PurgeDeleteInv
<1>8. CASE UNCHANGED vars
    <2>1. PICK V \in View, W \in View : Behind(V, W)
        BY DEF StoreInv, Lag
    <2>2. Kept(db, rowID)' /\ Sane(t)' /\ ViewOf(t)' = ViewOf(t)
        BY <1>8 DEF vars, StoreInv, Typed, Kept, Sane, Memory, Seated, ViewOf, RowsOf, RowOf, RowOfTable, Live
    <2>3. Typed'
        BY <1>8, <2>2 DEF vars, StoreInv, Typed
    <2>4. Shows(db, rowID, V)'
        BY <1>8, <2>1 DEF vars, Behind, Shows
    <2>5. Behind(V, W)'
        BY <1>8, <2>1, <2>2, <2>4 DEF vars, Behind
    <2> QED BY <2>3, <2>5 DEF StoreInv, Lag
<1> QED BY <1>1, <1>2, <1>3, <1>4, <1>5, <1>6, <1>7, <1>8 DEF Next

(* The jobs of the queue lead, one view after the other, from what the rows    *)
(* show to what the actor knows: every command of persist.go's callers stores  *)
(* all it changes, in an order each prefix of which is sound.                  *)
THEOREM RowsLagBehindMemory == Spec => []StoreInv
<1>1. Init => StoreInv
    BY InitInv
<1>2. StoreInv /\ [Next]_vars => StoreInv'
    BY StoreStep
<1> QED BY <1>1, <1>2, PTL DEF Spec

(* FinishHand never writes to the row of another hand (persist.go:11-13),      *)
(* although its job does not say which hand it is for: handRowID is the hand   *)
(* of the last insert that succeeded, or none.                                 *)
THEOREM OutcomesAreOwn == Spec => []HandRowsOwnOutcome
<1>1. StoreInv => HandRowsOwnOutcome
    BY DEF StoreInv, Typed, Kept, HandRowsOwnOutcome
<1> QED BY <1>1, RowsLagBehindMemory, PTL

(* With the queue drained and nothing given up, the rows show what the actor   *)
(* knows, and the one open hand is the one being played.                       *)
THEOREM TheStoreCatchesUp == Spec => []StoreCatchesUp
<1>1. ASSUME StoreInv PROVE StoreCatchesUp
    <2> SUFFICES ASSUME Running, queue = <<>>, ~lost
                 PROVE  /\ db.table = [state |-> t.state, hands |-> t.hands]
                        /\ \A p \in Players : t.status[p] # "none" =>
                              db.players[p] = [seat |-> t.seat[p], stack |-> t.stack[p], status |-> t.status[p]]
                        /\ \A n \in DOMAIN db.hands : db.hands[n].open <=> (t.hand = "playing" /\ n = t.hands)
        BY DEF StoreCatchesUp
    <2>1. PICK V \in View, W \in View : Behind(V, W)
        BY <1>1 DEF StoreInv, Lag
    <2>2. stage # "gone"
        BY DEF Running
    <2>3. V = ViewOf(t)
        BY <2>1, <2>2, LeadsNowhere DEF Behind
    <2>4. Shown(db, V) /\ Opened(db, rowID, V)
        BY <2>1, <2>2 DEF Behind, Shows
    <2>5. db.table = RowOfTable(t) /\ db.players = RowsOf(t) /\ \A n \in DOMAIN db.hands : db.hands[n].open <=> n \in Live(t)
        BY <2>3, <2>4 DEF Shown, Opened, ViewOf
    <2> QED BY <2>5 DEF RowOfTable, RowsOf, RowOf, Live
<1> QED BY <1>1, RowsLagBehindMemory, PTL

(* Wherever a crash cuts the queue the rows make sense: every job wrote a row  *)
(* as it was in some moment, no two players come back into one seat, and no    *)
(* hand counts twice in a profile's record.                                    *)
THEOREM TheRowsAreSound == Spec => []RowsAreSound
<1>1. ASSUME StoreInv PROVE RowsAreSound
    <2>1. Typed /\ Sane(t) /\ t \in Memory /\ Kept(db, rowID) /\ db \in Database /\ (lost => gaveUp)
        BY <1>1 DEF StoreInv, Typed, Sane, Kept
    <2>2. PICK V \in View, W \in View : Behind(V, W)
        BY <1>1 DEF StoreInv, Lag
    <2>3. TypeOK
        <3>1. t.hand \in {"none", "playing", "result"} /\ t.inHand \subseteq Players
            BY <2>1 DEF Memory
        <3>2. (\A p \in Players : db.players[p] = NoRow \/ db.players[p] \in PlayerRow) /\ (db.table = NoTable \/ db.table \in TableRow)
            BY <2>1 DEF Database, Rows
        <3> QED BY <2>1, <3>1, <3>2 DEF Typed, Kept, TypeOK
    <2>4. ASSUME ~gaveUp PROVE RestoredSeatsDistinct /\ CountedOnce
        <3>1. db.players = V.players /\ Apart(V.players) /\ IsInjective(db.results)
            BY <2>1, <2>2, <2>4 DEF Behind, Shows, Shown, Counted
        <3> QED BY <3>1 DEF RestoredSeatsDistinct, CountedOnce, Apart, BackIn, Back
    <2> QED BY <2>3, <2>4 DEF RowsAreSound, RestoredSeatsDistinct, CountedOnce
<1> QED BY <1>1, RowsLagBehindMemory, PTL
=============================================================================
