----------------------------- MODULE BotsProofs -----------------------------
(***************************************************************************)
(* The bots the server plays never act on a table that has moved on, for   *)
(* every number of bots, guests, turns, lost connections and crashes.      *)
(***************************************************************************)
EXTENDS Bots, TLAPS

\* What a snapshot of table tt says of b's turn.
TurnOf(tt, b) == IF tt.turn = b THEN tt.key ELSE 0

\* The table, the goroutines and the mailboxes have what is asked of them.
Shaped(tt) == {"state", "turn", "key"} \subseteq DOMAIN tt
BotsType ==
    /\ Shaped(table) /\ DOMAIN mail = Clients /\ DOMAIN bot = Bots
    /\ \A b \in Bots : {"pc", "snap", "last"} \subseteq DOMAIN bot[b]

\* The table sends to a bot that runs, and the newest snapshot the bot has, in
\* its mailbox or in mind, is of the table as it is.
UpToDate(b) ==
    Answers /\ Goroutine(b) \notin closed /\ Running(b) =>
        /\ Goroutine(b) \in attached
        /\ Box(b) # << >> => Head(Box(b)).turn = TurnOf(table, b)
        /\ PC(b) = "think" /\ Box(b) = << >> => bot[b].snap.turn = TurnOf(table, b)

\* What was sent last to the goroutine of b is of table tt.
Informed(b, tt) ==
    /\ mail'[Goroutine(b)] # << >>
    /\ Head(mail'[Goroutine(b)]).turn = TurnOf(tt, b)

\* The inductive invariant.
BotsInv == BotsType /\ \A b \in Bots : UpToDate(b)

----------------------------------------------------------------------------
(* Steps of the table.                                                      *)

\* A goroutine is not a connection, and each bot has its own.
LEMMA GoroutinesApart ==
  /\ \A b \in Bots : Goroutine(b) \in Clients \ Connections /\ Goroutine(b).of = b /\ Goroutine(b).by = "server"
  /\ \A b, c \in Bots : Goroutine(b) = Goroutine(c) => b = c
  /\ \A c \in Outside : Connection(c) \in Clients /\ \A b : Goroutine(b) # Connection(c)
BY DEF Clients, Connections, Goroutine, Connection

\* A step of the actor sends what it made of the table to everybody attached.
LEMMA StepInforms ==
  ASSUME NEW tt, NEW ss, NEW on, Step(tt, ss, on), NEW b \in Bots
  PROVE  /\ table' = tt /\ closed \subseteq closed'
         /\ Goroutine(b) \in on => \/ Goroutine(b) \in closed'
                                   \/ Goroutine(b) \in attached' /\ Informed(b, tt)
<1> DEFINE freed == {x \in on : ss[x.of] = "left"}
           slow  == Slow(on \ freed)
           Sent(x) == IF x \in freed \cap Connections THEN Append(mail[x], Word("kicked"))
                      ELSE IF x \in attached' THEN Send(x, mail[x], SnapshotOf(tt, ss, x.of))
                      ELSE mail[x]
<1>1. /\ table' = tt /\ attached' = on \ (freed \cup slow) /\ closed' = closed \cup (freed \ Connections)
      /\ mail' = [x \in Clients |-> Sent(x)]
  BY DEF Step
<1>2. PICK e : e = Goroutine(b)
  OBVIOUS
<1>3. e \in Clients \ Connections /\ e.of = b /\ e.by = "server"
  BY <1>2, GoroutinesApart
<1>4. e \notin slow
  BY <1>3 DEF Slow
<1>5. ASSUME e \in on, e \notin freed
      PROVE  e \in attached' /\ mail'[e] = <<SnapshotOf(tt, ss, b)>>
  <2>1. e \in attached'
    BY <1>1, <1>4, <1>5
  <2>2. Send(e, mail[e], SnapshotOf(tt, ss, e.of)) = <<SnapshotOf(tt, ss, b)>>
    BY <1>3 DEF Send
  <2> QED BY <1>1, <1>3, <1>5, <2>1, <2>2
<1>6. ASSUME e \in on, e \notin freed
      PROVE  Informed(b, tt)
  <2>1. SnapshotOf(tt, ss, b).turn = TurnOf(tt, b)
    BY DEF SnapshotOf, TurnOf
  <2>2. mail'[e] = <<SnapshotOf(tt, ss, b)>>
    BY <1>5, <1>6
  <2> QED BY <1>2, <2>1, <2>2 DEF Informed
<1> QED BY <1>1, <1>2, <1>3, <1>5, <1>6

\* So it keeps every bot up to date that hears of it and does not start to run.
LEMMA StepKeepsOne ==
  ASSUME NEW tt, NEW ss, NEW on, Step(tt, ss, on), NEW b \in Bots, UpToDate(b), Answers,
         Goroutine(b) \in attached => Goroutine(b) \in on, Running(b)' => Running(b)
  PROVE  UpToDate(b)'
<1> SUFFICES ASSUME Goroutine(b) \notin closed', Running(b)'
             PROVE  Goroutine(b) \in attached' /\ Informed(b, table')
  BY DEF UpToDate, PC, Running, Informed, Box
<1>1. Running(b) /\ Goroutine(b) \notin closed
  BY StepInforms
<1>2. Goroutine(b) \in on
  BY <1>1 DEF UpToDate
<1> QED BY <1>2, StepInforms

\* What a step of the actor makes of the table has the fields of a table.
LEMMA StepTypes ==
  ASSUME NEW tt, NEW ss, NEW on, Step(tt, ss, on), Shaped(tt)
  PROVE  Shaped(table') /\ DOMAIN mail' = Clients
BY DEF Step

\* A step of the actor while the goroutines stay where they are.
LEMMA StepKeeps ==
  ASSUME BotsInv, Answers, NEW tt, NEW ss, NEW on, attached \subseteq on, Step(tt, ss, on),
         Shaped(tt), bot' = bot
  PROVE  BotsInv'
<1>1. BotsType'
  BY StepTypes DEF BotsInv, BotsType
<1>2. ASSUME NEW b \in Bots PROVE UpToDate(b)'
  BY <1>2, StepKeepsOne DEF BotsInv, PC, Running
<1> QED BY <1>1, <1>2 DEF BotsInv

\* The same of what the rules make of it.
LEMMA DoesKeeps ==
  ASSUME BotsInv, Answers, NEW to, Does(to), Shaped(to.t), bot' = bot
  PROVE  BotsInv'
BY StepKeeps DEF Does

\* A hand that is dealt, goes on or is over leaves the table its fields.
LEMMA AfterEngineShaped ==
  ASSUME NEW tt, NEW ss, Shaped(tt), NEW to \in AfterEngine(tt, ss)
  PROVE  Shaped(to.t)
<1>1. Shaped([NoHand(tt) EXCEPT !.hand = "result"])
  BY DEF NoHand, Shaped
<1>2. ASSUME NEW b PROVE Shaped([tt EXCEPT !.turn = b, !.key = @ + 1])
  BY DEF Shaped
<1>3. CASE to \in HandOver(tt, ss)
  <2>1. PICK busts : to = Finished(tt, ss, busts)
    BY <1>3 DEF HandOver
  <2>2. to.t = [NoHand(tt) EXCEPT !.hand = "result"]
    BY <2>1 DEF Finished, At
  <2> QED BY <1>1, <2>2
<1>4. CASE to \notin HandOver(tt, ss)
  <2>1. PICK b \in tt.in \ tt.allIn : to = At([tt EXCEPT !.turn = b, !.key = @ + 1], ss)
    BY <1>4 DEF AfterEngine
  <2>2. to.t = [tt EXCEPT !.turn = b, !.key = @ + 1]
    BY <2>1 DEF At
  <2> QED BY <1>2, <2>2
<1> QED BY <1>3, <1>4

\* A deal leaves the table its fields.
LEMMA DealtShaped ==
  ASSUME NEW tt, NEW ss, Shaped(tt), NEW to \in Dealt(tt, ss)
  PROVE  Shaped(to.t)
<1>1. CASE CanDeal(tt, ss)
  <2>1. PICK b \in Active(ss) :
          to = At([tt EXCEPT !.hand = "betting", !.dealt = Active(ss), !.in = Active(ss), !.turn = b, !.key = @ + 1], ss)
    BY <1>1 DEF Dealt
  <2>2. to.t = [tt EXCEPT !.hand = "betting", !.dealt = Active(ss), !.in = Active(ss), !.turn = b, !.key = @ + 1]
    BY <2>1 DEF At
  <2> QED BY <2>2 DEF Shaped
<1>2. CASE ~CanDeal(tt, ss)
  <2>1. to = At(tt, ss)
    BY <1>2 DEF Dealt
  <2> QED BY <2>1 DEF At
<1> QED BY <1>1, <1>2

\* Attach welcomes one, and tells the others.
LEMMA AttachInforms ==
  ASSUME NEW e \in Clients, Attach(e), NEW b \in Bots
  PROVE  /\ table' = table /\ (closed \ {e}) \subseteq closed'
         /\ e = Goroutine(b) \/ Goroutine(b) \in attached =>
              \/ e # Goroutine(b) /\ Goroutine(b) \in closed'
              \/ Goroutine(b) \in attached' /\ Informed(b, table)
<1> DEFINE now == SnapshotOf(table, seat, e.of)
           on == attached \ Older(e)
           slow == Slow(on \ {e})
           Sent(x) == IF x = e THEN Send(e, Send(e, << >>, now), now)
                      ELSE IF x \in attached' THEN Send(x, mail[x], SnapshotOf(table, seat, x.of))
                      ELSE mail[x]
<1>1. /\ table' = table /\ attached' = (on \ slow) \cup {e} /\ closed' = (closed \cup Replaced(e)) \ {e}
      /\ mail' = [x \in Clients |-> Sent(x)]
  BY DEF Attach
<1>2. PICK g : g = Goroutine(b)
  OBVIOUS
<1>3. g \in Clients \ Connections /\ g.of = b /\ g.by = "server"
  BY <1>2, GoroutinesApart
<1>4. g \notin slow
  BY <1>3 DEF Slow
<1>5. g \in Older(e) => g # e /\ g \in closed'
  BY <1>1, <1>3 DEF Older, Replaced
<1>6. ASSUME g = e \/ g \in attached, g \notin Older(e)
      PROVE  g \in attached' /\ mail'[g] = <<SnapshotOf(table, seat, b)>>
  <2>1. g \in attached'
    BY <1>1, <1>4, <1>6
  <2>2. \A any : Send(g, any, SnapshotOf(table, seat, g.of)) = <<SnapshotOf(table, seat, b)>>
    BY <1>3 DEF Send
  <2> QED BY <1>1, <1>3, <2>1, <2>2
<1>7. ASSUME g = e \/ g \in attached, g \notin Older(e)
      PROVE  Informed(b, table)
  <2>1. SnapshotOf(table, seat, b).turn = TurnOf(table, b)
    BY DEF SnapshotOf, TurnOf
  <2> QED BY <1>2, <1>6, <1>7, <2>1 DEF Informed
<1> QED BY <1>1, <1>2, <1>5, <1>6, <1>7

\* Whoever attaches, the bots that ran stay up to date.
LEMMA AttachKeepsOne ==
  ASSUME NEW e \in Clients, Attach(e), NEW b \in Bots, UpToDate(b),
         e = Goroutine(b) \/ (Running(b)' => Running(b))
  PROVE  UpToDate(b)'
<1>1. Answers
  BY DEF Attach
<1> SUFFICES ASSUME Goroutine(b) \notin closed', Running(b)'
             PROVE  Goroutine(b) \in attached' /\ Informed(b, table')
  BY DEF UpToDate, PC, Running, Informed, Box
<1> QED BY <1>1, AttachInforms DEF UpToDate

\* Attach leaves the table and the mailboxes theirs.
LEMMA AttachTypes ==
  ASSUME BotsType, NEW e \in Clients, Attach(e)
  PROVE  Shaped(table') /\ DOMAIN mail' = Clients
BY DEF BotsType, Attach

----------------------------------------------------------------------------
(* Steps of the goroutines.                                                 *)

\* A bot nothing happens to stays up to date.
LEMMA UntouchedKeeps ==
  ASSUME NEW b \in Bots, UpToDate(b), bot'[b] = bot[b], mail'[Goroutine(b)] = Box(b),
         Goroutine(b) \in attached => Goroutine(b) \in attached' \/ Goroutine(b) \in closed', Goroutine(b) \in closed => Goroutine(b) \in closed',
         TurnOf(table', b) = TurnOf(table, b), Answers' => Answers
  PROVE  UpToDate(b)'
BY DEF UpToDate, PC, Running, Box

\* A snapshot that is taken is taken from one bot.
LEMMA TakenMakes ==
  ASSUME BotsType, NEW b \in Bots, mail' = Taken(b)
  PROVE  /\ DOMAIN mail' = Clients /\ mail'[Goroutine(b)] = << >>
         /\ \A c \in Bots : c # b => mail'[Goroutine(c)] = Box(c)
<1>1. PICK g : g = Goroutine(b)
  OBVIOUS
<1>2. DOMAIN mail = Clients /\ g \in Clients /\ mail' = [mail EXCEPT ![g] = << >>]
  BY <1>1, GoroutinesApart DEF BotsType, Taken
<1>3. ASSUME NEW c \in Bots, c # b PROVE mail'[Goroutine(c)] = mail[Goroutine(c)]
  <2>1. PICK h : h = Goroutine(c)
    OBVIOUS
  <2>2. h \in Clients /\ h # g
    BY <1>1, <1>3, <2>1, GoroutinesApart
  <2>3. mail'[h] = mail[h]
    BY <1>2, <2>2
  <2> QED BY <2>1, <2>3
<1> QED BY <1>1, <1>2, <1>3 DEF Box

\* The goroutine of one bot moves, the others stay.
LEMMA GoesMakes ==
  ASSUME BotsType, NEW b \in Bots, NEW to, {"pc", "snap", "last"} \subseteq DOMAIN to, Goes(b, to)
  PROVE  /\ DOMAIN bot' = Bots /\ \A c \in Bots : {"pc", "snap", "last"} \subseteq DOMAIN bot'[c]
         /\ bot'[b] = to /\ \A c \in Bots : c # b => bot'[c] = bot[c]
BY DEF BotsType, Goes

\* The same when it only goes elsewhere and forgets what it read.
LEMMA GoesToMakes ==
  ASSUME BotsType, NEW b \in Bots, NEW pc, GoesTo(b, pc)
  PROVE  /\ DOMAIN bot' = Bots /\ \A c \in Bots : {"pc", "snap", "last"} \subseteq DOMAIN bot'[c]
         /\ PC(b)' = pc /\ \A c \in Bots : c # b => bot'[c] = bot[c]
<1> DEFINE to == [bot[b] EXCEPT !.pc = pc, !.snap = Word("none")]
<1>1. {"pc", "snap", "last"} \subseteq DOMAIN to /\ to.pc = pc
  BY DEF BotsType
<1>2. Goes(b, to)
  BY DEF GoesTo
<1> HIDE DEF to
<1> QED BY <1>1, <1>2, GoesMakes DEF PC

\* A step of the actor that a bot asks for, of what the rules make of it.
LEMMA AskKeeps ==
  ASSUME BotsInv, Answers, NEW tt, NEW ss, Step(tt, ss, attached), Shaped(tt),
         NEW b \in Bots, NEW pc, GoesTo(b, pc), pc \in {"wait", "think", "act", "rebuy"} => Running(b)
  PROVE  BotsInv'
<1>1. BotsType'
  BY GoesToMakes, StepTypes DEF BotsInv, BotsType
<1>2. ASSUME NEW c \in Bots PROVE UpToDate(c)'
  <2>1. Running(c)' => Running(c)
    BY GoesToMakes DEF BotsInv, PC, Running
  <2> QED BY <2>1, StepKeepsOne DEF BotsInv
<1> QED BY <1>1, <1>2 DEF BotsInv

\* A bot that goes on while the table stays as it is, and reads no snapshot.
LEMMA AloneKeeps ==
  ASSUME BotsInv, UNCHANGED tableVars, NEW b \in Bots, NEW pc, GoesTo(b, pc),
         pc \in {"wait", "think", "act", "rebuy"} => pc # "think" /\ Running(b)
  PROVE  BotsInv'
<1> USE DEF tableVars
<1>1. BotsType'
  BY GoesToMakes DEF BotsInv, BotsType
<1>2. UpToDate(b)'
  BY GoesToMakes DEF BotsInv, UpToDate, Answers, PC, Running, Box
<1>3. ASSUME NEW c \in Bots, c # b PROVE UpToDate(c)'
  BY <1>3, GoesToMakes, UntouchedKeeps DEF BotsInv, Answers, Box
<1> QED BY <1>1, <1>2, <1>3 DEF BotsInv

\* The steps of a bot the server plays, one by one (AddBot, run, consider).
LEMMA JoinKeeps ==
  ASSUME BotsInv, NEW b \in Bots, AddBot(b)
  PROVE  BotsInv'
<1>1. Answers /\ Step(table, [seat EXCEPT ![b] = "active"], attached) /\ GoesTo(b, "joined")
  BY DEF AddBot, Join, Answers, Does, At
<1> QED BY <1>1, AskKeeps DEF BotsInv, BotsType, Running, PC

\* A welcome is a fresh snapshot; a refusal ends the goroutine.
LEMMA RunAttachesKeeps ==
  ASSUME BotsInv, NEW b \in Bots, RunAttaches(b)
  PROVE  BotsInv'
<1>1. CASE Attach(Goroutine(b)) /\ GoesTo(b, "wait")
  <2>1. Goroutine(b) \in Clients
    BY GoroutinesApart
  <2>2. BotsType'
    BY <1>1, <2>1, GoesToMakes, AttachTypes DEF BotsInv, BotsType
  <2>3. ASSUME NEW c \in Bots PROVE UpToDate(c)'
    <3>1. Goroutine(b) = Goroutine(c) \/ (Running(c)' => Running(c))
      BY <1>1, GoesToMakes DEF BotsInv, PC, Running
    <3> QED BY <1>1, <2>1, <3>1, AttachKeepsOne DEF BotsInv
  <2> QED BY <2>2, <2>3 DEF BotsInv
<1>2. CASE GoesTo(b, "done") /\ UNCHANGED tableVars
  BY <1>2, AloneKeeps DEF Running, PC
<1> QED BY <1>1, <1>2 DEF RunAttaches

\* The bot that leaves has come to its end, the others hear of it.
LEMMA RunStopsKeeps ==
  ASSUME BotsInv, NEW b \in Bots, RunStops(b)
  PROVE  BotsInv'
<1> USE DEF Running, PC
<1>1. GoesTo(b, "done")
  BY DEF RunStops
<1>2. CASE Answers /\ Goroutine(b) \in attached
  <2>1. Step(table, seat, attached \ {Goroutine(b)})
    BY <1>2 DEF RunStops, Detach
  <2>2. BotsType'
    BY <1>1, <2>1, GoesToMakes, StepTypes DEF BotsInv, BotsType
  <2>3. UpToDate(b)'
    BY <1>1, GoesToMakes DEF BotsInv, UpToDate, PC
  <2>4. ASSUME NEW c \in Bots, c # b PROVE UpToDate(c)'
    <3>1. Running(c)' = Running(c)
      BY <1>1, <2>4, GoesToMakes DEF BotsInv, PC, Running
    <3>2. Goroutine(c) # Goroutine(b)
      BY <2>4, GoroutinesApart
    <3> QED BY <1>2, <2>1, <3>1, <3>2, StepKeepsOne DEF BotsInv
  <2> QED BY <2>2, <2>3, <2>4 DEF BotsInv
<1>3. CASE ~(Answers /\ Goroutine(b) \in attached)
  BY <1>1, <1>3, AloneKeeps DEF RunStops
<1> QED BY <1>2, <1>3

\* The snapshot that is taken is the newest; the bot keeps it in mind while it thinks.
LEMMA ConsiderKeeps ==
  ASSUME BotsInv, NEW b \in Bots, Consider(b)
  PROVE  BotsInv'
<1> DEFINE s == Head(Box(b))
           to == [bot[b] EXCEPT !.pc = "think", !.snap = s]
<1>1. /\ PC(b) = "wait" /\ Box(b) # << >>
      /\ mail' = Taken(b) /\ closed' = IF s.ended THEN closed \cup {Goroutine(b)} ELSE closed
      /\ table' = table /\ attached' = attached
  BY DEF Consider
<1>2. BotsType /\ UpToDate(b)
  BY DEF BotsInv
<1>3. /\ DOMAIN mail' = Clients /\ mail'[Goroutine(b)] = << >>
      /\ \A c \in Bots : c # b => mail'[Goroutine(c)] = Box(c)
  BY <1>1, <1>2, TakenMakes
<1>4. {"pc", "snap", "last"} \subseteq DOMAIN to /\ to.pc = "think" /\ to.snap = s
  BY <1>2 DEF BotsType
<1>5. /\ DOMAIN bot' = Bots /\ \A c \in Bots : {"pc", "snap", "last"} \subseteq DOMAIN bot'[c]
      /\ \A c \in Bots : c # b => bot'[c] = bot[c]
      /\ PC(b)' = "think" => bot'[b].snap = s
  <2>1. CASE bot' = bot
    BY <1>1, <1>2, <2>1 DEF BotsType, PC
  <2>2. CASE GoesTo(b, "rebuy")
    BY <1>2, <2>2, GoesToMakes
  <2>3. CASE Goes(b, to)
    <3> HIDE DEF to
    <3> QED BY <1>2, <1>4, <2>3, GoesMakes DEF PC
  <2> QED BY <2>1, <2>2, <2>3 DEF Consider
<1>6. BotsType'
  BY <1>1, <1>2, <1>3, <1>5 DEF BotsType
<1>7. UpToDate(b)'
  <2>1. mail'[Goroutine(b)] = << >>
    BY <1>3
  <2>2. closed \subseteq closed'
    BY <1>1
  <2> HIDE DEF s
  <2>3. Answers /\ Goroutine(b) \notin closed => Goroutine(b) \in attached /\ s.turn = TurnOf(table, b)
    BY <1>1, <1>2 DEF UpToDate, Running, PC, Box, s
  <2> QED BY <1>1, <1>5, <2>1, <2>2, <2>3 DEF UpToDate, Answers, Box, PC
<1>8. ASSUME NEW c \in Bots, c # b PROVE UpToDate(c)'
  <2>1. mail'[Goroutine(c)] = Box(c)
    BY <1>3, <1>8
  <2> QED BY <1>1, <1>5, <1>8, <2>1, UntouchedKeeps DEF BotsInv, Answers
<1> QED BY <1>6, <1>7, <1>8 DEF BotsInv

\* The rebuy informs whoever asked for it, too.
LEMMA RebuyCallKeeps ==
  ASSUME BotsInv, NEW b \in Bots, RebuyCall(b)
  PROVE  BotsInv'
<1> USE DEF Running, PC
<1>1. PC(b) = "rebuy" /\ GoesTo(b, "wait")
  BY DEF RebuyCall
<1>2. CASE Rebuy(b)
  <2>1. Answers /\ Step(table, [seat EXCEPT ![b] = "active"], attached)
    BY <1>2 DEF Rebuy, RebuyAllowed, Does, At
  <2> QED BY <1>1, <2>1, AskKeeps DEF BotsInv, BotsType
<1>3. CASE UNCHANGED tableVars
  BY <1>1, <1>3, AloneKeeps
<1> QED BY <1>2, <1>3 DEF RebuyCall

\* After the pause the bot has looked at the newest snapshot and keeps none.
LEMMA ThoughtKeeps ==
  ASSUME BotsInv, NEW b \in Bots, Thought(b)
  PROVE  BotsInv'
<1> USE DEF Running, PC
<1>1. CASE Stopped(b)
  BY <1>1, AloneKeeps DEF Thought
<1>2. CASE ~Stopped(b)
  <2> DEFINE to == [pc |-> "act", snap |-> Word("none"), last |-> Newest(b).turn]
  <2>1. /\ PC(b) = "think" /\ mail' = Taken(b)
        /\ table' = table /\ attached' = attached /\ closed' = closed
    BY <1>2 DEF Thought
  <2>2. BotsType /\ UpToDate(b) /\ b \in Bots
    BY DEF BotsInv, Bots
  <2>3. /\ DOMAIN bot' = Bots /\ \A c \in Bots : {"pc", "snap", "last"} \subseteq DOMAIN bot'[c]
        /\ \A c \in Bots : c # b => bot'[c] = bot[c]
        /\ PC(b)' # "think"
    <3>1. CASE GoesTo(b, "wait")
      BY <2>2, <3>1, GoesToMakes
    <3>2. CASE Goes(b, to)
      <4>1. {"pc", "snap", "last"} \subseteq DOMAIN to /\ to.pc = "act"
        OBVIOUS
      <4> HIDE DEF to
      <4> QED BY <2>2, <3>2, <4>1, GoesMakes DEF PC
    <3> QED BY <1>2, <3>1, <3>2 DEF Thought
  <2>4. /\ DOMAIN mail' = Clients /\ mail'[Goroutine(b)] = << >>
        /\ \A c \in Bots : c # b => mail'[Goroutine(c)] = Box(c)
    BY <2>1, <2>2, TakenMakes
  <2>5. BotsType'
    BY <2>1, <2>2, <2>3, <2>4 DEF BotsType
  <2>6. UpToDate(b)'
    BY <2>1, <2>2, <2>3, <2>4 DEF UpToDate, Answers, Box
  <2>7. ASSUME NEW c \in Bots, c # b PROVE UpToDate(c)'
    BY <2>1, <2>3, <2>4, <2>7, UntouchedKeeps DEF BotsInv, Answers
  <2> QED BY <2>5, <2>6, <2>7 DEF BotsInv
<1> QED BY <1>1, <1>2

\* A player's action leaves the table its fields.
LEMMA AppliedShaped ==
  ASSUME BotsType, NEW b, NEW to \in Applied(b)
  PROVE  Shaped(to.t)
<1>1. PICK does \in {[folds |-> {b}, shoves |-> {}], [folds |-> {}, shoves |-> {b}], [folds |-> {}, shoves |-> {}]} :
        to \in AfterEngine([table EXCEPT !.in = @ \ does.folds, !.allIn = @ \cup does.shoves], seat)
  BY DEF Applied
<1> DEFINE tt == [table EXCEPT !.in = @ \ does.folds, !.allIn = @ \cup does.shoves]
<1>2. Shaped(tt)
  BY DEF BotsType, Shaped
<1> HIDE DEF tt
<1> QED BY <1>1, <1>2, AfterEngineShaped DEF tt

\* The action informs whoever acted, too.
LEMMA ActCallKeeps ==
  ASSUME BotsInv, NEW b \in Bots, ActCall(b)
  PROVE  BotsInv'
<1> USE DEF Running, PC
<1>1. PC(b) = "act" /\ GoesTo(b, "wait")
  BY DEF ActCall
<1>2. CASE Act(b)
  <2>1. PICK to \in Applied(b) : Does(to)
    BY <1>2 DEF Act
  <2>2. Answers /\ Step(to.t, to.s, attached) /\ Shaped(to.t)
    BY <1>2, <2>1, AppliedShaped DEF Act, Does, BotsInv
  <2> QED BY <1>1, <2>2, AskKeeps
<1>3. CASE UNCHANGED tableVars
  BY <1>1, <1>3, AloneKeeps
<1> QED BY <1>2, <1>3 DEF ActCall

\* All steps of a goroutine.
LEMMA BotStepKeeps ==
  ASSUME BotsInv, NEW b \in Bots, TableBotStep(b)
  PROVE  BotsInv'
<1>1. CASE StartBot(b)
  BY <1>1, AloneKeeps DEF StartBot, Running, PC
<1> QED BY <1>1, RunAttachesKeeps, RunStopsKeeps, ConsiderKeeps, RebuyCallKeeps, ThoughtKeeps, ActCallKeeps
        DEF TableBotStep

----------------------------------------------------------------------------
(* The host, the timers, the guests and the clock.                          *)

\* The end of a table leaves it its fields.
LEMMA EndedShaped ==
  ASSUME NEW tt, Shaped(tt)
  PROVE  Shaped(Ended(tt))
BY DEF Ended, NoHand, Shaped

\* A deal informs everybody.
LEMMA DealKeeps ==
  ASSUME BotsInv, Answers, NEW tt, Shaped(tt), NEW to \in Dealt(tt, seat), Does(to), bot' = bot
  PROVE  BotsInv'
BY DealtShaped, DoesKeeps

\* The timers deal, or clear a result.
LEMMA TimersKeep ==
  ASSUME BotsInv, Timers, bot' = bot
  PROVE  BotsInv'
<1>1. Shaped(table)
  BY DEF BotsInv, BotsType
<1>2. CASE Deal
  <2>1. Answers
    BY <1>2 DEF Deal, CanDeal, Answers
  <2>2. PICK to \in Dealt(table, seat) : Does(to)
    BY <1>2 DEF Deal
  <2> QED BY <1>1, <2>1, <2>2, DealKeeps
<1>3. CASE ClearHand /\ table.endAfter
  <2>1. Answers /\ Step(Ended(table), seat, attached)
    BY <1>3 DEF ClearHand, Does, At
  <2> QED BY <1>1, <2>1, EndedShaped, StepKeeps
<1>4. CASE ClearHand /\ ~table.endAfter
  <2> DEFINE tt == [table EXCEPT !.hand = "none"]
  <2>1. Shaped(tt)
    BY <1>1 DEF Shaped
  <2>2. Answers /\ \E to \in Dealt(tt, seat) : Does(to)
    BY <1>4 DEF ClearHand
  <2> HIDE DEF tt
  <2>3. PICK to \in Dealt(tt, seat) : Does(to)
    BY <2>2
  <2> QED BY <2>1, <2>2, <2>3, DealKeeps
<1> QED BY <1>2, <1>3, <1>4, Zenon DEF Timers

\* The end of the table, at once or after the hand (End).
LEMMA EndKeeps ==
  ASSUME BotsInv, NEW immediate \in BOOLEAN, End(immediate), bot' = bot
  PROVE  BotsInv'
<1>1. Shaped(table) /\ BotsType
  BY DEF BotsInv, BotsType
<1>2. Answers
  BY DEF End, Answers
<1>3. CASE table.hand = "betting" /\ ~immediate
  <2>1. table' = [table EXCEPT !.endAfter = TRUE] /\ UNCHANGED <<seat, attached, closed, mail>>
    BY <1>3 DEF End
  <2>2. table'.turn = table.turn /\ table'.key = table.key /\ Shaped(table')
    BY <1>1, <2>1 DEF Shaped
  <2>3. BotsType'
    BY <1>1, <2>1, <2>2 DEF BotsType
  <2>4. ASSUME NEW c \in Bots PROVE UpToDate(c)'
    BY <1>2, <2>1, <2>2, <2>4, UntouchedKeeps DEF BotsInv, TurnOf, Box
  <2> QED BY <2>3, <2>4 DEF BotsInv
<1>4. CASE ~(table.hand = "betting" /\ ~immediate)
  <2>1. PICK void : Step(Ended(table), void, attached)
    BY <1>4 DEF End, Does, At
  <2> QED BY <1>1, <1>2, <2>1, EndedShaped, StepKeeps
<1> QED BY <1>3, <1>4

\* A kick, which may end the hand of others (removePlayer).
LEMMA KickKeeps ==
  ASSUME BotsInv, NEW p \in Players, Kick(p), bot' = bot
  PROVE  BotsInv'
<1> DEFINE gone == [table EXCEPT !.leaving = @ \cup {p}, !.in = @ \ {p}]
           later == [gone EXCEPT !.key = @ + 1]
<1>1. Shaped(table) /\ Shaped(gone) /\ Shaped(later)
  BY DEF BotsInv, BotsType, Shaped
<1>2. Answers
  BY DEF Kick, Answers
<1>3. \/ \E ss : Step(table, ss, attached)
      \/ Step(later, seat, attached)
      \/ Step(gone, seat, attached)
      \/ \E to \in AfterEngine(gone, seat) : Does(to)
  BY DEF Kick, Does, At
<1> HIDE DEF gone, later
<1>4. CASE \E ss : Step(table, ss, attached)
  BY <1>1, <1>2, <1>4, StepKeeps
<1>5. CASE Step(later, seat, attached)
  BY <1>1, <1>2, <1>5, StepKeeps
<1>6. CASE Step(gone, seat, attached)
  BY <1>1, <1>2, <1>6, StepKeeps
<1>7. CASE \E to \in AfterEngine(gone, seat) : Does(to)
  BY <1>1, <1>2, <1>7, AfterEngineShaped, DoesKeeps
<1> QED BY <1>3, <1>4, <1>5, <1>6, <1>7

\* All the host does; Stop closes whom it leaves uninformed.
LEMMA HostKeeps ==
  ASSUME BotsInv, Host, bot' = bot
  PROVE  BotsInv'
<1>1. BotsType /\ Shaped(table)
  BY DEF BotsInv, BotsType
<1>2. CASE Start
  <2> DEFINE tt == [table EXCEPT !.state = "running"]
  <2>1. Shaped(tt)
    BY <1>1 DEF Shaped
  <2>2. Answers /\ \E to \in Dealt(tt, seat) : Does(to)
    BY <1>2 DEF Start, Answers
  <2> HIDE DEF tt
  <2>3. PICK to \in Dealt(tt, seat) : Does(to)
    BY <2>2
  <2> QED BY <2>1, <2>2, <2>3, DealKeeps
<1>3. CASE Restart
  <2> DEFINE tt == [table EXCEPT !.state = "waiting"]
  <2>1. Shaped(tt)
    BY <1>1 DEF Shaped
  <2>2. Answers /\ \E ss : Step(tt, ss, attached)
    BY <1>3 DEF Restart, Answers, Does, At
  <2> HIDE DEF tt
  <2> QED BY <2>1, <2>2, StepKeeps
<1>4. CASE StopClients
  <2>1. /\ Answers /\ table' = [table EXCEPT !.state = "stopping"]
        /\ closed' = closed \cup (attached \ Connections) /\ mail' = mail
    BY <1>4 DEF StopClients, Answers
  <2>2. Shaped(table')
    BY <1>1, <2>1 DEF Shaped
  <2>3. BotsType'
    BY <1>1, <2>1, <2>2 DEF BotsType
  <2>4. ASSUME NEW c \in Bots PROVE UpToDate(c)'
    <3>1. UpToDate(c) /\ Running(c)' = Running(c)
      BY DEF BotsInv, PC, Running
    <3>2. Goroutine(c) \in attached => Goroutine(c) \in closed'
      BY <2>1, GoroutinesApart
    <3> QED BY <2>1, <3>1, <3>2 DEF UpToDate
  <2> QED BY <2>3, <2>4 DEF BotsInv
<1>5. CASE StopActor
  <2>1. table' = [NewTable EXCEPT !.state = "gone", !.key = table.key] /\ mail' = mail
    BY <1>5 DEF StopActor
  <2>2. Shaped(table') /\ table'.state = "gone"
    BY <2>1 DEF Shaped, NewTable
  <2>3. BotsType'
    BY <1>1, <2>1, <2>2 DEF BotsType
  <2>4. ~Answers'
    BY <2>2 DEF Answers
  <2>5. ASSUME NEW c \in Bots PROVE UpToDate(c)'
    BY <2>4 DEF UpToDate
  <2> QED BY <2>3, <2>5 DEF BotsInv
<1>6. CASE \E immediate \in BOOLEAN : End(immediate)
  BY <1>6, EndKeeps
<1>7. CASE \E p \in Players : Kick(p)
  BY <1>7, KickKeeps
<1> QED BY <1>2, <1>3, <1>4, <1>5, <1>6, <1>7 DEF Host

\* What anybody may ask of the table who is not a bot the server plays.
LEMMA AskedKeeps ==
  ASSUME BotsInv, NEW p, Join(p) \/ Act(p) \/ Rebuy(p), bot' = bot
  PROVE  BotsInv'
<1>1. Shaped(table) /\ BotsType
  BY DEF BotsInv, BotsType
<1>2. CASE Join(p)
  <2>1. Answers /\ Step(table, [seat EXCEPT ![p] = "active"], attached)
    BY <1>2 DEF Join, Answers, Does, At
  <2> QED BY <1>1, <2>1, StepKeeps
<1>3. CASE Act(p)
  <2>1. PICK to \in Applied(p) : Does(to)
    BY <1>3 DEF Act
  <2> QED BY <1>1, <1>3, <2>1, AppliedShaped, DoesKeeps DEF Act
<1>4. CASE Rebuy(p)
  <2>1. Answers /\ Step(table, [seat EXCEPT ![p] = "active"], attached)
    BY <1>4 DEF Rebuy, RebuyAllowed, Does, At
  <2> QED BY <1>1, <2>1, StepKeeps
<1> QED BY <1>2, <1>3, <1>4

\* The clock of a turn runs out (onTurnTimeout).
LEMMA ClockKeeps ==
  ASSUME BotsInv, ClockRunsOut, bot' = bot
  PROVE  BotsInv'
<1> DEFINE more == [table EXCEPT !.key = @ + 1]
           on(missed, folds) == [table EXCEPT !.in = @ \ folds, !.missed = @ \cup missed]
<1>1. Shaped(more) /\ \A missed, folds : Shaped(on(missed, folds))
  BY DEF BotsInv, BotsType, Shaped
<1>2. /\ Answers
      /\ \/ Step(more, seat, attached)
         \/ \E missed, folds : \E to \in AfterEngine(on(missed, folds), seat) : Does(to)
  BY DEF ClockRunsOut, Does, At
<1> HIDE DEF more, on
<1>3. CASE Step(more, seat, attached)
  BY <1>1, <1>2, <1>3, StepKeeps
<1>4. CASE \E missed, folds : \E to \in AfterEngine(on(missed, folds), seat) : Does(to)
  <2>1. PICK missed, folds : \E to \in AfterEngine(on(missed, folds), seat) : Does(to)
    BY <1>4
  <2> QED BY <1>1, <1>2, <2>1, AfterEngineShaped, DoesKeeps
<1> QED BY <1>2, <1>3, <1>4

----------------------------------------------------------------------------
(* The bots that connect, and the crash.                                    *)

\* What happens on the connection of one of them does not touch the others.
LEMMA ApartKeeps ==
  ASSUME BotsInv, NEW c \in Outside, table' = table, bot' = bot, DOMAIN mail' = Clients,
         \A b \in Bots : mail'[Goroutine(b)] = Box(b),
         attached \ {Connection(c)} \subseteq attached', closed \subseteq closed'
  PROVE  BotsInv'
<1>1. BotsType'
  BY DEF BotsInv, BotsType
<1>2. ASSUME NEW b \in Bots PROVE UpToDate(b)'
  <2>1. Goroutine(b) # Connection(c)
    BY GoroutinesApart
  <2> QED BY <1>2, <2>1, UntouchedKeeps DEF BotsInv, Answers
<1> QED BY <1>1, <1>2 DEF BotsInv

\* The queue of a connection is no goroutine's.
LEMMA BoxKeeps ==
  ASSUME BotsInv, NEW c \in Outside, NEW box, mail' = [mail EXCEPT ![Connection(c)] = box]
  PROVE  DOMAIN mail' = Clients /\ \A b \in Bots : mail'[Goroutine(b)] = Box(b)
<1>1. DOMAIN mail = Clients /\ Connection(c) \in Clients
  BY GoroutinesApart DEF BotsInv, BotsType
<1>2. ASSUME NEW b \in Bots PROVE mail'[Goroutine(b)] = mail[Goroutine(b)]
  <2>1. PICK g : g = Goroutine(b)
    OBVIOUS
  <2>2. g \in Clients /\ g # Connection(c)
    BY <2>1, GoroutinesApart
  <2>3. mail'[g] = mail[g]
    BY <1>1, <2>2
  <2> QED BY <2>1, <2>3
<1> QED BY <1>1, <1>2 DEF Box

\* It connects.
LEMMA SessionKeeps ==
  ASSUME BotsInv, NEW c \in Outside, Session(c), bot' = bot
  PROVE  BotsInv'
<1>1. CASE Attach(Connection(c))
  <2>1. Connection(c) \in Clients
    BY GoroutinesApart
  <2>2. BotsType'
    BY <1>1, <2>1, AttachTypes DEF BotsInv, BotsType
  <2>3. ASSUME NEW b \in Bots PROVE UpToDate(b)'
    BY <1>1, <2>1, <2>3, AttachKeepsOne DEF BotsInv, PC, Running
  <2> QED BY <2>2, <2>3 DEF BotsInv
<1>2. CASE UNCHANGED tableVars
  BY <1>2, ApartKeeps DEF tableVars, BotsInv, BotsType, Box
<1> QED BY <1>1, <1>2 DEF Session

\* It reads, answers, or notices that the connection is lost.
LEMMA ClientStepKeeps ==
  ASSUME BotsInv, NEW c \in Outside, ClientStep(c), bot' = bot
  PROVE  BotsInv'
<1>1. CASE Session(c)
  BY <1>1, SessionKeeps
<1>2. CASE ReadLost(c) \/ Answer(c) \/ Handle(c)
  <2>1. /\ UNCHANGED <<table, attached, closed>>
        /\ mail' = mail \/ Lost(c) \/ Takes(c)
    BY <1>2, Zenon DEF ReadLost, Answer, Handle, OnSnapshot
  <2>2. CASE mail' = mail
    BY <2>1, <2>2, ApartKeeps DEF BotsInv, BotsType, Box
  <2>3. CASE Lost(c)
    BY <2>1, <2>3, BoxKeeps, ApartKeeps DEF Lost
  <2>4. CASE Takes(c)
    <3>1. PICK box : box = Tail(Inbox(c))
      OBVIOUS
    <3>2. mail' = [mail EXCEPT ![Connection(c)] = box]
      BY <2>4, <3>1 DEF Takes, Inbox
    <3> QED BY <2>1, <3>2, BoxKeeps, ApartKeeps
  <2> QED BY <2>1, <2>2, <2>3, <2>4
<1> QED BY <1>1, <1>2 DEF ClientStep

\* It is told of a command that failed, or closed as a slow consumer.
LEMMA RefusedKeeps ==
  ASSUME BotsInv, NEW c \in Outside, Refused(c), bot' = bot
  PROVE  BotsInv'
<1>1. CASE Len(Inbox(c)) < MaxMail
  <2>1. mail' = [mail EXCEPT ![Connection(c)] = Append(@, Word("error"))] /\ UNCHANGED <<table, attached, closed>>
    BY <1>1 DEF Refused
  <2>2. PICK box : box = Append(Inbox(c), Word("error"))
    OBVIOUS
  <2>3. mail' = [mail EXCEPT ![Connection(c)] = box]
    BY <2>1, <2>2 DEF Inbox
  <2> QED BY <2>1, <2>3, BoxKeeps, ApartKeeps
<1>2. CASE ~(Len(Inbox(c)) < MaxMail)
  BY <1>2, ApartKeeps DEF Refused, BotsInv, BotsType, Box
<1> QED BY <1>1, <1>2

\* Its command is handled.
LEMMA ServeKeeps ==
  ASSUME BotsInv, NEW c \in Outside, Serve(c), bot' = bot
  PROVE  BotsInv'
<1>1. Rebuy(c) \/ Act(c) \/ Refused(c)
  BY DEF Serve
<1> QED BY <1>1, AskedKeeps, RefusedKeeps

\* Its connection is lost.
LEMMA DisconnectKeeps ==
  ASSUME BotsInv, NEW c \in Outside, Disconnect(c), bot' = bot
  PROVE  BotsInv'
<1>1. /\ mail' = [mail EXCEPT ![Connection(c)] = << >>] /\ attached' = attached \ {Connection(c)}
      /\ table' = table /\ closed' = closed
  BY DEF Disconnect, Lost
<1> QED BY <1>1, BoxKeeps, ApartKeeps

\* After a crash no goroutine has got further than to attach.
LEMMA CrashKeeps ==
  ASSUME BotsInv, Crash
  PROVE  BotsInv'
<1>1. /\ table' = [NoHand(table) EXCEPT !.hand = "none", !.endAfter = FALSE]
      /\ mail' = [e \in Clients |-> << >>] /\ TableBotsRestored
  BY DEF Crash
<1>2. Shaped(table')
  BY <1>1 DEF BotsInv, BotsType, NoHand, Shaped
<1>3. ASSUME NEW b \in Bots
      PROVE  PC(b)' \in {"attach", "none", "done"} /\ {"pc", "snap", "last"} \subseteq DOMAIN bot'[b]
  BY <1>1 DEF TableBotsRestored, NoBot, PC
<1>4. DOMAIN bot' = Bots /\ DOMAIN mail' = Clients
  BY <1>1 DEF TableBotsRestored
<1>5. BotsType'
  BY <1>2, <1>3, <1>4 DEF BotsType
<1>6. ASSUME NEW b \in Bots PROVE UpToDate(b)'
  BY <1>3 DEF UpToDate, Running, PC
<1> QED BY <1>5, <1>6 DEF BotsInv

----------------------------------------------------------------------------
(* The specification.                                                       *)

\* There is no bot at a new table.
THEOREM BotsInvStarts == Init => BotsInv
<1> SUFFICES ASSUME Init PROVE BotsInv
  OBVIOUS
<1>1. /\ table = NewTable /\ mail = [e \in Clients |-> << >>] /\ bot = [b \in Bots |-> NoBot]
  BY DEF Init, TableInit, TableBotInit
<1>2. BotsType
  BY <1>1 DEF BotsType, Shaped, NewTable, NoBot
<1>3. ASSUME NEW b \in Bots PROVE UpToDate(b)
  BY <1>1 DEF UpToDate, PC, NoBot, Running, PC
<1> QED BY <1>2, <1>3 DEF BotsInv

\* Every step keeps the invariant: the goroutines, the table, the connections, the crash.
THEOREM BotsInvStep == BotsInv /\ [Next]_vars => BotsInv'
<1> SUFFICES ASSUME BotsInv, [Next]_vars PROVE BotsInv'
  OBVIOUS
<1> USE DEF Bots
<1>1. ASSUME NEW b \in Bots, ServerBot(b) \/ AddBot(b) PROVE BotsInv'
  BY <1>1, BotStepKeeps, JoinKeeps DEF ServerBot
<1>2. ASSUME NEW c \in Outside, bot' = bot, ClientStep(c) \/ Serve(c) \/ ClientJoin(c) \/ Disconnect(c)
      PROVE  BotsInv'
  BY <1>2, ClientStepKeeps, ServeKeeps, AskedKeeps, DisconnectKeeps DEF ClientJoin
<1>3. CASE Host /\ bot' = bot
  BY <1>3, HostKeeps
<1>4. CASE Timers /\ bot' = bot
  BY <1>4, TimersKeep
<1>5. ASSUME NEW g \in Guests, Guest(g), bot' = bot PROVE BotsInv'
  BY <1>5, AskedKeeps DEF Guest
<1>6. CASE AnyClock
  BY <1>6, ClockKeeps DEF AnyClock
<1>7. CASE Crash
  BY <1>7, CrashKeeps
<1>8. CASE UNCHANGED vars
  <2>1. BotsType'
    BY <1>8 DEF BotsInv, BotsType, vars, tableVars
  <2>2. ASSUME NEW b \in Bots PROVE UpToDate(b)'
    BY <1>8, <2>2, UntouchedKeeps DEF BotsInv, vars, tableVars, Answers, Box
  <2> QED BY <2>1, <2>2 DEF BotsInv
<1> QED BY <1>1, <1>2, <1>3, <1>4, <1>5, <1>6, <1>7, <1>8 DEF Next, OutsideBot, Handler

\* A bot the server plays that runs and was not stopped is attached, and the
\* newest snapshot it has is of the table as it is (Send, consider).
THEOREM BotsStayUpToDate == Spec => []BotsInv
<1> QED BY BotsInvStarts, BotsInvStep, PTL DEF Spec

\* When such a bot has decided, it is its turn, and the decision is for this
\* very turn, whatever happened while it thought.
THEOREM BotsActOnTheTable == Spec => ActsOnTheTable
<1>1. ASSUME BotsInv, [Next]_vars
      PROVE  [\A b \in Bots : PC(b) = "think" /\ bot'[b].pc = "act"
                => (Answers => table.turn = b /\ table.key = bot'[b].last)]_vars
  <2> SUFFICES ASSUME Next, NEW b \in Bots, PC(b) = "think", bot'[b].pc = "act", Answers
               PROVE  table.turn = b /\ table.key = bot'[b].last
    BY <1>1 DEF vars
  <2>1. BotsType /\ UpToDate(b)
    BY <1>1 DEF BotsInv
  <2>2. Thought(b)
    <3>1. CASE bot' = bot
      BY <3>1 DEF PC
    <3>2. CASE Crash
      BY <3>2 DEF Crash, TableBotsRestored, NoBot
    <3>3. ASSUME NEW c \in Bots, TableBotStep(c) \/ AddBot(c)
          PROVE  Thought(b)
      <4>1. ASSUME NEW pc, GoesTo(c, pc), pc # "act" PROVE FALSE
        BY <2>1, <3>3, <4>1, GoesToMakes DEF PC
      <4>2. ASSUME Consider(c) PROVE FALSE
        <5>1. CASE bot' = bot
          BY <5>1 DEF PC
        <5>2. CASE GoesTo(c, "rebuy")
          BY <4>1, <5>2
        <5>3. CASE Goes(c, [bot[c] EXCEPT !.pc = "think", !.snap = Head(Box(c))])
          <6>1. PC(c) = "wait"
            BY <4>2 DEF Consider
          <6>2. c # b
            BY <6>1
          <6> QED BY <2>1, <5>3, <6>2 DEF Goes, BotsType, PC
        <5> QED BY <4>2, <5>1, <5>2, <5>3 DEF Consider
      <4>3. Thought(c)
        BY <3>3, <4>1, <4>2 DEF TableBotStep, StartBot, RunAttaches, RunStops, RebuyCall, ActCall, AddBot
      <4>4. c = b
        <5>1. CASE Stopped(c) \/ ~IsTurn(c, Newest(c))
          BY <4>1, <4>3, <5>1 DEF Thought
        <5>2. CASE Goes(c, [pc |-> "act", snap |-> Word("none"), last |-> Newest(c).turn])
          BY <2>1, <5>2 DEF Goes, BotsType, PC
        <5> QED BY <4>3, <5>1, <5>2 DEF Thought
      <4> QED BY <4>3, <4>4
    <3> QED BY <3>1, <3>2, <3>3 DEF Next, Bots, ServerBot, OutsideBot, Handler, AnyClock
  <2> DEFINE to == [pc |-> "act", snap |-> Word("none"), last |-> Newest(b).turn]
  <2>3. Goroutine(b) \notin closed /\ IsTurn(b, Newest(b)) /\ Goes(b, to)
    BY <2>1, <2>2, GoesToMakes DEF Thought, Stopped, PC
  <2>4. bot'[b].last = Newest(b).turn
    BY <2>1, <2>3 DEF Goes, BotsType
  <2>5. Newest(b).turn = TurnOf(table, b)
    BY <2>1, <2>3 DEF UpToDate, Newest, Running, PC
  <2>6. Newest(b).turn # 0
    BY <2>3 DEF IsTurn
  <2> QED BY <2>4, <2>5, <2>6 DEF TurnOf
<1> QED BY <1>1, BotsStayUpToDate, PTL DEF Spec, ActsOnTheTable

=============================================================================
