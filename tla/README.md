# Verification of Showdown

Showdown is a self-hosted No-Limit Hold'em server: a Go backend
(`src/backend`) that runs the tables and a Flutter frontend that shows them.
This directory holds TLA+ specifications of the backend: the hand engine with
its cards (`internal/poker`), the table that drives it and the rows it leaves
in the database (`internal/table`, `internal/store`), the connections, friends,
accounts and sign-ins around it (`internal/server`, `internal/revokedauth`) and
the bots (`internal/table/bot.go`, `internal/botclient`); the TLC instances that
check them, and TLAPS proofs about the engine and its cards, the table and its rows, friendships, sign-ins and sockets.

## 1. Inventory

| Component | State it keeps | Operations | What makes it correct |
|---|---|---|---|
| Pots (`poker/pots.go`) | none | `buildPots`, `oddChipOrder` | every chip in exactly one pot; a live seat that matched a layer can win it |
| Hand engine (`poker/hand.go`) | one `Hand`: phase, street, turn, bets, stacks, boards, showdown order, result | `NewHand`, `Apply`, `Timeout`, `Forfeit`, `Advance`, `RunItTwice`, `RevealNext`, `ShowCards` | chips are conserved, somebody always owes the turn, raising is reopened only by full raises, the pots go to the best hands that can win them, no card is shown that should not be, every hand ends |
| Cards (`poker/card.go`, `eval.go`, `equity.go`, `notes.go`) | the deck of a hand | `Evaluate`, `Equity`, `Read`, `draw` | hands are ordered by the rules, no card twice, shares add up, notes are true |
| Table actor (`table/table.go`, `table/hand.go`) | one `Table`: state, players and seats, the hand, one timer with its generation, votes, what is put off to the end of the hand | commands of players and host, timer callbacks; all on one goroutine | the timer fits the phase, seats hold their players for the length of a hand, nothing put off is forgotten, the next deal always comes |
| Table seats (`ChangeSeat`, `Join`, `UpdateSettings`) | `seats`, `pendingSeat`, cooldown, dead blinds owed, the blind clock | moves now or after the hand | one player a seat, a promised seat is kept, movers post, a tournament stays locked |
| Persistence and registry (`table/persist.go`, `registry.go`) | ordered job queue, `handRowID`, tables by id | `enqueue`, `execute` with retries, `LoadAll`, `Delete`, `Shutdown` | rows follow the table; a crash between two of them leaves rows a table can be restored from |
| Friends (`store/friends.go`, `handlers_friends.go`) | asks, friendships, blocks, invitations | look, then one statement or transaction | friendship is mutual, a block ends everything between two profiles |
| Sockets (`server/ws.go`, `userhub.go`) | outbound queue of each connection, connections by address, player and profile | hello, `Attach`, `Send`, `Close`, `Detach`, `add`, `remove` | the newest connection is served, what was queued before a close is written, every connection is given back |
| Accounts, sessions (`handlers_accounts.go`, `store/repo.go`) | profiles, sessions, identities | register, log in, set a password, log out | a new password ends the old sessions, every profile can be signed in to |
| Outside sign-in (`handlers_revoked.go`, `revokedauth`) | flows, waits, handoffs | start, callback, wait, finish, claim | the person who approved is the one signed in, once |
| Bots (`table/bot.go`, `botclient/bot.go`) | newest snapshot or read loop, `lastActKey` | attach, think, act, rebuy, reconnect | they act on the table as it is, play their turns, buy back in and end |
| Rate limits, views, HTTP, configuration, frontend | buckets, view state, or none | request and response | see section 7 |

**How they interact.** A connection (`Sockets`) turns messages into commands
and posts them to the inbox of its table (`Table.call`). The actor takes one
function at a time. Commands and timer callbacks call the engine, a plain data
structure, and after every call that may have changed a hand they end in
`afterEngine`, which looks at the hand's phase and arms the one timer of the
table: a turn, a run-it-twice vote, the next street, the next reveal, the end of
the result. `schedule` bumps a generation, so that a callback whose timer was
replaced while it was on its way does nothing. When a hand is over `finishHand`
copies the stacks out of the engine, frees the seats of those who left, sits out
who asked for it or missed too many turns, applies queued chips and moves, and
queues the rows for the persister, a second goroutine that writes them in order.
After a restart `LoadAll` makes the tables from their rows and starts a goroutine for every seat
of a bot, a bot that connects included. Bots are clients: those of the server attach to the table inside the
process, the others over a socket. The HTTP handlers of friends, accounts and
sign-ins are goroutines that share the database and, for sign-ins, three maps in
memory.

**What is hard.** Inside the engine, long legal sequences: short all-ins, seats
that leave out of turn, forced bets that put seats all-in, pots for two boards.
In the table, the order of commands and callbacks: the same players, statuses
and timers are written by some twenty handlers, and what a handler puts off must
survive everything else that can end a hand. Between goroutines, checks and
writes with something in between (friends, passwords, sign-ins, registry, Send
and Close), and a crash between two rows. `PROJECT.json` lists the hazards at
their lines with the properties that would catch them.

## 2. The modules

| Module | Models | State and actions |
|---|---|---|
| `Pots` | `pots.go` | pure operators: `Levels`, `EligibleAt`, `Slice`, `BuildPots`, a pot is a level with an amount and its eligible seats |
| `PokerHand` | `hand.go` | `cfg` (what `NewHand` is given) and `h`, the `Hand` struct without its cards; `Init` is every successful `NewHand`; one action for each exported operation. `Settle`, `EndStreet`, `ReturnUncalled`, `Collect`, `Showdown`, `AwardPots` carry the names of the functions they translate |
| `HandLedger` | what the engine promises about chips | abstract: `Post`, `Fold`, `Award` over stacks and what was paid in |
| `HandPhases` | the engine as the table sees it | phase, turn, live and all-in seats, no amounts; each engine call returns the set of hands it may lead to |
| `TableHand` | the abstract hand as a specification | `HandPhases` as a next-state relation; `PokerHand` is checked to implement it |
| `Cards`, `BoardNotes` | `card.go`, `eval.go`, `equity.go`; `notes.go` | pure operators: `Evaluate`, `Equity`, `Read`; beside them the rules of the game as a reference |
| `CardHand` | `hand.go` with its deck | `PokerHand` extended by `deal`, `board1`, `board2`: the deck as it lies, `DealStreet` draws from it, and the strengths of a showdown are what `Evaluate` says |
| `TableActor` | `table.go`, `hand.go` | one record `t`, the `Table` struct; operators from table to table (or to a set of tables, when the engine plays) are the actor's functions, one action for each command, and `Expire` for the timer, whose callback is chosen by `timer.kind` |
| `TableSeats` | the seats in `table.go`, `settings.go` | `t`, `seats`, and the seats of the hand as `dealt`; `ChangeSeat`, `ApplyPendingSeatChanges`, `UpdateSettings`, `BlindsUp` and everything else that writes a seat |
| `TableStore` | `persist.go`, `registry.go`, the enqueuing commands, the statements of `repo.go` and `retention.go` | the table, the job queue with its retries, the rows `db`, the process; `Executed`, `AttemptFails`, `Crash`, `Shutdown`, `LoadAll`, `DeleteRows`, `PurgeDelete` |
| `Friends` | `friends.go`, `handlers_friends.go`, visibility in `handlers_profile.go` | rows as sets of pairs; a request that has looked is a busy worker, each of its looks and its transaction a step |
| `Sockets` | `ws.go`, `userhub.go`, `Attach`/`Detach`/`Stop` of `table.go` | per connection the handler's stage and the wire (queue, closed, writer, net); who is client of whom; the hub |
| `Accounts`, `SignIn` | `handlers_accounts.go`, `repo.go`; `handlers_revoked.go`, `revokedauth` | the database by statement, requests as workers between two of them; flows, waits, handoffs, pages |
| `BotTable`, `TableBot`, `BotClient`, `Bots` | the table as bots meet it; `table/bot.go`; `botclient/bot.go`; all of them together with a crash | the goroutine of each bot by its program counter, a client's connection, mailboxes of snapshots, commands on the network; whoever attaches replaces the other |
| `PokerHandProofs`, `PokerHandRulesProofs`, `TableActorProofs`, `TableSeatsProofs`, `TableStoreProofs`, `ProfileProofs` (of `SignIn` and `Friends`), `SocketsProofs`, `BotsProofs` | | the proofs (section 5) |
| `MC...` | | instances for TLC |

`TableActor` plays its hands with the operators of `HandPhases`; `PokerHand`
implements `TableHand` (`ShowsItsPhases`), which is built from the same
operators. So what is checked of the table holds for the real engine's phases,
and not for an engine invented for the table's model. `CardHand` is `PokerHand`
with the open choice of strengths resolved by the cards. `SignIn` extends
`Accounts`, so outside sign-ins run beside passwords. `Bots` composes both kinds
of bots with one table.

**Abstractions of the engine.** In `PokerHand` cards do not occur before the
showdown: at `Advance` to a showdown (and for each of two boards) the model picks
a strength for every seat, any function of `Strengths`; `Ranks` bounds it, and
the deck is a count of cards. `CardHand` takes the cards and bounds the deals
instead; there `Ranks` are the numbers the evaluator gives the hands of the deck, and `Strengths` all ways to share them out. Descriptions and events are left out; what events say of shown cards is
the field `revealed`. `Equity` samples boards at random when more than two cards
are to come; that branch is left out.

**Abstractions of the table.** In `TableActor` a seat is identified with its
player, a stack is "has chips" or not, the time bank is "something left" or not;
hands leave any set of seats broke that the phases allow. The count of missed
turns stops at `SitOutAfter`. Of the replaced timer callbacks that have still to
arrive only the latest is kept (`MaxLate`). `Instances` names the settings and
commands that are combined in one behaviour. In `TableSeats` and `TableStore` a
hand is its deal and its outcome: any redistribution of the chips dealt in.
`TableStore` follows the stacks themselves and the row of the open hand; an
insert of a hand number the table already has fails (`UNIQUE` in the schema). `lastMove` of `TableSeats` is a
history variable: when each player moved last in the round that goes on (`Moves`, `NewRound`, `Watched`), whatever the table
noted of it. Two branches that log an error and pause the table are left out of `TableActor`: a hand that `NewHand` refuses
(`table/hand.go:133-137`), which it does for none that `startHand` asks for, and a payout that does not add up (`table/hand.go:458-464`),
which `ChipsAreConserved` rules out.

**Abstractions of the server.** Statements and transactions of SQLite are atomic
and run one after the other. Messages on a socket have no content but whether
they were queued before the close. Some steps of `Sockets` are coarser than the code: the hub's `add` and the welcome behind it
(`userhub.go:144-146`), the actor's call, the acknowledgement and the close of a player who leaves (`ws.go:365`, `480-484`), and `Close` with the hard close of a
full queue, for which the code waits (`ws.go:141-151`). A broadcast may overtake the welcome there; no property speaks of that order. A password and its recovery code are one
number; tokens, nonces and codes are drawn fresh and stand for themselves. The
issuer's token says who it is for and for which nonce, and `Verified` compares
them; signatures are what they decide.

**Abstractions of the bots.** What `botplay` decides is any action: a fold, all
the chips, or something between; nobody is put all-in by a blind. A bot the server
plays thinks at most a third of its clock (`thinkFor`), so the turn it thinks
about does not run out (`ThinksInTime`). The table allows rebuys. `SetIdle` is
not modelled. A function of the actor and the flush that sends what it changed are one step of `BotTable` (`table.go:369-370`, `458-478`): between
them the actor takes nothing else. `Goroutine(b)` and `Connection(c)` are the two kinds of clients; after a crash both may play one seat, and
`Attach` closes the older one.

## 3. The runs

Hands, blinds 1/2:

* **hand_three** (`MCPokerHand`): three seats of a table of four (so that one seat is empty), five settings.
  With nothing but blinds, stacks of 1, 3 and 4 chips, one of them short: below the big blind, above it, and enough for a raise
  and a short all-in over it. With antes, a dead blind, a straddle on the button posted in full or short, and
  each of the reveal policies, stacks of 2 and 5: forced bets that put seats all-in before anybody acts are where
  the turn and the pots go wrong. `IInv`, the inductive invariant of the proofs (types, `OwnChips`, `TurnIsOwed`,
  `BettingLevels`); without a dead blind, who matched every bet can win every pot (`MatchedCanWin`), and at a showdown a
  seat that is covered wins no more than what everybody has put within its reach, and the one best
  hand wins all of its reach (`ShowdownPaysReach`, stated without pots); chips are conserved and the pots hold what was
  collected (`EveryChipCounts`); betting is reopened only by a full raise (`ReopenedByFullRaise`); whoever wins at a showdown has shown, so that
  mucked hands win nothing, and no card leaks (`CardsShownRight`); the engine implements `HandLedger` (`KeepsTheLedger`) and its phases are those of `TableHand` (`ShowsItsPhases`).
* **hand_heads_up** (`MCHeadsUp`): two seats, antes, the three reveal policies, stacks up to 6 and a
  deck of 16 cards of which three deals are played: wheels, full houses, quads, flushes against
  straights, splits. The engine is given 13 cards (`DeckSize`), too few for two full boards. What `Options` offers is what `Apply` accepts;
  `ShowdownByTheRules` compares the evaluator with the rules written down as a reference, for all
  hands of these deals, and the money with the cards; the two boards part where they should and
  share no card after it; shares and notes are true; and, with fair timers, every hand ends.
* **hand_dead_blind** (`MCPokerHand`, violated): one dead blind and nobody near all-in; see findings.

Tables:

* **table_life** (`MCTableActor`): three seats, in four instances of commands: leaving, ending now or after
  the hand and a new round in every phase of a hand, with sitting out or with pausing; automatic starts with
  chips granted and taken at a table without rebuys; late callbacks with late reveals. The table never
  waits for nothing, with or without a hand (`TableMovesOn`), players, seats, stacks and hand fit (`SeatsFitTheHand`), nothing put
  off stays (`NothingLingers`), a hand leaves the table with its result or by the host's word and no
  late callback takes another's (`HandsEndInResults`).
* **table_turns** (`MCTableActor`): two seats, with fairness, four instances: votes, banks and connections;
  banks that are not refilled, with actions chosen ahead; votes, actions chosen ahead, reveals and late callbacks; leaving, sitting out,
  chips and settings that change. A turn is charged to the seat it belongs to (`TurnsAreCharged`): a bank that runs is that of the player to act, who
  has used it in this hand, it is emptied in no other turn, and a missed turn is one that the seat's own clock ended with the bank used up. Every hand is
  played out, every result gives way, two players with chips at a running table are dealt to (`HandsGoOn`).
* **table_start_lost** (`MCTableActor`, violated): two seats and a host who pauses and resumes; see findings.
* **seats** (`MCTableSeats`): three players, up to three seats, settings that shrink the table or make it a tournament,
  three hands, two commands besides joins and the game. One seat each, the engine's seats keep their
  players (`SeatsAgree`); who moved owes the dead blind; once a hand has been dealt, the moves
  of a player in one round are the cooldown apart, two in one hand among them; a promised seat is kept (`MovesKeepTheRules`); the blind clock runs and the tournament lock holds (`HostRulesHold`; that the clock keeps its time while the table is paused is not stated: the model has no amounts of time).
* **store_crash** (`MCTableStore`): two seats, three players, two hands, one command of any kind at any time, two
  failed attempts (two give a job up) and one crash or shutdown between any two jobs. A hand's row never
  holds another hand (`HandRowsOwnOutcome`); with the queue drained and nothing given up rows and memory agree
  (`StoreCatchesUp`; players, table and open hand are compared, the results of hands are not); a table restored from any cut has no seat twice and no hand counts twice (`RowsAreSound`).

Around the table:

* **friends** (`MCFriends`): two profiles, two tables, three requests between their looks and their write. A block separates (with the one
  exception the code allows: a request that had looked before it), the pages of the two mirror each other,
  an invitation is renewed and not doubled.
* **sockets** (`MCSockets`): two connections of one address, as players, player and spectator, or of the
  hub; queues of two messages; peers that vanish, slow consumers, kicks, the end of the table.
* **sign_in** (`MCSignIn`): two profiles, handles, tokens, identities and sign-ins, the identities on two servers, either of which a page may
  name, or none; two requests at once, with passwords and sign-ins sharing the bounds three ways; answers delivered twice, mixed up or
  late, and restarts. Handlers and tokens are symmetric. A page gets who approved on it, on the server it named (`PageGetsItsPerson`), and one session at most
  (`GoodForOneSession`); a new password ends the old sessions, every profile can be signed in to.
* **bots** (`MCBots`): a bot of one kind and a guest, two turns, one lost connection, one crash, with fairness. Tables begin new (`Opened`), or as they are just after the server
  has come back (`CameBack`), when the bot that connects has a goroutine, too, and the two replace each other. A goroutine acts on the table as it is
  (`ActsOnTheTable`), whoever plays a bot plays its turn (`BotPlaysItsTurn`), a goroutine that was replaced, kicked or closed comes to its end, and so does whoever
  plays a bot that has no seat any more (`GoneBotEnds`), and who is broke buys back in (`BustedBotRebuys`).

**Bounds.** Three seats are the least at which a side pot, a third party that leaves while two
others play, and an order among the seats behind the turn exist; the stacks are
the least that allow a full raise, a short one and a stack below the blind. `LastStreet` is 1 in the
instances of `TableActor`: one street is dealt after the first round, so that betting, dealing, run-out and
showdown all occur. Two profiles are enough for `Friends`, since each action is about one pair, and
`ProfileProofs` has the others. Two connections show a replacement, a queue of two an item behind another. Two requests and
two sign-ins show each overlap of two handlers; codes and approvals are bounded by what two sign-ins can use up. A queue of one message (`MaxMail`) makes a bot that connects
a slow consumer as soon as it has something to read; two turns show one that is over while an action for it is on the way.
Two hands show a row written to the hand before. Commands that a run combines are in its `Instances` or `Commands`; the
passing runs of `TableActor` do not combine leaving with votes, nor `Start` or `Resume` with automatic starts under fairness,
because of the finding and the disagreements below.

**Fairness.**
`PokerHand!TimerFairness`: the table calls `Timeout`, `Advance` or `RevealNext` as long as there
is no result; the players need not do anything. `TableActor!FairSpec`: an armed timer goes
off (weak fairness of `Expire`, spelled out): the Go runtime delivers it and the actor takes every
function from its inbox. Commands that arm the timer anew cannot put this off for ever: in one hand a
player leaves or sits out of it once, betting ends, cards are shown and the rabbit hunted once each, and
between hands `startPending` lets nobody arm the start twice. `BettingEnds` says that betting does not go on for ever, which the abstract
hand without amounts cannot show and `HandEnds` shows of the engine.
`Sockets!Fairness`: the goroutines run. What a handler asks of the actor waits in a queue and is not
overtaken by broadcasts for ever, hence strong fairness for handlers; peers may do nothing. `Bots!Fairness`: the goroutines run and the
table answers; a `select` with both a snapshot and the stop ready picks at random, so the stop is strongly fair. Clocks and hosts need not do
anything there.

Deadlock is not checked where the system may stop: an ended or empty table, a bound used up, a bot
that has gone. The engine instances stutter explicitly once a hand has its result.

## 4. Findings

* `hand_dead_blind` -- a live dead blind makes its poster the only seat eligible for
  the last layer of the pot (`pots.go:64`).
* `table_start_lost` -- `startPending` outlives the timer it stands for when `Resume` or `Start` deal within the
  start delay (`table/hand.go:40`): only that timer's callback would reset it, and the timer of the hand has replaced it. Once
  that hand has left too few players with chips, a rebuy, a sit-in or a newcomer deals nothing more. `StartIsNoted`, the half of
  `TableMovesOn` that does hold, says that the note is made in time; `StartIsArmed` says that the timer is there, too.

**Disagreements without a run of their own**, seen while the code was read and modelled:

* A vote outlives its hand when everybody else leaves (`table/hand.go:218`); an answer in the result phase replaces the timer that
  clears the result (`table.go:940`, `docs/rules.md:158-159`).
* Moves before the first hand are not limited: `lastSeatChangeHand` is the number of the hand, 0 there, and 0 means never
  (`table.go:1063`, `table.go:1077`; the comment at `table.go:1040-1042`, `docs/rules.md:211-213`). `MovesAreApart` begins with the first hand.
* A seat of a bot that connects has two players after a restart: `LoadAll` starts a goroutine for every seat marked as a bot's (`registry.go:222-226`,
  `266-269`), and `cmd/bot` marks its own (`botclient/bot.go:165`) and dials again. Each that attaches closes the other (`table.go:717-720`), while
  `docs/protocol.md:353-358` has nothing change for such a seat. A client that was replaced dials again and closes the goroutine, which ends: the properties of bots hold, the seat is played by one of the two.
* Another player's leaving or sitting out gives the turn its clock and its time bank again
  (`table/hand.go:206-210`; `hand.go:406-407`, `docs/rules.md:170-171`).
* `SitOut` does not clear a pre-selected action (`table.go:1204`), although the comment at `table.go:1119` says so.
* The bots of an ended table end (`table/bot.go:115-118`) and only `AddBot` and `LoadAll` start one, so after a
  `Restart` they hold their seats and do not play (`table.go:1627-1632`, `docs/protocol.md:361-371`). `Bots` models it: `BotPlaysItsTurn` speaks of bots with a goroutine or a client.
* A crash between the player rows and the hand row of one hand end leaves some stacks from before the hand beside others from after it
  (`table/hand.go:513-534`; `README.md:107`, `registry.go:274`). `RowsAreSound` claims no more than seats and counts.
* A crash between the hand's insert and the table row lets the next hand take the same number, whose insert then fails
  (`table.go:1638`, `docs/protocol.md:228`).
* Late reveals, hand history and snapshots go by the player's present seat, not the seat of the deal (`table.go:1330`, `handlers_admin.go:303`,
  `docs/protocol.md:146-148`).
* `Stop` closes the clients it knows, and ends the actor in a second step (`table.go:779-791`). A connection that attaches between the two keeps reading, in `Sockets` until its
  peer ends it. A bot of the server that attaches there is never closed and waits for ever (`table/bot.go:87`, `table/bot.go:95-110`); `Bots` has this behaviour, and `GoneBotEnds`
  is about goroutines the table has let go of or whose seat is lost, and about connections that are not attached.
* A player who acts after the turn that reached the limit of missed turns is still sat out after the hand: `Action` resets the count, not `sitOutPending`
  (`table.go:820`, `table/hand.go:420-423`; `docs/rules.md:176-178`).
* `SitOut` folds the player's hand at once or when the turn comes (`table.go:1192-1212`), where `docs/rules.md:179-180` says "if they are in a hand they still act".
* `Apply` writes a patched blind to the live level and to the starting level, and `Validate` compares the live ones only
  (`settings.go:311-320`, `settings.go:456`). After `raiseBlinds` (`table.go:1407-1418`) a patch of `small_blind` alone may leave
  `StartSmallBlind` above `StartBigBlind`: `Restart` (`table.go:1650-1652`) then plays with a small blind above the big one, and
  every patch of another setting is refused, although `Validate` "checks every constraint". Nothing caps the
  blinds either, so the multiplication in `raiseBlinds` may overflow after a long schedule. The settings are not a module yet.
* `isNuts` counts an own hole card that is not in the best five as still in the deck (`notes.go:260-285`): a hand that is the nuts
  may not be told so. `NotesAreTrue` claims only that no other hand is.

## 5. The proofs

`PokerHandProofs` proves for every set of seats, table size, stacks, settings and rankings
that `NewHand` accepts (`SeatsAssumption`, `StackAssumption`, `ConfigAssumption`, `CardAssumption`
of `PokerHand`: finitely many seats below `MaxSeats`, positive stacks, settings of the types `HandConfig`
declares):

* `Invariance`: `Spec => []IInv`. The invariants that a reader wants are not
  inductive one by one. That a seat owes the turn (`TurnIsOwed`) needs that the levels of betting
  are ordered and that all-in means an empty stack (`BettingLevels`); that needs the
  types; and that `Commit`, `ReturnUncalled` and `Collect` keep the levels needs that a seat's
  chips are its own (`OwnChips`). `IInv` is their conjunction, restated as `Good`
  about an arbitrary hand record, so that each function of the engine
  has one lemma (`ReturnUncalledFacts`, `SettleGood`, `EndStreetGood`, ...) about what it does to
  a good hand. `NextPreserves` has a step for each action that strings these together.
* `TypeCorrect`, `ChipsStayOwn`, `TurnAlwaysOwed`, `LevelsHold`: its conjuncts. `TurnAlwaysOwed` is
  the one that matters: `settle` panics if nobody owes an action in a round that is not
  complete, and a table would run a turn timer for nobody.
* `ChipsAreConserved` (`[]EveryChipCounts`) and `LedgerIsKept` (`KeepsTheLedger`). What the pots hold is a sum over levels,
  and what was put in a sum over seats, so the proof cuts the chips of each seat into the slices between two levels
  (no chip in two, none left over) and rests on sums over a growing set of seats or pots. The odd chips of a split go
  to the winners by their rank from the button, the first so many of them. `AccountInv` adds to `IInv` that
  everything put in is still accounted for (`Accounted`); with it every step is a step of `HandLedger` or leaves it alone.

The first part of `PokerHandProofs` is about the pots alone (`BuildPotsType`): `BuildPots` returns finitely many
pots with integer amounts and eligible seats of the table. A sum is
defined as a cardinality (`Total`), so that facts about it follow from the library's theorems about
finite sets and need no induction over data.

`PokerHandRulesProofs` goes on from `IInv`:

* `OptionsAreLegal`: what `Options` offers is what `Apply` accepts, from `IInv`.
* `FullRaisesReopen`: who may raise depends on the level a seat has acted at and the last full bet (`OpensInv`); one lemma
  for acting (`ActReopens`), one for forfeits, and `settle` changes neither.
* `MatchedIsEligible`: without a dead blind, seats with chips behind are even when no betting is open (`Even`),
  hence reach the last level.
* `ReachIsPaid` and `TheBeatenWinNothing`: when the pots are awarded, each pot is the slice between two levels of what all seats
  paid (`PotsAreSlices`), so the pots up to a level hold exactly what counts against a seat that paid that much: its reach. A seat covered by another is in no
  pot above its own level (`PrizeWithin`), the strongest takes every pot it is in, and a seat beaten by one that paid as much shares each of its pots
  with that one and loses it (`NoPrizeForBeaten`). `PayInv` adds to the earlier invariants that this holds of a hand with a result (`PaysRight`); one lemma for each method that ends a hand.
* `CardsAreShownRight`: `OnShow` walks the seats in showdown order. `ShowInv` says which of them have had their turn
  (`PlaceTaken`, `FirstOnes`) and that a seat which mucked is beaten in every pot on every board by one that has shown; what a
  seat wins is then compared pot by pot, so that who wins at a showdown has not mucked, and with its turn over has shown.
* `CardsArePlayed`, `TheBoardsAreApart`, `TheShowdownIsByTheRules`: the hand with its cards, for every deck and deal (`DealsAssumption`: each card
  once) and any number of seats. `CardInv` adds to `PayInv` that the boards are stretches of the deck no longer than what was drawn (`Laid`), that on the river
  the strengths are what `Evaluate` says of the boards (`Ranked5`), and that cards are compared on the river only (`ShownLast`). One lemma for each method shows that only
  `Advance` and `RunItTwice` touch the cards (`UndealingKeepsCards`). So a hand with its cards is a hand of `PokerHand`, given that the strengths which that module leaves open include
  the evaluator's numbers (`StrengthsAssumption`), and all theorems about `Spec` hold of it. `TheShowdownIsByTheRules` has the hypothesis `OrderedByTheRules`, that
  the evaluator orders *five* cards by the rules: that is a table of numbers, which the run works out for its whole deck. The theorem adds what
  no table shows, that from five cards to seven, two boards, folds, all-ins and side pots the money goes by that order.
* `PhasesAreShown`: the refinement of `TableHand`. `PhaseInv` (`AccountInv`, `ShowInv`, and `Funded`: everybody was dealt in with chips)
  makes the mapped engine state a legal picture, and one lemma for each method shows that the engine's result is
  among those the abstract call allows.

`TableActorProofs` proves for every set of seats, settings, commands that are sent, number of streets, limit of missed turns and
number of late callbacks:

* `TableInvHolds`: `TableInv` is the conjunction of the types, what each player's record
  says (`PlayerSound`), that the seats of the hand keep their players and its turn is playable (`HandHeld`), what may be put off and when (`PutOff`),
  a table without a hand (`NoHandLeft`), votes (`VotesFit`), the timer (`TimerHeld`) and the noted start (`Noted`).
  The actor's functions are operators from table to table, so there is one lemma for each of them,
  which says that the function keeps `TableInv` and that it only goes where a step may go (`Goes`): the three properties of steps follow from the same lemmas
  as the invariant. `Within` bounds what the engine may return. `AutoPlayed`, the recursive function that plays actions chosen
  ahead, is handled by induction over the sets of seats that have still to play.
* `SeatsFit`, `NothingIsLeft`: `SeatsFitTheHand` and `NothingLingers`.
* `TimerIsArmed`: `Spec /\ [](t.votes # NoVote => ~HandDone(t)) => []TableMovesOn`. The hypothesis, that no vote outlives its hand, is what the code does not
  guarantee: without it the theorem is false (section 4). The instances of the runs do not combine votes with leaving, so they satisfy it.
* `HandsEnd`: the step property `HandsEndInResults`.
* `TurnsAreChargedRight`: the step property `TurnsAreCharged`. That a bank which runs belongs to the player to act (`BankFits`) is a part of the invariant; that it
  is emptied in no other turn (`BankSpent`) and which turns count as missed (`MissedFairly`) is shown of each of the actor's functions.

`TableSeatsProofs` proves `SeatsAgreeAlways`, `MovesAlwaysKeepTheRules` and `HostRulesAlwaysHold` for any number of seats and
players, any settings, cooldown and bounds, assuming that `Nobody` is no player and that settings allow at most `MaxSeats`
(`SeatsAssumption`). `SeatsInv` adds to the properties that who waits for a seat owes a blind and waits alone (`Promised`), that who sits
elsewhere than dealt in last owes a blind (`Posts`), that the hand the table noted for the last move of a player with a seat is the one the history knows (`lastMove`, `Watching`), that nobody waits when there is no hand (`Cleared`), and that the clock runs (`ClockFits`).
`applyPendingSeatChanges` is a recursive function over the seats; that it has a value for every number of seats, and that its
result has no move left to make (`MovesKeep`), is an induction over `0 .. MaxSeats` stated with sets (`Climb`). There is one lemma for each
command (`StepShown`), which shows the invariant and all three rules at once.

`TableStoreProofs` proves `OutcomesAreOwn`, `TheStoreCatchesUp` and `TheRowsAreSound` for any players, number of seats, settings, length of
the queue, number of attempts, commands, crashes and restarts (`StoreAssumption`: finitely many players, at least one
seat, one attempt and one chip). What the rows say is only right with the queue beside them, and the queue holds jobs of several commands. A
*view* is what one moment of the actor's memory would show in the rows: the row of each player, of the table, the hand that is open, the one that has
not been counted, and the one a finish job would be for. `Step` says what each kind of job makes of a view, and when it may come next: an insert only with no
hand open and with a higher number than any before it, a finish only for the last hand inserted, results only for a hand not counted, a
player's row only if no two who come back have one seat. `RowsLagBehindMemory` is the invariant `StoreInv`: some
run of views leads through the queue, from what the rows show to what the memory shows (`Lag`). A command adds the views of its jobs at
the end (one lemma for each command, about the jobs it enqueues and their order), an executed job drops the first, a failed attempt none, a job given up
leaves only what holds of rows with a gap (`Shows`), and a crash keeps the first view and forgets the others. With the run empty, rows and memory agree; each view of
it is sound by itself, wherever it is cut. That a finish never meets another's row needs besides that `handRowID` is the hand
the view names or none.

`ProfileProofs` is about who a player is. Of sign-ins it proves `PasswordsEndSessions`, `NoProfileIsLost`, `PagesGetTheirPerson` and `SignInsAreGood` for every number of profiles,
handles, identities, flows, overlapping requests and codes, assuming that the absence of a profile is not one (`NobodyIsNone`) and that the ids of
flows, waits and handoffs are no results (`FlowsAreApart`). The state does not say whose a sign-in was once it is forgotten, so a part of the invariant `SignInInv` (`Owners`) is about ghosts: there are a person for each
flow and a set of codes that were put back with which every flow, claim and session fits. Its other parts: profiles of rows and workers exist, codes are drawn before they are used,
a handler has its flow, the server a flow was started for is the one its page named, a code is answered once and a claim is held by one worker or waits in one place, never both; with these, a session is traced back to one approval.

Of friends it proves, for every set of profiles, tables, invitations and overlapping requests and from no
assumption, `BlockSeparatesAlways`, `ScreensAgreeAlways` and `OneInvitationAlways`. The inductive invariant
(`FriendsInv`, `FriendsAreSound`) adds to the properties that a friendship is two rows (`Mutual`), that two profiles never ask each
other (`OneWay`), that friends do not ask (`FriendsClear`), and that nothing is in flight across a block unless it had looked before (`BlockClear`):
without the last, a busy worker could write what a block has just cleared. `FriendsInvStep` has one step for each action and one below it for each conjunct.

`SocketsProofs` proves `ConnectedAreReached` and `NothingQueuedIsLost` for any number of connections and people, and all limits
and lengths of queues, assuming positive limits (`LimitsArePositive`), connections of known kinds (`EndpointsAreKinds`) and that nobody is not somebody (`NobodyIsApart`).
`SocketsInv`: types, a closed wire whose writer has ended has written what it had, each handler at the door of its kind, a connection once on
the hub's list and on it exactly while it is served, and a table that is up sends to the newest.

`BotsProofs` proves `BotsActOnTheTable` for any number of bots of both kinds, guests, turns, lost connections and crashes, assuming that
nobody is a bot of both kinds or a guest as well (`BotTableAssumption`). It is about goroutines, those of bots that connect included. The invariant `BotsInv`
(`BotsStayUpToDate`) says that a goroutine which runs and was not stopped is attached, and that the newest snapshot it has, in its mailbox or in mind, tells its turn as
the table has it. Every step of the actor ends in a snapshot for everybody attached (`StepInforms`), so one lemma (`StepKeepsOne`) serves all commands, timers and hosts;
what leaves a goroutine without one is a kick, the stop of the table, a crash, or the connection that replaces it (`AttachInforms`), and each of these stops it. With that,
a bot that has thought compares its last turn with the turn of the table. The pause is not needed for it: `ThinksInTime` matters for `BotPlaysItsTurn`, not for this.

**Only model-checked.**

* `EquityIsFair`, `NotesAreTrue` and `OrderedByTheRules`: what the evaluator, `Equity` and `Read` compute is a sort and a sum over data, which is
  worked out for every case of a small deck.
* All liveness: the prover has neither `ENABLED` nor fairness of steps.

## 6. Plan

1. Larger instances where a proof shows which bound matters; instances of votes with leaving once the code settles that case.

## 7. Not modelled

* Rate limits: token buckets in floating point behind one lock; a property would restate the arithmetic.
* Views, chat, drawings, names, statistics, achievements, highlights: what is shown or counted, none of it changes the game.
  Message formats (`protocol.go`) are data without behaviour.
* Join policy, validation of single settings, profile texts and pictures, the limit of live tables: one check
  and one assignment each.
* Signatures, key sets and HTTP to issuers; hashing; migrations; routing, configuration, start-up and the `simulate` command: libraries and
  wiring, without state the components share.
* The sampling branch of `Equity`: it is random. The strategy of bots: any action is allowed.
* The frontend renders snapshots; its reconnection mirrors `botclient`, which `BotClient` models.
