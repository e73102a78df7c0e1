---------------------------- MODULE MCTableActor ----------------------------
(* Small instances of TableActor: settings and the commands that are sent. *)
EXTENDS TableActor, TLC

Base == [autoStart |-> FALSE, runItTwice |-> FALSE, rebuy |-> TRUE,
         bank |-> FALSE, refill |-> FALSE]
Auto == [Base EXCEPT !.autoStart = TRUE, !.rebuy = FALSE]
Full == [Base EXCEPT !.runItTwice = TRUE, !.bank = TRUE, !.refill = TRUE]

\* Everything that ends or interrupts a hand; chips and automatic
\* starts at a table without rebuys, and callbacks that arrive late.
LifeInstances ==
  {[settings |-> {Base}, late |-> FALSE,
    commands |-> {"leave", "sit_out", "end"}],
   [settings |-> {Base}, late |-> FALSE, commands |-> {"leave", "pause", "end"}],
   [settings |-> {Auto}, late |-> FALSE, commands |-> {"chips", "sit_out"}],
   [settings |-> {Base}, late |-> TRUE, commands |-> {"show"}]}

\* What happens within a hand: votes, time banks and connections; banks that
\* are not refilled, with actions chosen ahead; votes, actions chosen ahead,
\* late reveals and callbacks; leaving, chips, sitting out and settings.
TurnInstances ==
  {[settings |-> {Full}, late |-> FALSE,
    commands |-> {"run_twice", "connect", "disconnect"}],
   [settings |-> {[Base EXCEPT !.bank = TRUE, !.rebuy = FALSE]}, late |-> FALSE,
    commands |-> {"connect", "pre_action"}],
   [settings |-> {Full}, late |-> TRUE,
    commands |-> {"run_twice", "show", "pre_action"}],
   [settings |-> {Base, [Base EXCEPT !.rebuy = FALSE]}, late |-> FALSE,
    commands |-> {"leave", "sit_out", "chips", "settings"}]}
\* The least that overtakes a start: the host pauses and resumes.
PauseInstances ==
  {[settings |-> {Base}, late |-> FALSE, commands |-> {"pause"}]}
Symmetry == Permutations(Seats)
=============================================================================
