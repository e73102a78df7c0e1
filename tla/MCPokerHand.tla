---------------------------- MODULE MCPokerHand ----------------------------
(* Small instances of PokerHand: who sits where, settings and stacks. *)
EXTENDS PokerHand

Plain == [button |-> Max(Seats), sb |-> 1, bb |-> 2, ante |-> 0,
          dead |-> [s \in Seats |-> 0], straddleSeat |-> NoSeat,
          straddle |-> 0, reveal |-> "in_order"]
PlainConfigs == {Plain}
\* One live dead blind, nobody near all-in.
DeadBlindConfigs == {[Plain EXCEPT !.dead[1] = 2]}

HeadsUpConfigs ==
  {[Plain EXCEPT !.ante = a, !.reveal = r] : a \in {0, 1}, r \in RevealPolicies}

\* Three-handed with the button on the last seat: the straddler is the button.
ForcedConfigs ==
  {[Plain EXCEPT !.ante = 1, !.dead[1] = 2],
   [Plain EXCEPT !.ante = 1, !.dead[1] = 2, !.reveal = "all"],
   [Plain EXCEPT !.straddleSeat = Max(Seats), !.straddle = 4],
   [Plain EXCEPT !.straddleSeat = Max(Seats), !.straddle = 4,
                 !.dead[Max(Seats)] = 2, !.reveal = "winners_only"]}

AllConfigs == PlainConfigs \cup ForcedConfigs
\* Stacks for three pots where there is nothing but blinds, with one of them
\* short; where more is posted, stacks that a blind with the ante takes all of,
\* or a straddle nearly.
StacksOf(c) ==
  IF c \in PlainConfigs
  THEN {stacks \in [Seats -> {1, 3, 4}] : \E s \in Seats : stacks[s] = 1}
  ELSE [Seats -> {2, 5}]
MCInit == cfg \in Configs /\ \E stacks \in StacksOf(cfg) : h = NewHand(stacks)
MCSpec == MCInit /\ [][Next]_vars

Ranks3 == 0 .. 2
\* One strength function per weak order of the seats.
WeakOrders ==
  {f \in [Seats -> 0 .. Cardinality(Seats) - 1] :
     \A s \in Seats : f[s] = Cardinality({f[t] : t \in {u \in Seats : f[u] < f[s]}})}
=============================================================================
