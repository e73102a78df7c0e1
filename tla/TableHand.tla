----------------------------- MODULE TableHand ------------------------------
(***************************************************************************)
(* What the hand engine promises its table: one hand, from the deal to the *)
(* result, in the steps of HandPhases.                                     *)
(***************************************************************************)
EXTENDS HandPhases

VARIABLE hand

Init == \E D \in SUBSET Seats : Cardinality(D) >= 2 /\ hand \in Opened(D)

Next ==
  \/ hand.phase = "betting" /\ hand' \in Applied(hand) \cup TimedOut(hand)
  \/ \E s \in Seats : hand' \in Forfeited(hand, s)
  \/ hand.phase = "deal_pending" /\ hand' \in Advanced(hand)
  \/ CanRunItTwice(hand) /\ hand' = RanTwice(hand)
  \/ hand.phase = "showdown" /\ hand' \in Revealed(hand)

TableHandSpec == Init /\ [][Next]_hand
=============================================================================
