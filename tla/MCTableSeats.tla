----------------------------- MODULE MCTableSeats -----------------------------
(* TableSeats for TLC.                                                         *)
EXTENDS TableSeats, TLC

CONSTANTS p1, p2, p3
Three == {p1, p2, p3}

Cash(n) == [max |-> n, tournament |-> FALSE, rebuy |-> TRUE, blindsUp |-> TRUE]
CashGrowing == {Cash(2), Cash(3), [Cash(3) EXCEPT !.tournament = TRUE, !.rebuy = FALSE]}
=============================================================================
