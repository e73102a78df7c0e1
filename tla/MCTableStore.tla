---------------------------- MODULE MCTableStore ----------------------------
(* TableStore for TLC.                                                        *)
EXTENDS TableStore, TLC

CONSTANTS p1, p2, p3
Three == {p1, p2, p3}
CashAndTournament == {[rebuy |-> r, autoStart |-> TRUE] : r \in BOOLEAN}
=============================================================================
