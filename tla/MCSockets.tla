----------------------------- MODULE MCSockets -----------------------------
(* One table and one profile.  User connections share nothing with game     *)
(* connections but the count of the address, so they are not mixed, and     *)
(* they meet a table that is over; the others find everybody seated.        *)
EXTENDS Sockets, TLC

Mixes == {[c \in Conns |-> kind] : kind \in {"player", "user"}}
         \cup {[c \in Conns |-> IF c = CHOOSE d \in Conns : TRUE THEN "player" ELSE "viewer"]}

MCInit ==
    /\ Init
    /\ IF \E c \in Conns : IsGame(c)
       THEN table = "up" /\ seated = People
       ELSE table = "stopped" /\ seated = {}

MCSpec == MCInit /\ [][Next]_vars
MCFairSpec == MCSpec /\ Fairness
=============================================================================
