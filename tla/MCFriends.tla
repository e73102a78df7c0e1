----------------------------- MODULE MCFriends -----------------------------
(* Every action is about one pair of profiles, so two profiles and no bound *)
(* on the rows between them show every interleaving of a pair; the proofs   *)
(* have the rows of other pairs.                                            *)
EXTENDS Friends, TLC

Symmetry == Permutations(Accounts) \cup Permutations(InviteIds)
            \cup Permutations(FriendWorkers)
=============================================================================
