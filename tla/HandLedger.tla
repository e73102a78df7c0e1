----------------------------- MODULE HandLedger -----------------------------
(***************************************************************************)
(* What a hand promises about chips, without saying how poker is played.   *)
(* Every chip is in a seat's stack or has been paid into the hand by a     *)
(* known seat.  Until the hand is over chips only travel between a seat's  *)
(* own stack and what that seat has paid.  When it is over everything that *)
(* was paid is back in stacks, and a seat that left the hand holds no more *)
(* than its own chips.                                                     *)
(***************************************************************************)
EXTENDS Pots

CONSTANT Seats

VARIABLES
  stack,  \* chips a seat holds
  paid,   \* chips a seat has in the hand
  live,   \* seats that can still win
  over    \* the hand has a result

ledger == <<stack, paid, live, over>>

LedgerInit ==
  /\ stack \in [Seats -> Nat]
  /\ paid \in [Seats -> Nat]
  /\ live = Seats
  /\ over = FALSE

Play ==
  /\ ~over /\ ~over'
  /\ live' \subseteq live /\ live' # {}
  /\ \A s \in Seats : stack'[s] + paid'[s] = stack[s] + paid[s]

Award ==
  /\ ~over /\ over'
  /\ live' \subseteq live /\ live' # {}
  /\ \A s \in Seats : paid'[s] = 0
  /\ Total(stack') = Total(stack) + Total(paid)
  /\ \A s \in Seats \ live' : stack'[s] <= stack[s] + paid[s]

LedgerSpec == LedgerInit /\ [][Play \/ Award]_ledger
=============================================================================
