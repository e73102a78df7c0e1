------------------------------ MODULE BoardNotes ------------------------------
(* What a player is told about a board (poker/notes.go): what the hand is,     *)
(* what it can still become and what the board holds for everybody.            *)
EXTENDS Cards

(* Sets of ranks, with the ace also below the two.                             *)
WithWheel(ranks) == {ranks} \cup (IF Ace \in ranks THEN {(ranks \ {Ace}) \cup {-1}} ELSE {})

FlushSuits(board) == {s \in 0 .. 3 : Cardinality(Suited(board, s)) >= 3}

PairedRanks(board) == {r \in RanksOf(board) : Cardinality(Ranked(board, r)) > 1}

(* Three ranks within five in a row.                                           *)
StraightOnBoard(board) ==
    \E ranks \in WithWheel(RanksOf(board)) : \E r \in ranks : Cardinality(ranks \cap (r .. r + 4)) >= 3

FlushDraw(all) == \E s \in 0 .. 3 : Cardinality(Suited(all, s)) = 4

StraightFromRanks(have) == \E ranks \in WithWheel(have) : \E r \in ranks : r .. r + 4 \subseteq ranks

(* The ranks of the deck that complete a straight: ranks, not cards.           *)
StraightOuts(all) ==
    {r \in RanksOf(Deck) \ RanksOf(all) : StraightFromRanks(RanksOf(all) \cup {r})}

StraightDraw(all) ==
    CASE Cardinality(StraightOuts(all)) >= 2 -> {"open_ended"}
      [] Cardinality(StraightOuts(all)) = 1  -> {"gutshot"}
      [] OTHER                               -> {}

\* Mutant: hands are compared by their category only.
IsNutsOfItsKind(hole, board) ==
    \A more \in kSubset(2, Deck \ (board \cup HoleInBest(hole, board))) :
        Category(Evaluate(more \cup board)) <= Category(Evaluate({hole[1], hole[2]} \cup board))

(* No two cards left make a better hand; a hole card that is not in the best   *)
(* five counts as left.                                                        *)
IsNuts(hole, board) ==
    \A more \in kSubset(2, Deck \ (board \cup HoleInBest(hole, board))) :
        Evaluate(more \cup board) <= Evaluate({hole[1], hole[2]} \cup board)

Overcard(value, board) == {r \in RanksOf(board) : r > (value \div 16 ^ 4) % 16}

(* Read: the notes on the hand, then those on the board, three at most.        *)
MaxNotes == 3
Read(hole, board) ==
    LET all    == {hole[1], hole[2]} \cup board
        value  == Evaluate(all)
        class  == Category(value)
        toCome == Cardinality(board) < 5
        note(id, if) == IF if THEN <<id>> ELSE <<>>
        mine   == note("nuts", IsNuts(hole, board))
                  \o note("flush_draw", toCome /\ class < Flush /\ FlushDraw(all))
                  \o (IF toCome /\ class < Straight THEN SetToSeq(StraightDraw(all)) ELSE <<>>)
                  \o note("overcard", class = OnePair /\ Overcard(value, board) # {})
        suits  == FlushSuits(board)
        theirs == note("flush_landed", \E s \in suits : board \subseteq Suited(board, s) /\ Cardinality(board) = 5)
                  \o note("flush_possible", suits # {} /\ \A s \in suits : Cardinality(Suited(board, s)) < 5)
                  \o note("straight_possible", StraightOnBoard(board))
                  \o note("board_paired", PairedRanks(board) # {})
        scary  == note("scary_for_everyone", theirs # <<>> /\ class < Straight /\ mine = <<>>)
        out    == mine \o theirs \o scary
    IN  IF Cardinality(board) < 3 THEN <<>> ELSE SubSeq(out, 1, Min({MaxNotes, Len(out)}))

Says(id, hole, board) == id \in Range(Read(hole, board))

-------------------------------------------------------------------------------
(* What the notes mean, by the rules.                                          *)

HasStraight(cards) == \E five \in Fives(cards) : Runs(Shape(five)) # {}

(* Nobody beats a hand that is told to be the nuts; the outs of a hand without *)
(* a straight are the ranks in the deck that make one; and a straight is       *)
(* possible on a board exactly when two cards make one.                        *)
NotesTell(hole, board) ==
    LET all  == {hole[1], hole[2]} \cup board
        outs == {r \in RanksOf(Deck \ all) : \E c \in Ranked(Deck, r) \ all : HasStraight(all \cup {c})}
    IN  /\ Says("nuts", hole, board) =>
             \A more \in kSubset(2, Deck \ all) : Evaluate(more \cup board) <= Evaluate(all)
        /\ Category(Evaluate(all)) < Straight => StraightOuts(all) = outs
        /\ StraightOnBoard(board) <=> \E more \in kSubset(2, Deck \ board) : HasStraight(more \cup board)
==============================================================================
