------------------------------ MODULE BlackHole ------------------------------
(* Black Hole (src/game/blackhole.rs): owner and EI place their numbers 1, *)
(* 2, 3, ... in turn on a triangle of cells, the owner first; the cell     *)
(* that stays empty is the hole and who has the lower sum next to it wins. *)
(* A cell is a row and a column in it, both from 0.                        *)
EXTENDS GameBoard, FiniteSets, FiniteSetsExt, SequencesExt

CONSTANT HOLE_ROWS   \* ROWS

ASSUME BlackHoleAssumption == HOLE_ROWS \in Nat \ {0, 1}

VARIABLE tokens   \* the statics: open, menu, pos, hard, board, cursor, moves, result, hole

Cells == UNION {{<<r, c>> : c \in 0 .. r} : r \in 0 .. HOLE_ROWS - 1}
LastMove == Cardinality(Cells) - 1

Neighbours(cell) ==
    LET r == cell[1]  c == cell[2]
    IN  {<<r, c - 1>>, <<r, c + 1>>, <<r - 1, c - 1>>, <<r - 1, c>>, <<r + 1, c>>, <<r + 1, c + 1>>}
        \cap Cells

(* A token is its owner and its number; << >> is an empty cell. *)
Empty(b) == {cell \in Cells : b[cell] = << >>}
Sum(b, cells, who) ==
    MapThenSumSet(LAMBDA cell : b[cell][2], {cell \in cells \ Empty(b) : b[cell][1] = who})
SumNext(b, cell, who) == Sum(b, Neighbours(cell), who)
----------------------------------------------------------------------------
(* ai_play: the cell where the owner's sums exceed the EI's the most, on   *)
(* average over the holes there can be; Hard adds what the number and the  *)
(* neighbours are worth.  Any of the best.                                 *)
CONNECTIVITY_THRESHOLD == 5
CONNECTIVITY_BONUS == 60
TERRITORY_BONUS == 2

(* i32 division rounds to zero. *)
Quotient(n, d) == IF n < 0 THEN -((-n) \div d) ELSE n \div d
Lead(b, cell) == SumNext(b, cell, "owner") - SumNext(b, cell, "ei")

Worth(b, cell, n, hard) ==
    LET after == [b EXCEPT ![cell] = <<"ei", n>>]
        holes == Empty(after)
        norm  == IF holes = {} THEN 0
                 ELSE Quotient(1000 * MapThenSumSet(LAMBDA hole : Lead(after, hole), holes),
                               Cardinality(holes))
        bonus == Cardinality(Neighbours(cell))
                 * (IF n <= CONNECTIVITY_THRESHOLD THEN CONNECTIVITY_BONUS ELSE -CONNECTIVITY_BONUS)
    IN  IF hard THEN norm + bonus + Lead(b, cell) * n * TERRITORY_BONUS ELSE norm

BestCells(b, n, hard) ==
    {cell \in Empty(b) : \A other \in Empty(b) : Worth(b, other, n, hard) <= Worth(b, cell, n, hard)}
----------------------------------------------------------------------------
(* A closed game: opening and the picker set all of it anew. *)
NoHole == <<HOLE_ROWS, 0>>
NoTokens == [open |-> FALSE, menu |-> TRUE, pos |-> "hard", hard |-> TRUE,
             board |-> [cell \in Cells |-> << >>], cursor |-> <<HOLE_ROWS - 1, 0>>,
             moves |-> 0, result |-> "none", hole |-> NoHole]

TokensOpen == ~tokens.open /\ tokens' = [NoTokens EXCEPT !.open = TRUE]

TokensPicker ==
    /\ tokens.open /\ tokens.menu
    /\ \E key \in Arrows : tokens' = InPicker(tokens, key)

TokensStart ==
    /\ tokens.open /\ tokens.menu
    /\ tokens' = [tokens EXCEPT !.hard = (tokens.pos = "hard"), !.menu = FALSE]

(* Cancel at any time, Fire when the game is over. *)
TokensClose == tokens.open /\ tokens' = NoTokens

(* Up keeps to the edge of the shorter row. *)
TokensMove ==
    /\ tokens.open /\ ~tokens.menu
    /\ \E to \in LET r == tokens.cursor[1]  c == tokens.cursor[2]
                 IN  {<<r, c - 1>>, <<r, c + 1>>, <<r + 1, c>>,
                      <<r - 1, IF c < r THEN c ELSE r - 1>>} \cap Cells :
          tokens' = [tokens EXCEPT !.cursor = to]

(* finish_game: the first empty cell is the hole. *)
Ended(g) ==
    LET hole == CHOOSE cell \in Empty(g.board) : \A other \in Empty(g.board) :
                    \/ cell[1] < other[1] \/ (cell[1] = other[1] /\ cell[2] <= other[2])
        lead == Lead(g.board, hole)
    IN  [g EXCEPT !.hole = hole,
           !.result = IF lead < 0 THEN "owner" ELSE IF lead > 0 THEN "ei" ELSE "tie"]

Finish(g) == IF g.moves >= LastMove THEN Ended(g) ELSE g

(* Fire on an empty cell drops the owner's number, and the EI's if there   *)
(* are cells left.                                                         *)
Drop ==
    /\ tokens.open /\ ~tokens.menu /\ tokens.result = "none" /\ tokens.moves % 2 = 0
    /\ tokens.board[tokens.cursor] = << >>
    /\ LET n   == tokens.moves \div 2 + 1
           own == [tokens EXCEPT !.board[tokens.cursor] = <<"owner", n>>, !.moves = @ + 1]
       IN  IF own.moves >= LastMove THEN tokens' = Ended(own)
           ELSE \E cell \in BestCells(own.board, n, own.hard) :
                   tokens' = Finish([own EXCEPT !.board[cell] = <<"ei", n>>, !.moves = @ + 1])

TokensInit == tokens = NoTokens

TokensNext == TokensOpen \/ TokensPicker \/ TokensStart \/ TokensClose \/ TokensMove \/ Drop

TokensSpec == TokensInit /\ [][TokensNext]_tokens
----------------------------------------------------------------------------
(* Every number is on the board once for each side, and a game that is     *)
(* over has one hole: the winner is who would have won on that board, the  *)
(* side whose numbers next to the one empty cell are lower.                *)
TokensAreCounted ==
    tokens.open =>
        LET placed == {tokens.board[cell] : cell \in Cells \ Empty(tokens.board)}
            h == tokens.hole
        IN  /\ Cardinality(placed) = tokens.moves
            /\ placed = {<<"owner", n>> : n \in 1 .. (tokens.moves + 1) \div 2}
                        \cup {<<"ei", n>> : n \in 1 .. tokens.moves \div 2}
            /\ tokens.result # "none" => Empty(tokens.board) = {h}
=============================================================================
