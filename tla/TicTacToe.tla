------------------------------ MODULE TicTacToe ------------------------------
(* Tic-tac-toe (src/game/tictactoe.rs): the owner, X, begins, the EI       *)
(* answers within the same press, on Impossible with a full minimax over   *)
(* the games that can follow, on Normal with any free cell.                *)
EXTENDS GameBoard, FiniteSets, FiniteSetsExt

VARIABLE ttt   \* the statics: open, menu, pos, hard, board, cursor, result

CELLS == 0 .. 8
LINES == {{0, 1, 2}, {3, 4, 5}, {6, 7, 8}, {0, 3, 6}, {1, 4, 7}, {2, 5, 8}, {0, 4, 8}, {2, 4, 6}}

Free(b) == {i \in CELLS : b[i] = "empty"}
HasLine(b, mark) == \E line \in LINES : \A i \in line : b[i] = mark

(* check_board: X, O or a draw, or a game that goes on. *)
Outcome(b) ==
    IF HasLine(b, "X") THEN "X" ELSE IF HasLine(b, "O") THEN "O"
    ELSE IF Free(b) = {} THEN "draw" ELSE "none"
----------------------------------------------------------------------------
(* The EI's move. *)

(* An ended game, to the EI: an early win is best, an early loss worst. *)
Value(outcome, depth) ==
    CASE outcome = "O" -> 10 - depth
      [] outcome = "X" -> depth - 10
      [] outcome = "draw" -> 0

(* minimax: the EI's best of the EI's moves, the owner's of hers. *)
RECURSIVE Minimax(_, _, _)
Minimax(b, ai, depth) ==
    IF Outcome(b) # "none" THEN Value(Outcome(b), depth)
    ELSE LET mark   == IF ai THEN "O" ELSE "X"
             values == {Minimax([b EXCEPT ![i] = mark], ~ai, depth + 1) : i \in Free(b)}
         IN  IF ai THEN Max(values) ELSE Min(values)

(* The first of the best cells. *)
BestCell(b) ==
    LET value == [i \in Free(b) |-> Minimax([b EXCEPT ![i] = "O"], FALSE, 0)]
        best  == Max({value[i] : i \in Free(b)})
    IN  Min({i \in Free(b) : value[i] = best})

AiCells(b) == IF ttt.hard THEN {BestCell(b)} ELSE Free(b)
----------------------------------------------------------------------------
(* Key presses. *)

(* A closed game: opening and the picker set all of it anew. *)
NoGame == [open |-> FALSE, menu |-> TRUE, pos |-> "hard", hard |-> TRUE,
           board |-> [i \in CELLS |-> "empty"], cursor |-> 4, result |-> "none"]

TttOpen == ~ttt.open /\ ttt' = [NoGame EXCEPT !.open = TRUE]

TttPicker ==
    /\ ttt.open /\ ttt.menu
    /\ \E key \in Arrows : ttt' = InPicker(ttt, key)

TttStart ==
    /\ ttt.open /\ ttt.menu
    /\ ttt' = [ttt EXCEPT !.hard = (ttt.pos = "hard"), !.menu = FALSE]

(* Cancel at any time, Fire when the game is over. *)
TttCloses == ttt.open /\ ttt' = NoGame

TttMoves ==
    /\ ttt.open /\ ~ttt.menu
    /\ \E key \in Arrows : ttt' = [ttt EXCEPT !.cursor = InGrid(@, key, 3, 3)]

(* Fire on a free cell places an X, and the EI's O if the game goes on. *)
Place ==
    /\ ttt.open /\ ~ttt.menu /\ ttt.result = "none"
    /\ ttt.cursor \in Free(ttt.board)
    /\ LET own == [ttt.board EXCEPT ![ttt.cursor] = "X"]
       IN  IF Outcome(own) # "none"
           THEN ttt' = [ttt EXCEPT !.board = own, !.result = Outcome(own)]
           ELSE \E i \in AiCells(own) :
                   LET both == [own EXCEPT ![i] = "O"]
                   IN  ttt' = [ttt EXCEPT !.board = both, !.result = Outcome(both)]

TttInit == ttt = NoGame

TttNext == TttOpen \/ TttPicker \/ TttStart \/ TttCloses \/ TttMoves \/ Place

TttSpec == TttInit /\ [][TttNext]_ttt
----------------------------------------------------------------------------
(* On Impossible the owner never wins, whatever she plays                  *)
(* (tictactoe.rs:55-56, "perfect minimax").                                *)
ImpossibleNeverLoses == ttt.hard => ttt.result # "X"
=============================================================================
