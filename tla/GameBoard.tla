------------------------------ MODULE GameBoard ------------------------------
(* What the mini games of src/game share: the picker of the difficulty     *)
(* that each game with an opponent opens with, and a cursor in a grid.     *)
EXTENDS Integers

(* A game's record has menu, its picker being open, and pos, "hard" or     *)
(* "easy" in it.  Up and Down move in the picker, Left and Right do        *)
(* nothing.                                                                *)
InPicker(g, key) ==
    CASE key = "up"     -> [g EXCEPT !.pos = "easy"]
      [] key = "down"   -> [g EXCEPT !.pos = "hard"]
      [] key \in {"left", "right"} -> g

(* A cell of a grid w cells wide, counted from 0: a move off the edge is   *)
(* no move.                                                                *)
InGrid(cell, key, w, h) ==
    CASE key = "up"    -> IF cell >= w THEN cell - w ELSE cell
      [] key = "down"  -> IF cell + w < w * h THEN cell + w ELSE cell
      [] key = "left"  -> IF cell % w # 0 THEN cell - 1 ELSE cell
      [] key = "right" -> IF cell % w < w - 1 THEN cell + 1 ELSE cell

Arrows == {"up", "down", "left", "right"}
=============================================================================
