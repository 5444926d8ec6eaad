------------------------------ MODULE LightsOut ------------------------------
(* Lights Out (src/game/lightsout.rs): a press toggles a lamp and its      *)
(* neighbours, the game is over when all are off.  A board is the set of   *)
(* its lit cells.                                                          *)
EXTENDS GameBoard, FiniteSets

CONSTANTS
    Toggles,     \* the numbers of random toggles a game begins with, 8 .. 12 in the code
    MaxToggles   \* bound: presses on lamps

ASSUME LightsAssumption == Toggles \subseteq Nat \ {0} /\ MaxToggles \in Nat

VARIABLE lights   \* the statics: open, board, cursor, moves, solved, unsolvable

GRID == 5
Lamps == 0 .. GRID * GRID - 1
Row(i) == i \div GRID
Col(i) == i % GRID
----------------------------------------------------------------------------
(* toggle: a lamp and those above, below, left and right of it. *)

(* Mutated form of Cross: the lamp before the first of a row is the last   *)
(* of the row above.                                                       *)
CrossAround(i) == {j \in Lamps : j - i \in {0, 1, -1, GRID, -GRID}}

Cross(i) == {j \in Lamps : \/ Col(j) = Col(i) /\ Row(j) - Row(i) \in -1 .. 1
                           \/ Row(j) = Row(i) /\ Col(j) - Col(i) \in -1 .. 1}
Toggle(b, i) == (b \ Cross(i)) \cup (Cross(i) \ b)

(* is_solvable: an even number of lamps lit in either mask. *)
MASK_ROWS == {i \in Lamps : Row(i) \in {0, 2, 4} /\ Col(i) \in {0, 1, 3, 4}}
MASK_COLS == {i \in Lamps : Col(i) \in {0, 2, 4} /\ Row(i) \in {0, 1, 3, 4}}
IsSolvable(b) == \A mask \in {MASK_ROWS, MASK_COLS} : Cardinality(b \cap mask) % 2 = 0
----------------------------------------------------------------------------
(* A closed game: opening sets all of it anew. *)
DarkBoard == [open |-> FALSE, board |-> {}, cursor |-> 12, moves |-> 0,
              solved |-> FALSE, unsolvable |-> FALSE]

(* Some toggles from the dark board; one that is dark again gets one more. *)
AnyToggle(boards) == {Toggle(b, i) : b \in boards, i \in Lamps}
Scrambled(n) ==
    LET after[k \in 0 .. n] == IF k = 0 THEN {{}} ELSE AnyToggle(after[k - 1])
    IN  after[n]
LightsOpen ==
    /\ ~lights.open
    /\ \E n \in Toggles : \E b \in Scrambled(n) :
          lights' = [DarkBoard EXCEPT !.open = TRUE, !.board = IF b = {} THEN Toggle(b, 12) ELSE b]

LightsMoves ==
    /\ lights.open
    /\ \E key \in Arrows : lights' = [lights EXCEPT !.cursor = InGrid(@, key, GRID, GRID)]

(* activate.  A board that cannot be solved ends the game without reward.  *)
Press ==
    /\ lights.open /\ ~lights.solved /\ ~lights.unsolvable
    /\ lights.moves < MaxToggles
    /\ LET lit == Toggle(lights.board, lights.cursor)
       IN  lights' = [lights EXCEPT !.board = lit, !.moves = @ + 1, !.solved = (lit = {}),
                        !.unsolvable = (lit # {} /\ ~IsSolvable(lit))]

(* Cancel at any time, Fire when the game is over. *)
LightsClose == lights.open /\ lights' = DarkBoard

LightsInit == lights = DarkBoard

LightsNext == LightsOpen \/ LightsMoves \/ Press \/ LightsClose

LightsSpec == LightsInit /\ [][LightsNext]_lights
----------------------------------------------------------------------------
(* A game starts with a lamp lit, and no press makes it one that cannot be *)
(* solved: the end that activate keeps for such a board is never reached   *)
(* (lightsout.rs:47-49, "in theory unreachable from a solvable `open()`    *)
(* start").                                                                *)
AlwaysSolvable ==
    /\ lights.open => (lights.solved <=> lights.board = {})
    /\ ~lights.unsolvable /\ IsSolvable(lights.board)
=============================================================================
