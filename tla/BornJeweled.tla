----------------------------- MODULE BornJeweled -----------------------------
(* Born Jeweled (src/game/bornjeweled.rs): two neighbouring gems are       *)
(* swapped; runs of three or more are cleared, the gems above fall, new    *)
(* ones come, again and again while there are runs.  Whoever has points    *)
(* is rewarded when the game is closed; here points are some or none.      *)
EXTENDS GameBoard, FiniteSets, SequencesExt

CONSTANTS
    BOARD_W, BOARD_H,     \* cells of a row, of a column
    Gems,                 \* kinds of gems
    MOVES_LIMIT,          \* swaps of a game
    MAX_CASCADE_ITERS     \* rounds of clearing after a swap

ASSUME JewelsAssumption ==
    {BOARD_W, BOARD_H, MOVES_LIMIT, MAX_CASCADE_ITERS} \subseteq Nat \ {0} /\ 0 \notin Gems

VARIABLE jewels   \* the statics: open, board, cursor, start, moves, scored, over

SWAP_NONE == 255
Spots == 0 .. BOARD_W * BOARD_H - 1
RowOf(i) == i \div BOARD_W
ColOf(i) == i % BOARD_W
----------------------------------------------------------------------------
(* try_match: the cells of three or more equal gems in a row or a column.  *)
Threes == {{i, i + 1, i + 2} : i \in {i \in Spots : ColOf(i) + 2 < BOARD_W}}
          \cup {{i, i + BOARD_W, i + 2 * BOARD_W} : i \in {i \in Spots : RowOf(i) + 2 < BOARD_H}}
Runs(b) == UNION {t \in Threes : \E g \in Gems : \A i \in t : b[i] = g}

(* apply_gravity once the runs are gone: what is left of a column lies at  *)
(* its bottom in the order it had, under new gems.                         *)
Refilled(b) ==
    LET gone  == Runs(b)
        left  == [c \in 0 .. BOARD_W - 1 |->
                     SelectSeq([r \in 1 .. BOARD_H |-> (r - 1) * BOARD_W + c], LAMBDA i : i \notin gone)]
        above(c) == BOARD_H - Len(left[c])
        fresh == {i \in Spots : RowOf(i) < above(ColOf(i))}
    IN  {[i \in Spots |-> IF i \in fresh THEN new[i]
                          ELSE b[left[ColOf(i)][RowOf(i) - above(ColOf(i)) + 1]]] :
            new \in [fresh -> Gems]}

(* run_cascade: the boards it may end with. *)
Cascaded(b) ==
    FoldLeft(LAMBDA boards, k : UNION {IF Runs(x) = {} THEN {x} ELSE Refilled(x) : x \in boards},
             {b}, [k \in 1 .. MAX_CASCADE_ITERS |-> k])
----------------------------------------------------------------------------
(* A closed game: opening sets all of it anew. *)
NoJewels == [open |-> FALSE, board |-> << >>, cursor |-> 0, start |-> SWAP_NONE,
             moves |-> 0, scored |-> FALSE, over |-> FALSE]

(* A board of random gems, settled without scoring. *)
JewelsOpen ==
    /\ ~jewels.open
    /\ \E first \in [Spots -> Gems] : \E b \in Cascaded(first) :
          jewels' = [NoJewels EXCEPT !.open = TRUE, !.board = b]

JewelsMove ==
    /\ jewels.open
    /\ \E key \in Arrows : jewels' = [jewels EXCEPT !.cursor = InGrid(@, key, BOARD_W, BOARD_H)]

JewelsPick ==
    /\ jewels.open /\ ~jewels.over /\ jewels.start = SWAP_NONE
    /\ jewels' = [jewels EXCEPT !.start = jewels.cursor]

(* The second Fire: a swap of neighbours that makes no run is undone and   *)
(* costs nothing, and so does one of cells apart.                          *)
Adjacent(i, j) == \/ ColOf(i) = ColOf(j) /\ RowOf(i) - RowOf(j) \in {1, -1}
                  \/ RowOf(i) = RowOf(j) /\ ColOf(i) - ColOf(j) \in {1, -1}
JewelsSwap ==
    /\ jewels.open /\ ~jewels.over /\ jewels.start # SWAP_NONE
    /\ LET swapped == [jewels.board EXCEPT ![jewels.start] = jewels.board[jewels.cursor],
                                           ![jewels.cursor] = jewels.board[jewels.start]]
           moves == jewels.moves + 1
       IN  IF Adjacent(jewels.start, jewels.cursor) /\ Runs(swapped) # {}
           THEN \E settled \in Cascaded(swapped) :
                   jewels' = [jewels EXCEPT !.board = settled, !.start = SWAP_NONE, !.scored = TRUE,
                                !.moves = moves, !.over = (moves >= MOVES_LIMIT)]
           ELSE jewels' = [jewels EXCEPT !.start = SWAP_NONE]

(* Cancel at any time, Fire when the game is over.  Points are rewarded.   *)
JewelsClose == jewels.open /\ jewels' = NoJewels

JewelsInit == jewels = NoJewels

JewelsNext == JewelsOpen \/ JewelsMove \/ JewelsPick \/ JewelsSwap \/ JewelsClose

JewelsSpec == JewelsInit /\ [][JewelsNext]_jewels
----------------------------------------------------------------------------
(* The board has no hole whatever was cleared, and the reward at the end   *)
(* is for a run the owner made: there are points just when a move counted  *)
(* (bornjeweled.rs:106-110, "Score from this settle isn't counted").       *)
PointsAreEarned ==
    jewels.open =>
        /\ \A i \in Spots : jewels.board[i] \in Gems
        /\ jewels.scored <=> jewels.moves > 0
=============================================================================
