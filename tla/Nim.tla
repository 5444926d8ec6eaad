--------------------------------- MODULE Nim ---------------------------------
(* Nim (src/game/nim.rs): rows of sticks, whoever takes the last one       *)
(* loses.  The owner picks a row, then a count; the EI answers within the  *)
(* same press, on Hard with misere_optimal, on Normal with any move.       *)
EXTENDS GameBoard, Sequences, FiniteSets, FiniteSetsExt, Functions, SequencesExt

CONSTANT INITIAL_ROWS   \* sticks of each row at the start

ASSUME NimAssumption ==
    /\ INITIAL_ROWS \in Seq(0 .. 255) /\ INITIAL_ROWS # << >>
    /\ \E i \in DOMAIN INITIAL_ROWS : INITIAL_ROWS[i] > 0

VARIABLES
    nim,    \* the statics: open, menu, pos, hard, rows, phase, cursor, take, human, result
    ahead   \* history: the EI last had a board it could win from

nimVars == <<nim, ahead>>
----------------------------------------------------------------------------
(* Moves, and the boards that are lost for who is to move: what            *)
(* misere_optimal is measured against.                                     *)

ROWS == DOMAIN INITIAL_ROWS
Sticks(b) == FoldFunction(+, 0, b)
Legal(b) == UNION {{<<r, n>> : n \in 1 .. b[r]} : r \in ROWS}
Taken(b, move) == [b EXCEPT ![move[1]] = @ - move[2]]

(* The numbers, written in binary and added without carry. *)
Bit(n, k) == (n \div 2^k) % 2
NimSum(numbers) ==
    MapThenSumSet(LAMBDA k : 2^k * (Cardinality({i \in DOMAIN numbers : Bit(numbers[i], k) = 1}) % 2),
                  0 .. 7)

Lost(b) ==
    IF \E r \in ROWS : b[r] >= 2 THEN NimSum(b) = 0
    ELSE Cardinality({r \in ROWS : b[r] = 1}) % 2 = 1

(* It is the boards from which every move leads to one that is not lost;   *)
(* who finds no stick has won.                                             *)
Boards == {b \in [ROWS -> 0 .. Max(Range(INITIAL_ROWS))] : \A r \in ROWS : b[r] <= INITIAL_ROWS[r]}
ASSUME LostAssumption ==
    \A b \in Boards : Lost(b) <=> (Sticks(b) > 0 /\ \A move \in Legal(b) : ~Lost(Taken(b, move)))
----------------------------------------------------------------------------
(* The EI's move. *)

(* misere_optimal: one row of two or more is cut to leave an odd number of *)
(* rows of one stick; with more such rows the nim sum is made 0.           *)
Optimal(b) ==
    LET big    == {r \in ROWS : b[r] >= 2}
        ones   == {r \in ROWS : b[r] = 1}
        sum    == NimSum(b)
        better == {r \in ROWS : NimSum(<<b[r], sum>>) < b[r]}
        most   == {r \in ROWS : \A q \in ROWS : b[q] <= b[r]}
    IN  IF big = {} THEN <<Min(ones), 1>>
        ELSE IF Cardinality(big) = 1 THEN <<Min(big), b[Min(big)] - (1 - (Cardinality(ones) % 2))>>
        ELSE IF better # {} THEN <<Min(better), b[Min(better)] - NimSum(<<b[Min(better)], sum>>)>>
        ELSE <<Max(most), 1>>

(* random_move takes any count from any row that has sticks. *)
EiMoves(hard, b) == IF hard THEN {Optimal(b)} ELSE Legal(b)

(* ei_turn, with board b: the cursor leaves a row that is empty now. *)
EiTurn(g, b) ==
    /\ \E move \in EiMoves(g.hard, b) :
          LET left == Taken(b, move)
          IN  nim' = IF Sticks(left) = 0
                     THEN [g EXCEPT !.rows = left, !.result = "human", !.phase = "over"]
                     ELSE [g EXCEPT !.rows = left, !.human = TRUE, !.phase = "row",
                              !.cursor = IF left[@] = 0 THEN Min({r \in ROWS : left[r] > 0}) ELSE @]
    /\ ahead' = ~Lost(b)
----------------------------------------------------------------------------
(* Key presses. *)

(* A closed game: opening and the picker set all of it anew. *)
NoNim == [open |-> FALSE, menu |-> TRUE, pos |-> "hard", hard |-> TRUE,
          rows |-> INITIAL_ROWS, phase |-> "row", cursor |-> Len(INITIAL_ROWS),
          take |-> 1, human |-> TRUE, result |-> "none"]

(* A coin decides who begins. *)
NimOpen ==
    /\ ~nim.open
    /\ \E first \in BOOLEAN : nim' = [NoNim EXCEPT !.open = TRUE, !.human = first]
    /\ UNCHANGED ahead

NimPicker ==
    /\ nim.open /\ nim.menu
    /\ \E key \in Arrows : nim' = InPicker(nim, key)
    /\ UNCHANGED ahead

(* Fire in the picker starts the game, with the EI's move if it is first. *)
NimStart ==
    /\ nim.open /\ nim.menu
    /\ LET g == [nim EXCEPT !.hard = (nim.pos = "hard"), !.menu = FALSE]
       IN  IF g.human THEN nim' = g /\ UNCHANGED ahead ELSE EiTurn(g, g.rows)

(* Cancel at any time, Fire when the game is over. *)
NimCloses == nim.open /\ nim' = NoNim /\ ahead' = FALSE

Picking(phase) ==
    /\ nim.open /\ ~nim.menu /\ nim.result = "none"
    /\ nim.human /\ nim.phase = phase

(* Up and Down go to the next row that has sticks, if there is one. *)
NimUp ==
    /\ Picking("row")
    /\ LET rows == {r \in ROWS : r < nim.cursor /\ nim.rows[r] > 0}
       IN  rows # {} /\ nim' = [nim EXCEPT !.cursor = Max(rows)]
    /\ UNCHANGED ahead
NimDown ==
    /\ Picking("row")
    /\ LET rows == {r \in ROWS : r > nim.cursor /\ nim.rows[r] > 0}
       IN  rows # {} /\ nim' = [nim EXCEPT !.cursor = Min(rows)]
    /\ UNCHANGED ahead

NimConfirmRow ==
    /\ Picking("row") /\ nim.rows[nim.cursor] > 0
    /\ nim' = [nim EXCEPT !.take = 1, !.phase = "count"]
    /\ UNCHANGED ahead

NimMore ==
    /\ Picking("count") /\ nim.take < nim.rows[nim.cursor]
    /\ nim' = [nim EXCEPT !.take = @ + 1] /\ UNCHANGED ahead
NimFewer ==
    /\ Picking("count") /\ nim.take > 1
    /\ nim' = [nim EXCEPT !.take = @ - 1] /\ UNCHANGED ahead

(* Who takes the last stick has lost; else the EI moves at once. *)
NimTake ==
    /\ Picking("count") /\ nim.take <= nim.rows[nim.cursor]
    /\ LET left == Taken(nim.rows, <<nim.cursor, nim.take>>)
       IN  IF Sticks(left) = 0
           THEN /\ nim' = [nim EXCEPT !.rows = left, !.result = "ei", !.phase = "over"]
                /\ UNCHANGED ahead
           ELSE EiTurn([nim EXCEPT !.human = FALSE, !.phase = "row"], left)

NimInit == nim = NoNim /\ ahead = FALSE

NimNext ==
    \/ NimOpen \/ NimPicker \/ NimStart \/ NimCloses
    \/ NimUp \/ NimDown \/ NimConfirmRow \/ NimMore \/ NimFewer \/ NimTake

NimSpec == NimInit /\ [][NimNext]_nimVars
----------------------------------------------------------------------------
(* draw: the row ringed for the owner, and the sticks that Fire will take, *)
(* the last of the row.                                                    *)
Ringed == IF Picking("row") THEN {nim.cursor} ELSE {}
Dithered == IF Picking("count")
            THEN {c \in 1 .. nim.rows[nim.cursor] : c > nim.rows[nim.cursor] - nim.take} ELSE {}

(* On Hard the EI never gives a won game away: once it has had a board it  *)
(* can win from, the owner has a lost one, or has lost (nim.rs:11-13,      *)
(* "always optimal").  And the owner is always asked about a row that has  *)
(* sticks, and a count of at least one.                                    *)
NimIsSound ==
    /\ nim.hard /\ ahead =>
          /\ nim.result # "human"
          /\ nim.result = "none" => Lost(nim.rows)
    /\ \A r \in Ringed : nim.rows[r] > 0
    /\ Picking("count") => Dithered # {}
=============================================================================
