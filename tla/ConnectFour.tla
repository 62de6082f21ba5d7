---------------------------- MODULE ConnectFour -----------------------------
(***************************************************************************)
(* Connect Four as the referee plays it (engine/connectfour/game.py), and  *)
(* the board the API rebuilds from the stored columns (api/main.py, and    *)
(* frontend/src/pages/matchReplay.js by the same rule).                    *)
(***************************************************************************)
EXTENDS Integers, FiniteSets, FiniteSetsExt

CONSTANTS ROWS, COLUMNS     (* 6 and 7 in the code *)

ASSUME SizeAssumption == {ROWS, COLUMNS} \subseteq Nat \ {0}

VARIABLES
  grid,     (* the referee's board                          *)
  current,  (* current_player                               *)
  replay    (* the board rebuilt from the accepted columns  *)

vars == <<grid, current, replay>>

EMPTY == " "
Rows == 0..ROWS - 1
Columns == 0..COLUMNS - 1
Cells == Rows \X Columns
Blank == [r \in Rows |-> [c \in Columns |-> EMPTY]]

Directions == {<<0, 1>>, <<1, 0>>, <<1, 1>>, <<1, -1>>}

LegalMoves == {c \in Columns : grid[0][c] = EMPTY}

(* Four equal markers from a cell on; a direction is convex, so the last   *)
(* cell is in the grid exactly if all are.                                 *)
HasThreeFrom(row, col, d) ==
  /\ row + 2 * d[1] \in Rows
  /\ col + 2 * d[2] \in Columns
  /\ \A k \in 1..2 : grid[row + k * d[1]][col + k * d[2]] = grid[row][col]

HasFourFrom(row, col, d) ==
  /\ row + 3 * d[1] \in Rows
  /\ col + 3 * d[2] \in Columns
  /\ \A k \in 1..3 : grid[row + k * d[1]][col + k * d[2]] = grid[row][col]

(* The marker of the first cell, row by row, that starts four in a row.    *)
Winner ==
  LET starts == {cell \in Cells :
                   /\ grid[cell[1]][cell[2]] # EMPTY
                   /\ \E d \in Directions : HasFourFrom(cell[1], cell[2], d)}
      first == Min({cell[1] * COLUMNS + cell[2] : cell \in starts})
  IN  IF starts = {} THEN EMPTY ELSE grid[first \div COLUMNS][first % COLUMNS]

IsGameOver == Winner # EMPTY \/ LegalMoves = {}

Moves == Cardinality({cell \in Cells : grid[cell[1]][cell[2]] # EMPTY})

Init ==
  /\ grid = Blank
  /\ current = "X"
  /\ replay = Blank

(* drop_marker and apply_move_to_board: the lowest empty row of a column.  *)
FreeRows(board, column) == {r \in Rows : board[r][column] = EMPTY}
Drop(board, column, marker) ==
  IF FreeRows(board, column) = {} THEN board
  ELSE [board EXCEPT ![Max(FreeRows(board, column))][column] = marker]

ReplayMarker == IF Moves % 2 = 0 THEN "X" ELSE "O"
Replayed(column) == Drop(replay, column, ReplayMarker)

(* A bot may ask for any integer; drop_marker turns down a column outside  *)
(* the board or full.                                                      *)
MakeMoveOnFinished(column) ==
  /\ column \in Columns
  /\ FreeRows(grid, column) # {}
  /\ grid' = Drop(grid, column, current)
  /\ current' = IF current = "X" THEN "O" ELSE "X"
  /\ replay' = Replayed(column)

MakeMove(column) ==
  /\ column \in Columns
  /\ FreeRows(grid, column) # {}
  /\ ~ IsGameOver
  /\ grid' = Drop(grid, column, current)
  /\ current' = IF current = "X" THEN "O" ELSE "X"
  /\ replay' = Replayed(column)

Next == \E column \in -1..COLUMNS : MakeMove(column)

Spec == Init /\ [][Next]_vars

-----------------------------------------------------------------------------
(* Properties.                                                             *)

Outcome == LET winner == Winner IN
  IF winner # EMPTY THEN winner ELSE IF LegalMoves = {} THEN "draw" ELSE "open"

(* The game the referee plays, as GameRules sees it.                       *)
Rules == INSTANCE GameRules WITH MaxMoves <- ROWS * COLUMNS, MinMoves <- 7,
                                 moves <- Moves, outcome <- Outcome

(* A player has won exactly if four cells in a line, in any direction,     *)
(* hold the player's marker: scanning from every cell in four of the eight *)
(* directions misses none.                                                 *)
Quad(r, c, d, e) == {<<r + k * d, c + k * e>> : k \in 0..3}
Quads == {Quad(r, c, d, e) : r \in Rows, c \in Columns, d \in -1..1, e \in -1..1}
InLine == {q \in Quads : Cardinality(q) = 4 /\ q \subseteq Cells}
WinnerHasFour ==
  {Winner} \ {EMPTY} =
    {p \in {"X", "O"} : \E q \in InLine : \A cell \in q : grid[cell[1]][cell[2]] = p}

=============================================================================
