----------------------------- MODULE TicTacToe ------------------------------
(***************************************************************************)
(* Tic-Tac-Toe as the referee plays it (engine/tictactoe/game.py), and the *)
(* board the API rebuilds from the stored moves of the match (api/main.py, *)
(* and frontend/src/pages/matchReplay.js by the same rule).                *)
(***************************************************************************)
EXTENDS Integers, Sequences, FiniteSets, FiniteSetsExt

VARIABLES
  grid,     (* the referee's board                          *)
  current,  (* current_player                               *)
  replay    (* the board rebuilt from the accepted moves    *)

vars == <<grid, current, replay>>

EMPTY == " "
Side == 0..2
Cells == Side \X Side
Blank == [r \in Side |-> [c \in Side |-> EMPTY]]
At(cell) == grid[cell[1]][cell[2]]

(* Rows, columns and diagonals, in the order winner() looks at them.       *)
LinesWithoutAntiDiagonal ==
  [i \in 1..3 |-> [k \in 1..3 |-> <<i - 1, k - 1>>]]
  \o [i \in 1..3 |-> [k \in 1..3 |-> <<k - 1, i - 1>>]]
  \o << [k \in 1..3 |-> <<k - 1, k - 1>>] >>

Lines ==
  [i \in 1..3 |-> [k \in 1..3 |-> <<i - 1, k - 1>>]]
  \o [i \in 1..3 |-> [k \in 1..3 |-> <<k - 1, i - 1>>]]
  \o << [k \in 1..3 |-> <<k - 1, k - 1>>], [k \in 1..3 |-> <<k - 1, 3 - k>>] >>

LegalMoves == {c \in Cells : At(c) = EMPTY}

(* The marker of the first complete line, EMPTY if there is none.          *)
Winner ==
  LET complete == {i \in 1..Len(Lines) :
                     /\ At(Lines[i][1]) # EMPTY
                     /\ \A k \in 1..3 : At(Lines[i][k]) = At(Lines[i][1])}
  IN  IF complete = {} THEN EMPTY ELSE At(Lines[Min(complete)][1])

IsGameOver == Winner # EMPTY \/ LegalMoves = {}

Init ==
  /\ grid = Blank
  /\ current = "X"
  /\ replay = Blank

Moves == Cardinality({c \in Cells : At(c) # EMPTY})

(* The stored move, replayed with the marker its index calls for.          *)
ReplayMarkerFromOne == IF (Moves + 1) % 2 = 0 THEN "X" ELSE "O"
ReplayMarker == IF Moves % 2 = 0 THEN "X" ELSE "O"
ApplyMoveToBoard(row, col) ==
  replay' = [replay EXCEPT ![row][col] = ReplayMarker]

(* A bot may ask for any integers; place_marker turns down what is outside *)
(* the board or taken.                                                     *)
MakeMoveOnFinished(row, col) ==
  /\ <<row, col>> \in Cells
  /\ grid[row][col] = EMPTY
  /\ grid' = [grid EXCEPT ![row][col] = current]
  /\ current' = IF current = "X" THEN "O" ELSE "X"
  /\ ApplyMoveToBoard(row, col)

MakeMove(row, col) ==
  /\ ~ IsGameOver
  /\ <<row, col>> \in Cells
  /\ grid[row][col] = EMPTY
  /\ grid' = [grid EXCEPT ![row][col] = current]
  /\ current' = IF current = "X" THEN "O" ELSE "X"
  /\ ApplyMoveToBoard(row, col)

Next == \E row, col \in -1..3 : MakeMove(row, col)

Spec == Init /\ [][Next]_vars

-----------------------------------------------------------------------------
(* Properties.                                                             *)

Outcome == IF Winner # EMPTY THEN Winner
           ELSE IF LegalMoves = {} THEN "draw" ELSE "open"

(* The game the referee plays, as GameRules sees it.                       *)
Rules == INSTANCE GameRules WITH MaxMoves <- 9, MinMoves <- 5,
                                 moves <- Moves, outcome <- Outcome

(* At most one player has a complete line, so the order in which winner()  *)
(* looks at the lines does not matter; and it finds any line there is.     *)
HasLine(p) ==
  \/ \E i \in 0..2 : (\A k \in 0..2 : grid[i][k] = p)
                     \/ (\A k \in 0..2 : grid[k][i] = p)
  \/ \A k \in 0..2 : grid[k][k] = p
  \/ \A k \in 0..2 : grid[k][2 - k] = p
WinnerHasTheLine ==
  \A p \in {"X", "O"} : HasLine(p) <=> Winner = p

=============================================================================
