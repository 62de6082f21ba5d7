-------------------------- MODULE AlgorithmsProofs --------------------------
(***************************************************************************)
(* Proofs about the sequential algorithms: the games, for Connect Four on  *)
(* a board of any size, and the validation of an upload, for every file,   *)
(* limit and size of the ELF structures.                                   *)
(***************************************************************************)
EXTENDS Games, Executable, Sequences, DataLemmas

Marks == {"X", "O"}

(* X has as many marks on the board as O when it is X's turn, and one more *)
(* when it is O's.                                                         *)
Ahead(turn) == IF turn = "X" THEN 0 ELSE 1

LEMMA MarkFacts ==
  /\ "X" \in Marks /\ "O" \in Marks /\ EMPTY \notin Marks
  /\ \A p \in Marks : p # EMPTY /\ p # "draw" /\ p # "open"
BY DEF Marks, EMPTY

(* The parity of the index of a move gives the player whose turn it is.    *)
LEMMA TurnByParity ==
  ASSUME NEW m \in Nat, NEW turn \in Marks
  PROVE  (IF (m + Ahead(turn) + m) % 2 = 0 THEN "X" ELSE "O") = turn
<1>1. (m + 0 + m) % 2 = 0
  OBVIOUS
<1>2. (m + 1 + m) % 2 = 1
  OBVIOUS
<1>3. CASE turn = "X"
  BY <1>1, <1>3 DEF Ahead
<1>4. CASE turn = "O"
  BY <1>2, <1>4 DEF Ahead
<1> QED
  BY <1>3, <1>4 DEF Marks

-----------------------------------------------------------------------------
(* Tic-Tac-Toe.                                                            *)

SmallBoards == [TicTacToe!Side -> [TicTacToe!Side -> Marks \cup {EMPTY}]]
SmallMarked(p) == {c \in TicTacToe!Cells : grid[c[1]][c[2]] = p}

(* The replayed board is the played one, the marks are balanced, and never *)
(* have both players a line, which a board alone does not exclude: a game  *)
(* that is won goes no further.                                            *)
SmallInv ==
  /\ grid \in SmallBoards /\ current \in Marks
  /\ replay = grid
  /\ Cardinality(SmallMarked("X"))
       = Cardinality(SmallMarked("O")) + Ahead(current)
  /\ ~ (TicTacToe!HasLine("X") /\ TicTacToe!HasLine("O"))

(* The instance sees the operators of the standard modules by names of its *)
(* own.                                                                    *)
LEMMA SameOperators ==
  /\ \A S : TicTacToe!Cardinality(S) = Cardinality(S)
  /\ \A S : TicTacToe!Min(S) = Min(S)
  /\ TicTacToe!EMPTY = EMPTY
<1>1. ASSUME NEW S PROVE TicTacToe!Cardinality(S) = Cardinality(S)
  BY Zenon DEF TicTacToe!Cardinality, Cardinality
<1>2. ASSUME NEW S PROVE TicTacToe!Min(S) = Min(S)
  BY Zenon DEF TicTacToe!Min, Min
<1>3. TicTacToe!EMPTY = EMPTY
  BY DEF TicTacToe!EMPTY, EMPTY
<1> QED
  BY <1>1, <1>2, <1>3

LEMMA SmallFinite ==
  /\ IsFiniteSet(TicTacToe!Cells) /\ Cardinality(TicTacToe!Cells) = 9
  /\ \A p : /\ IsFiniteSet(SmallMarked(p)) /\ Cardinality(SmallMarked(p)) \in Nat
            /\ SmallMarked(p) \subseteq TicTacToe!Cells
<1>1. IsFiniteSet(TicTacToe!Side) /\ Cardinality(TicTacToe!Side) = 3
  <2>1. 0 \in Int /\ 2 \in Int
    OBVIOUS
  <2>2. IsFiniteSet(0..2) /\ Cardinality(0..2) = IF 0 > 2 THEN 0 ELSE 2 - 0 + 1
    BY <2>1, FS_Interval, Zenon
  <2> QED
    BY <2>2 DEF TicTacToe!Side
<1>2. IsFiniteSet(TicTacToe!Cells) /\ Cardinality(TicTacToe!Cells) = 9
  BY <1>1, FS_Product DEF TicTacToe!Cells
<1>3. ASSUME NEW p
      PROVE  /\ IsFiniteSet(SmallMarked(p)) /\ Cardinality(SmallMarked(p)) \in Nat
             /\ SmallMarked(p) \subseteq TicTacToe!Cells
  <2>1. SmallMarked(p) \subseteq TicTacToe!Cells
    BY DEF SmallMarked
  <2>2. IsFiniteSet(SmallMarked(p))
    BY <1>2, <2>1, FS_Subset
  <2> QED
    BY <2>1, <2>2, FS_CardinalityType
<1> QED
  BY <1>2, <1>3

(* Every accepted move is on the board, as one player's mark.              *)
LEMMA SmallMoves ==
  grid \in SmallBoards =>
    TicTacToe!Moves = Cardinality(SmallMarked("X")) + Cardinality(SmallMarked("O"))
<1> SUFFICES ASSUME grid \in SmallBoards
             PROVE  TicTacToe!Moves
                      = Cardinality(SmallMarked("X")) + Cardinality(SmallMarked("O"))
  OBVIOUS
<1> DEFINE Taken == {c \in TicTacToe!Cells : TicTacToe!At(c) # TicTacToe!EMPTY}
<1>1. \A c \in TicTacToe!Cells : grid[c[1]][c[2]] \in Marks \cup {EMPTY}
  BY DEF SmallBoards, TicTacToe!Cells
<1>2. Taken = SmallMarked("X") \cup SmallMarked("O")
  BY <1>1, MarkFacts DEF SmallMarked, Marks, TicTacToe!At, TicTacToe!EMPTY, EMPTY
<1>3. SmallMarked("X") \cap SmallMarked("O") = {}
  BY DEF SmallMarked
<1>4. Cardinality(Taken) = Cardinality(SmallMarked("X"))
        + Cardinality(SmallMarked("O")) - Cardinality({})
  BY <1>2, <1>3, SmallFinite, FS_Union
<1>5. Cardinality({}) = 0
  BY FS_EmptySet
<1>6. Cardinality(Taken) = Cardinality(SmallMarked("X"))
        + Cardinality(SmallMarked("O"))
  BY <1>4, <1>5, SmallFinite
<1> QED
  BY <1>6, SameOperators, Zenon DEF TicTacToe!Moves

(* winner() looks at the eight lines there are.                            *)
LEMMA SmallLines ==
  /\ Len(TicTacToe!Lines) = 8
  /\ \A i, k \in 0..2 :
       /\ TicTacToe!Lines[i + 1][k + 1] = <<i, k>>
       /\ TicTacToe!Lines[i + 4][k + 1] = <<k, i>>
       /\ TicTacToe!Lines[7][k + 1] = <<k, k>>
       /\ TicTacToe!Lines[8][k + 1] = <<k, 2 - k>>
BY DEF TicTacToe!Lines

(* The marks along one of the eight lines are all of one player.           *)
Along(p, i) == \A k \in 1..3 : TicTacToe!At(TicTacToe!Lines[i][k]) = p

LEMMA SmallHasLine ==
  ASSUME NEW p
  PROVE  TicTacToe!HasLine(p) <=> \E i \in 1..8 : Along(p, i)
<1>1. ASSUME NEW i \in 0..2
      PROVE  /\ Along(p, i + 1) <=> \A k \in 0..2 : grid[i][k] = p
             /\ Along(p, i + 4) <=> \A k \in 0..2 : grid[k][i] = p
  <2>1. \A k \in 0..2 : TicTacToe!Lines[i + 1][k + 1] = <<i, k>>
                       /\ TicTacToe!Lines[i + 4][k + 1] = <<k, i>>
    BY SmallLines
  <2>2. ASSUME NEW q, \A k \in 0..2 : TicTacToe!At(TicTacToe!Lines[q][k + 1]) = p
        PROVE  Along(p, q)
    BY <2>2 DEF Along
  <2>3. ASSUME NEW q, Along(p, q)
        PROVE  \A k \in 0..2 : TicTacToe!At(TicTacToe!Lines[q][k + 1]) = p
    BY <2>3 DEF Along
  <2>4. Along(p, i + 1) <=> \A k \in 0..2 : grid[i][k] = p
    BY <2>1, <2>2, <2>3 DEF TicTacToe!At
  <2>5. Along(p, i + 4) <=> \A k \in 0..2 : grid[k][i] = p
    BY <2>1, <2>2, <2>3 DEF TicTacToe!At
  <2> QED
    BY <2>4, <2>5
<1>2. Along(p, 7) <=> \A k \in 0..2 : grid[k][k] = p
  BY SmallLines DEF Along, TicTacToe!At
<1>3. Along(p, 8) <=> \A k \in 0..2 : grid[k][2 - k] = p
  BY SmallLines DEF Along, TicTacToe!At
<1> QED
  BY <1>1, <1>2, <1>3 DEF TicTacToe!HasLine

(* What winner() finds has a line, and it finds one if there is one.       *)
Found ==
  /\ TicTacToe!Winner \in Marks \cup {EMPTY}
  /\ \A p \in Marks : TicTacToe!Winner = p => TicTacToe!HasLine(p)
  /\ \A p \in Marks : TicTacToe!HasLine(p) => TicTacToe!Winner # EMPTY

LEMMA SmallWinner == grid \in SmallBoards => Found
<1> SUFFICES ASSUME grid \in SmallBoards PROVE Found
  OBVIOUS
<1> DEFINE complete == {i \in 1..Len(TicTacToe!Lines) :
                          /\ TicTacToe!At(TicTacToe!Lines[i][1]) # TicTacToe!EMPTY
                          /\ \A k \in 1..3 : TicTacToe!At(TicTacToe!Lines[i][k])
                               = TicTacToe!At(TicTacToe!Lines[i][1])}
           first == Min(complete)
<1>1. TicTacToe!Winner = IF complete = {} THEN EMPTY
                         ELSE TicTacToe!At(TicTacToe!Lines[first][1])
  BY SameOperators, Zenon DEF TicTacToe!Winner
<1>2. \A i \in 1..8 : TicTacToe!At(TicTacToe!Lines[i][1]) \in Marks \cup {EMPTY}
  <2>1. \A i \in 1..8 : TicTacToe!Lines[i][1] \in TicTacToe!Cells
    <3>1. ASSUME NEW i \in 0..2
          PROVE  /\ TicTacToe!Lines[i + 1][0 + 1] = <<i, 0>>
                 /\ TicTacToe!Lines[i + 4][0 + 1] = <<0, i>>
                 /\ TicTacToe!Lines[7][0 + 1] = <<0, 0>>
                 /\ TicTacToe!Lines[8][0 + 1] = <<0, 2 - 0>>
      <4>1. 0 \in 0..2
        OBVIOUS
      <4> QED
        BY <4>1, SmallLines, Zenon
    <3>2. \A i \in 0..2 : <<i, 0>> \in TicTacToe!Cells /\ <<0, i>> \in TicTacToe!Cells
      BY DEF TicTacToe!Cells, TicTacToe!Side
    <3>3. \A i \in 1..8 : i \in {7, 8} \/ i - 1 \in 0..2 \/ i - 4 \in 0..2
      OBVIOUS
    <3> QED
      BY <3>1, <3>2, <3>3
  <2>2. \A c \in TicTacToe!Cells : grid[c[1]][c[2]] \in Marks \cup {EMPTY}
    BY DEF SmallBoards, TicTacToe!Cells
  <2> QED
    BY <2>1, <2>2 DEF TicTacToe!At
<1>3. complete # {} => first \in complete
  <2>1. complete \in SUBSET Nat
    BY SmallLines
  <2> HIDE DEF complete
  <2> QED
    BY <2>1, MinOfNaturals
<1>4. \A p \in Marks : TicTacToe!HasLine(p) => complete # {}
  BY SameOperators, SmallHasLine, SmallLines, MarkFacts DEF Along
<1>5. \A i \in complete : Along(TicTacToe!At(TicTacToe!Lines[i][1]), i)
  BY DEF Along
<1> HIDE DEF complete, first
<1>6. complete \subseteq 1..8
  BY SmallLines DEF complete
<1>7. \A i \in complete : TicTacToe!At(TicTacToe!Lines[i][1]) # EMPTY
  BY SameOperators DEF complete
<1>8. ASSUME NEW p \in Marks, TicTacToe!Winner = p PROVE TicTacToe!HasLine(p)
  <2>1. complete # {}
    BY <1>1, <1>8, MarkFacts
  <2>2. first \in 1..8 /\ Along(p, first)
    BY <1>1, <1>3, <1>5, <1>6, <1>8, <2>1
  <2> QED
    BY <2>2, SmallHasLine
<1>9. TicTacToe!Winner \in Marks \cup {EMPTY}
  BY <1>1, <1>2, <1>3, <1>6
<1>10. \A p \in Marks : TicTacToe!HasLine(p) => TicTacToe!Winner # EMPTY
  BY <1>1, <1>3, <1>4, <1>7
<1> QED
  BY <1>8, <1>9, <1>10 DEF Found

LEMMA SmallWinnerHasTheLine == SmallInv => TicTacToe!WinnerHasTheLine
<1> SUFFICES ASSUME SmallInv, NEW p \in Marks
             PROVE  TicTacToe!HasLine(p) <=> TicTacToe!Winner = p
  BY DEF TicTacToe!WinnerHasTheLine, Marks
<1>1. Found /\ p # EMPTY
  BY SmallWinner, MarkFacts DEF SmallInv
<1>2. \A q \in Marks : TicTacToe!HasLine(p) /\ TicTacToe!HasLine(q) => p = q
  BY DEF SmallInv, Marks
<1> QED
  BY <1>1, <1>2 DEF Found

(* The board is full when there have been nine moves.                      *)
SmallFilled ==
  /\ TicTacToe!Moves \in 0..9
  /\ TicTacToe!LegalMoves = {} <=> TicTacToe!Moves = 9

LEMMA SmallFull == grid \in SmallBoards => SmallFilled
<1> DEFINE Taken == {c \in TicTacToe!Cells : TicTacToe!At(c) # TicTacToe!EMPTY}
<1>1. TicTacToe!Moves = Cardinality(Taken)
  BY SameOperators, Zenon DEF TicTacToe!Moves
<1>2. TicTacToe!LegalMoves = {} <=> Taken = TicTacToe!Cells
  BY DEF TicTacToe!LegalMoves
<1>3. Taken \in SUBSET TicTacToe!Cells
  OBVIOUS
<1> HIDE DEF Taken
<1> QED
  BY <1>1, <1>2, <1>3, SmallFinite, PartOfFinite DEF SmallFilled

(* A line is three cells.                                                  *)
SmallLongLines ==
  \A p \in Marks : TicTacToe!HasLine(p) => Cardinality(SmallMarked(p)) >= 3

LEMMA SmallLineLength == SmallLongLines
<1> SUFFICES ASSUME NEW p \in Marks, TicTacToe!HasLine(p)
             PROVE  Cardinality(SmallMarked(p)) >= 3
  BY DEF SmallLongLines
<1>1. ASSUME NEW r \in 0..2, NEW c \in 0..2, grid[r][c] = p
      PROVE  <<r, c>> \in SmallMarked(p)
  BY <1>1 DEF SmallMarked, TicTacToe!Cells, TicTacToe!Side
<1>2. ASSUME NEW i \in 0..2, \A k \in 0..2 : grid[i][k] = p
      PROVE  Cardinality(SmallMarked(p)) >= 3
  <2>1. /\ <<i, 0>> \in SmallMarked(p) /\ <<i, 1>> \in SmallMarked(p)
        /\ <<i, 2>> \in SmallMarked(p)
    BY <1>1, <1>2
  <2>2. <<i, 0>> # <<i, 1>> /\ <<i, 0>> # <<i, 2>> /\ <<i, 1>> # <<i, 2>>
    OBVIOUS
  <2> QED
    BY <2>1, <2>2, SmallFinite, ThreeElements, Zenon
<1>3. ASSUME NEW i \in 0..2, \A k \in 0..2 : grid[k][i] = p
      PROVE  Cardinality(SmallMarked(p)) >= 3
  <2>1. /\ <<0, i>> \in SmallMarked(p) /\ <<1, i>> \in SmallMarked(p)
        /\ <<2, i>> \in SmallMarked(p)
    BY <1>1, <1>3
  <2>2. <<0, i>> # <<1, i>> /\ <<0, i>> # <<2, i>> /\ <<1, i>> # <<2, i>>
    OBVIOUS
  <2> QED
    BY <2>1, <2>2, SmallFinite, ThreeElements, Zenon
<1>4. ASSUME \A k \in 0..2 : grid[k][k] = p
      PROVE  Cardinality(SmallMarked(p)) >= 3
  <2>1. /\ <<0, 0>> \in SmallMarked(p) /\ <<1, 1>> \in SmallMarked(p)
        /\ <<2, 2>> \in SmallMarked(p)
    BY <1>1, <1>4
  <2>2. <<0, 0>> # <<1, 1>> /\ <<0, 0>> # <<2, 2>> /\ <<1, 1>> # <<2, 2>>
    OBVIOUS
  <2> QED
    BY <2>1, <2>2, SmallFinite, ThreeElements, Zenon
<1>5. ASSUME \A k \in 0..2 : grid[k][2 - k] = p
      PROVE  Cardinality(SmallMarked(p)) >= 3
  <2>1. grid[0][2] = p /\ grid[1][1] = p /\ grid[2][0] = p
    BY <1>5
  <2>2. /\ <<0, 2>> \in SmallMarked(p) /\ <<1, 1>> \in SmallMarked(p)
        /\ <<2, 0>> \in SmallMarked(p)
    BY <1>1, <2>1
  <2>3. <<0, 2>> # <<1, 1>> /\ <<0, 2>> # <<2, 0>> /\ <<1, 1>> # <<2, 0>>
    OBVIOUS
  <2> QED
    BY <2>2, <2>3, SmallFinite, ThreeElements, Zenon
<1> QED
  BY <1>2, <1>3, <1>4, <1>5 DEF TicTacToe!HasLine

(* A move keeps the invariant and is a step of the rules of a game.        *)
LEMMA SmallMove ==
  ASSUME SmallInv, NEW row, NEW col, TicTacToe!MakeMove(row, col)
  PROVE  /\ SmallInv'
         /\ TicTacToe!Rules!Play
<1> DEFINE cell == <<row, col>>
<1>1. /\ TicTacToe!Winner = EMPTY /\ TicTacToe!LegalMoves # {}
      /\ cell \in TicTacToe!Cells /\ grid[row][col] = EMPTY
      /\ row \in 0..2 /\ col \in 0..2
      /\ grid' = [grid EXCEPT ![row][col] = current]
      /\ current' = IF current = "X" THEN "O" ELSE "X"
      /\ replay' = [replay EXCEPT ![row][col] = TicTacToe!ReplayMarker]
  BY SameOperators DEF TicTacToe!MakeMove, TicTacToe!IsGameOver,
     TicTacToe!ApplyMoveToBoard, TicTacToe!Cells, TicTacToe!Side
<1>2. TicTacToe!ReplayMarker = current
  BY SmallMoves, SmallFinite, TurnByParity DEF SmallInv, TicTacToe!ReplayMarker
<1>3. grid' \in SmallBoards /\ current' \in Marks /\ replay' = grid'
  BY <1>1, <1>2 DEF SmallInv, SmallBoards, Marks, TicTacToe!Side
<1>4. \A c \in TicTacToe!Cells :
        grid'[c[1]][c[2]] = IF c = cell THEN current ELSE grid[c[1]][c[2]]
  BY <1>1 DEF SmallInv, SmallBoards, TicTacToe!Cells, TicTacToe!Side
<1>5. \A p \in Marks : SmallMarked(p)' =
        SmallMarked(p) \cup (IF p = current THEN {cell} ELSE {})
  BY <1>1, <1>4, MarkFacts DEF SmallMarked
<1>6. \A p \in Marks : cell \notin SmallMarked(p)
  BY <1>1, MarkFacts DEF SmallMarked
<1>7. \A p \in Marks : Cardinality(SmallMarked(p)') =
        Cardinality(SmallMarked(p)) + (IF p = current THEN 1 ELSE 0)
  <2>1. ASSUME NEW p \in Marks
        PROVE  Cardinality(SmallMarked(p) \cup (IF p = current THEN {cell} ELSE {})) =
                 Cardinality(SmallMarked(p)) + (IF p = current THEN 1 ELSE 0)
    <3>1. IsFiniteSet(SmallMarked(p)) /\ cell \notin SmallMarked(p)
      BY <1>6, SmallFinite
    <3> HIDE DEF cell
    <3> QED
      BY ONLY <3>1, OneMoreIf
  <2> QED
    BY <1>5, <2>1
<1>8. Cardinality(SmallMarked("X")') = Cardinality(SmallMarked("O")') + Ahead(current)'
  BY <1>1, <1>7, SmallFinite DEF SmallInv, Ahead, Marks
<1>9. \A p \in Marks : ~ TicTacToe!HasLine(p)
  BY <1>1, SmallWinner DEF SmallInv, Found
<1>10. \A p \in Marks \ {current} : ~ TicTacToe!HasLine(p)'
  <2>1. ASSUME NEW p \in Marks \ {current}, NEW r \in 0..2, NEW c \in 0..2,
               grid'[r][c] = p
        PROVE  grid[r][c] = p
    <3>1. <<r, c>> \in TicTacToe!Cells /\ <<r, c>>[1] = r /\ <<r, c>>[2] = c
      BY DEF TicTacToe!Cells, TicTacToe!Side
    <3>2. grid'[r][c] = IF <<r, c>> = cell THEN current ELSE grid[r][c]
      BY <1>4, <3>1, Zenon
    <3> QED
      BY <2>1, <3>2
  <2>2. \A k \in 0..2 : 2 - k \in 0..2
    OBVIOUS
  <2>3. SUFFICES ASSUME NEW p \in Marks \ {current}, TicTacToe!HasLine(p)'
                 PROVE  TicTacToe!HasLine(p)
    BY <1>9
  <2>4. \A i \in 0..2 : /\ (\A k \in 0..2 : grid'[i][k] = p) => TicTacToe!HasLine(p)
                        /\ (\A k \in 0..2 : grid'[k][i] = p) => TicTacToe!HasLine(p)
    BY <2>1 DEF TicTacToe!HasLine
  <2>5. (\A k \in 0..2 : grid'[k][k] = p) => TicTacToe!HasLine(p)
    BY <2>1 DEF TicTacToe!HasLine
  <2>6. (\A k \in 0..2 : grid'[k][2 - k] = p) => TicTacToe!HasLine(p)
    BY <2>1, <2>2 DEF TicTacToe!HasLine
  <2> QED
    BY <2>3, <2>4, <2>5, <2>6 DEF TicTacToe!HasLine
<1>11. SmallInv'
  BY <1>3, <1>8, <1>10 DEF SmallInv, Marks
<1>12. TicTacToe!Moves' = TicTacToe!Moves + 1
       /\ TicTacToe!Moves' = Cardinality(SmallMarked("X")') + Cardinality(SmallMarked("O")')
  <2>1. (grid \in SmallBoards =>
          TicTacToe!Moves = Cardinality(SmallMarked("X")) + Cardinality(SmallMarked("O")))'
    BY SmallMoves, PTL
  <2>2. TicTacToe!Moves' = Cardinality(SmallMarked("X")') + Cardinality(SmallMarked("O")')
    BY <1>3, <2>1
  <2>3. /\ Cardinality(SmallMarked("X")') = Cardinality(SmallMarked("X"))
             + (IF "X" = current THEN 1 ELSE 0)
        /\ Cardinality(SmallMarked("O")') = Cardinality(SmallMarked("O"))
             + (IF "O" = current THEN 1 ELSE 0)
    BY <1>7, MarkFacts
  <2>4. TicTacToe!Moves = Cardinality(SmallMarked("X")) + Cardinality(SmallMarked("O"))
        /\ current \in {"X", "O"}
    BY SmallMoves DEF SmallInv, Marks
  <2> QED
    BY <2>2, <2>3, <2>4, SmallFinite
<1>13. TicTacToe!Outcome = "open"
  BY <1>1, SameOperators DEF TicTacToe!Outcome
<1>14. TicTacToe!Rules!Turn = current
  BY SmallMoves, SmallFinite, TurnByParity
  DEF SmallInv, TicTacToe!Rules!Turn
<1>15. Found' /\ SmallFilled'
  <2>1. (grid \in SmallBoards => Found)'
    BY SmallWinner, PTL
  <2>2. (grid \in SmallBoards => SmallFilled)'
    BY SmallFull, PTL
  <2> QED
    BY <1>3, <2>1, <2>2
<1>16. TicTacToe!Winner' \in {EMPTY, current}
  BY <1>10, <1>15 DEF Found
<1>17. TicTacToe!Winner' = current => TicTacToe!Moves' >= 5
  <2>1. SUFFICES ASSUME TicTacToe!Winner' = current PROVE TicTacToe!Moves' >= 5
    OBVIOUS
  <2>2. PICK p \in Marks : p = current
    BY DEF SmallInv
  <2>3. TicTacToe!HasLine(p)'
    <3>1. (\A q \in Marks : TicTacToe!Winner = q => TicTacToe!HasLine(q))'
      BY <1>15 DEF Found
    <3> QED
      BY <2>1, <2>2, <3>1
  <2>4. SmallLongLines'
    BY SmallLineLength, PTL
  <2>5. Cardinality(SmallMarked(p)') >= 3
    BY <2>3, <2>4 DEF SmallLongLines
  <2>6. \/ p = "X" /\ current' = "O" /\ Ahead(current)' = 1
        \/ p = "O" /\ current' = "X" /\ Ahead(current)' = 0
    BY <1>1, <2>2 DEF Marks, Ahead
  <2>7. Cardinality(SmallMarked("X")') \in Nat /\ Cardinality(SmallMarked("O")') \in Nat
    BY <1>7, SmallFinite, MarkFacts
  <2> QED
    BY <1>8, <1>12, <2>5, <2>6, <2>7
<1>18. TicTacToe!Outcome' = IF TicTacToe!Winner' # EMPTY THEN TicTacToe!Winner'
                            ELSE IF TicTacToe!Moves' = 9 THEN "draw" ELSE "open"
  BY <1>15, SameOperators DEF TicTacToe!Outcome, SmallFilled
<1>19. TicTacToe!Outcome' \in TicTacToe!Rules!Decisions
  BY <1>12, <1>14, <1>15, <1>16, <1>17, <1>18, MarkFacts
  DEF TicTacToe!Rules!Decisions, SmallFilled, SmallInv
<1> QED
  BY <1>11, <1>12, <1>13, <1>19 DEF TicTacToe!Rules!Play



LEMMA SmallStart ==
  ASSUME TicTacToe!Init
  PROVE  SmallInv /\ TicTacToe!Rules!GameInit
<1> USE DEF TicTacToe!Side
<1>1. /\ grid = [r \in 0..2 |-> [c \in 0..2 |-> EMPTY]]
      /\ current = "X" /\ replay = grid
  BY SameOperators DEF TicTacToe!Init, TicTacToe!Blank
<1>2. grid \in SmallBoards
  BY <1>1 DEF SmallBoards
<1>3. \A p \in Marks : SmallMarked(p) = {}
  BY <1>1, MarkFacts DEF SmallMarked, TicTacToe!Cells
<1>4. \A p \in Marks : Cardinality(SmallMarked(p)) = 0
  BY <1>3, FS_EmptySet
<1>5. \A p \in Marks : ~ TicTacToe!HasLine(p)
  BY <1>4, SmallLineLength DEF SmallLongLines
<1>6. SmallInv
  BY <1>1, <1>2, <1>4, <1>5, MarkFacts DEF SmallInv, Ahead
<1>7. TicTacToe!Moves = 0
  BY <1>2, <1>4, SmallMoves, MarkFacts
<1>8. TicTacToe!Winner = EMPTY /\ TicTacToe!LegalMoves # {}
  BY <1>2, <1>5, <1>7, SmallWinner, SmallFull DEF Found, SmallFilled
<1> QED
  BY <1>6, <1>7, <1>8, SameOperators
  DEF TicTacToe!Rules!GameInit, TicTacToe!Outcome

-----------------------------------------------------------------------------
(* Connect Four, on a board of any size.                                   *)

LargeBoards == [Rows -> [Columns -> Marks \cup {EMPTY}]]
LargeMarked(p) == {c \in Cells : grid[c[1]][c[2]] = p}

(* Four marks from a cell in one of the directions winner() looks in.      *)
Fours(p) ==
  \E r \in Rows, c \in Columns, d \in Directions :
    grid[r][c] = p /\ HasFourFrom(r, c, d)

(* What is above an empty cell is empty.                                   *)
Gravity ==
  \A c \in Columns, r, s \in Rows :
    r < s /\ grid[s][c] = EMPTY => grid[r][c] = EMPTY

(* As for Tic-Tac-Toe; in addition a column is filled from below, on which *)
(* the replay relies when it looks for the row by itself.                  *)
LargeInv ==
  /\ grid \in LargeBoards /\ current \in Marks
  /\ replay = grid
  /\ Cardinality(LargeMarked("X"))
       = Cardinality(LargeMarked("O")) + Ahead(current)
  /\ ~ (Fours("X") /\ Fours("O"))
  /\ Gravity

LEMMA Sizes == ROWS \in Nat \ {0} /\ COLUMNS \in Nat \ {0}
BY SizeAssumption

LEMMA LargeFinite ==
  /\ IsFiniteSet(Cells) /\ Cardinality(Cells) = ROWS * COLUMNS
  /\ \A p : /\ IsFiniteSet(LargeMarked(p)) /\ Cardinality(LargeMarked(p)) \in Nat
            /\ LargeMarked(p) \subseteq Cells
<1>1. ASSUME NEW n \in Nat \ {0}
      PROVE  IsFiniteSet(0..(n - 1)) /\ Cardinality(0..(n - 1)) = n
  <2>1. 0 \in Int /\ n - 1 \in Int /\ ~ (0 > n - 1)
    OBVIOUS
  <2>2. IsFiniteSet(0..(n - 1)) /\ Cardinality(0..(n - 1)) = (n - 1) - 0 + 1
    BY <2>1, FS_Interval, Zenon
  <2> QED
    BY <2>2
<1>2. IsFiniteSet(Cells) /\ Cardinality(Cells) = ROWS * COLUMNS
  <2>1. IsFiniteSet(Rows) /\ Cardinality(Rows) = ROWS
    BY <1>1, Sizes DEF Rows
  <2>2. IsFiniteSet(Columns) /\ Cardinality(Columns) = COLUMNS
    BY <1>1, Sizes DEF Columns
  <2>3. IsFiniteSet(Rows \X Columns)
        /\ Cardinality(Rows \X Columns) = Cardinality(Rows) * Cardinality(Columns)
    BY <2>1, <2>2, FS_Product
  <2> QED
    BY <2>1, <2>2, <2>3 DEF Cells
<1>3. ASSUME NEW p
      PROVE  /\ IsFiniteSet(LargeMarked(p)) /\ Cardinality(LargeMarked(p)) \in Nat
             /\ LargeMarked(p) \subseteq Cells
  <2>1. LargeMarked(p) \subseteq Cells
    BY DEF LargeMarked
  <2>2. IsFiniteSet(LargeMarked(p))
    BY <1>2, <2>1, FS_Subset
  <2> QED
    BY <2>1, <2>2, FS_CardinalityType
<1> QED
  BY <1>2, <1>3

LEMMA LargeMoves ==
  grid \in LargeBoards =>
    Moves = Cardinality(LargeMarked("X")) + Cardinality(LargeMarked("O"))
<1> SUFFICES ASSUME grid \in LargeBoards
             PROVE  Moves = Cardinality(LargeMarked("X"))
                              + Cardinality(LargeMarked("O"))
  OBVIOUS
<1> DEFINE Taken == {cell \in Cells : grid[cell[1]][cell[2]] # EMPTY}
<1>1. \A c \in Cells : grid[c[1]][c[2]] \in Marks \cup {EMPTY}
  BY DEF LargeBoards, Cells
<1>2. Taken = LargeMarked("X") \cup LargeMarked("O")
  BY <1>1, MarkFacts DEF LargeMarked, Marks
<1>3. LargeMarked("X") \cap LargeMarked("O") = {}
  BY DEF LargeMarked
<1>4. Cardinality(Taken) = Cardinality(LargeMarked("X"))
        + Cardinality(LargeMarked("O")) - Cardinality({})
  BY <1>2, <1>3, LargeFinite, FS_Union
<1>5. Cardinality({}) = 0
  BY FS_EmptySet
<1>6. Cardinality(Taken) = Cardinality(LargeMarked("X"))
        + Cardinality(LargeMarked("O"))
  BY <1>4, <1>5, LargeFinite
<1> QED
  BY <1>6, Zenon DEF Moves

(* The scan in the order of the rows ends at a cell from which there are   *)
(* four, if there is one.                                                  *)
LargeFound ==
  /\ Winner \in Marks \cup {EMPTY}
  /\ \A p \in Marks : Winner = p => Fours(p)
  /\ \A p \in Marks : Fours(p) => Winner # EMPTY

LEMMA LargeWinner == grid \in LargeBoards => LargeFound
<1> SUFFICES ASSUME grid \in LargeBoards PROVE LargeFound
  OBVIOUS
<1> DEFINE starts == {cell \in Cells :
                        /\ grid[cell[1]][cell[2]] # EMPTY
                        /\ \E d \in Directions : HasFourFrom(cell[1], cell[2], d)}
           numbers == {cell[1] * COLUMNS + cell[2] : cell \in starts}
           first == Min(numbers)
<1>1. Winner = IF starts = {} THEN EMPTY
               ELSE grid[first \div COLUMNS][first % COLUMNS]
  BY Zenon DEF Winner
<1>2. \A cell \in Cells : /\ cell[1] \in Rows /\ cell[2] \in Columns
                          /\ grid[cell[1]][cell[2]] \in Marks \cup {EMPTY}
  BY DEF Cells, LargeBoards
<1>3. \A cell \in starts : /\ cell \in Cells /\ grid[cell[1]][cell[2]] # EMPTY
                           /\ Fours(grid[cell[1]][cell[2]])
  BY <1>2 DEF Fours
<1>4. \A p \in Marks : Fours(p) => starts # {}
  <2> SUFFICES ASSUME NEW p \in Marks, Fours(p) PROVE starts # {}
    OBVIOUS
  <2>1. PICK r \in Rows, c \in Columns, d \in Directions :
               grid[r][c] = p /\ HasFourFrom(r, c, d)
    BY DEF Fours
  <2>2. <<r, c>> \in starts
    BY <2>1, MarkFacts DEF Cells
  <2> QED
    BY <2>2
<1>5. \A cell \in Cells :
        /\ cell[1] * COLUMNS + cell[2] \in Nat
        /\ (cell[1] * COLUMNS + cell[2]) \div COLUMNS = cell[1]
        /\ (cell[1] * COLUMNS + cell[2]) % COLUMNS = cell[2]
  <2>1. ASSUME NEW r \in Rows, NEW c \in Columns
        PROVE  /\ r * COLUMNS + c \in Nat
               /\ (r * COLUMNS + c) \div COLUMNS = r
               /\ (r * COLUMNS + c) % COLUMNS = c
    <3>1. r \in Nat /\ c \in 0..(COLUMNS - 1) /\ COLUMNS \in Nat \ {0}
      BY Sizes DEF Rows, Columns
    <3>2. r * COLUMNS + c \in Nat
      BY <3>1
    <3> QED
      BY <3>1, <3>2, RowAndColumn
  <2> QED
    BY <1>2, <2>1
<1> HIDE DEF starts
<1>6. ASSUME starts # {}
      PROVE  \E cell \in starts : Winner = grid[cell[1]][cell[2]]
  <2>1. numbers \in SUBSET Nat /\ numbers # {}
    BY <1>3, <1>5, <1>6
  <2>2. first \in numbers
    BY <2>1, MinOfNaturals
  <2>3. PICK cell \in starts : first = cell[1] * COLUMNS + cell[2]
    BY <2>2
  <2> HIDE DEF first
  <2> QED
    BY <1>1, <1>3, <1>5, <1>6, <2>3
<1> HIDE DEF first
<1> QED
  BY <1>1, <1>2, <1>3, <1>4, <1>6, MarkFacts DEF LargeFound

LEMMA LargeFourCells ==
  ASSUME NEW r \in Rows, NEW c \in Columns, NEW d \in -1..1, NEW e \in -1..1,
         r + 3 * d \in Rows, c + 3 * e \in Columns
  PROVE  \A k \in 0..3 : /\ <<r + k * d, c + k * e>> \in Cells
                         /\ r + k * d \in Rows /\ c + k * e \in Columns
<1>1. ASSUME NEW n \in Nat \ {0}, NEW a \in 0..(n - 1), NEW x \in -1..1,
             a + 3 * x \in 0..(n - 1), NEW k \in 0..3
      PROVE  a + k * x \in 0..(n - 1)
  <2>1. x = -1 \/ x = 0 \/ x = 1
    OBVIOUS
  <2>2. k = 0 \/ k = 1 \/ k = 2 \/ k = 3
    OBVIOUS
  <2> QED
    BY <1>1, <2>1, <2>2
<1>2. \A k \in 0..3 : r + k * d \in Rows /\ c + k * e \in Columns
  BY <1>1, Sizes DEF Rows, Columns
<1> QED
  BY <1>2 DEF Cells

(* The four cells of a line in the directions of the scan.                 *)
LEMMA LargeFourMarks ==
  ASSUME NEW p, Fours(p)
  PROVE  \E r \in Rows, c \in Columns, d, e \in -1..1 :
           /\ ~ (d = 0 /\ e = 0)
           /\ r + 3 * d \in Rows /\ c + 3 * e \in Columns
           /\ \A k \in 0..3 : grid[r + k * d][c + k * e] = p
<1>1. PICK r \in Rows, c \in Columns, t \in Directions :
             grid[r][c] = p /\ HasFourFrom(r, c, t)
  BY DEF Fours
<1> DEFINE d == t[1]
           e == t[2]
<1>2. d \in -1..1 /\ e \in -1..1 /\ ~ (d = 0 /\ e = 0)
  BY DEF Directions
<1>3. /\ r + 3 * d \in Rows /\ c + 3 * e \in Columns
      /\ \A k \in 1..3 : grid[r + k * d][c + k * e] = p
  BY <1>1 DEF HasFourFrom
<1>4. r + 0 * d = r /\ c + 0 * e = c
  BY <1>2, Sizes DEF Rows, Columns
<1> HIDE DEF d, e
<1>5. \A k \in 0..3 : grid[r + k * d][c + k * e] = p
  <2>1. \A k \in 0..3 : k = 0 \/ k \in 1..3
    OBVIOUS
  <2> QED
    BY <1>1, <1>3, <1>4, <2>1
<1> QED
  BY <1>2, <1>3, <1>5

LEMMA FourDistinct ==
  ASSUME NEW r \in Int, NEW c \in Int, NEW d \in -1..1, NEW e \in -1..1,
         ~ (d = 0 /\ e = 0)
  PROVE  \A k, l \in 0..3 :
           k # l => <<r + k * d, c + k * e>> # <<r + l * d, c + l * e>>
<1> SUFFICES ASSUME NEW k \in 0..3, NEW l \in 0..3, k # l
             PROVE  r + k * d # r + l * d \/ c + k * e # c + l * e
  OBVIOUS
<1>1. CASE d = 1 \/ d = -1
  BY <1>1
<1>2. CASE e = 1 \/ e = -1
  BY <1>2
<1> QED
  BY <1>1, <1>2

(* Four in a line are four cells.                                          *)
LargeLongLines ==
  \A p \in Marks : Fours(p) => Cardinality(LargeMarked(p)) >= 4

LEMMA LargeLineLength == LargeLongLines
<1> SUFFICES ASSUME NEW p \in Marks, Fours(p)
             PROVE  Cardinality(LargeMarked(p)) >= 4
  BY DEF LargeLongLines
<1>1. PICK r \in Rows, c \in Columns, d \in -1..1, e \in -1..1 :
             /\ ~ (d = 0 /\ e = 0)
             /\ r + 3 * d \in Rows /\ c + 3 * e \in Columns
             /\ \A k \in 0..3 : grid[r + k * d][c + k * e] = p
  BY LargeFourMarks
<1> DEFINE at(k) == <<r + k * d, c + k * e>>
<1>2. \A k \in 0..3 : at(k) \in LargeMarked(p)
  <2>1. \A k \in 0..3 : at(k) \in Cells
    BY <1>1, LargeFourCells
  <2> QED
    BY <1>1, <2>1 DEF LargeMarked
<1>3. \A k, l \in 0..3 : k # l => at(k) # at(l)
  <2>1. r \in Int /\ c \in Int
    BY Sizes DEF Rows, Columns
  <2> QED
    BY <1>1, <2>1, FourDistinct
<1> HIDE DEF at
<1>4. /\ at(0) # at(1) /\ at(0) # at(2) /\ at(0) # at(3)
      /\ at(1) # at(2) /\ at(1) # at(3) /\ at(2) # at(3)
      /\ at(0) \in LargeMarked(p) /\ at(1) \in LargeMarked(p)
      /\ at(2) \in LargeMarked(p) /\ at(3) \in LargeMarked(p)
  BY <1>2, <1>3
<1>5. IsFiniteSet(LargeMarked(p))
  BY LargeFinite
<1>6. Cardinality({at(0), at(1), at(2), at(3)}) = 4
  BY ONLY <1>4, <1>5, FourElements, SMT
<1>7. {at(0), at(1), at(2), at(3)} \in SUBSET LargeMarked(p)
  BY <1>4
<1> QED
  BY <1>5, <1>6, <1>7, PartOfFinite, LargeFinite

(* Four in a row from somewhere in one of the directions of the scan is    *)
(* four in a line in any of the eight.                                     *)
LEMMA FoursInLine ==
  ASSUME grid \in LargeBoards, NEW p \in Marks
  PROVE  Fours(p) <=>
           \E q \in InLine : \A cell \in q : grid[cell[1]][cell[2]] = p
<1>1. ASSUME Fours(p)
      PROVE  \E q \in InLine : \A cell \in q : grid[cell[1]][cell[2]] = p
  <2>1. PICK r \in Rows, c \in Columns, d \in -1..1, e \in -1..1 :
               /\ ~ (d = 0 /\ e = 0)
               /\ r + 3 * d \in Rows /\ c + 3 * e \in Columns
               /\ \A k \in 0..3 : grid[r + k * d][c + k * e] = p
    BY <1>1, LargeFourMarks
  <2> DEFINE at(k) == <<r + k * d, c + k * e>>
             q == Quad(r, c, d, e)
  <2>2. \A k \in 0..3 : at(k) \in Cells
    BY <2>1, LargeFourCells
  <2>3. \A k, l \in 0..3 : k # l => at(k) # at(l)
    <3>1. r \in Int /\ c \in Int
      BY Sizes DEF Rows, Columns
    <3> QED
      BY <2>1, <3>1, FourDistinct
  <2>4. q = {at(0), at(1), at(2), at(3)}
    <3>1. 0..3 = {0, 1, 2, 3}
      OBVIOUS
    <3>2. q = {at(k) : k \in {0, 1, 2, 3}}
      BY <3>1, Zenon DEF Quad
    <3> HIDE DEF at
    <3> QED
      BY <3>1, <3>2
  <2>5. \A cell \in q : grid[cell[1]][cell[2]] = p
    BY <2>1 DEF Quad
  <2>6. q \in Quads
    BY <2>1 DEF Quads
  <2> HIDE DEF at, q
  <2>7. q \subseteq Cells
    BY <2>2, <2>4
  <2>8. Cardinality({at(0), at(1), at(2), at(3)}) = 4
    <3>1. /\ at(0) # at(1) /\ at(0) # at(2) /\ at(0) # at(3)
          /\ at(1) # at(2) /\ at(1) # at(3) /\ at(2) # at(3)
          /\ at(0) \in Cells /\ at(1) \in Cells /\ at(2) \in Cells /\ at(3) \in Cells
      BY <2>2, <2>3
    <3>2. IsFiniteSet(Cells)
      BY LargeFinite
    <3> QED
      BY ONLY <3>1, <3>2, FourElements, SMT
  <2> QED
    BY <2>4, <2>5, <2>6, <2>7, <2>8 DEF InLine
<1>2. ASSUME NEW q \in InLine, \A cell \in q : grid[cell[1]][cell[2]] = p
      PROVE  Fours(p)
  <2>1. PICK r \in Rows, c \in Columns, d \in -1..1, e \in -1..1 :
               q = {<<r + k * d, c + k * e>> : k \in 0..3}
    BY DEF InLine, Quads, Quad
  <2>2. r \in Int /\ c \in Int
    BY Sizes DEF Rows, Columns
  <2>3. Cardinality(q) = 4 /\ q \subseteq Cells
    BY DEF InLine
  <2>4. \A k \in 0..3 : /\ r + k * d \in Rows /\ c + k * e \in Columns
                        /\ grid[r + k * d][c + k * e] = p
    <3>1. \A k \in 0..3 : <<r + k * d, c + k * e>> \in q
      BY <2>1
    <3> QED
      BY <1>2, <2>3, <3>1 DEF Cells
  <2>5. ~ (d = 0 /\ e = 0)
    <3> SUFFICES ASSUME d = 0, e = 0 PROVE FALSE
      OBVIOUS
    <3>1. \A k \in 0..3 : r + k * d = r /\ c + k * e = c
      BY <2>2
    <3>2. q = {<<r, c>>}
      BY <2>1, <3>1
    <3>3. Cardinality({<<r, c>>}) = 1
      BY FS_Singleton
    <3> QED
      BY <2>3, <3>2, <3>3
  <2>6. CASE <<d, e>> \in Directions
    <3>1. /\ r + 0 * d = r /\ c + 0 * e = c
      BY <2>2
    <3>2. \A k \in 1..3 : k \in 0..3
      OBVIOUS
    <3>3. HasFourFrom(r, c, <<d, e>>) /\ grid[r][c] = p
      BY <2>4, <3>1, <3>2 DEF HasFourFrom
    <3> QED
      BY <2>6, <3>3 DEF Fours
  <2>7. CASE <<d, e>> \notin Directions
    <3> DEFINE s == r + 3 * d
               t == c + 3 * e
    <3>1. <<-d, -e>> \in Directions
      BY <2>5, <2>7 DEF Directions
    <3>2. \A k \in 1..3 : /\ 3 - k \in 0..3
                          /\ s + k * (-d) = r + (3 - k) * d
                          /\ t + k * (-e) = c + (3 - k) * e
      BY <2>2
    <3>3. s \in Rows /\ t \in Columns /\ grid[s][t] = p
      BY <2>4
    <3> HIDE DEF s, t
    <3>4. \A k \in 1..3 : /\ s + k * (-d) \in Rows /\ t + k * (-e) \in Columns
                          /\ grid[s + k * (-d)][t + k * (-e)] = p
      BY <2>4, <3>2
    <3>5. HasFourFrom(s, t, <<-d, -e>>)
      BY <3>3, <3>4 DEF HasFourFrom
    <3> QED
      BY <3>1, <3>3, <3>5 DEF Fours
  <2> QED
    BY <2>6, <2>7
<1> QED
  BY <1>1, <1>2

LEMMA LargeWinnerHasFour == LargeInv => WinnerHasFour
<1> SUFFICES ASSUME LargeInv PROVE WinnerHasFour
  OBVIOUS
<1>1. LargeFound
  BY LargeWinner DEF LargeInv
<1>2. \A p \in Marks : Fours(p) <=> Winner = p
  BY <1>1, MarkFacts DEF LargeFound, LargeInv, Marks
<1>3. \A p \in Marks : Winner = p <=>
        \E q \in InLine : \A cell \in q : grid[cell[1]][cell[2]] = p
  BY <1>2, FoursInLine DEF LargeInv
<1> QED
  BY <1>1, <1>3, MarkFacts DEF LargeFound, WinnerHasFour, Marks

(* The board is full when there have been ROWS * COLUMNS moves.            *)
LargeFilled ==
  /\ Moves \in 0..(ROWS * COLUMNS)
  /\ LegalMoves = {} <=> Moves = ROWS * COLUMNS

LEMMA LargeFull == grid \in LargeBoards /\ Gravity => LargeFilled
<1> SUFFICES ASSUME Gravity PROVE LargeFilled
  OBVIOUS
<1> DEFINE Taken == {cell \in Cells : grid[cell[1]][cell[2]] # EMPTY}
<1>1. Moves = Cardinality(Taken)
  BY Zenon DEF Moves
<1>2. LegalMoves = {} <=> Taken = Cells
  <2>1. ASSUME LegalMoves = {} PROVE Taken = Cells
    <3>1. \A c \in Columns : grid[0][c] # EMPTY
      BY <2>1 DEF LegalMoves
    <3>2. \A r \in Rows : 0 \in Rows /\ (r = 0 \/ 0 < r)
      BY Sizes DEF Rows
    <3>3. \A r \in Rows, c \in Columns : grid[r][c] # EMPTY
      BY <3>1, <3>2 DEF Gravity
    <3> QED
      BY <3>3 DEF Cells
  <2>2. ASSUME Taken = Cells PROVE LegalMoves = {}
    <3>1. \A c \in Columns : <<0, c>> \in Cells
      BY Sizes DEF Cells, Rows
    <3>2. \A c \in Columns : grid[0][c] # EMPTY
      BY <2>2, <3>1
    <3> QED
      BY <3>2 DEF LegalMoves
  <2> QED
    BY <2>1, <2>2
<1>3. Taken \in SUBSET Cells
  OBVIOUS
<1>4. ROWS * COLUMNS \in Nat
  BY Sizes
<1> HIDE DEF Taken
<1> QED
  BY <1>1, <1>2, <1>3, <1>4, LargeFinite, PartOfFinite DEF LargeFilled

(* drop_marker takes the lowest empty cell of the column.                  *)
LEMMA Dropped ==
  ASSUME NEW column \in Columns, FreeRows(grid, column) # {}, NEW marker
  PROVE  \E row \in Rows :
           /\ grid[row][column] = EMPTY
           /\ \A r \in Rows : grid[r][column] = EMPTY => r <= row
           /\ Drop(grid, column, marker) = [grid EXCEPT ![row][column] = marker]
<1> DEFINE row == Max(FreeRows(grid, column))
<1>1. FreeRows(grid, column) \in SUBSET (0..(ROWS - 1)) /\ ROWS - 1 \in Nat
  BY Sizes DEF FreeRows, Rows
<1>2. row \in FreeRows(grid, column) /\ \A r \in FreeRows(grid, column) : row >= r
  BY <1>1, MaxOfNaturals
<1>3. Drop(grid, column, marker) = [grid EXCEPT ![row][column] = marker]
  BY DEF Drop
<1>4. \A r \in Rows : r \in Int
  BY DEF Rows
<1> HIDE DEF row
<1> QED
  BY <1>2, <1>3, <1>4 DEF FreeRows

(* A disc dropped keeps the invariant and is a step of the rules of a      *)
(* game.                                                                   *)
LEMMA LargeMove ==
  ASSUME LargeInv, NEW column, MakeMove(column)
  PROVE  /\ LargeInv'
         /\ Rules!Play
<1>0. PICK row \in Rows :
        /\ grid[row][column] = EMPTY
        /\ \A r \in Rows : grid[r][column] = EMPTY => r <= row
        /\ Drop(grid, column, current) = [grid EXCEPT ![row][column] = current]
  BY Dropped DEF MakeMove
<1> DEFINE cell == <<row, column>>
<1>1. /\ Winner = EMPTY /\ LegalMoves # {}
      /\ column \in Columns /\ cell \in Cells
      /\ grid' = [grid EXCEPT ![row][column] = current]
      /\ current' = IF current = "X" THEN "O" ELSE "X"
      /\ replay' = Drop(replay, column, ReplayMarker)
  BY <1>0 DEF MakeMove, IsGameOver, Replayed, Cells
<1>2. ReplayMarker = current
  BY LargeMoves, LargeFinite, TurnByParity DEF LargeInv, ReplayMarker
<1>3. grid' \in LargeBoards /\ current' \in Marks /\ replay' = grid'
  <2>1. replay' = grid'
    BY <1>0, <1>1, <1>2 DEF LargeInv
  <2>2. grid' \in LargeBoards
    BY <1>1 DEF LargeInv, LargeBoards
  <2> QED
    BY <1>1, <2>1, <2>2 DEF Marks
<1>4. \A c \in Cells :
        grid'[c[1]][c[2]] = IF c = cell THEN current ELSE grid[c[1]][c[2]]
  BY <1>1 DEF LargeInv, LargeBoards, Cells
<1>5. \A p \in Marks : LargeMarked(p)' =
        LargeMarked(p) \cup (IF p = current THEN {cell} ELSE {})
  BY <1>0, <1>1, <1>4, MarkFacts DEF LargeMarked
<1>6. \A p \in Marks : cell \notin LargeMarked(p)
  BY <1>0, <1>1, MarkFacts DEF LargeMarked
<1>7. \A p \in Marks : Cardinality(LargeMarked(p)') =
        Cardinality(LargeMarked(p)) + (IF p = current THEN 1 ELSE 0)
  <2>1. ASSUME NEW p \in Marks
        PROVE  Cardinality(LargeMarked(p) \cup (IF p = current THEN {cell} ELSE {})) =
                 Cardinality(LargeMarked(p)) + (IF p = current THEN 1 ELSE 0)
    <3>1. IsFiniteSet(LargeMarked(p)) /\ cell \notin LargeMarked(p)
      BY <1>6, LargeFinite
    <3> HIDE DEF cell
    <3> QED
      BY ONLY <3>1, OneMoreIf
  <2> QED
    BY <1>5, <2>1
<1>8. Cardinality(LargeMarked("X")') = Cardinality(LargeMarked("O")') + Ahead(current)'
  BY <1>1, <1>7, LargeFinite DEF LargeInv, Ahead, Marks
<1>9. \A p \in Marks : ~ Fours(p)
  BY <1>1, LargeWinner DEF LargeInv, LargeFound
<1>10. \A p \in Marks \ {current} : ~ Fours(p)'
  <2>1. ASSUME NEW p \in Marks \ {current}, NEW r \in Rows, NEW c \in Columns,
               grid'[r][c] = p
        PROVE  grid[r][c] = p
    <3>1. <<r, c>> \in Cells /\ <<r, c>>[1] = r /\ <<r, c>>[2] = c
      BY DEF Cells
    <3>2. grid'[r][c] = IF <<r, c>> = cell THEN current ELSE grid[r][c]
      BY <1>4, <3>1, Zenon
    <3> QED
      BY <2>1, <3>2
  <2>2. SUFFICES ASSUME NEW p \in Marks \ {current}, Fours(p)'
                 PROVE  Fours(p)
    BY <1>9
  <2>3. PICK r \in Rows, c \in Columns, d \in Directions :
               grid'[r][c] = p /\ HasFourFrom(r, c, d)'
    BY <2>2 DEF Fours
  <2>4. /\ d[1] \in -1..1 /\ d[2] \in -1..1
        /\ r + 3 * d[1] \in Rows /\ c + 3 * d[2] \in Columns
        /\ \A k \in 1..3 : grid'[r + k * d[1]][c + k * d[2]] = p
    BY <2>3 DEF HasFourFrom, Directions
  <2>5. \A k \in 1..3 : r + k * d[1] \in Rows /\ c + k * d[2] \in Columns
    <3>1. \A k \in 1..3 : k \in 0..3
      OBVIOUS
    <3> QED
      BY <2>4, <3>1, LargeFourCells
  <2>6. grid[r][c] = p /\ \A k \in 1..3 : grid[r + k * d[1]][c + k * d[2]] = p
    BY <2>1, <2>3, <2>4, <2>5
  <2> QED
    BY <2>4, <2>6 DEF Fours, HasFourFrom
<1>11. Gravity'
  <2> SUFFICES ASSUME NEW c \in Columns, NEW r \in Rows, NEW s \in Rows,
                      r < s, grid'[s][c] = EMPTY
               PROVE  grid'[r][c] = EMPTY
    BY DEF Gravity
  <2>1. \A x \in Rows, y \in Columns :
          grid'[x][y] = IF x = row /\ y = column THEN current ELSE grid[x][y]
    BY <1>1 DEF LargeInv, LargeBoards
  <2>2. grid[s][c] = EMPTY /\ ~ (s = row /\ c = column)
    BY <2>1, MarkFacts DEF LargeInv
  <2>3. grid[r][c] = EMPTY
    BY <2>2 DEF LargeInv, Gravity
  <2>4. ~ (r = row /\ c = column)
    BY <1>0, <2>2 DEF Rows
  <2> QED
    BY <2>1, <2>3, <2>4
<1>12. LargeInv'
  BY <1>3, <1>8, <1>10, <1>11 DEF LargeInv, Marks
<1>13. Moves' = Moves + 1
       /\ Moves' = Cardinality(LargeMarked("X")') + Cardinality(LargeMarked("O")')
  <2>1. (grid \in LargeBoards =>
          Moves = Cardinality(LargeMarked("X")) + Cardinality(LargeMarked("O")))'
    BY LargeMoves, PTL
  <2>2. Moves' = Cardinality(LargeMarked("X")') + Cardinality(LargeMarked("O")')
    BY <1>3, <2>1
  <2>3. /\ Cardinality(LargeMarked("X")') = Cardinality(LargeMarked("X"))
             + (IF "X" = current THEN 1 ELSE 0)
        /\ Cardinality(LargeMarked("O")') = Cardinality(LargeMarked("O"))
             + (IF "O" = current THEN 1 ELSE 0)
    BY <1>7, MarkFacts
  <2>4. Moves = Cardinality(LargeMarked("X")) + Cardinality(LargeMarked("O"))
        /\ current \in {"X", "O"}
    BY LargeMoves DEF LargeInv, Marks
  <2> QED
    BY <2>2, <2>3, <2>4, LargeFinite
<1>14. Outcome = "open"
  BY <1>1 DEF Outcome
<1>15. Rules!Turn = current
  BY LargeMoves, LargeFinite, TurnByParity DEF LargeInv, Rules!Turn
<1>16. LargeFound' /\ LargeFilled'
  <2>1. (grid \in LargeBoards => LargeFound)'
    BY LargeWinner, PTL
  <2>2. (grid \in LargeBoards /\ Gravity => LargeFilled)'
    BY LargeFull, PTL
  <2> QED
    BY <1>3, <1>11, <2>1, <2>2
<1>17. Winner' \in {EMPTY, current}
  BY <1>10, <1>16 DEF LargeFound
<1>18. Winner' = current => Moves' >= 7
  <2>1. SUFFICES ASSUME Winner' = current PROVE Moves' >= 7
    OBVIOUS
  <2>2. PICK p \in Marks : p = current
    BY DEF LargeInv
  <2>3. Fours(p)'
    <3>1. (\A q \in Marks : Winner = q => Fours(q))'
      BY <1>16 DEF LargeFound
    <3> QED
      BY <2>1, <2>2, <3>1
  <2>4. LargeLongLines'
    BY LargeLineLength, PTL
  <2>5. Cardinality(LargeMarked(p)') >= 4
    BY <2>3, <2>4 DEF LargeLongLines
  <2>6. \/ p = "X" /\ current' = "O" /\ Ahead(current)' = 1
        \/ p = "O" /\ current' = "X" /\ Ahead(current)' = 0
    BY <1>1, <2>2 DEF Marks, Ahead
  <2>7. Cardinality(LargeMarked("X")') \in Nat /\ Cardinality(LargeMarked("O")') \in Nat
    BY <1>7, LargeFinite, MarkFacts
  <2> QED
    BY <1>8, <1>13, <2>5, <2>6, <2>7
<1>19. Outcome' = IF Winner' # EMPTY THEN Winner'
                  ELSE IF Moves' = ROWS * COLUMNS THEN "draw" ELSE "open"
  BY <1>16 DEF Outcome, LargeFilled
<1>20. Outcome' \in Rules!Decisions
  BY <1>13, <1>15, <1>16, <1>17, <1>18, <1>19, MarkFacts, Sizes
  DEF Rules!Decisions, LargeFilled, LargeInv
<1> QED
  BY <1>12, <1>13, <1>14, <1>20 DEF Rules!Play

LEMMA LargeStart ==
  ASSUME Init
  PROVE  LargeInv /\ Rules!GameInit
<1>1. /\ grid = [r \in Rows |-> [c \in Columns |-> EMPTY]]
      /\ current = "X" /\ replay = grid
  BY DEF Init, Blank
<1>2. grid \in LargeBoards
  BY <1>1 DEF LargeBoards
<1>3. \A p \in Marks : LargeMarked(p) = {}
  BY <1>1, MarkFacts DEF LargeMarked, Cells
<1>4. \A p \in Marks : Cardinality(LargeMarked(p)) = 0
  BY <1>3, FS_EmptySet
<1>5. \A p \in Marks : ~ Fours(p)
  BY <1>4, LargeLineLength DEF LargeLongLines
<1>6. Gravity
  BY <1>1 DEF Gravity
<1>7. LargeInv
  BY <1>1, <1>2, <1>4, <1>5, <1>6, MarkFacts DEF LargeInv, Ahead
<1>8. Moves = 0
  BY <1>2, <1>4, LargeMoves, MarkFacts
<1>9. Winner = EMPTY /\ LegalMoves # {}
  <2>1. ROWS * COLUMNS # 0
    BY Sizes
  <2> QED
    BY <1>2, <1>5, <1>6, <1>8, <2>1, LargeWinner, LargeFull
    DEF LargeFound, LargeFilled
<1> QED
  BY <1>7, <1>8, <1>9 DEF Rules!GameInit, Outcome

-----------------------------------------------------------------------------
(* The theorems about the games.                                           *)

(* One of the two games is played, and its own invariant holds.            *)
GamesInv ==
  \/ game_id = "tictactoe" /\ SmallInv
  \/ game_id = "connect-four" /\ LargeInv

LEMMA GamesStart ==
  GamesInit => GamesInv /\ CASE game_id = "tictactoe" -> TicTacToe!Rules!GameInit
                             [] game_id = "connect-four" -> Rules!GameInit
<1>1. CASE game_id = "tictactoe" /\ TicTacToe!Init
  BY <1>1, SmallStart, Zenon DEF GamesInv
<1>2. CASE game_id = "connect-four" /\ Init
  BY <1>2, LargeStart, Zenon DEF GamesInv
<1> QED
  BY <1>1, <1>2, Zenon DEF GamesInit

(* A step of the rules that the game being played is to implement.         *)
GamesPlay ==
  CASE game_id = "tictactoe" -> TicTacToe!Rules!Play
    [] game_id = "connect-four" -> Rules!Play

LEMMA GamesStep ==
  GamesInv /\ [RunMatchForGame]_gamesVars => GamesInv' /\ [GamesPlay]_gamesVars
<1> SUFFICES ASSUME GamesInv, [RunMatchForGame]_gamesVars
             PROVE  GamesInv' /\ [GamesPlay]_gamesVars
  OBVIOUS
<1>1. CASE game_id = "tictactoe" /\ TicTacToe!Next /\ UNCHANGED game_id
  <2>1. SmallInv
    BY <1>1 DEF GamesInv
  <2>2. SmallInv' /\ TicTacToe!Rules!Play
    BY <1>1, <2>1, SmallMove DEF TicTacToe!Next
  <2>3. GamesInv'
    BY <1>1, <2>2 DEF GamesInv
  <2> QED
    BY <1>1, <2>2, <2>3, Zenon DEF GamesPlay
<1>2. CASE game_id = "connect-four" /\ Next /\ UNCHANGED game_id
  <2>1. LargeInv
    BY <1>2 DEF GamesInv
  <2>2. LargeInv' /\ Rules!Play
    BY <1>2, <2>1, LargeMove DEF Next
  <2>3. GamesInv'
    BY <1>2, <2>2 DEF GamesInv
  <2> QED
    BY <1>2, <2>2, <2>3, Zenon DEF GamesPlay
<1>3. CASE UNCHANGED gamesVars
  <2>1. UNCHANGED <<game_id, vars>>
    BY <1>3 DEF gamesVars, vars
  <2>2. SmallInv => SmallInv'
    BY <2>1 DEF vars, SmallInv, SmallMarked, TicTacToe!HasLine
  <2>3. LargeInv => LargeInv'
    BY <2>1 DEF vars, LargeInv, LargeMarked, Gravity, Fours, HasFourFrom, Ahead
  <2> QED
    BY <1>3, <2>1, <2>2, <2>3 DEF GamesInv
<1> QED
  BY <1>1, <1>2, <1>3 DEF RunMatchForGame

(* The boards are what the moves made of them, in both games, whichever is *)
(* played: marks differ by at most one, at most one player has a line, the *)
(* discs have nothing empty below them.                                    *)
THEOREM GamesInvariant == GamesSpec => []GamesInv
<1>1. GamesInit => GamesInv
  BY GamesStart
<1>2. GamesInv /\ [RunMatchForGame]_gamesVars => GamesInv'
  BY GamesStep
<1> QED
  BY <1>1, <1>2, PTL DEF GamesSpec

(* The board rebuilt from the stored moves, with markers taken from the    *)
(* parity of the index, is at every position the board that was played.    *)
THEOREM ReplayIsTrue == GamesSpec => []ReplayedBoardIsPlayed
<1>1. GamesInv => ReplayedBoardIsPlayed
  BY DEF GamesInv, SmallInv, LargeInv, ReplayedBoardIsPlayed
<1> QED
  BY <1>1, GamesInvariant, PTL

(* winner() names the player who has a line; never have both one, and the  *)
(* scan misses no four in a line, whatever the size of the board.          *)
THEOREM WinnerIsRight == GamesSpec => []WinnerHasLine
<1>1. GamesInv => WinnerHasLine
  BY SmallWinnerHasTheLine, LargeWinnerHasFour, Zenon DEF GamesInv, WinnerHasLine
<1> QED
  BY <1>1, GamesInvariant, PTL

(* Both games implement what the referee relies on: players alternate from *)
(* X, a final position accepts nothing, a line is completed by the player  *)
(* who moves and not before it can be, and a full board is decided.        *)
THEOREM GamesImplementRules == GamesSpec => ImplementsGameRules
<1>1. GamesInit => CASE game_id = "tictactoe" -> TicTacToe!Rules!GameInit
                     [] game_id = "connect-four" -> Rules!GameInit
  BY GamesStart
<1>2. GamesInv /\ [RunMatchForGame]_gamesVars => [GamesPlay]_gamesVars
  BY GamesStep
<1> QED
  BY <1>1, <1>2, GamesInvariant, PTL DEF GamesSpec, ImplementsGameRules, GamesPlay

-----------------------------------------------------------------------------
(* An accepted upload is a well formed executable that loads nothing: what *)
(* the two loops of validate_bot_executable have seen is what counts of    *)
(* the headers before index and of the items before item.                  *)

LoadsBefore(f, n) == \E l \in 0..(n - 1) : Loads(f, l)
WellFormedBefore(f, n) == \A l \in 0..(n - 1) : WellFormed(f, l)
NeededBefore(s, k) == \E l \in 0..(k - 1) : s.tag[l] = "needed"
ReadBefore(f, s, k) ==
  \A l \in 0..(k - 1) : l * Item < s.size /\ ItemFits(f, s, l) /\ s.tag[l] # "null"

Steps == {"header", "segments", "table", "answered"}

ValidationTypeOK ==
  /\ file \in Files
  /\ step \in Steps
  /\ index \in Nat /\ item \in Nat
  /\ dynamic \in BOOLEAN

(* The flag says what the headers before index load, and in a table what   *)
(* the items before item need.                                             *)
FlagIsExact ==
  /\ step = "header" => index = 0 /\ dynamic = FALSE
  /\ step = "segments" => (dynamic <=> LoadsBefore(file, index))
  /\ step = "table" =>
       (dynamic <=> LoadsBefore(file, index) \/ NeededBefore(Segment, item))

(* What was passed fits into the file, and no item passed ends its table.  *)
LoopInv ==
  /\ step = "header" => item = 0
  /\ step \in {"segments", "table"} =>
       HeaderError(file) = "none" /\ WellFormedBefore(file, index)
  /\ step = "segments" => index \in 0..file.count /\ item = 0
  /\ step = "table" =>
       /\ index \in 0..(file.count - 1)
       /\ HeaderFits(file, index)
       /\ Segment.type = "dynamic" /\ TableFits(file, Segment)
       /\ ReadBefore(file, Segment, item)

ValidationInv == ValidationTypeOK /\ FlagIsExact /\ LoopInv /\ AcceptedIsStatic

-----------------------------------------------------------------------------
LEMMA FileFacts ==
  ASSUME NEW f \in Files
  PROVE  /\ f.size \in Nat /\ f.count \in Nat
         /\ \A n \in 0..(f.count - 1) :
              f.segment[n].offset \in Nat /\ f.segment[n].size \in Nat
  BY FilesAssumption

LEMMA ItemFacts == Item \in Nat /\ 0 < Item
  BY SizesAssumption

LEMMA Growing ==
  ASSUME NEW k \in Nat, NEW l \in Nat, k <= l, NEW m \in Nat, 0 < m
  PROVE  k * m <= l * m /\ k <= k * m
  OBVIOUS

(* Going on by one header or item adds what that one says.                 *)
LEMMA LoadsGrows ==
  ASSUME NEW f, NEW n \in Nat
  PROVE  LoadsBefore(f, n + 1) <=> LoadsBefore(f, n) \/ Loads(f, n)
  <1>1. 0..(n + 1 - 1) = 0..(n - 1) \cup {n}
    OBVIOUS
  <1> QED  BY <1>1 DEF LoadsBefore

LEMMA WellFormedGrows ==
  ASSUME NEW f, NEW n \in Nat
  PROVE  WellFormedBefore(f, n + 1) <=> WellFormedBefore(f, n) /\ WellFormed(f, n)
  <1>1. 0..(n + 1 - 1) = 0..(n - 1) \cup {n}
    OBVIOUS
  <1> QED  BY <1>1 DEF WellFormedBefore

LEMMA NeededGrows ==
  ASSUME NEW s, NEW k \in Nat
  PROVE  NeededBefore(s, k + 1) <=> NeededBefore(s, k) \/ s.tag[k] = "needed"
  <1>1. 0..(k + 1 - 1) = 0..(k - 1) \cup {k}
    OBVIOUS
  <1> QED  BY <1>1 DEF NeededBefore

LEMMA ReadGrows ==
  ASSUME NEW f, NEW s, NEW k \in Nat,
         ReadBefore(f, s, k),
         k * Item < s.size, ItemFits(f, s, k), s.tag[k] # "null"
  PROVE  ReadBefore(f, s, k + 1)
  <1>1. 0..(k + 1 - 1) = 0..(k - 1) \cup {k}
    OBVIOUS
  <1> QED  BY <1>1 DEF ReadBefore

LEMMA BeforeNothing ==
  ASSUME NEW f, NEW s
  PROVE  /\ ~ LoadsBefore(f, 0) /\ WellFormedBefore(f, 0)
         /\ ~ NeededBefore(s, 0) /\ ReadBefore(f, s, 0)
  <1>1. 0..(0 - 1) = {}
    OBVIOUS
  <1> QED  BY <1>1 DEF LoadsBefore, WellFormedBefore, NeededBefore, ReadBefore

(* A table left at item k, at its end or at DT_NULL, has been read as far  *)
(* as it counts.                                                           *)
LEMMA TableRead ==
  ASSUME NEW f \in Files, NEW n \in 0..(f.count - 1), NEW s, s = f.segment[n],
         HeaderFits(f, n), s.type = "dynamic", TableFits(f, s),
         NEW k \in Nat, ReadBefore(f, s, k),
         s.size <= k * Item \/ (ItemFits(f, s, k) /\ s.tag[k] = "null")
  PROVE  /\ WellFormed(f, n)
         /\ Loads(f, n) <=> NeededBefore(s, k)
  <1>1. s.size \in Nat /\ s.offset \in Nat /\ f.size \in Nat
    BY FileFacts
  <1>2. ASSUME NEW l \in Counted(f, s), l \notin 0..(k - 1)
        PROVE  ItemFits(f, s, l) /\ s.tag[l] = "null"
    <2>1. l \in Nat /\ k <= l /\ Counts(s, l)
      BY <1>1, <1>2 DEF Counted
    <2>2. k * Item <= l * Item /\ k * Item \in Nat /\ l * Item \in Nat
      BY <2>1, Growing, ItemFacts
    <2>3. l * Item < s.size /\ \A m \in 0..(l - 1) : s.tag[m] # "null"
      BY <2>1 DEF Counts
    <2>4. ItemFits(f, s, k) /\ s.tag[k] = "null"
      BY <1>1, <2>2, <2>3
    <2>5. l = k
      BY <2>1, <2>3, <2>4
    <2> QED  BY <2>4, <2>5
  <1>3. ASSUME NEW l \in 0..(k - 1)
        PROVE  l \in Counted(f, s) /\ ItemFits(f, s, l)
    <2>1. l \in Nat /\ l * Item < s.size /\ ItemFits(f, s, l)
      BY DEF ReadBefore
    <2>2. \A m \in 0..(l - 1) : m \in 0..(k - 1)
      OBVIOUS
    <2>3. \A m \in 0..(l - 1) : s.tag[m] # "null"
      BY <2>2 DEF ReadBefore
    <2>4. l <= l * Item /\ l * Item \in Nat
      BY <2>1, Growing, ItemFacts
    <2>5. l \in 0..f.size
      BY <1>1, <2>1, <2>4 DEF TableFits
    <2> QED  BY <2>1, <2>3, <2>5 DEF Counted, Counts
  <1>4. \A l \in Counted(f, s) : ItemFits(f, s, l)
    BY <1>2, <1>3
  <1>5. (\E l \in Counted(f, s) : s.tag[l] = "needed") <=> NeededBefore(s, k)
    BY <1>2, <1>3 DEF NeededBefore
  <1> QED  BY <1>4, <1>5 DEF WellFormed, Loads

(* One that exceeds the file is not well formed.                           *)
LEMMA TableTruncated ==
  ASSUME NEW f \in Files, NEW n \in 0..(f.count - 1), NEW s, s = f.segment[n],
         s.type = "dynamic", TableFits(f, s),
         NEW k \in Nat, ReadBefore(f, s, k),
         k * Item < s.size, ~ ItemFits(f, s, k)
  PROVE  ~ WellFormed(f, n)
  <1>1. s.size \in Nat /\ s.offset \in Nat /\ f.size \in Nat
    BY FileFacts
  <1>2. k <= k * Item /\ k * Item \in Nat
    BY Growing, ItemFacts
  <1>3. k \in 0..f.size
    BY <1>1, <1>2 DEF TableFits
  <1>4. k \in Counted(f, s)
    BY <1>3 DEF Counted, Counts, ReadBefore
  <1> QED  BY <1>4 DEF WellFormed

LEMMA HeaderErrors ==
  ASSUME NEW f
  PROVE  HeaderError(f) \notin {"accepted", "dynamic_executable"}
  BY Zenon DEF HeaderError, UploadError

-----------------------------------------------------------------------------
LEMMA InitInv == ASSUME ValidationInit PROVE ValidationInv
  BY DEF ValidationInit, ValidationInv, ValidationTypeOK, Steps, FlagIsExact,
         LoopInv, AcceptedIsStatic

(* An upload without an error in its header is looked at from the start.   *)
LEMMA CheckHeaderStep == ASSUME ValidationInv, CheckHeader PROVE ValidationInv'
  <1> USE DEF ValidationInv
  <1>1. CASE HeaderError(file) # "none" /\ Answer(HeaderError(file))
    <2>1. ~ Executes(file)
      BY <1>1 DEF Executes
    <2>2. AcceptedIsStatic'
      BY <1>1, <2>1, HeaderErrors DEF AcceptedIsStatic, Answer
    <2>3. ValidationTypeOK'
      BY <1>1 DEF ValidationTypeOK, Answer, Steps
    <2> QED  BY <1>1, <2>2, <2>3 DEF Answer, FlagIsExact, LoopInv
  <1>2. CASE HeaderError(file) = "none" /\ step' = "segments"
             /\ UNCHANGED <<file, index, item, dynamic, verdict>>
    <2>1. index = 0 /\ item = 0 /\ dynamic = FALSE /\ file.count \in Nat
      BY FileFacts DEF CheckHeader, FlagIsExact, LoopInv, ValidationTypeOK
    <2>2. ValidationTypeOK'
      BY <1>2 DEF ValidationTypeOK, Steps, CheckHeader
    <2>3. ~ LoadsBefore(file, 0) /\ WellFormedBefore(file, 0)
      BY BeforeNothing
    <2>4. FlagIsExact'
      BY <1>2, <2>1, <2>3 DEF FlagIsExact
    <2>5. LoopInv'
      BY <1>2, <2>1, <2>3 DEF LoopInv
    <2> QED  BY <1>2, <2>2, <2>4, <2>5 DEF AcceptedIsStatic
  <1> QED  BY <1>1, <1>2 DEF CheckHeader

LEMMA AtHeaderFacts ==
  ASSUME ValidationInv, AtHeader
  PROVE  /\ file \in Files /\ file.count \in Nat
         /\ index \in 0..(file.count - 1) /\ index \in Nat /\ item = 0
         /\ HeaderError(file) = "none" /\ WellFormedBefore(file, index)
         /\ dynamic <=> LoadsBefore(file, index)
         /\ dynamic \in BOOLEAN
  BY FileFacts DEF ValidationInv, ValidationTypeOK, AtHeader, LoopInv, FlagIsExact

LEMMA AtTableFacts ==
  ASSUME ValidationInv, step = "table"
  PROVE  /\ file \in Files /\ file.count \in Nat
         /\ index \in 0..(file.count - 1) /\ index \in Nat /\ item \in Nat
         /\ HeaderError(file) = "none" /\ WellFormedBefore(file, index)
         /\ HeaderFits(file, index)
         /\ Segment.type = "dynamic" /\ TableFits(file, Segment)
         /\ ReadBefore(file, Segment, item)
         /\ dynamic <=> LoadsBefore(file, index) \/ NeededBefore(Segment, item)
         /\ dynamic \in BOOLEAN
  BY FileFacts DEF ValidationInv, ValidationTypeOK, LoopInv, FlagIsExact

LEMMA TruncatedStep == ASSUME ValidationInv, Truncated PROVE ValidationInv'
  <1>1. ~ Executes(file)
    <2>1. CASE AtHeader /\ ~ HeaderFits(file, index)
      BY <2>1, AtHeaderFacts DEF Executes, WellFormed
    <2>2. CASE AtHeader /\ Segment.type = "dynamic" /\ ~ TableFits(file, Segment)
      BY <2>2, AtHeaderFacts DEF Executes, WellFormed, Segment
    <2>3. CASE AtItem /\ ~ ItemFits(file, Segment, item)
      <3>1. ~ WellFormed(file, index)
        BY <2>3, AtTableFacts, TableTruncated DEF AtItem, Segment
      <3> QED  BY <2>3, <3>1, AtTableFacts DEF Executes, AtItem
    <2> QED  BY <2>1, <2>2, <2>3 DEF Truncated
  <1>2. AcceptedIsStatic'
    BY <1>1 DEF AcceptedIsStatic, Truncated, Answer
  <1>3. ValidationTypeOK'
    BY DEF ValidationInv, ValidationTypeOK, Truncated, Answer, Steps
  <1> QED  BY <1>2, <1>3 DEF ValidationInv, FlagIsExact, LoopInv, Truncated, Answer

(* The loop goes on behind a header that has been read.                    *)
LEMMA NextSegmentStep ==
  ASSUME ValidationInv, NextSegment, dynamic' \in BOOLEAN,
         index \in 0..(file.count - 1), file.count \in Nat,
         HeaderError(file) = "none",
         WellFormedBefore(file, index), WellFormed(file, index),
         dynamic' <=> LoadsBefore(file, index) \/ Loads(file, index)
  PROVE  ValidationInv'
  <1>1. index \in Nat /\ index' = index + 1 /\ file' = file /\ step' = "segments"
        /\ item' = 0 /\ verdict' = verdict /\ index + 1 \in 0..file.count
    BY DEF NextSegment
  <1>2. WellFormedBefore(file, index + 1)
    BY <1>1, WellFormedGrows
  <1>3. LoadsBefore(file, index + 1) <=> LoadsBefore(file, index) \/ Loads(file, index)
    BY <1>1, LoadsGrows
  <1>4. ValidationTypeOK'
    BY <1>1 DEF ValidationInv, ValidationTypeOK, Steps
  <1>5. dynamic' <=> LoadsBefore(file, index + 1)
    BY <1>3, Zenon
  <1>6. FlagIsExact'
    BY <1>1, <1>5 DEF FlagIsExact
  <1>7. LoopInv'
    BY <1>1, <1>2 DEF LoopInv
  <1> QED  BY <1>1, <1>4, <1>6, <1>7 DEF ValidationInv, AcceptedIsStatic

LEMMA CheckSegmentStep == ASSUME ValidationInv, CheckSegment PROVE ValidationInv'
  <1>1. AtHeader /\ HeaderFits(file, index) /\ Segment.type # "dynamic" /\ NextSegment
    BY DEF CheckSegment
  <1>2. WellFormed(file, index)
    BY <1>1 DEF WellFormed, Segment
  <1>3. Loads(file, index) <=> Segment.type = "interp"
    BY <1>1 DEF Loads, Segment
  <1>4. dynamic' <=> LoadsBefore(file, index) \/ Loads(file, index)
    <2>1. dynamic' = (dynamic \/ Segment.type = "interp")
      BY DEF CheckSegment
    <2>2. dynamic <=> LoadsBefore(file, index)
      BY <1>1, AtHeaderFacts
    <2> QED  BY <1>3, <2>1, <2>2, Zenon
  <1>5. dynamic' \in BOOLEAN
    BY Zenon DEF CheckSegment
  <1> QED  BY <1>1, <1>2, <1>4, <1>5, AtHeaderFacts, NextSegmentStep

LEMMA EnterTableStep == ASSUME ValidationInv, EnterTable PROVE ValidationInv'
  <1>1. /\ AtHeader /\ HeaderFits(file, index) /\ Segment.type = "dynamic"
        /\ TableFits(file, Segment) /\ step' = "table"
        /\ UNCHANGED <<file, index, item, dynamic, verdict>> /\ Segment' = Segment
    BY DEF EnterTable, Segment
  <1>2. /\ index \in 0..(file.count - 1) /\ item = 0
        /\ HeaderError(file) = "none" /\ WellFormedBefore(file, index)
        /\ dynamic <=> LoadsBefore(file, index)
    BY <1>1, AtHeaderFacts
  <1>3. ~ NeededBefore(Segment, 0) /\ ReadBefore(file, Segment, 0)
    BY BeforeNothing
  <1>4. ValidationTypeOK'
    BY <1>1 DEF ValidationInv, ValidationTypeOK, Steps, AtHeader
  <1>5. FlagIsExact'
    BY <1>1, <1>2, <1>3 DEF FlagIsExact
  <1>6. LoopInv'
    BY <1>1, <1>2, <1>3 DEF LoopInv
  <1> QED  BY <1>1, <1>4, <1>5, <1>6 DEF ValidationInv, AcceptedIsStatic

LEMMA CheckItemStep == ASSUME ValidationInv, CheckItem PROVE ValidationInv'
  <1>1. /\ step = "table" /\ item * Item < Segment.size
        /\ ItemFits(file, Segment, item) /\ Segment.tag[item] # "null"
        /\ item' = item + 1 /\ UNCHANGED <<file, step, index, verdict>>
        /\ Segment' = Segment
    BY DEF CheckItem, AtItem, Segment
  <1>2. /\ item \in Nat /\ index \in 0..(file.count - 1)
        /\ HeaderError(file) = "none" /\ WellFormedBefore(file, index)
        /\ HeaderFits(file, index)
        /\ Segment.type = "dynamic" /\ TableFits(file, Segment)
        /\ ReadBefore(file, Segment, item)
    BY <1>1, AtTableFacts
  <1>3. ReadBefore(file, Segment, item + 1)
    BY <1>1, <1>2, ReadGrows
  <1>4. dynamic' <=> LoadsBefore(file, index) \/ NeededBefore(Segment, item + 1)
    <2>1. dynamic' = (dynamic \/ Segment.tag[item] = "needed")
      BY DEF CheckItem
    <2>2. dynamic <=> LoadsBefore(file, index) \/ NeededBefore(Segment, item)
      BY <1>1, AtTableFacts
    <2>3. NeededBefore(Segment, item + 1)
            <=> NeededBefore(Segment, item) \/ Segment.tag[item] = "needed"
      BY <1>2, NeededGrows
    <2> QED  BY <2>1, <2>2, <2>3, Zenon
  <1>5. dynamic' \in BOOLEAN
    BY Zenon DEF CheckItem
  <1>6. ValidationTypeOK'
    BY <1>1, <1>2, <1>5 DEF ValidationInv, ValidationTypeOK, Steps
  <1>7. FlagIsExact'
    BY <1>1, <1>4 DEF FlagIsExact
  <1>8. LoopInv'
    BY <1>1, <1>2, <1>3 DEF LoopInv
  <1> QED  BY <1>1, <1>6, <1>7, <1>8 DEF ValidationInv, AcceptedIsStatic

LEMMA LeaveTableStep == ASSUME ValidationInv, LeaveTable PROVE ValidationInv'
  <1>1. step = "table" /\ NextSegment /\ dynamic' = dynamic
    BY DEF LeaveTable
  <1>2. Segment.size \in Nat /\ item * Item \in Nat
    BY <1>1, AtTableFacts, FileFacts, ItemFacts DEF Segment
  <1>3. \/ Segment.size <= item * Item
        \/ ItemFits(file, Segment, item) /\ Segment.tag[item] = "null"
    BY <1>1, <1>2 DEF LeaveTable, AtItem
  <1>4. WellFormed(file, index) /\ (Loads(file, index) <=> NeededBefore(Segment, item))
    BY <1>1, <1>3, AtTableFacts, TableRead DEF Segment
  <1>5. dynamic <=> LoadsBefore(file, index) \/ NeededBefore(Segment, item)
    BY <1>1, AtTableFacts
  <1>6. dynamic' <=> LoadsBefore(file, index) \/ Loads(file, index)
    BY <1>1, <1>4, <1>5, Zenon
  <1>7. dynamic' \in BOOLEAN
    BY <1>1, AtTableFacts
  <1> QED  BY <1>1, <1>4, <1>6, <1>7, AtTableFacts, NextSegmentStep

LEMMA DecideStep == ASSUME ValidationInv, Decide PROVE ValidationInv'
  <1>1. /\ step = "segments" /\ index = file.count
        /\ Answer(IF dynamic THEN "dynamic_executable" ELSE "accepted")
    BY DEF Decide
  <1>2. Executes(file)
    BY <1>1 DEF Executes, ValidationInv, LoopInv, WellFormedBefore
  <1>3. dynamic <=> NeedsLoader(file)
    BY <1>1, Zenon DEF NeedsLoader, ValidationInv, FlagIsExact, LoadsBefore
  <1>4. AcceptedIsStatic'
    BY <1>1, <1>2, <1>3 DEF AcceptedIsStatic, Answer
  <1>5. ValidationTypeOK'
    BY <1>1 DEF ValidationInv, ValidationTypeOK, Answer, Steps
  <1> QED  BY <1>1, <1>4, <1>5 DEF ValidationInv, FlagIsExact, LoopInv, Answer

LEMMA StutterStep ==
  ASSUME ValidationInv, UNCHANGED validationVars PROVE ValidationInv'
  BY DEF validationVars, ValidationInv, ValidationTypeOK, FlagIsExact, LoopInv,
         AcceptedIsStatic, Segment

(* For every file, limit and size of the ELF structures, an upload is      *)
(* accepted exactly if it is a well formed executable that loads nothing   *)
(* (validate_bot_executable).                                              *)
THEOREM OnlyStaticAccepted == ValidationSpec => []AcceptedIsStatic
  <1>1. ValidationInv /\ [Validate]_validationVars => ValidationInv'
    BY CheckHeaderStep, TruncatedStep, CheckSegmentStep, EnterTableStep,
       CheckItemStep, LeaveTableStep, DecideStep, StutterStep DEF Validate
  <1>2. ValidationInv => AcceptedIsStatic
    BY DEF ValidationInv
  <1> QED  BY <1>1, <1>2, InitInv, PTL DEF ValidationSpec
=============================================================================
