----------------------------- MODULE GameRules ------------------------------
(***************************************************************************)
(* What the referee relies on in a game (the GameRules protocol of         *)
(* engine/referee.py): X moves first, players alternate, only accepted     *)
(* moves change the position, a final position accepts nothing, and only   *)
(* the player who has just moved can have won.  TicTacToe and ConnectFour  *)
(* implement it.                                                           *)
(***************************************************************************)
EXTENDS Naturals

CONSTANTS
  MaxMoves,   (* a position with this many moves is final    *)
  MinMoves    (* no position with fewer moves is final       *)

ASSUME MovesAssumption ==
  /\ MaxMoves \in Nat /\ MinMoves \in Nat
  /\ 0 < MinMoves /\ MinMoves <= MaxMoves

VARIABLES
  moves,      (* accepted moves                              *)
  outcome     (* "open", "draw", or the player who has won   *)

gameVars == <<moves, outcome>>

Players == {"X", "O"}
Other(p) == IF p = "X" THEN "O" ELSE "X"

Turn == IF moves % 2 = 0 THEN "X" ELSE "O"

GameInit == moves = 0 /\ outcome = "open"

(* What an accepted move can decide: a draw fills the board, a full board  *)
(* is decided, and a line takes MinMoves moves.                            *)
Decisions ==
  {d \in {"open", "draw", Turn} :
     /\ d = "open" => moves + 1 < MaxMoves
     /\ d = "draw" => moves + 1 = MaxMoves
     /\ d = Turn => moves + 1 >= MinMoves}

Play ==
  /\ outcome = "open"
  /\ outcome' \in Decisions
  /\ moves' = moves + 1

GameSpec == GameInit /\ [][Play]_gameVars
=============================================================================
