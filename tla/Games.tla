------------------------------- MODULE Games --------------------------------
(***************************************************************************)
(* The games of the arena side by side: a match is played by the rules its *)
(* game_id names (_run_match_for_game in api/match_execution.py), and its  *)
(* stored moves are replayed by the same name (api/main.py).               *)
(***************************************************************************)
EXTENDS ConnectFour

VARIABLE game_id

TicTacToe == INSTANCE TicTacToe

gamesVars == <<game_id, vars>>

GamesInit ==
  \/ game_id = "tictactoe" /\ TicTacToe!Init
  \/ game_id = "connect-four" /\ Init

RunMatchForGame ==
  /\ \/ game_id = "tictactoe" /\ TicTacToe!Next
     \/ game_id = "connect-four" /\ Next
  /\ UNCHANGED game_id

GamesSpec == GamesInit /\ [][RunMatchForGame]_gamesVars

-----------------------------------------------------------------------------
(* Properties.                                                             *)

(* winner() names the player who has a line (three, or four in any         *)
(* direction), and at most one player has one: the order in which it looks *)
(* at the lines does not matter, and the scan misses none near an edge.    *)
WinnerHasLine ==
  CASE game_id = "tictactoe" -> TicTacToe!WinnerHasTheLine
    [] game_id = "connect-four" -> WinnerHasFour

(* The board the API and the frontend rebuild from the stored moves, with  *)
(* markers taken from the parity of the index, is the board that was       *)
(* played, position by position.                                           *)
ReplayedBoardIsPlayed == replay = grid

(* What the referee relies on (GameRules): players alternate from X, a     *)
(* final position accepts nothing, a line is completed by the player who   *)
(* moves and not before it can be, and a full board is decided.            *)
ImplementsGameRules ==
  /\ CASE game_id = "tictactoe" -> TicTacToe!Rules!GameInit
       [] game_id = "connect-four" -> Rules!GameInit
  /\ [][CASE game_id = "tictactoe" -> TicTacToe!Rules!Play
          [] game_id = "connect-four" -> Rules!Play]_gamesVars

=============================================================================
