---------------------------- MODULE SharedJobs ------------------------------
(***************************************************************************)
(* What is left of the promise of JobLifecycle when several workers can    *)
(* hold one job: an attempt the reaper gave up on, or one whose log line   *)
(* failed after its completion, goes on.  Whatever the row says by then,   *)
(*                                                                         *)
(*   - it deletes the live moves and inserts its own among those of others;*)
(*   - it stores a match of its own and names it on the job;               *)
(*   - it marks the job completed, or failed.                              *)
(*                                                                         *)
(* Still, a resolved job is never queued or running again.  MatchQueue     *)
(* implements this specification without any condition.                    *)
(***************************************************************************)
EXTENDS JobLifecycle

Opened(j) == 1..attempts[j]

LateClear(j) ==
  /\ Opened(j) # {}
  /\ liveMoves' = [liveMoves EXCEPT ![j] = [n \in 1..MaxMoves |-> 0]]
  /\ UNCHANGED <<status, attempts, matches, match>>

(* Move numbers are unique, so a move is never overwritten.                *)
LateMove(j, n, a) ==
  /\ a \in Opened(j)
  /\ liveMoves[j][n] = 0
  /\ liveMoves' = [liveMoves EXCEPT ![j][n] = a]
  /\ UNCHANGED <<status, attempts, matches, match>>

(* The status is left out of the update where it was loaded as completed;  *)
(* the row may say failed by now.                                          *)
LateComplete(j, a) ==
  /\ a \in Opened(j) \ matches[j]
  /\ status' \in {status, [status EXCEPT ![j] = "completed"]}
  /\ status'[j] \in {"completed", "failed"}
  /\ matches' = [matches EXCEPT ![j] = @ \cup {a}]
  /\ match' = [match EXCEPT ![j] = a]
  /\ UNCHANGED <<attempts, liveMoves>>

LateFail(j) ==
  /\ Opened(j) # {}
  /\ status' = [status EXCEPT ![j] = "failed"]
  /\ UNCHANGED <<attempts, matches, match, liveMoves>>

Late ==
  \E j \in Jobs :
    \/ LateClear(j) \/ LateFail(j)
    \/ \E a \in Opened(j) :
         LateComplete(j, a) \/ \E n \in 1..MaxMoves : LateMove(j, n, a)

SharedSpec == Init /\ [][Next \/ Late]_lifecycleVars
=============================================================================
