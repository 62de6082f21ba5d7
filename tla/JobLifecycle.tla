---------------------------- MODULE JobLifecycle ----------------------------
(***************************************************************************)
(* What a requester is promised about a match job, without saying how the  *)
(* workers keep the promise:                                               *)
(*                                                                         *)
(*   - a job is queued once, and every claim of it opens a new attempt;    *)
(*   - only the attempt in progress can complete the job, and completing   *)
(*     it creates exactly one match, the one the job names;                *)
(*   - an attempt that stalls goes back to the queue until the attempts    *)
(*     are used up;                                                        *)
(*   - the moves published while it runs are moves 1..n of one attempt,    *)
(*     and only the attempt in progress adds to them;                      *)
(*   - a completed or failed job is never touched again.                   *)
(*                                                                         *)
(* MatchQueue is the detailed specification that implements this one while *)
(* no two workers can hold the same job.                                   *)
(***************************************************************************)
EXTENDS Naturals

CONSTANTS
  Jobs,         (* every job that may be requested                *)
  MaxAttempts,  (* MATCH_JOB_MAX_ATTEMPTS                         *)
  MaxMoves      (* moves a match can have                         *)

VARIABLES
  status,       (* "none" before the job is requested             *)
  attempts,     (* attempts opened so far                         *)
  matches,      (* attempts whose match was stored                *)
  match,        (* the attempt whose match the job names, 0: none *)
  liveMoves     (* the attempt each published move is of, 0: none *)

lifecycleVars == <<status, attempts, matches, match, liveMoves>>

Init ==
  /\ status = [j \in Jobs |-> "none"]
  /\ attempts = [j \in Jobs |-> 0]
  /\ matches = [j \in Jobs |-> {}]
  /\ match = [j \in Jobs |-> 0]
  /\ liveMoves = [j \in Jobs |-> [n \in 1..MaxMoves |-> 0]]

Enqueue(j) ==
  /\ status[j] = "none"
  /\ status' = [status EXCEPT ![j] = "queued"]
  /\ UNCHANGED <<attempts, matches, match, liveMoves>>

Start(j) ==
  /\ status[j] = "queued"
  /\ attempts[j] < MaxAttempts
  /\ status' = [status EXCEPT ![j] = "running"]
  /\ attempts' = [attempts EXCEPT ![j] = @ + 1]
  /\ UNCHANGED <<matches, match, liveMoves>>

ClearMoves(j) ==
  /\ status[j] = "running"
  /\ liveMoves' = [liveMoves EXCEPT ![j] = [n \in 1..MaxMoves |-> 0]]
  /\ UNCHANGED <<status, attempts, matches, match>>

(* The next move of the attempt in progress. *)
RecordMove(j, n) ==
  /\ status[j] = "running"
  /\ \A k \in 1..MaxMoves :
       liveMoves[j][k] = IF k < n THEN attempts[j] ELSE 0
  /\ liveMoves' = [liveMoves EXCEPT ![j][n] = attempts[j]]
  /\ UNCHANGED <<status, attempts, matches, match>>

Complete(j) ==
  /\ status[j] = "running"
  /\ status' = [status EXCEPT ![j] = "completed"]
  /\ matches' = [matches EXCEPT ![j] = {attempts[j]}]
  /\ match' = [match EXCEPT ![j] = attempts[j]]
  /\ UNCHANGED <<attempts, liveMoves>>

Fail(j) ==
  /\ status[j] = "running"
  /\ status' = [status EXCEPT ![j] = "failed"]
  /\ UNCHANGED <<attempts, matches, match, liveMoves>>

(* Several stalled attempts may be given up in one step. *)
GiveUp(S) ==
  /\ \A j \in S : status[j] = "running"
  /\ status' = [j \in Jobs |-> IF j \notin S THEN status[j]
                               ELSE IF attempts[j] < MaxAttempts THEN "queued"
                               ELSE "failed"]
  /\ UNCHANGED <<attempts, matches, match, liveMoves>>

Next ==
  \/ \E j \in Jobs :
       \/ Enqueue(j) \/ Start(j) \/ Complete(j) \/ Fail(j) \/ ClearMoves(j)
       \/ \E n \in 1..MaxMoves : RecordMove(j, n)
  \/ \E S \in SUBSET Jobs : GiveUp(S)

Spec == Init /\ [][Next]_lifecycleVars
=============================================================================
