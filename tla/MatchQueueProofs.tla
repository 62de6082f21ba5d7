-------------------------- MODULE MatchQueueProofs --------------------------
(***************************************************************************)
(* Proofs about MatchQueue, for every set of jobs, users and workers and   *)
(* for every value of its bounds and switches, and about Wakeup, whose     *)
(* workers run that queue and sleep between jobs.                          *)
(***************************************************************************)
EXTENDS Wakeup, FiniteSetTheorems, TLAPS

(* Type correctness: every step of the API, the reaper, the workers and    *)
(* the clock keeps every column and every worker local in its domain.      *)
LEMMA TypeInit == Init => TypeOK
  BY JobsAssumption, BoundsAssumption
  DEF Init, TypeOK, Statuses, Active, Terminal, Ages, Errors, Unloaded,
      Controls, MoveNumbers, NoJob, Attempting

LEMMA TypeStep == TypeOK /\ [Next]_vars => TypeOK'
<1> SUFFICES ASSUME TypeOK, [Next]_vars PROVE TypeOK'
  OBVIOUS
<1> USE JobsAssumption, BoundsAssumption
        DEF TypeOK, rowVars, workerVars, Statuses, Active, Terminal, Ages,
            Errors, Unloaded, Loaded, Controls, NoJob, Attempting
<1>1. ASSUME NEW j \in Jobs, CheckLimit(j) PROVE TypeOK'
  BY <1>1 DEF CheckLimit
<1>2. ASSUME NEW j \in Jobs, InsertJob(j) PROVE TypeOK'
  BY <1>2 DEF InsertJob
<1>3. ASSUME NEW j \in Jobs, AbortRequest(j) PROVE TypeOK'
  BY <1>3 DEF AbortRequest
<1>4. ASSUME NEW j \in Jobs, Age(j) PROVE TypeOK'
  BY <1>4 DEF Age
<1>5. ASSUME NEW w \in Workers, Reap(w) PROVE TypeOK'
  BY <1>5 DEF Reap
<1>6. ASSUME NEW w \in Workers, SkipReap(w) PROVE TypeOK'
  BY <1>6 DEF SkipReap
<1>7. ASSUME NEW w \in Workers, NEW j \in Jobs, Claim(w, j) PROVE TypeOK'
  BY <1>7 DEF Claim
<1>8. ASSUME NEW w \in Workers, ClaimNone(w) PROVE TypeOK'
  BY <1>8 DEF ClaimNone
<1>9. ASSUME NEW w \in Workers, WaitReturns(w) PROVE TypeOK'
  BY <1>9 DEF WaitReturns
<1>10. ASSUME NEW w \in Workers, ClearLiveMoves(w) PROVE TypeOK'
  BY <1>10 DEF ClearLiveMoves, MovesCleared
<1>11. ASSUME NEW w \in Workers, LoadJob(w) PROVE TypeOK'
  BY <1>11 DEF LoadJob
<1>12. ASSUME NEW w \in Workers, RecordLiveMove(w) PROVE TypeOK'
  <2>1. job[w] \in Jobs /\ made[w] + 1 \in MoveNumbers
    BY <1>12 DEF RecordLiveMove, MoveNumbers
  <2>2. liveMoves' \in [Jobs -> [MoveNumbers -> Nat]]
    BY <1>12, <2>1 DEF RecordLiveMove
  <2>3. made' \in [Workers -> 0..MaxMoves]
    BY <1>12 DEF RecordLiveMove
  <2> QED
    BY <1>12, <2>2, <2>3 DEF RecordLiveMove
<1>13. ASSUME NEW w \in Workers, LiveMoveRejected(w) PROVE TypeOK'
  BY <1>13 DEF LiveMoveRejected
<1>14. ASSUME NEW w \in Workers, CompleteJob(w) PROVE TypeOK'
  <2>1. job[w] \in Jobs
    BY <1>14 DEF CompleteJob
  <2>2. status' \in [Jobs -> Statuses]
    BY <1>14, <2>1 DEF CompleteJob
  <2>3. error' \in [Jobs -> Errors]
    BY <1>14, <2>1 DEF CompleteJob
  <2>4. matches' \in [Jobs -> SUBSET Nat]
    <3>1. attempt[w] \in Nat /\ matches[job[w]] \in SUBSET Nat
      BY <2>1
    <3>2. matches[job[w]] \cup {attempt[w]} \in SUBSET Nat
      BY <3>1
    <3> QED
      BY <1>14, <2>1, <3>2 DEF CompleteJob
  <2>5. match' \in [Jobs -> Nat]
    BY <1>14, <2>1 DEF CompleteJob
  <2> QED
    BY <1>14, <2>1, <2>2, <2>3, <2>4, <2>5 DEF CompleteJob
<1>15. ASSUME NEW w \in Workers, LogCompleted(w) PROVE TypeOK'
  BY <1>15 DEF LogCompleted, Release
<1>16. ASSUME NEW w \in Workers, LogFault(w) PROVE TypeOK'
  BY <1>16 DEF LogFault
<1>17. ASSUME NEW w \in Workers, RunJobRaises(w) PROVE TypeOK'
  BY <1>17 DEF RunJobRaises
<1>18. ASSUME NEW w \in Workers, FailLoad(w) PROVE TypeOK'
  BY <1>18 DEF FailLoad
<1>19. ASSUME NEW w \in Workers, FailCommit(w) PROVE TypeOK'
  <2>1. job[w] \in Jobs
    BY <1>19 DEF FailCommit
  <2>2. status' \in [Jobs -> Statuses]
    BY <1>19, <2>1 DEF FailCommit
  <2>3. error' \in [Jobs -> Errors]
    <3>1. PICK sameText \in BOOLEAN :
            error' = [error EXCEPT ![job[w]] =
              IF sameText /\ seen[w].error = "raised" THEN @ ELSE "raised"]
      BY <1>19 DEF FailCommit
    <3> DEFINE text == IF sameText /\ seen[w].error = "raised"
                       THEN error[job[w]] ELSE "raised"
    <3>2. text \in Errors
      BY <2>1
    <3>3. error' = [error EXCEPT ![job[w]] = text]
      BY <3>1
    <3> QED
      BY <3>2, <3>3
  <2> QED
    BY <1>19, <2>1, <2>2, <2>3 DEF FailCommit, Release
<1>20. ASSUME NEW w \in Workers, Hang(w) PROVE TypeOK'
  BY <1>20 DEF Hang
<1>21. ASSUME NEW w \in Workers, Crash(w) PROVE TypeOK'
  BY <1>21 DEF Crash, Release
<1>22. ASSUME NEW w \in Workers, Restart(w) PROVE TypeOK'
  BY <1>22 DEF Restart
<1>24. ASSUME NEW w \in Workers, NEW j \in Jobs, LockJob(w, j) PROVE TypeOK'
  BY <1>24 DEF LockJob
<1>23. CASE UNCHANGED vars
  BY <1>23 DEF vars
<1> QED
  BY <1>1, <1>2, <1>3, <1>4, <1>5, <1>6, <1>7, <1>8, <1>9, <1>10, <1>11,
     <1>12, <1>13, <1>14, <1>15, <1>16, <1>17, <1>18, <1>19, <1>20, <1>21,
     <1>22, <1>23, <1>24
  DEF Next, ApiStep, WorkerStep, WorkerFault

(* Every variable keeps its type; in particular a worker names a job       *)
(* exactly from its claim to the end of run_once.                          *)
THEOREM TypeCorrect == Spec => []TypeOK
  BY TypeInit, TypeStep, PTL DEF Spec
-----------------------------------------------------------------------------
(* The inductive invariant.  The properties of the rows alone are not      *)
(* inductive: a late commit of an attempt the reaper gave up on writes the *)
(* row of a job another attempt may hold.  What makes it harmless is that  *)
(* the attempts held by workers are numbered, counted by the row and       *)
(* pairwise distinct, and that a column left out of an update because the  *)
(* worker had loaded a final status is still final.                        *)

Requested ==
  /\ \A j \in Jobs : status[j] = "none" => attempts[j] = 0
  /\ \A j \in admitted : status[j] = "none"

HeldAttempt ==
  \A w \in Workers : job[w] # NoJob =>
    /\ status[job[w]] # "none"
    /\ attempt[w] \in 1..attempts[job[w]]

SeenTerminal ==
  \A w \in Workers :
    pc[w] \in {"play", "failCommit"} /\ seen[w].status \in Terminal =>
      status[job[w]] \in Terminal

RowInv ==
  /\ UnresolvedIsClean
  /\ MatchIsRecorded
  /\ AttemptsAccounted
  /\ AttemptsAreDistinct
  /\ Requested
  /\ HeldAttempt
  /\ SeenTerminal

LEMMA RowInit == Init => RowInv
  BY BoundsAssumption
  DEF Init, RowInv, UnresolvedIsClean, MatchIsRecorded, AttemptsAccounted,
      AttemptsAreDistinct, Requested, HeldAttempt, SeenTerminal, Terminal,
      Unloaded, NoJob

LEMMA RowStep == TypeOK /\ RowInv /\ [Next]_vars => RowInv'
<1> SUFFICES ASSUME TypeOK, RowInv, [Next]_vars PROVE RowInv'
  OBVIOUS
<1> USE JobsAssumption, BoundsAssumption
        DEF TypeOK, rowVars, workerVars, Statuses, Active, Terminal, Ages,
            Errors, Unloaded, Loaded, Controls, NoJob, Attempting, RowInv,
            UnresolvedIsClean, MatchIsRecorded, AttemptsAccounted,
            AttemptsAreDistinct, Requested, HeldAttempt, SeenTerminal
<1>1. ASSUME NEW j \in Jobs, CheckLimit(j) PROVE RowInv'
  BY <1>1 DEF CheckLimit
<1>2. ASSUME NEW j \in Jobs, InsertJob(j) PROVE RowInv'
  <2>1. UnresolvedIsClean'
    BY <1>2 DEF InsertJob
  <2>2. MatchIsRecorded'
    BY <1>2 DEF InsertJob
  <2>3. AttemptsAccounted'
    BY <1>2 DEF InsertJob
  <2>4. AttemptsAreDistinct'
    BY <1>2 DEF InsertJob
  <2>5. Requested'
    BY <1>2 DEF InsertJob
  <2>6. HeldAttempt'
    BY <1>2 DEF InsertJob
  <2>7. SeenTerminal'
    BY <1>2 DEF InsertJob
  <2> QED
    BY <2>1, <2>2, <2>3, <2>4, <2>5, <2>6, <2>7
<1>3. ASSUME NEW j \in Jobs, AbortRequest(j) PROVE RowInv'
  BY <1>3 DEF AbortRequest
<1>4. ASSUME NEW j \in Jobs, Age(j) PROVE RowInv'
  BY <1>4 DEF Age
<1>5. ASSUME NEW w \in Workers, Reap(w) PROVE RowInv'
  <2>8. PICK S \in SUBSET Stalled :
          /\ status' = [j \in Jobs |->
               IF j \notin S THEN status[j]
               ELSE IF OutOfAttempts(j) THEN "failed" ELSE "queued"]
          /\ error' = [j \in Jobs |->
               IF j \notin S THEN error[j]
               ELSE IF OutOfAttempts(j) THEN "stalled" ELSE "null"]
          /\ started' = [j \in Jobs |-> IF j \in S THEN "null" ELSE started[j]]
    BY ONLY <1>5, Zenon DEF Reap
  <2>9. \A j \in Jobs \ S : /\ status'[j] = status[j]
                            /\ error'[j] = error[j]
                            /\ started'[j] = started[j]
    BY <2>8
  <2>10. \A j \in S : /\ j \in Jobs /\ status[j] = "running"
                      /\ \/ /\ attempts[j] >= MaxAttempts
                            /\ status'[j] = "failed"
                         \/ /\ attempts[j] < MaxAttempts
                            /\ status'[j] = "queued" /\ error'[j] = "null"
    BY <2>8 DEF Stalled, OutOfAttempts
  <2>11. attempts' = attempts /\ match' = match /\ matches' = matches
         /\ job' = job /\ attempt' = attempt /\ seen' = seen
         /\ admitted' = admitted /\ pc' = [pc EXCEPT ![w] = "claim"]
    BY <1>5 DEF Reap
  <2>1. UnresolvedIsClean'
    BY <2>9, <2>10, <2>11
  <2>2. MatchIsRecorded'
    BY <2>9, <2>10, <2>11
  <2>3. AttemptsAccounted'
    BY <2>9, <2>10, <2>11
  <2>4. AttemptsAreDistinct'
    BY <2>9, <2>10, <2>11
  <2>5. Requested'
    BY <2>9, <2>10, <2>11
  <2>12. \A j \in Jobs : /\ status[j] # "none" => status'[j] # "none"
                         /\ status[j] \in Terminal => status'[j] \in Terminal
    BY <2>9, <2>10
  <2>13. \A v \in Workers :
           /\ job[v] # NoJob => job[v] \in Jobs
           /\ pc'[v] \in {"play", "failCommit"} =>
                pc[v] = pc'[v] /\ job[v] \in Jobs
    BY <2>11
  <2>6. HeldAttempt'
    BY <2>11, <2>12, <2>13
  <2>7. SeenTerminal'
    BY <2>11, <2>12, <2>13
  <2> QED
    BY <2>1, <2>2, <2>3, <2>4, <2>5, <2>6, <2>7
<1>6. ASSUME NEW w \in Workers, SkipReap(w) PROVE RowInv'
  BY <1>6 DEF SkipReap
<1>7. ASSUME NEW w \in Workers, NEW j \in Jobs, Claim(w, j) PROVE RowInv'
  <2>8. status[j] = "queued" /\ status'[j] = "running" /\ error'[j] = "null"
        /\ started'[j] = "recent" /\ attempts'[j] = attempts[j] + 1
    BY <1>7 DEF Claim, Queued
  <2>9. \A k \in Jobs \ {j} : /\ status'[k] = status[k] /\ error'[k] = error[k]
                              /\ started'[k] = started[k]
                              /\ attempts'[k] = attempts[k]
    BY <1>7 DEF Claim
  <2>10. match' = match /\ matches' = matches /\ seen' = seen
         /\ admitted' = admitted
    BY <1>7 DEF Claim
  <2>11. /\ pc[w] = "claim" /\ pc' = [pc EXCEPT ![w] = "clear"]
         /\ job' = [job EXCEPT ![w] = j]
         /\ attempt' = [attempt EXCEPT ![w] = attempts[j] + 1]
    BY <1>7 DEF Claim
  <2>1. UnresolvedIsClean'
    BY <2>8, <2>9, <2>10, <2>11
  <2>2. MatchIsRecorded'
    BY <2>8, <2>9, <2>10, <2>11
  <2>3. AttemptsAccounted'
    BY <2>8, <2>9, <2>10, <2>11
  <2>4. AttemptsAreDistinct'
    BY <2>8, <2>9, <2>10, <2>11
  <2>5. Requested'
    BY <2>8, <2>9, <2>10, <2>11
  <2>12. \A k \in Jobs : /\ status[k] # "none" => status'[k] # "none"
                         /\ status[k] \in Terminal => status'[k] \in Terminal
                         /\ attempts'[k] >= attempts[k]
    BY <2>8, <2>9
  <2>13. \A v \in Workers \ {w} : /\ job[v] # NoJob => job[v] \in Jobs
                                  /\ job'[v] = job[v]
                                  /\ attempt'[v] = attempt[v]
                                  /\ pc'[v] = pc[v]
                                  /\ pc[v] \in {"play", "failCommit"} =>
                                       job[v] \in Jobs
    BY <2>11
  <2>14. /\ job'[w] = j /\ pc'[w] = "clear"
         /\ attempt'[w] = attempts[j] + 1
    BY <2>11
  <2>6. HeldAttempt'
    <3>1. attempts[j] \in Nat /\ attempts'[j] = attempts[j] + 1
      BY <2>8
    <3>2. attempt'[w] \in 1..attempts'[job'[w]]
      BY <3>1, <2>14
    <3>3. ASSUME NEW v \in Workers \ {w}, job'[v] # NoJob
          PROVE  status'[job'[v]] # "none" /\ attempt'[v] \in 1..attempts'[job'[v]]
      <4>1. /\ job[v] \in Jobs /\ job'[v] = job[v] /\ attempt'[v] = attempt[v]
            /\ attempt[v] \in 1..attempts[job[v]] /\ status[job[v]] # "none"
        BY <2>13, <3>3
      <4>2. attempts[job[v]] \in Nat
        BY <4>1
      <4>3. /\ attempts'[job[v]] \in {attempts[job[v]], attempts[job[v]] + 1}
            /\ status'[job[v]] # "none"
        BY ONLY <2>8, <2>9, <2>12, <4>1
      <4> QED
        BY ONLY <4>1, <4>2, <4>3
    <3> QED
      BY <2>8, <2>14, <3>2, <3>3
  <2>7. SeenTerminal'
    BY <2>10, <2>12, <2>13, <2>14
  <2> QED
    BY <2>1, <2>2, <2>3, <2>4, <2>5, <2>6, <2>7
<1>8. ASSUME NEW w \in Workers, ClaimNone(w) PROVE RowInv'
  BY <1>8 DEF ClaimNone
<1>9. ASSUME NEW w \in Workers, WaitReturns(w) PROVE RowInv'
  BY <1>9 DEF WaitReturns
<1>10. ASSUME NEW w \in Workers, ClearLiveMoves(w) PROVE RowInv'
  BY <1>10 DEF ClearLiveMoves
<1>11. ASSUME NEW w \in Workers, LoadJob(w) PROVE RowInv'
  BY <1>11 DEF LoadJob
<1>12. ASSUME NEW w \in Workers, RecordLiveMove(w) PROVE RowInv'
  BY <1>12 DEF RecordLiveMove
<1>13. ASSUME NEW w \in Workers, LiveMoveRejected(w) PROVE RowInv'
  BY <1>13 DEF LiveMoveRejected
<1>14. ASSUME NEW w \in Workers, CompleteJob(w) PROVE RowInv'
  <2>1. UnresolvedIsClean'
    BY <1>14 DEF CompleteJob
  <2>2. MatchIsRecorded'
    BY <1>14 DEF CompleteJob
  <2>3. AttemptsAccounted'
    BY <1>14 DEF CompleteJob
  <2>4. AttemptsAreDistinct'
    BY <1>14 DEF CompleteJob
  <2>5. Requested'
    BY <1>14 DEF CompleteJob
  <2>6. HeldAttempt'
    BY <1>14 DEF CompleteJob
  <2>7. SeenTerminal'
    BY <1>14 DEF CompleteJob
  <2> QED
    BY <2>1, <2>2, <2>3, <2>4, <2>5, <2>6, <2>7
<1>15. ASSUME NEW w \in Workers, LogCompleted(w) PROVE RowInv'
  BY <1>15 DEF LogCompleted, Release
<1>16. ASSUME NEW w \in Workers, LogFault(w) PROVE RowInv'
  BY <1>16 DEF LogFault
<1>17. ASSUME NEW w \in Workers, RunJobRaises(w) PROVE RowInv'
  BY <1>17 DEF RunJobRaises
<1>18. ASSUME NEW w \in Workers, FailLoad(w) PROVE RowInv'
  BY <1>18 DEF FailLoad
<1>19. ASSUME NEW w \in Workers, FailCommit(w) PROVE RowInv'
  <2>1. UnresolvedIsClean'
    BY <1>19 DEF FailCommit, Release
  <2>2. MatchIsRecorded'
    BY <1>19 DEF FailCommit, Release
  <2>3. AttemptsAccounted'
    BY <1>19 DEF FailCommit, Release
  <2>4. AttemptsAreDistinct'
    BY <1>19 DEF FailCommit, Release
  <2>5. Requested'
    BY <1>19 DEF FailCommit, Release
  <2>6. HeldAttempt'
    BY <1>19 DEF FailCommit, Release
  <2>7. SeenTerminal'
    BY <1>19 DEF FailCommit, Release
  <2> QED
    BY <2>1, <2>2, <2>3, <2>4, <2>5, <2>6, <2>7
<1>20. ASSUME NEW w \in Workers, Hang(w) PROVE RowInv'
  BY <1>20 DEF Hang
<1>21. ASSUME NEW w \in Workers, Crash(w) PROVE RowInv'
  BY <1>21 DEF Crash, Release
<1>22. ASSUME NEW w \in Workers, Restart(w) PROVE RowInv'
  BY <1>22 DEF Restart
<1>24. ASSUME NEW w \in Workers, NEW j \in Jobs, LockJob(w, j) PROVE RowInv'
  BY <1>24 DEF LockJob
<1>23. CASE UNCHANGED vars
  BY <1>23 DEF vars
<1> QED
  BY <1>1, <1>2, <1>3, <1>4, <1>5, <1>6, <1>7, <1>8, <1>9, <1>10, <1>11,
     <1>12, <1>13, <1>14, <1>15, <1>16, <1>17, <1>18, <1>19, <1>20, <1>21,
     <1>22, <1>23, <1>24
  DEF Next, ApiStep, WorkerStep, WorkerFault

LEMMA RowCorrect == Spec => [](TypeOK /\ RowInv)
<1>1. Init => TypeOK /\ RowInv
  BY TypeInit, RowInit
<1>2. TypeOK /\ RowInv /\ [Next]_vars => (TypeOK /\ RowInv)'
  BY TypeStep, RowStep
<1> QED
  BY <1>1, <1>2, PTL DEF Spec

(* Queued and running jobs carry neither a match nor an error and can be   *)
(* seen by the reaper, and a completed job names a match that one of its   *)
(* attempts stored, for any number of workers and any interleaving of late *)
(* commits of run_job and mark_job_failed.                                 *)
THEOREM OutcomesOnRecord == Spec => []OutcomeOnRecord
<1>1. RowInv => OutcomeOnRecord
  BY DEF RowInv, OutcomeOnRecord
<1> QED
  BY <1>1, RowCorrect, PTL

(* claim_next_job and reap_stalled_jobs never open more attempts than      *)
(* MATCH_JOB_MAX_ATTEMPTS, no match is stored outside them, two workers    *)
(* never hold the same one, and each stores at most one match.             *)
THEOREM AttemptsStayOnRecord == Spec => []AttemptsOnRecord
<1>1. RowInv => AttemptsOnRecord
  BY DEF RowInv, AttemptsOnRecord
<1> QED
  BY <1>1, RowCorrect, PTL

(* A step from a reachable state never reopens a final status.             *)
LEMMA TerminalStep ==
  TypeOK /\ RowInv /\ [Next]_vars =>
    \A j \in Jobs : status[j] \in Terminal => status'[j] \in Terminal
<1> SUFFICES ASSUME TypeOK, RowInv, [Next]_vars,
                    NEW j \in Jobs, status[j] \in Terminal
             PROVE  status'[j] \in Terminal
  OBVIOUS
<1>1. CASE UNCHANGED status
  BY <1>1
<1>2. ASSUME NEW k \in Jobs, InsertJob(k) PROVE status'[j] \in Terminal
  BY <1>2 DEF InsertJob, TypeOK, RowInv, Requested, Terminal
<1>3. ASSUME NEW w \in Workers, Reap(w) PROVE status'[j] \in Terminal
  <2>1. j \notin Stalled
    BY DEF Stalled, Terminal
  <2>2. PICK S \in SUBSET Stalled :
          status' = [k \in Jobs |->
            IF k \notin S THEN status[k]
            ELSE IF OutOfAttempts(k) THEN "failed" ELSE "queued"]
    BY ONLY <1>3, Zenon DEF Reap
  <2> QED
    BY <2>1, <2>2
<1>4. ASSUME NEW w \in Workers, NEW k \in Jobs, Claim(w, k)
      PROVE  status'[j] \in Terminal
  BY <1>4 DEF Claim, Queued, TypeOK, Terminal
<1>5. ASSUME NEW w \in Workers, CompleteJob(w) PROVE status'[j] \in Terminal
  BY <1>5 DEF CompleteJob, TypeOK, Terminal
<1>6. ASSUME NEW w \in Workers, FailCommit(w) PROVE status'[j] \in Terminal
  BY <1>6 DEF FailCommit, TypeOK, Terminal
<1>7. UNCHANGED status
      \/ (\E k \in Jobs : InsertJob(k))
      \/ (\E w \in Workers : Reap(w) \/ CompleteJob(w) \/ FailCommit(w))
      \/ (\E w \in Workers, k \in Jobs : Claim(w, k))
  BY DEF Next, vars, rowVars, ApiStep, WorkerStep, WorkerFault,
         CheckLimit, AbortRequest, Age, SkipReap, LockJob, ClaimNone, WaitReturns,
         ClearLiveMoves, LoadJob, RecordLiveMove, LiveMoveRejected,
         LogCompleted, LogFault, RunJobRaises, FailLoad, Hang, Crash, Restart
<1> QED
  BY <1>1, <1>2, <1>3, <1>4, <1>5, <1>6, <1>7

(* Once a job is reported completed or failed, no commit of any worker     *)
(* returns it to the queue.                                                *)
THEOREM TerminalStays == Spec => TerminalNeverReopened
<1>1. TypeOK /\ RowInv /\ [Next]_vars =>
        [\A j \in Jobs : status[j] \in Terminal => status'[j] \in Terminal]_vars
  BY TerminalStep
<1> QED
  BY <1>1, RowCorrect, PTL DEF Spec, TerminalNeverReopened

-----------------------------------------------------------------------------
(* When no attempt can be taken away from a worker that is still at it -   *)
(* attempts end within the stall timeout, or there is a single worker,     *)
(* which cannot reap while it plays - the queue keeps the promise of       *)
(* JobLifecycle.  The invariant adds to the one above that an attempting   *)
(* worker owns its row, and that no attempt in progress looks stalled.     *)

Exclusive == ~ SlowMatches \/ (\A v, w \in Workers : v = w)

NoneLooksStalled ==
  ~ SlowMatches =>
    \A w \in Workers : pc[w] \in Attempting => started[job[w]] # "stale"

MatchesBelong ==
  \A j \in Jobs :
    /\ status[j] \in {"none", "queued", "running"} => matches[j] = {}
    /\ matches[j] \subseteq {match[j]}

OwnerInv ==
  /\ OwnerIsCurrent
  /\ NoneLooksStalled
  /\ MatchesBelong

LEMMA OwnerInit == Init => OwnerInv
  BY DEF Init, OwnerInv, OwnerIsCurrent, NoneLooksStalled, MatchesBelong,
         Attempting

(* Two attempting workers have different jobs.                             *)
LEMMA OneOwner ==
  ASSUME TypeOK, RowInv, OwnerInv,
         NEW v \in Workers, NEW w \in Workers, v # w,
         pc[v] \in Attempting, pc[w] \in Attempting
  PROVE  job[v] # job[w]
  BY DEF TypeOK, RowInv, OwnerInv, OwnerIsCurrent, AttemptsAreDistinct

(* Completing a job one owns writes its status, which is still running. *)
LEMMA CompleteJobEffect ==
  ASSUME TypeOK, RowInv, OwnerInv, NEW w \in Workers, CompleteJob(w)
  PROVE  /\ pc[w] \in Attempting /\ job[w] \in Jobs
         /\ status[job[w]] = "running" /\ matches[job[w]] = {}
         /\ attempt[w] = attempts[job[w]]
         /\ status' = [status EXCEPT ![job[w]] = "completed"]
<1>1. pc[w] \in Attempting /\ job[w] \in Jobs
  BY DEF CompleteJob, TypeOK, Attempting
<1>2. status[job[w]] = "running" /\ matches[job[w]] = {}
      /\ attempt[w] = attempts[job[w]]
  BY <1>1 DEF OwnerInv, OwnerIsCurrent, MatchesBelong
<1>3. seen[w].status # "completed"
  BY <1>2 DEF CompleteJob, RowInv, SeenTerminal, Terminal
<1>4. status' = [status EXCEPT ![job[w]] = "completed"]
  BY <1>3 DEF CompleteJob
<1> QED
  BY <1>1, <1>2, <1>4

(* Failing a job one owns writes its status, which is still running. *)
LEMMA FailCommitEffect ==
  ASSUME TypeOK, RowInv, OwnerInv, NEW w \in Workers, FailCommit(w)
  PROVE  /\ pc[w] \in Attempting /\ job[w] \in Jobs
         /\ status[job[w]] = "running" /\ matches[job[w]] = {}
         /\ attempt[w] = attempts[job[w]]
         /\ status' = [status EXCEPT ![job[w]] = "failed"]
<1>1. pc[w] \in Attempting /\ job[w] \in Jobs
  BY DEF FailCommit, TypeOK, Attempting
<1>2. status[job[w]] = "running" /\ matches[job[w]] = {}
      /\ attempt[w] = attempts[job[w]]
  BY <1>1 DEF OwnerInv, OwnerIsCurrent, MatchesBelong
<1>3. seen[w].status # "failed"
  BY <1>2 DEF FailCommit, RowInv, SeenTerminal, Terminal
<1>4. status' = [status EXCEPT ![job[w]] = "failed"]
  BY <1>3 DEF FailCommit
<1> QED
  BY <1>1, <1>2, <1>4

LEMMA OwnerStep ==
  ASSUME Exclusive, ~ DbFaults, TypeOK, RowInv, OwnerInv, [Next]_vars
  PROVE  OwnerInv'
<1> USE DEF OwnerInv, OwnerIsCurrent, NoneLooksStalled, MatchesBelong,
            rowVars, workerVars
<1>0. /\ TypeOK /\ \A w \in Workers : pc[w] \in Attempting => job[w] \in Jobs
  BY DEF TypeOK
<1>1. ASSUME NEW j \in Jobs, InsertJob(j) PROVE OwnerInv'
  <2>1. status[j] = "none" /\ matches[j] = {}
    BY <1>1 DEF InsertJob, RowInv, Requested, TypeOK
  <2>2. /\ status' = [status EXCEPT ![j] = "queued"]
        /\ UNCHANGED <<attempts, started, match, matches, pc, job, attempt>>
    BY <1>1 DEF InsertJob
  <2>3. \A w \in Workers : pc[w] \in Attempting => job[w] # j
    BY <2>1
  <2>4. OwnerIsCurrent' /\ NoneLooksStalled'
    BY <1>0, <2>2, <2>3 DEF TypeOK
  <2>5. MatchesBelong'
    BY <2>1, <2>2 DEF TypeOK
  <2> QED
    BY <2>4, <2>5
<1>2. ASSUME NEW j \in Jobs, Age(j) PROVE OwnerInv'
  BY <1>0, <1>2 DEF Age, TypeOK, Attempting
<1>3. ASSUME NEW w \in Workers, Reap(w) PROVE OwnerInv'
  <2>1. PICK S \in SUBSET Stalled :
          /\ status' = [j \in Jobs |->
               IF j \notin S THEN status[j]
               ELSE IF OutOfAttempts(j) THEN "failed" ELSE "queued"]
          /\ started' = [j \in Jobs |-> IF j \in S THEN "null" ELSE started[j]]
    BY ONLY <1>3, Zenon DEF Reap
  <2>2. /\ UNCHANGED <<attempts, match, matches, job, attempt>>
        /\ pc[w] = "loop" /\ pc' = [pc EXCEPT ![w] = "claim"]
    BY <1>3 DEF Reap
  <2>3. \A v \in Workers : pc'[v] \in Attempting =>
          pc[v] \in Attempting /\ v # w
    BY <2>2 DEF TypeOK, Attempting
  <2>4. \A v \in Workers : pc'[v] \in Attempting =>
          job[v] \in Jobs /\ job[v] \notin S
    <3> SUFFICES ASSUME NEW v \in Workers, pc'[v] \in Attempting, job[v] \in S
                 PROVE  FALSE
      BY <1>0, <2>3
    <3>1. started[job[v]] = "stale"
      BY DEF Stalled
    <3> QED
      BY <2>3, <3>1 DEF Exclusive
  <2>5. OwnerIsCurrent'
    BY <2>1, <2>2, <2>3, <2>4
  <2>6. NoneLooksStalled'
    BY <2>1, <2>2, <2>3, <2>4
  <2>7. MatchesBelong'
    <3>1. \A j \in Jobs : \/ status'[j] = status[j]
                          \/ status[j] = "running"
      BY <2>1 DEF Stalled
    <3> QED
      BY <2>2, <3>1
  <2> QED
    BY <2>5, <2>6, <2>7
<1>4. ASSUME NEW w \in Workers, NEW j \in Jobs, Claim(w, j) PROVE OwnerInv'
  <2>1. /\ status[j] = "queued" /\ pc[w] = "claim"
        /\ status' = [status EXCEPT ![j] = "running"]
        /\ attempts' = [attempts EXCEPT ![j] = @ + 1]
        /\ started' = [started EXCEPT ![j] = "recent"]
        /\ pc' = [pc EXCEPT ![w] = "clear"]
        /\ job' = [job EXCEPT ![w] = j]
        /\ attempt' = [attempt EXCEPT ![w] = attempts[j] + 1]
        /\ UNCHANGED <<match, matches>>
    BY <1>4 DEF Claim, Queued
  <2>2. ASSUME NEW v \in Workers, pc'[v] \in Attempting
        PROVE  /\ status'[job'[v]] = "running"
               /\ attempt'[v] = attempts'[job'[v]]
               /\ ~ SlowMatches => started'[job'[v]] # "stale"
    <3>1. CASE v = w
      BY <2>1, <3>1 DEF TypeOK
    <3>2. CASE v # w
      <4>1. pc[v] \in Attempting /\ job'[v] = job[v] /\ attempt'[v] = attempt[v]
        BY <2>1, <2>2, <3>2 DEF TypeOK
      <4>2. job[v] \in Jobs /\ job[v] # j
        BY <1>0, <2>1, <4>1
      <4> QED
        BY <2>1, <4>1, <4>2 DEF TypeOK
    <3> QED
      BY <3>1, <3>2
  <2>3. MatchesBelong'
    BY <2>1 DEF TypeOK
  <2> QED
    BY <2>2, <2>3
<1>5. ASSUME NEW w \in Workers, CompleteJob(w) PROVE OwnerInv'
  <2> DEFINE j == job[w]
  <2>1. w \in Workers /\ pc[w] \in Attempting /\ j \in Jobs
    BY <1>5, CompleteJobEffect
  <2>2. status[j] = "running" /\ matches[j] = {}
    BY <1>5, CompleteJobEffect
  <2>3. /\ status' = [status EXCEPT ![j] = "completed"]
        /\ UNCHANGED <<attempts, started>>
    BY <1>5, CompleteJobEffect DEF CompleteJob
  <2>4. \A v \in Workers : pc'[v] \in Attempting =>
          /\ pc[v] \in Attempting /\ v # w
          /\ job'[v] = job[v] /\ attempt'[v] = attempt[v]
    BY <1>5 DEF CompleteJob, TypeOK, Attempting
  <2>5. \A v \in Workers : pc'[v] \in Attempting => job[v] \in Jobs \ {j}
    BY <1>0, <2>1, <2>4, OneOwner
  <2>6. OwnerIsCurrent' /\ NoneLooksStalled'
    BY <2>3, <2>4, <2>5 DEF TypeOK
  <2>7. MatchesBelong'
    <3>1. /\ match' = [match EXCEPT ![j] = attempt[w]]
          /\ matches' = [matches EXCEPT ![j] = @ \cup {attempt[w]}]
      BY <1>5 DEF CompleteJob
    <3> QED
      BY <2>2, <2>3, <3>1 DEF TypeOK
  <2> QED
    BY <2>6, <2>7
<1>6. ASSUME NEW w \in Workers, FailCommit(w) PROVE OwnerInv'
  <2> DEFINE j == job[w]
  <2>1. w \in Workers /\ pc[w] \in Attempting /\ j \in Jobs
    BY <1>6, FailCommitEffect
  <2>2. status[j] = "running" /\ matches[j] = {}
    BY <1>6, FailCommitEffect
  <2>3. /\ status' = [status EXCEPT ![j] = "failed"]
        /\ UNCHANGED <<attempts, started>>
    BY <1>6, FailCommitEffect DEF FailCommit
  <2>4. \A v \in Workers : pc'[v] \in Attempting =>
          /\ pc[v] \in Attempting /\ v # w
          /\ job'[v] = job[v] /\ attempt'[v] = attempt[v]
    BY <1>6 DEF FailCommit, Release, TypeOK, Attempting
  <2>5. \A v \in Workers : pc'[v] \in Attempting => job[v] \in Jobs \ {j}
    BY <1>0, <2>1, <2>4, OneOwner
  <2>6. OwnerIsCurrent' /\ NoneLooksStalled'
    BY <2>3, <2>4, <2>5 DEF TypeOK
  <2>7. MatchesBelong'
    <3>1. UNCHANGED <<match, matches>>
      BY <1>6 DEF FailCommit
    <3> QED
      BY <2>2, <2>3, <3>1 DEF TypeOK
  <2> QED
    BY <2>6, <2>7
<1>7. ASSUME NEW j \in Jobs, CheckLimit(j) PROVE OwnerInv'
  BY <1>0, <1>7 DEF CheckLimit, TypeOK, Attempting
<1>8. ASSUME NEW j \in Jobs, AbortRequest(j) PROVE OwnerInv'
  BY <1>0, <1>8 DEF AbortRequest, TypeOK, Attempting
<1>9. ASSUME NEW w \in Workers, SkipReap(w) PROVE OwnerInv'
  BY <1>0, <1>9 DEF SkipReap, TypeOK, Attempting
<1>10. ASSUME NEW w \in Workers, ClaimNone(w) PROVE OwnerInv'
  BY <1>0, <1>10 DEF ClaimNone, TypeOK, Attempting
<1>11. ASSUME NEW w \in Workers, WaitReturns(w) PROVE OwnerInv'
  BY <1>0, <1>11 DEF WaitReturns, TypeOK, Attempting
<1>12. ASSUME NEW w \in Workers, ClearLiveMoves(w) PROVE OwnerInv'
  BY <1>0, <1>12 DEF ClearLiveMoves, TypeOK, Attempting
<1>13. ASSUME NEW w \in Workers, LoadJob(w) PROVE OwnerInv'
  BY <1>0, <1>13 DEF LoadJob, TypeOK, Attempting
<1>14. ASSUME NEW w \in Workers, RecordLiveMove(w) PROVE OwnerInv'
  BY <1>0, <1>14 DEF RecordLiveMove, TypeOK, Attempting
<1>15. ASSUME NEW w \in Workers, LiveMoveRejected(w) PROVE OwnerInv'
  BY <1>0, <1>15 DEF LiveMoveRejected, TypeOK, Attempting
<1>16. ASSUME NEW w \in Workers, LogCompleted(w) PROVE OwnerInv'
  BY <1>0, <1>16 DEF LogCompleted, Release, TypeOK, Attempting
<1>17. ASSUME NEW w \in Workers, LogFault(w) PROVE OwnerInv'
  BY <1>0, <1>17 DEF LogFault, TypeOK, Attempting
<1>18. ASSUME NEW w \in Workers, RunJobRaises(w) PROVE OwnerInv'
  BY <1>0, <1>18 DEF RunJobRaises, TypeOK, Attempting
<1>19. ASSUME NEW w \in Workers, FailLoad(w) PROVE OwnerInv'
  BY <1>0, <1>19 DEF FailLoad, TypeOK, Attempting
<1>20. ASSUME NEW w \in Workers, Hang(w) PROVE OwnerInv'
  BY <1>0, <1>20 DEF Hang, TypeOK, Attempting
<1>21. ASSUME NEW w \in Workers, Crash(w) PROVE OwnerInv'
  BY <1>0, <1>21 DEF Crash, Release, TypeOK, Attempting
<1>22. ASSUME NEW w \in Workers, Restart(w) PROVE OwnerInv'
  BY <1>0, <1>22 DEF Restart, TypeOK, Attempting
<1>24. ASSUME NEW w \in Workers, NEW j \in Jobs, LockJob(w, j) PROVE OwnerInv'
  BY <1>0, <1>24 DEF LockJob, TypeOK, Attempting
<1>23. CASE UNCHANGED vars
  BY <1>23 DEF vars
<1> QED
  BY <1>1, <1>2, <1>3, <1>4, <1>5, <1>6, <1>7, <1>8, <1>9, <1>10, <1>11,
     <1>12, <1>13, <1>14, <1>15, <1>16, <1>17, <1>18, <1>19, <1>20, <1>21,
     <1>22, <1>23, <1>24
  DEF Next, ApiStep, WorkerStep, WorkerFault

LEMMA OwnerCorrect ==
  ASSUME Exclusive, ~ DbFaults
  PROVE  Spec => [](TypeOK /\ RowInv /\ OwnerInv)
<1>1. Init => TypeOK /\ RowInv /\ OwnerInv
  BY TypeInit, RowInit, OwnerInit
<1>2. TypeOK /\ RowInv /\ OwnerInv /\ [Next]_vars
        => (TypeOK /\ RowInv /\ OwnerInv)'
  BY TypeStep, RowStep, OwnerStep
<1> QED
  BY <1>1, <1>2, PTL DEF Spec

(* A worker between its claim and its resolving commit is alone on its job *)
(* and is the attempt the row counts.                                      *)
THEOREM OwnerCurrent ==
  ASSUME Exclusive, ~ DbFaults
  PROVE  Spec => []OwnerIsCurrent
  BY OwnerCorrect, PTL DEF OwnerInv

(* A job is played to a stored match at most once.                         *)
THEOREM SingleMatch ==
  ASSUME Exclusive, ~ DbFaults
  PROVE  Spec => []OneMatchPerJob
<1>1. OwnerInv => OneMatchPerJob
  BY DEF OwnerInv, MatchesBelong, OneMatchPerJob
<1> QED
  BY <1>1, OwnerCorrect, PTL

(* The row an owner completes carries no error, so that leaving the column *)
(* out of the update or writing NULL comes to the same, and no late commit *)
(* reaches a completed row.                                                *)
LEMMA CompletedStep ==
  TypeOK /\ RowInv /\ OwnerInv /\ CompletedHasNoError /\ [Next]_vars
    => CompletedHasNoError'
<1> SUFFICES ASSUME TypeOK, RowInv, OwnerInv, CompletedHasNoError, [Next]_vars,
                    NEW j \in Jobs, status'[j] = "completed"
             PROVE  error'[j] = "null"
  BY DEF CompletedHasNoError
<1> USE DEF CompletedHasNoError
<1>1. CASE UNCHANGED <<status, error>>
  BY <1>1
<1>2. ASSUME NEW k \in Jobs, InsertJob(k) PROVE error'[j] = "null"
  BY <1>2 DEF InsertJob, TypeOK
<1>3. ASSUME NEW w \in Workers, Reap(w) PROVE error'[j] = "null"
  <2>1. PICK S \in SUBSET Stalled :
          /\ status' = [k \in Jobs |->
               IF k \notin S THEN status[k]
               ELSE IF OutOfAttempts(k) THEN "failed" ELSE "queued"]
          /\ error' = [k \in Jobs |->
               IF k \notin S THEN error[k]
               ELSE IF OutOfAttempts(k) THEN "stalled" ELSE "null"]
    BY ONLY <1>3, Zenon DEF Reap
  <2>2. j \notin S
    BY <2>1
  <2> QED
    BY <2>1, <2>2
<1>4. ASSUME NEW w \in Workers, NEW k \in Jobs, Claim(w, k)
      PROVE  error'[j] = "null"
  BY <1>4 DEF Claim, TypeOK
<1>5. ASSUME NEW w \in Workers, CompleteJob(w) PROVE error'[j] = "null"
  <2>1. job[w] \in Jobs /\ status[job[w]] = "running"
    BY <1>5, CompleteJobEffect
  <2>2. error[job[w]] = "null"
    BY <2>1 DEF RowInv, UnresolvedIsClean
  <2>3. \A k \in Jobs : k # job[w] => status'[k] = status[k] /\ error'[k] = error[k]
    BY <1>5 DEF CompleteJob, TypeOK
  <2>4. error'[job[w]] = "null"
    BY <1>5, <2>1, <2>2 DEF CompleteJob, TypeOK
  <2> QED
    BY <2>3, <2>4
<1>6. ASSUME NEW w \in Workers, FailCommit(w) PROVE error'[j] = "null"
  <2>1. job[w] \in Jobs /\ status' = [status EXCEPT ![job[w]] = "failed"]
    BY <1>6, FailCommitEffect
  <2>2. j # job[w] /\ status[j] = "completed"
    BY <2>1 DEF TypeOK
  <2>3. error'[j] = error[j]
    BY <1>6, <2>2 DEF FailCommit, TypeOK
  <2> QED
    BY <2>2, <2>3
<1>7. UNCHANGED <<status, error>>
      \/ (\E k \in Jobs : InsertJob(k))
      \/ (\E w \in Workers : Reap(w) \/ CompleteJob(w) \/ FailCommit(w))
      \/ (\E w \in Workers, k \in Jobs : Claim(w, k))
  BY DEF Next, vars, rowVars, ApiStep, WorkerStep, WorkerFault,
         CheckLimit, AbortRequest, Age, SkipReap, LockJob, ClaimNone, WaitReturns,
         ClearLiveMoves, LoadJob, RecordLiveMove, LiveMoveRejected,
         LogCompleted, LogFault, RunJobRaises, FailLoad, Hang, Crash, Restart
<1> QED
  BY <1>1, <1>2, <1>3, <1>4, <1>5, <1>6, <1>7

(* What the documentation says of a completed job, that its error_message  *)
(* is NULL, holds as long as no attempt is taken away from its worker; the *)
(* run CompletedWithError shows what a shared job can lead to.             *)
THEOREM CompletedClean ==
  ASSUME Exclusive, ~ DbFaults
  PROVE  Spec => []CompletedHasNoError
<1>1. Init => CompletedHasNoError
  BY DEF Init, CompletedHasNoError
<1>2. TypeOK /\ RowInv /\ OwnerInv /\ CompletedHasNoError /\ [Next]_vars
        => CompletedHasNoError'
  BY CompletedStep
<1> QED
  BY <1>1, <1>2, OwnerCorrect, PTL DEF Spec

-----------------------------------------------------------------------------
(* The quota.  The jobs counted against a user's limit are the active ones *)
(* and the one, at most, that a request of the user's has been admitted    *)
(* for: counting the active jobs alone is not inductive, because the       *)
(* insertion trusts a count made a step earlier.                           *)

Counted(u) == ActiveJobs(u) \cup {j \in admitted : Requester[j] = u}

QuotaInv ==
  /\ \A u \in Users : Cardinality(Counted(u)) <= MaxActive
  /\ \A j, k \in admitted : Requester[j] = Requester[k] => j = k

LEMMA CountedFinite ==
  ASSUME TypeOK, NEW u \in Users
  PROVE  IsFiniteSet(Counted(u)) /\ Cardinality(Counted(u)) \in Nat
<1>1. Counted(u) \subseteq Jobs
  BY DEF Counted, ActiveJobs, TypeOK
<1> QED
  BY <1>1, FS_Subset, FS_CardinalityType, JobsAssumption

LEMMA QuotaInit == Init => QuotaInv
<1> SUFFICES ASSUME Init PROVE QuotaInv
  OBVIOUS
<1>1. \A u \in Users : Counted(u) = {}
  BY DEF Init, Counted, ActiveJobs, Active
<1>2. Cardinality({}) = 0 /\ MaxActive \in Nat /\ admitted = {}
  BY FS_EmptySet, BoundsAssumption DEF Init
<1> QED
  BY ONLY <1>1, <1>2 DEF QuotaInv

(* A job becomes active only by being inserted.                            *)
LEMMA ActiveStep ==
  ASSUME TypeOK, RowInv, [Next]_vars, NEW j \in Jobs, status'[j] \in Active
  PROVE  status[j] \in Active \/ j \in admitted
<1>1. status[j] \notin Terminal
  BY TerminalStep DEF Active, Terminal, TypeOK
<1>2. SUFFICES ASSUME status[j] = "none", j \notin admitted PROVE FALSE
  BY <1>1 DEF TypeOK, Statuses
<1>3. \A w \in Workers : pc[w] \in Attempting => job[w] # j
  BY <1>2 DEF RowInv, HeldAttempt, TypeOK
<1>4. ASSUME NEW k \in Jobs, InsertJob(k) PROVE FALSE
  BY <1>2, <1>4 DEF InsertJob, TypeOK, Active
<1>5. ASSUME NEW w \in Workers, Reap(w) PROVE FALSE
  <2>1. PICK S \in SUBSET Stalled :
          status' = [k \in Jobs |->
            IF k \notin S THEN status[k]
            ELSE IF OutOfAttempts(k) THEN "failed" ELSE "queued"]
    BY ONLY <1>5, Zenon DEF Reap
  <2> QED
    BY <1>2, <2>1 DEF Stalled, Active
<1>6. ASSUME NEW w \in Workers, NEW k \in Jobs, Claim(w, k) PROVE FALSE
  BY <1>2, <1>6 DEF Claim, Queued, TypeOK, Active
<1>7. ASSUME NEW w \in Workers, CompleteJob(w) PROVE FALSE
  BY <1>2, <1>3, <1>7 DEF CompleteJob, TypeOK, Active, Attempting
<1>8. ASSUME NEW w \in Workers, FailCommit(w) PROVE FALSE
  BY <1>2, <1>3, <1>8 DEF FailCommit, TypeOK, Active, Attempting
<1>9. UNCHANGED status
      \/ (\E k \in Jobs : InsertJob(k))
      \/ (\E w \in Workers : Reap(w) \/ CompleteJob(w) \/ FailCommit(w))
      \/ (\E w \in Workers, k \in Jobs : Claim(w, k))
  BY DEF Next, vars, rowVars, ApiStep, WorkerStep, WorkerFault,
         CheckLimit, AbortRequest, Age, SkipReap, LockJob, ClaimNone, WaitReturns,
         ClearLiveMoves, LoadJob, RecordLiveMove, LiveMoveRejected,
         LogCompleted, LogFault, RunJobRaises, FailLoad, Hang, Crash, Restart
<1> QED
  BY <1>2, <1>4, <1>5, <1>6, <1>7, <1>8, <1>9 DEF Active

LEMMA QuotaStep ==
  ASSUME TypeOK, RowInv, QuotaInv, [Next]_vars
  PROVE  QuotaInv'
<1>1. ASSUME NEW j \in Jobs, CheckLimit(j) PROVE QuotaInv'
  <2> DEFINE u == Requester[j]
  <2>1. u \in Users
    BY RequesterAssumption
  <2>2. Counted(u) = ActiveJobs(u) /\ Cardinality(Counted(u)) < MaxActive
    BY <1>1 DEF CheckLimit, Counted, LimitLockFree
  <2>3. Counted(u)' = Counted(u) \cup {j}
    BY <1>1 DEF CheckLimit, Counted, ActiveJobs, rowVars
  <2>4. IsFiniteSet(Counted(u)) /\ Cardinality(Counted(u)) \in Nat
    BY <2>1, CountedFinite
  <2>5. Cardinality(Counted(u)') <= MaxActive
    <3> DEFINE C == Counted(u)
    <3>1. Cardinality(C \cup {j}) =
            IF j \in C THEN Cardinality(C) ELSE Cardinality(C) + 1
      BY <2>4, FS_AddElement
    <3>2. Cardinality(C) \in Nat /\ Cardinality(C) < MaxActive /\ MaxActive \in Nat
      BY <2>2, <2>4, BoundsAssumption
    <3>3. Cardinality(C \cup {j}) <= MaxActive
      BY ONLY <3>1, <3>2
    <3> QED
      BY <2>3, <3>3
  <2>6. \A v \in Users \ {u} : Counted(v)' = Counted(v)
    BY <1>1 DEF CheckLimit, Counted, ActiveJobs, rowVars
  <2>7. \A k, l \in admitted' : Requester[k] = Requester[l] => k = l
    BY <1>1 DEF CheckLimit, QuotaInv, LimitLockFree
  <2> QED
    BY <2>5, <2>6, <2>7 DEF QuotaInv
<1>2. ASSUME admitted' \subseteq admitted PROVE QuotaInv'
  <2>1. ASSUME NEW u \in Users
        PROVE  Cardinality(Counted(u)') <= MaxActive
    <3>1. Counted(u)' \subseteq Counted(u)
      BY <1>2, ActiveStep DEF Counted, ActiveJobs
    <3>2. Cardinality(Counted(u)') <= Cardinality(Counted(u))
          /\ Cardinality(Counted(u)') \in Nat
      BY <3>1, CountedFinite, FS_Subset, FS_CardinalityType
    <3> QED
      BY <3>2, CountedFinite, BoundsAssumption DEF QuotaInv
  <2> QED
    BY <1>2, <2>1 DEF QuotaInv
<1>3. admitted' \subseteq admitted \/ \E j \in Jobs : CheckLimit(j)
  BY DEF Next, vars, ApiStep, WorkerStep, WorkerFault, InsertJob,
         AbortRequest, Age, Reap, SkipReap, LockJob, Claim, ClaimNone, WaitReturns,
         ClearLiveMoves, LoadJob, RecordLiveMove, LiveMoveRejected,
         CompleteJob, LogCompleted, LogFault, RunJobRaises, FailLoad,
         FailCommit, Hang, Crash, Restart
<1> QED
  BY <1>1, <1>2, <1>3

(* enforce_user_active_match_job_limit keeps every user within the limit,  *)
(* for any number of concurrent requests and workers.                      *)
THEOREM QuotaKept == Spec => []QuotaRespected
<1>1. Init => TypeOK /\ RowInv /\ QuotaInv
  BY TypeInit, RowInit, QuotaInit
<1>2. TypeOK /\ RowInv /\ QuotaInv /\ [Next]_vars
        => (TypeOK /\ RowInv /\ QuotaInv)'
  BY TypeStep, RowStep, QuotaStep
<1>3. TypeOK /\ QuotaInv => QuotaRespected
  <2> SUFFICES ASSUME TypeOK, QuotaInv, NEW u \in Users
               PROVE  Cardinality(ActiveJobs(u)) <= MaxActive
    BY DEF QuotaRespected
  <2>1. ActiveJobs(u) \subseteq Counted(u)
    BY DEF Counted
  <2>2. Cardinality(ActiveJobs(u)) <= Cardinality(Counted(u))
        /\ Cardinality(ActiveJobs(u)) \in Nat
    BY <2>1, CountedFinite, FS_Subset, FS_CardinalityType
  <2> QED
    BY <2>2, CountedFinite, BoundsAssumption DEF QuotaInv
<1> QED
  BY <1>1, <1>2, <1>3, PTL DEF Spec
-----------------------------------------------------------------------------
(* The live moves.  A worker that has cleared the moves of its job and not *)
(* failed yet has left there exactly the moves it has made; who does not   *)
(* play has made none.                                                     *)

LiveInv ==
  /\ LiveMovesCoherent
  /\ \A w \in Workers :
       /\ pc[w] \notin {"play", "hung", "log", "failLoad", "failCommit"} =>
            made[w] = 0
       /\ pc[w] \in {"load", "play"} => \A k \in MoveNumbers :
            liveMoves[job[w]][k] = IF k <= made[w] THEN attempt[w] ELSE 0

LEMMA LiveInit == Init => LiveInv
<1> SUFFICES ASSUME Init PROVE LiveInv
  OBVIOUS
<1>1. LiveMovesCoherent
  <2>1. \A j \in Jobs, k \in MoveNumbers : liveMoves[j][k] = 0
    BY DEF Init
  <2>2. 0 \in 0..MaxMoves /\ 0 \in 0..MaxAttempts
    BY BoundsAssumption
  <2> QED
    BY <2>1, <2>2 DEF LiveMovesCoherent
<1> QED
  BY <1>1 DEF Init, LiveInv

(* The attempt of a worker is one the job may have.                        *)
LEMMA AttemptInRange ==
  ASSUME TypeOK, RowInv, NEW w \in Workers, pc[w] \in Attempting
  PROVE  attempt[w] \in 0..MaxAttempts /\ job[w] \in Jobs
<1>1. job[w] \in Jobs /\ attempt[w] \in 1..attempts[job[w]]
  BY DEF TypeOK, RowInv, HeldAttempt
<1>2. attempts[job[w]] <= MaxAttempts /\ attempts[job[w]] \in Nat
  BY <1>1 DEF TypeOK, RowInv, AttemptsAccounted
<1> QED
  BY <1>1, <1>2, BoundsAssumption

(* Every worker but the one that moves keeps its control, job, attempt and *)
(* count of moves.                                                         *)
LEMMA LiveElsewhere ==
  ASSUME TypeOK, LiveInv, NEW w \in Workers, UNCHANGED liveMoves,
         \A v \in Workers \ {w} :
           /\ pc'[v] = pc[v] /\ job'[v] = job[v]
           /\ attempt'[v] = attempt[v] /\ made'[v] = made[v],
         \/ pc'[w] \notin {"play", "hung", "log", "failLoad", "failCommit", "load"}
            /\ made'[w] = 0
         \/ pc'[w] \in {"hung", "log", "failLoad", "failCommit"}
         \/ /\ pc[w] \in {"load", "play"} /\ pc'[w] \in {"load", "play"}
            /\ job'[w] = job[w] /\ attempt'[w] = attempt[w]
            /\ made'[w] = made[w]
            /\ pc'[w] = "load" => made[w] = 0
  PROVE  LiveInv'
<1>1. LiveMovesCoherent'
  BY DEF LiveInv, LiveMovesCoherent
<1>2. ASSUME NEW v \in Workers
      PROVE  /\ pc'[v] \notin {"play", "hung", "log", "failLoad", "failCommit"} =>
                  made'[v] = 0
             /\ pc'[v] \in {"load", "play"} => \A k \in MoveNumbers :
                  liveMoves'[job'[v]][k] =
                    IF k <= made'[v] THEN attempt'[v] ELSE 0
  <2>1. CASE v # w
    BY <2>1 DEF LiveInv
  <2>2. CASE v = w
    BY <2>2 DEF LiveInv
  <2> QED
    BY <2>1, <2>2
<1> QED
  BY <1>1, <1>2 DEF LiveInv

LEMMA LiveStep ==
  ASSUME Exclusive, ~ DbFaults, TypeOK, RowInv, OwnerInv, LiveInv, [Next]_vars
  PROVE  LiveInv'
<1> USE DEF rowVars, workerVars
<1>1. ASSUME NEW w \in Workers, ClearLiveMoves(w) PROVE LiveInv'
  <2>1. /\ pc[w] = "clear" /\ made[w] = 0 /\ job[w] \in Jobs
        /\ pc' = [pc EXCEPT ![w] = "load"]
        /\ UNCHANGED <<job, attempt, made>>
    BY <1>1 DEF ClearLiveMoves, LiveInv, TypeOK, Attempting
  <2>2. /\ \A k \in MoveNumbers : liveMoves'[job[w]][k] = 0
        /\ \A j \in Jobs \ {job[w]} : liveMoves'[j] = liveMoves[j]
    BY <1>1, <2>1 DEF ClearLiveMoves, MovesCleared, TypeOK
  <2>3. LiveMovesCoherent'
    <3> SUFFICES ASSUME NEW j \in Jobs
                 PROVE  \E n \in 0..MaxMoves, a \in 0..MaxAttempts :
                          \A k \in MoveNumbers :
                            liveMoves'[j][k] = IF k <= n THEN a ELSE 0
      BY DEF LiveMovesCoherent
    <3>1. CASE j = job[w]
      <4>1. 0 \in 0..MaxMoves /\ 0 \in 0..MaxAttempts
        BY BoundsAssumption
      <4> QED
        BY <2>2, <3>1, <4>1
    <3>2. CASE j # job[w]
      BY <2>2, <3>2 DEF LiveInv, LiveMovesCoherent
    <3> QED
      BY <3>1, <3>2
  <2>4. ASSUME NEW v \in Workers
        PROVE  /\ pc'[v] \notin {"play", "hung", "log", "failLoad", "failCommit"} =>
                    made'[v] = 0
               /\ pc'[v] \in {"load", "play"} => \A k \in MoveNumbers :
                    liveMoves'[job'[v]][k] =
                      IF k <= made'[v] THEN attempt'[v] ELSE 0
    <3>1. CASE v = w
      <4>1. \A k \in MoveNumbers : ~ k <= made[w]
        BY <2>1 DEF MoveNumbers
      <4> QED
        BY <2>1, <2>2, <3>1, <4>1
    <3>2. CASE v # w
      <4>1. pc'[v] = pc[v] /\ made'[v] = made[v]
        BY <2>1, <3>2 DEF TypeOK
      <4>2. pc[v] \in {"load", "play"} => job[v] \in Jobs \ {job[w]}
        BY <2>1, <3>2, OneOwner DEF TypeOK, Attempting
      <4> QED
        BY <2>1, <2>2, <4>1, <4>2 DEF LiveInv
    <3> QED
      BY <3>1, <3>2
  <2> QED
    BY <2>3, <2>4 DEF LiveInv
<1>2. ASSUME NEW w \in Workers, RecordLiveMove(w) PROVE LiveInv'
  <2> DEFINE n == made[w] + 1
  <2>1. /\ pc[w] = "play" /\ job[w] \in Jobs /\ attempt[w] \in 0..MaxAttempts
        /\ made[w] \in Nat /\ n \in MoveNumbers /\ n \in 0..MaxMoves
        /\ UNCHANGED <<pc, job, attempt>>
    BY <1>2, AttemptInRange, BoundsAssumption
    DEF RecordLiveMove, TypeOK, Attempting, MoveNumbers
  <2>2. /\ made' = [made EXCEPT ![w] = n]
        /\ liveMoves' = [liveMoves EXCEPT ![job[w]][n] = attempt[w]]
    BY <1>2 DEF RecordLiveMove
  <2>3. /\ \A j \in Jobs \ {job[w]} : liveMoves'[j] = liveMoves[j]
        /\ \A k \in MoveNumbers :
             liveMoves'[job[w]][k] =
               IF k = n THEN attempt[w] ELSE liveMoves[job[w]][k]
    BY <2>1, <2>2 DEF TypeOK
  <2>4. \A k \in MoveNumbers :
          liveMoves'[job[w]][k] = IF k <= n THEN attempt[w] ELSE 0
    <3>1. \A k \in MoveNumbers :
            liveMoves[job[w]][k] = IF k <= made[w] THEN attempt[w] ELSE 0
      BY <2>1 DEF LiveInv
    <3>2. \A k \in MoveNumbers : k <= n <=> k <= made[w] \/ k = n
      BY <2>1 DEF MoveNumbers
    <3> HIDE DEF n
    <3> QED
      BY <2>3, <3>1, <3>2
  <2> HIDE DEF n
  <2>5. LiveMovesCoherent'
    <3> SUFFICES ASSUME NEW j \in Jobs
                 PROVE  \E m \in 0..MaxMoves, a \in 0..MaxAttempts :
                          \A k \in MoveNumbers :
                            liveMoves'[j][k] = IF k <= m THEN a ELSE 0
      BY DEF LiveMovesCoherent
    <3>1. CASE j = job[w]
      BY <2>1, <2>4, <3>1
    <3>2. CASE j # job[w]
      BY <2>3, <3>2 DEF LiveInv, LiveMovesCoherent
    <3> QED
      BY <3>1, <3>2
  <2>6. ASSUME NEW v \in Workers
        PROVE  /\ pc'[v] \notin {"play", "hung", "log", "failLoad", "failCommit"} =>
                    made'[v] = 0
               /\ pc'[v] \in {"load", "play"} => \A k \in MoveNumbers :
                    liveMoves'[job'[v]][k] =
                      IF k <= made'[v] THEN attempt'[v] ELSE 0
    <3>1. CASE v = w
      BY <2>1, <2>2, <2>4, <3>1 DEF TypeOK
    <3>2. CASE v # w
      <4>1. made'[v] = made[v]
        BY <2>2, <3>2 DEF TypeOK
      <4>2. pc[v] \in {"load", "play"} => job[v] \in Jobs \ {job[w]}
        BY <2>1, <3>2, OneOwner DEF TypeOK, Attempting
      <4> QED
        BY <2>1, <2>3, <4>1, <4>2 DEF LiveInv
    <3> QED
      BY <3>1, <3>2
  <2> QED
    BY <2>5, <2>6 DEF LiveInv
<1>3. ASSUME NEW w \in Workers,
             \/ Reap(w) \/ SkipReap(w) \/ ClaimNone(w) \/ WaitReturns(w)
             \/ LoadJob(w) \/ LiveMoveRejected(w) \/ CompleteJob(w)
             \/ FailLoad(w) \/ LogFault(w) \/ RunJobRaises(w) \/ Hang(w)
             \/ Restart(w)
      PROVE  LiveInv'
  <2>1. /\ UNCHANGED <<liveMoves, job, attempt, made>>
        /\ \A v \in Workers \ {w} : pc'[v] = pc[v]
    BY <1>3 DEF TypeOK, Reap, SkipReap, ClaimNone, WaitReturns, LoadJob,
                LiveMoveRejected, CompleteJob, FailLoad, LogFault,
                RunJobRaises, Hang, Restart
  <2>2. \/ /\ pc[w] \in {"loop", "claim", "wait", "down"}
           /\ pc'[w] \in {"loop", "claim", "wait"}
        \/ pc'[w] \in {"hung", "log", "failLoad", "failCommit"}
        \/ pc[w] = "load" /\ pc'[w] = "play"
    BY <1>3 DEF TypeOK, Reap, SkipReap, ClaimNone, WaitReturns, LoadJob,
                LiveMoveRejected, CompleteJob, FailLoad, LogFault,
                RunJobRaises, Hang, Restart
  <2>3. pc[w] \in {"loop", "claim", "wait", "down"} => made[w] = 0
    BY DEF LiveInv
  <2> QED
    BY ONLY TypeOK, LiveInv, <2>1, <2>2, <2>3, LiveElsewhere
<1>4. ASSUME NEW w \in Workers, LogCompleted(w) \/ FailCommit(w) \/ Crash(w)
      PROVE  LiveInv'
  <2>1. /\ UNCHANGED liveMoves
        /\ pc'[w] \in {"loop", "down"} /\ made'[w] = 0
        /\ \A v \in Workers \ {w} :
             /\ pc'[v] = pc[v] /\ job'[v] = job[v]
             /\ attempt'[v] = attempt[v] /\ made'[v] = made[v]
    BY <1>4 DEF TypeOK, LogCompleted, FailCommit, Crash, Release
  <2> QED
    BY ONLY TypeOK, LiveInv, <2>1, LiveElsewhere
<1>5. ASSUME NEW w \in Workers, NEW j \in Jobs, LockJob(w, j) \/ Claim(w, j)
      PROVE  LiveInv'
  <2>1. /\ UNCHANGED liveMoves
        /\ pc'[w] \in {"claim", "clear"} /\ made'[w] = 0
        /\ \A v \in Workers \ {w} :
             /\ pc'[v] = pc[v] /\ job'[v] = job[v]
             /\ attempt'[v] = attempt[v] /\ made'[v] = made[v]
    <3>1. CASE LockJob(w, j)
      BY <3>1 DEF LockJob, LiveInv
    <3>2. CASE Claim(w, j)
      BY <3>2 DEF TypeOK, Claim, LiveInv
    <3> QED
      BY <1>5, <3>1, <3>2
  <2>2. pc'[w] \notin {"play", "hung", "log", "failLoad", "failCommit", "load"}
    BY <2>1
  <2> QED
    BY ONLY TypeOK, LiveInv, <2>1, <2>2, LiveElsewhere
<1>6. ASSUME NEW j \in Jobs, ApiStep(j) \/ Age(j) PROVE LiveInv'
  BY <1>6 DEF LiveInv, LiveMovesCoherent, ApiStep, CheckLimit, InsertJob,
              AbortRequest, Age
<1>7. CASE UNCHANGED vars
  BY <1>7 DEF vars, LiveInv, LiveMovesCoherent
<1> QED
  BY <1>1, <1>2, <1>3, <1>4, <1>5, <1>6, <1>7
  DEF Next, WorkerStep, WorkerFault

(* Replaying the live moves of a job is replaying one attempt of it: run_job *)
(* deletes what earlier attempts left before it records its first move, and  *)
(* no other attempt is at work on the job.                                   *)
THEOREM LiveMovesAreOneAttempt ==
  ASSUME Exclusive, ~ DbFaults
  PROVE  Spec => []LiveMovesCoherent
<1>1. TypeOK /\ RowInv /\ OwnerInv /\ LiveInv /\ [Next]_vars => LiveInv'
  BY LiveStep
<1>2. LiveInv => LiveMovesCoherent
  BY DEF LiveInv
<1> QED
  BY <1>1, <1>2, LiveInit, OwnerCorrect, PTL DEF Spec

-----------------------------------------------------------------------------
(* The promised lifecycle.                                                 *)

LEMMA LifecycleStep ==
  ASSUME Exclusive, ~ DbFaults, TypeOK, RowInv, OwnerInv, LiveInv, [Next]_vars
  PROVE  [Lifecycle!Next]_(Lifecycle!lifecycleVars)
<1> USE DEF Lifecycle!Next, Lifecycle!lifecycleVars
<1>1. ASSUME NEW j \in Jobs, InsertJob(j) PROVE Lifecycle!Next
  <2>1. Lifecycle!Enqueue(j)
    BY <1>1 DEF InsertJob, Lifecycle!Enqueue, RowInv, Requested
  <2> QED
    BY <2>1
<1>2. ASSUME NEW w \in Workers, Reap(w) PROVE Lifecycle!Next
  <2>1. PICK S \in SUBSET Stalled :
          status' = [j \in Jobs |->
            IF j \notin S THEN status[j]
            ELSE IF OutOfAttempts(j) THEN "failed" ELSE "queued"]
    BY ONLY <1>2, Zenon DEF Reap
  <2>2. \A j \in S : j \in Jobs /\ status[j] = "running"
    BY DEF Stalled
  <2>3. \A j \in Jobs : attempts[j] >= MaxAttempts <=> ~ attempts[j] < MaxAttempts
    BY BoundsAssumption DEF TypeOK
  <2>4. status' = [j \in Jobs |->
          IF j \notin S THEN status[j]
          ELSE IF attempts[j] < MaxAttempts THEN "queued" ELSE "failed"]
    BY <2>1, <2>3 DEF OutOfAttempts
  <2>5. UNCHANGED <<attempts, matches, match, liveMoves>>
    BY <1>2 DEF Reap
  <2>6. Lifecycle!GiveUp(S)
    BY <2>2, <2>4, <2>5 DEF Lifecycle!GiveUp
  <2>7. S \in SUBSET Jobs
    BY <2>2
  <2> QED
    BY <2>6, <2>7
<1>3. ASSUME NEW w \in Workers, NEW j \in Jobs, Claim(w, j)
      PROVE  Lifecycle!Next
  <2>1. Lifecycle!Start(j)
    BY <1>3 DEF Claim, Queued, Lifecycle!Start, RowInv, AttemptsAccounted
  <2> QED
    BY <2>1
<1>4. ASSUME NEW w \in Workers, CompleteJob(w) PROVE Lifecycle!Next
  <2>1. matches' = [matches EXCEPT ![job[w]] = @ \cup {attempt[w]}]
        /\ match' = [match EXCEPT ![job[w]] = attempt[w]]
        /\ UNCHANGED <<attempts, liveMoves>>
    BY <1>4 DEF CompleteJob
  <2>2. Lifecycle!Complete(job[w])
    BY <1>4, <2>1, CompleteJobEffect DEF Lifecycle!Complete
  <2> QED
    BY <1>4, <2>2, CompleteJobEffect
<1>5. ASSUME NEW w \in Workers, FailCommit(w) PROVE Lifecycle!Next
  <2>1. UNCHANGED <<attempts, matches, match, liveMoves>>
    BY <1>5 DEF FailCommit
  <2>2. Lifecycle!Fail(job[w])
    BY <1>5, <2>1, FailCommitEffect DEF Lifecycle!Fail
  <2> QED
    BY <1>5, <2>2, FailCommitEffect
<1>7. ASSUME NEW w \in Workers, ClearLiveMoves(w) PROVE Lifecycle!Next
  <2>1. /\ pc[w] \in Attempting /\ job[w] \in Jobs
        /\ status[job[w]] = "running"
    BY <1>7 DEF ClearLiveMoves, TypeOK, Attempting, OwnerInv, OwnerIsCurrent
  <2>2. Lifecycle!ClearMoves(job[w])
    BY <1>7, <2>1 DEF ClearLiveMoves, MovesCleared, MoveNumbers, rowVars,
                      Lifecycle!ClearMoves
  <2> QED
    BY <2>1, <2>2
<1>8. ASSUME NEW w \in Workers, RecordLiveMove(w) PROVE Lifecycle!Next
  <2>1. /\ pc[w] \in Attempting /\ pc[w] = "play" /\ job[w] \in Jobs
        /\ status[job[w]] = "running" /\ attempt[w] = attempts[job[w]]
    BY <1>8 DEF RecordLiveMove, TypeOK, Attempting, OwnerInv, OwnerIsCurrent
  <2>2. made[w] \in Nat /\ made[w] + 1 \in 1..MaxMoves
    BY <1>8, BoundsAssumption DEF RecordLiveMove, TypeOK
  <2>3. \A k \in 1..MaxMoves :
          liveMoves[job[w]][k] = IF k < made[w] + 1 THEN attempts[job[w]] ELSE 0
    <3>1. \A k \in 1..MaxMoves :
            liveMoves[job[w]][k] = IF k <= made[w] THEN attempt[w] ELSE 0
      BY <2>1 DEF LiveInv, MoveNumbers
    <3>2. \A k \in 1..MaxMoves : k < made[w] + 1 <=> k <= made[w]
      BY <2>2
    <3> QED
      BY <2>1, <3>1, <3>2
  <2>4. Lifecycle!RecordMove(job[w], made[w] + 1)
    BY <1>8, <2>1, <2>3 DEF RecordLiveMove, rowVars, Lifecycle!RecordMove
  <2> QED
    BY <2>1, <2>2, <2>4
<1>6. \/ UNCHANGED <<status, attempts, matches, match, liveMoves>>
      \/ (\E j \in Jobs : InsertJob(j))
      \/ (\E w \in Workers : Reap(w) \/ CompleteJob(w) \/ FailCommit(w))
      \/ (\E w \in Workers : ClearLiveMoves(w) \/ RecordLiveMove(w))
      \/ (\E w \in Workers, j \in Jobs : Claim(w, j))
  BY DEF Next, vars, rowVars, ApiStep, WorkerStep, WorkerFault,
         CheckLimit, AbortRequest, Age, SkipReap, LockJob, ClaimNone, WaitReturns,
         LoadJob, LiveMoveRejected,
         LogCompleted, LogFault, RunJobRaises, FailLoad, Hang, Crash, Restart
<1> QED
  BY <1>1, <1>2, <1>3, <1>4, <1>5, <1>6, <1>7, <1>8

(* The queue implements the promised lifecycle of a job.                   *)
THEOREM QueueImplementsLifecycle ==
  ASSUME Exclusive, ~ DbFaults
  PROVE  Spec => ImplementsLifecycle
<1>1. Init => Lifecycle!Init
  BY DEF Init, Lifecycle!Init, MoveNumbers
<1>2. TypeOK /\ RowInv /\ OwnerInv /\ LiveInv /\ [Next]_vars
        => [Lifecycle!Next]_(Lifecycle!lifecycleVars)
  BY LifecycleStep
<1>3. TypeOK /\ RowInv /\ OwnerInv /\ LiveInv /\ [Next]_vars => LiveInv'
  BY LiveStep
<1> QED
  BY <1>1, <1>2, <1>3, LiveInit, OwnerCorrect, PTL
  DEF Spec, ImplementsLifecycle, Lifecycle!Spec

-----------------------------------------------------------------------------
(* What is left of it when workers share a job.  The attempts the workers  *)
(* hold were all opened by a claim, one that still plays has stored no     *)
(* match, and a status left out of an update is final: RowInv is all this  *)
(* takes.                                                                  *)

LEMMA SharedStep ==
  ASSUME TypeOK, RowInv, [Next]_vars
  PROVE  [Shared!Next \/ Shared!Late]_(Shared!lifecycleVars)
<1> USE DEF Shared!Next, Shared!Late, Shared!lifecycleVars
<1>0. ASSUME NEW w \in Workers, pc[w] \in Attempting
      PROVE  /\ job[w] \in Jobs /\ attempt[w] \in Shared!Opened(job[w])
             /\ Shared!Opened(job[w]) # {}
  BY <1>0 DEF TypeOK, RowInv, HeldAttempt, Shared!Opened
<1>1. ASSUME NEW j \in Jobs, InsertJob(j) PROVE Shared!Next
  <2>1. Shared!Enqueue(j)
    BY <1>1 DEF InsertJob, Shared!Enqueue, RowInv, Requested
  <2> QED
    BY <2>1
<1>2. ASSUME NEW w \in Workers, Reap(w) PROVE Shared!Next
  <2>1. PICK S \in SUBSET Stalled :
          status' = [j \in Jobs |->
            IF j \notin S THEN status[j]
            ELSE IF OutOfAttempts(j) THEN "failed" ELSE "queued"]
    BY ONLY <1>2, Zenon DEF Reap
  <2>2. \A j \in S : j \in Jobs /\ status[j] = "running"
    BY DEF Stalled
  <2>3. \A j \in Jobs : attempts[j] >= MaxAttempts <=> ~ attempts[j] < MaxAttempts
    BY BoundsAssumption DEF TypeOK
  <2>4. status' = [j \in Jobs |->
          IF j \notin S THEN status[j]
          ELSE IF attempts[j] < MaxAttempts THEN "queued" ELSE "failed"]
    BY <2>1, <2>3 DEF OutOfAttempts
  <2>5. UNCHANGED <<attempts, matches, match, liveMoves>>
    BY <1>2 DEF Reap
  <2>6. Shared!GiveUp(S)
    BY <2>2, <2>4, <2>5 DEF Shared!GiveUp
  <2>7. S \in SUBSET Jobs
    BY <2>2
  <2> QED
    BY <2>6, <2>7
<1>3. ASSUME NEW w \in Workers, NEW j \in Jobs, Claim(w, j) PROVE Shared!Next
  <2>1. Shared!Start(j)
    BY <1>3 DEF Claim, Queued, Shared!Start, RowInv, AttemptsAccounted
  <2> QED
    BY <2>1
<1>4. ASSUME NEW w \in Workers, CompleteJob(w) PROVE Shared!Late
  <2> DEFINE j == job[w]
  <2>1. /\ pc[w] = "play" /\ attempt[w] \notin matches[j]
        /\ seen[w].status = "completed" => status[j] \in Terminal
    BY <1>4 DEF CompleteJob, RowInv, AttemptsAreDistinct, SeenTerminal, Terminal
  <2>2. j \in Jobs /\ attempt[w] \in Shared!Opened(j)
    BY <1>0, <2>1 DEF Attempting
  <2>3. /\ status' \in {status, [status EXCEPT ![j] = "completed"]}
        /\ status'[j] \in {"completed", "failed"}
    <3>1. CASE seen[w].status = "completed"
      <4>1. status' = [status EXCEPT ![j] = status[j]]
        BY <1>4, <3>1 DEF CompleteJob
      <4>2. status' = status
        BY <2>2, <4>1 DEF TypeOK
      <4> QED
        BY <2>1, <3>1, <4>2 DEF Terminal
    <3>2. CASE seen[w].status # "completed"
      <4>1. status' = [status EXCEPT ![j] = "completed"]
        BY <1>4, <3>2 DEF CompleteJob
      <4> QED
        BY <2>2, <4>1 DEF TypeOK
    <3> QED
      BY <3>1, <3>2
  <2>4. /\ matches' = [matches EXCEPT ![j] = @ \cup {attempt[w]}]
        /\ match' = [match EXCEPT ![j] = attempt[w]]
        /\ UNCHANGED <<attempts, liveMoves>>
    BY <1>4 DEF CompleteJob
  <2>5. Shared!LateComplete(j, attempt[w])
    BY <2>1, <2>2, <2>3, <2>4 DEF Shared!LateComplete
  <2> QED
    BY <2>2, <2>5
<1>5. ASSUME NEW w \in Workers, FailCommit(w)
      PROVE  Shared!Late \/ UNCHANGED Shared!lifecycleVars
  <2> DEFINE j == job[w]
  <2>1. pc[w] = "failCommit"
    BY <1>5 DEF FailCommit
  <2>2. j \in Jobs /\ Shared!Opened(j) # {}
    BY <1>0, <2>1 DEF Attempting
  <2>3. UNCHANGED <<attempts, matches, match, liveMoves>>
    BY <1>5 DEF FailCommit
  <2>4. status' = status \/ status' = [status EXCEPT ![j] = "failed"]
    BY <1>5, <2>2 DEF FailCommit, TypeOK
  <2>5. status' = status \/ Shared!LateFail(j)
    BY <2>2, <2>3, <2>4 DEF Shared!LateFail
  <2> QED
    BY <2>2, <2>3, <2>5
<1>6. ASSUME NEW w \in Workers, ClearLiveMoves(w) PROVE Shared!Late
  <2>1. job[w] \in Jobs /\ Shared!Opened(job[w]) # {}
    BY <1>0, <1>6 DEF ClearLiveMoves, Attempting
  <2>2. Shared!LateClear(job[w])
    BY <1>6, <2>1 DEF ClearLiveMoves, MovesCleared, MoveNumbers, rowVars,
                      Shared!LateClear
  <2> QED
    BY <2>1, <2>2
<1>7. ASSUME NEW w \in Workers, RecordLiveMove(w) PROVE Shared!Late
  <2>1. job[w] \in Jobs /\ attempt[w] \in Shared!Opened(job[w])
    BY <1>0, <1>7 DEF RecordLiveMove, Attempting
  <2>2. made[w] + 1 \in 1..MaxMoves
    BY <1>7, BoundsAssumption DEF RecordLiveMove, TypeOK
  <2>3. Shared!LateMove(job[w], made[w] + 1, attempt[w])
    BY <1>7, <2>1 DEF RecordLiveMove, rowVars, Shared!LateMove
  <2> QED
    BY <2>1, <2>2, <2>3
<1>8. \/ UNCHANGED <<status, attempts, matches, match, liveMoves>>
      \/ (\E j \in Jobs : InsertJob(j))
      \/ (\E w \in Workers : Reap(w) \/ CompleteJob(w) \/ FailCommit(w))
      \/ (\E w \in Workers : ClearLiveMoves(w) \/ RecordLiveMove(w))
      \/ (\E w \in Workers, j \in Jobs : Claim(w, j))
  BY DEF Next, vars, rowVars, ApiStep, WorkerStep, WorkerFault,
         CheckLimit, AbortRequest, Age, SkipReap, LockJob, ClaimNone, WaitReturns,
         LoadJob, LiveMoveRejected,
         LogCompleted, LogFault, RunJobRaises, FailLoad, Hang, Crash, Restart
<1> QED
  BY <1>1, <1>2, <1>3, <1>4, <1>5, <1>6, <1>7, <1>8

(* However many workers hold a job, however late they are and whatever     *)
(* statement fails: the rows follow SharedJobs, the environment of the     *)
(* pages.                                                                  *)
THEOREM QueueImplementsShared == Spec => ImplementsShared
<1>1. Init => Shared!Init
  BY DEF Init, Shared!Init, MoveNumbers
<1>2. TypeOK /\ RowInv /\ [Next]_vars
        => [Shared!Next \/ Shared!Late]_(Shared!lifecycleVars)
  BY SharedStep
<1> QED
  BY <1>1, <1>2, RowCorrect, PTL DEF Spec, ImplementsShared, Shared!SharedSpec

-----------------------------------------------------------------------------
(* The wakeup: it runs the queue, whose theorems therefore hold of it, and *)
(* loses no announcement.                                                  *)

(* A worker's own steps and faults are steps of MatchQueue.                *)
LEMMA WakeupStepRefines == [WakeupNext]_wakeupVars => [Next]_vars
<1> SUFFICES ASSUME [WakeupNext]_wakeupVars PROVE [Next]_vars
  OBVIOUS
<1>1. ASSUME NEW j \in Jobs, Announce(j) \/ AnnounceLost(j) PROVE UNCHANGED vars
  BY <1>1 DEF Announce, AnnounceLost
<1>2. ASSUME NEW j \in Jobs, ApiStep(j) \/ Age(j) PROVE Next
  BY <1>2 DEF Next
<1>3. ASSUME NEW w \in Workers, Sleep(w) PROVE UNCHANGED vars
  BY <1>3 DEF Sleep
<1>4. ASSUME NEW w \in Workers, WakeByNotify(w) \/ WakeByTimeout(w) PROVE Next
  BY <1>4 DEF WakeByNotify, WakeByTimeout, Next, WorkerStep
<1>5. ASSUME NEW w \in Workers, CrashWaking(w) \/ RestartWaking(w) PROVE Next
  BY <1>5 DEF CrashWaking, RestartWaking, Next, WorkerStep, WorkerFault
<1>6. ASSUME NEW w \in Workers, AwakeStep(w) \/ AwakeFault(w) PROVE Next
  BY <1>6 DEF AwakeStep, AwakeFault, Next, WorkerFault
<1>7. CASE UNCHANGED wakeupVars
  BY <1>7 DEF wakeupVars
<1> QED
  BY <1>1, <1>2, <1>3, <1>4, <1>5, <1>6, <1>7 DEF WakeupNext

(* The workers of this module run the queue of MatchQueue, whatever is     *)
(* announced or lost: NOTIFY decides when they look, never what they do.   *)
THEOREM WakeupRunsTheQueue == WakeupSpec => Spec
<1>1. WakeupInit => Init
  BY DEF WakeupInit
<1> QED
  BY <1>1, WakeupStepRefines, PTL DEF WakeupSpec, Spec

LEMMA WakeupTypeInit == WakeupInit => WakeupTypeOK
  BY DEF WakeupInit, Init, WakeupTypeOK, NoJob

(* What a step of the queue leaves of a worker's control, its row lock and *)
(* the existence of a job.                                                 *)
LEMMA ControlStep ==
  ASSUME TypeOK, WakeupTypeOK, NEW w \in Workers,
         \/ WorkerStep(w) \/ LogFault(w) \/ RunJobRaises(w) \/ Hang(w)
         \/ Crash(w)
  PROVE  /\ \A v \in Workers \ {w} : pc'[v] = pc[v] /\ holds'[v] = holds[v]
         /\ holds'[w] # NoJob => pc'[w] = "claim"
         /\ pc'[w] = "wait" => pc[w] = "wait" \/ ClaimNone(w)
         /\ \A j \in Jobs : status'[j] = "none" => status[j] = "none"
         /\ \A j \in Jobs : status'[j] = "queued" =>
              status[j] = "queued" \/ pc'[w] # "wait"
<1> USE DEF TypeOK, WakeupTypeOK, rowVars, workerVars, NoJob
<1>1. CASE Reap(w)
  <2>1. PICK S \in SUBSET Stalled :
          status' = [j \in Jobs |->
            IF j \notin S THEN status[j]
            ELSE IF OutOfAttempts(j) THEN "failed" ELSE "queued"]
    BY ONLY <1>1, Zenon DEF Reap
  <2>2. /\ pc[w] = "loop" /\ pc' = [pc EXCEPT ![w] = "claim"]
        /\ UNCHANGED holds
    BY <1>1 DEF Reap
  <2> QED
    BY <2>1, <2>2
<1>2. CASE SkipReap(w)
  BY <1>2 DEF SkipReap
<1>3. ASSUME NEW j \in Jobs, LockJob(w, j) \/ Claim(w, j)
      PROVE  /\ \A v \in Workers \ {w} : pc'[v] = pc[v] /\ holds'[v] = holds[v]
             /\ holds'[w] # NoJob => pc'[w] = "claim"
             /\ pc'[w] # "wait"
             /\ \A k \in Jobs : status'[k] = "none" => status[k] = "none"
  BY <1>3 DEF LockJob, Claim
<1>4. CASE ClaimNone(w)
  BY <1>4 DEF ClaimNone
<1>5. CASE WaitReturns(w)
  BY <1>5 DEF WaitReturns
<1>6. CASE ClearLiveMoves(w) \/ LoadJob(w) \/ RecordLiveMove(w) \/ LiveMoveRejected(w)
  BY <1>6 DEF ClearLiveMoves, LoadJob, RecordLiveMove, LiveMoveRejected
<1>7. CASE CompleteJob(w)
  BY <1>7 DEF CompleteJob, Attempting
<1>8. CASE LogCompleted(w) \/ FailLoad(w) \/ Restart(w)
  BY <1>8 DEF LogCompleted, FailLoad, Restart
<1>9. CASE FailCommit(w)
  BY <1>9 DEF FailCommit, Attempting
<1>10. CASE LogFault(w) \/ RunJobRaises(w) \/ Hang(w)
  BY <1>10 DEF LogFault, RunJobRaises, Hang
<1>11. CASE Crash(w)
  BY <1>11 DEF Crash
<1> QED
  BY <1>1, <1>2, <1>3, <1>4, <1>5, <1>6, <1>7, <1>8, <1>9, <1>10, <1>11
  DEF WorkerStep

(* Only a crash takes a worker down.                                       *)
LEMMA StaysUp ==
  ASSUME TypeOK, NEW w \in Workers, pc[w] # "down",
         WorkerStep(w) \/ LogFault(w) \/ RunJobRaises(w) \/ Hang(w)
  PROVE  pc'[w] # "down"
<1>1. ASSUME NEW j \in Jobs, LockJob(w, j) \/ Claim(w, j) PROVE pc'[w] # "down"
  BY <1>1 DEF TypeOK, LockJob, Claim, workerVars
<1>2. CASE Restart(w)
  BY <1>2 DEF Restart
<1> QED
  BY <1>1, <1>2
  DEF TypeOK, WorkerStep, Reap, SkipReap, ClaimNone, WaitReturns,
      ClearLiveMoves, LoadJob, RecordLiveMove, LiveMoveRejected, CompleteJob,
      LogCompleted, FailLoad, FailCommit, LogFault, RunJobRaises, Hang

(* What a step of the API or of the clock leaves.                          *)
LEMMA ApiControl ==
  ASSUME TypeOK, NEW j \in Jobs, ApiStep(j) \/ Age(j)
  PROVE  /\ UNCHANGED <<pc, holds>>
         /\ \A k \in Jobs : status'[k] # status[k] => k \in admitted
  BY DEF TypeOK, ApiStep, CheckLimit, InsertJob, AbortRequest, Age, rowVars,
         workerVars

LEMMA WakeupTypeStep ==
  ASSUME TypeOK, WakeupTypeOK, Requested, [WakeupNext]_wakeupVars
  PROVE  WakeupTypeOK'
<1> USE DEF WakeupTypeOK, wakeVars
<1>1. ASSUME NEW j \in Jobs, Announce(j) PROVE WakeupTypeOK'
  BY <1>1 DEF Announce, vars
<1>2. ASSUME NEW j \in Jobs, AnnounceLost(j) PROVE WakeupTypeOK'
  BY <1>2 DEF AnnounceLost, vars
<1>3. ASSUME NEW j \in Jobs, ApiStep(j) \/ Age(j), UNCHANGED wakeVars
      PROVE  WakeupTypeOK'
  <2>1. \A k \in Jobs : status'[k] = "none" => status[k] = "none"
    BY <1>3, ApiControl DEF Requested
  <2> QED
    BY <1>3, <2>1, ApiControl
<1>4. ASSUME NEW w \in Workers, Sleep(w) PROVE WakeupTypeOK'
  BY <1>4 DEF Sleep, vars
<1>5. ASSUME NEW w \in Workers, WakeByNotify(w) PROVE WakeupTypeOK'
  <2>1. PICK left \in 0..(pending[w] - 1) : pending' = [pending EXCEPT ![w] = left]
    BY <1>5 DEF WakeByNotify
  <2>2. left \in Nat /\ pending[w] > 0 /\ pending' \in [Workers -> Nat]
    BY <1>5, <2>1 DEF WakeByNotify
  <2>3. \A v \in Workers : pending'[v] > 0 => listens[v]
    BY <2>1, <2>2
  <2>4. WaitReturns(w) /\ WorkerStep(w)
    BY <1>5 DEF WakeByNotify, WorkerStep
  <2>5. /\ \A v \in Workers : holds'[v] # NoJob => pc'[v] = "claim"
        /\ \A j \in Jobs : status'[j] = "none" => status[j] = "none"
    BY <2>4, ControlStep
  <2>6. asleep' \subseteq {v \in Workers : pc'[v] = "wait"}
    BY <1>5 DEF WakeByNotify, WaitReturns, TypeOK
  <2>7. \A v \in Workers : pc'[v] = "down" => pc[v] = "down"
    BY <1>5 DEF WakeByNotify, WaitReturns, TypeOK
  <2> QED
    BY <1>5, <2>2, <2>3, <2>5, <2>6, <2>7 DEF WakeByNotify
<1>6. ASSUME NEW w \in Workers, WakeByTimeout(w) PROVE WakeupTypeOK'
  <2>1. WaitReturns(w) /\ WorkerStep(w)
    BY <1>6 DEF WakeByTimeout, WorkerStep
  <2>2. /\ \A v \in Workers : holds'[v] # NoJob => pc'[v] = "claim"
        /\ \A j \in Jobs : status'[j] = "none" => status[j] = "none"
    BY <2>1, ControlStep
  <2>3. asleep' \subseteq {v \in Workers : pc'[v] = "wait"}
    BY <1>6 DEF WakeByTimeout, WaitReturns, TypeOK
  <2>4. \A v \in Workers : pc'[v] = "down" => pc[v] = "down"
    BY <1>6 DEF WakeByTimeout, WaitReturns, TypeOK
  <2> QED
    BY <1>6, <2>2, <2>3, <2>4 DEF WakeByTimeout
<1>7. ASSUME NEW w \in Workers, CrashWaking(w) PROVE WakeupTypeOK'
  <2>1. /\ \A v \in Workers : holds'[v] # NoJob => pc'[v] = "claim"
        /\ \A j \in Jobs : status'[j] = "none" => status[j] = "none"
    BY <1>7, ControlStep DEF CrashWaking
  <2>2. asleep' \subseteq {v \in Workers : pc'[v] = "wait"}
    BY <1>7 DEF CrashWaking, Crash, TypeOK
  <2>3. \A v \in Workers : listens'[v] => pc'[v] # "down"
    BY <1>7 DEF CrashWaking, Crash, TypeOK
  <2>4. /\ listens' \in [Workers -> BOOLEAN] /\ pending' \in [Workers -> Nat]
        /\ \A v \in Workers : pending'[v] > 0 => listens'[v]
    BY <1>7 DEF CrashWaking
  <2> QED
    BY <1>7, <2>1, <2>2, <2>3, <2>4 DEF CrashWaking
<1>8. ASSUME NEW w \in Workers, RestartWaking(w) PROVE WakeupTypeOK'
  <2>1. Restart(w) /\ WorkerStep(w)
    BY <1>8 DEF RestartWaking, WorkerStep
  <2>2. /\ \A v \in Workers : holds'[v] # NoJob => pc'[v] = "claim"
        /\ \A j \in Jobs : status'[j] = "none" => status[j] = "none"
    BY <2>1, ControlStep
  <2>3. asleep' \subseteq {v \in Workers : pc'[v] = "wait"}
    BY <1>8 DEF RestartWaking, Restart, TypeOK
  <2>4. /\ pending[w] \in Nat /\ ~ pending[w] > 0
        /\ pc' = [pc EXCEPT ![w] = "loop"]
    BY <1>8 DEF RestartWaking, Restart
  <2>5. PICK l \in BOOLEAN : listens' = [listens EXCEPT ![w] = l]
    BY <1>8 DEF RestartWaking, Notifier
  <2>6. /\ listens' \in [Workers -> BOOLEAN]
        /\ \A v \in Workers : pending[v] > 0 => listens'[v]
        /\ \A v \in Workers : listens'[v] => pc'[v] # "down"
    BY <2>4, <2>5 DEF TypeOK
  <2> QED
    BY <1>8, <2>2, <2>3, <2>6 DEF RestartWaking
<1>9. ASSUME NEW w \in Workers, AwakeStep(w) \/ AwakeFault(w)
      PROVE  WakeupTypeOK'
  <2>1. /\ \A v \in Workers : holds'[v] # NoJob => pc'[v] = "claim"
        /\ \A j \in Jobs : status'[j] = "none" => status[j] = "none"
        /\ \A v \in Workers \ {w} : pc'[v] = pc[v]
    BY <1>9, ControlStep DEF AwakeStep, AwakeFault
  <2>2. pc[w] # "wait"
    BY <1>9 DEF AwakeStep, AwakeFault, LogFault, RunJobRaises, Hang
  <2>3. asleep' \subseteq {v \in Workers : pc'[v] = "wait"}
    BY <1>9, <2>1, <2>2 DEF AwakeStep, AwakeFault
  <2>4. pc'[w] # "down"
    <3>1. pc[w] # "down"
      BY <1>9 DEF AwakeStep, AwakeFault, LogFault, RunJobRaises, Hang
    <3> QED
      BY <1>9, <3>1, StaysUp DEF AwakeStep, AwakeFault
  <2> QED
    BY <1>9, <2>1, <2>3, <2>4 DEF AwakeStep, AwakeFault
<1>10. CASE UNCHANGED wakeupVars
  BY <1>10 DEF wakeupVars, vars
<1> QED
  BY <1>1, <1>2, <1>3, <1>4, <1>5, <1>6, <1>7, <1>8, <1>9, <1>10
  DEF WakeupNext

-----------------------------------------------------------------------------
(* A job becomes one that must wake somebody when it is announced - every  *)
(* listening connection then holds a notification - or when a reaper       *)
(* requeues it, and the reaper's worker goes on to claim.  The only way to *)
(* wait is a claim that found every queued row locked by a worker which is *)
(* itself awake.                                                           *)
LEMMA IdleStep ==
  ASSUME TypeOK, WakeupTypeOK, Requested, IdleMeansEmpty,
         [WakeupNext]_wakeupVars
  PROVE  IdleMeansEmpty'
<1> SUFFICES ASSUME NEW u \in Workers, listens'[u],
                    \A w \in Workers : pc'[w] = "wait" /\ pending'[w] = 0,
                    NEW j \in Jobs, status'[j] = "queued", announced'[j] = "yes"
             PROVE  FALSE
  BY DEF IdleMeansEmpty
<1>0. ASSUME listens[u], \A w \in Workers : pc[w] = "wait" /\ pending[w] = 0,
             status[j] = "queued", announced[j] = "yes"
      PROVE  FALSE
  BY <1>0 DEF IdleMeansEmpty
<1>1. ASSUME NEW k \in Jobs, Announce(k) PROVE FALSE
  <2>1. listens[u] /\ pending'[u] = pending[u] + 1 /\ pending[u] \in Nat
    BY <1>1 DEF Announce, WakeupTypeOK
  <2> QED
    BY <2>1
<1>2. ASSUME NEW k \in Jobs, AnnounceLost(k) PROVE FALSE
  BY <1>0, <1>2 DEF AnnounceLost, vars, WakeupTypeOK
<1>3. ASSUME NEW k \in Jobs, ApiStep(k) \/ Age(k), UNCHANGED wakeVars
      PROVE  FALSE
  <2>1. UNCHANGED pc /\ status[j] = "queued"
    BY <1>3, ApiControl DEF wakeVars, Requested, WakeupTypeOK
  <2> QED
    BY <1>0, <1>3, <2>1 DEF wakeVars
<1>4. ASSUME NEW w \in Workers, Sleep(w) PROVE FALSE
  BY <1>0, <1>4 DEF Sleep, vars
<1>5. ASSUME NEW w \in Workers,
             WakeByNotify(w) \/ WakeByTimeout(w) \/ RestartWaking(w)
             \/ CrashWaking(w)
      PROVE  FALSE
  <2>1. pc'[w] \in {"loop", "down"}
    BY <1>5 DEF WakeByNotify, WakeByTimeout, WaitReturns, RestartWaking,
                Restart, CrashWaking, Crash, TypeOK
  <2> QED
    BY <2>1
<1>6. ASSUME NEW w \in Workers, AwakeStep(w) \/ AwakeFault(w) PROVE FALSE
  <2>1. /\ pc[w] # "wait" /\ pc'[w] = "wait"
        /\ UNCHANGED wakeVars
    BY <1>6 DEF AwakeStep, AwakeFault, LogFault, RunJobRaises, Hang
  <2>2. /\ ClaimNone(w) /\ status[j] = "queued"
        /\ \A v \in Workers \ {w} : pc[v] = "wait"
    BY <1>6, <2>1, ControlStep DEF AwakeStep, AwakeFault
  <2>3. PICK v \in Workers \ {w} :
          j = holds[v] \/ pc[v] \in Locking
    BY <2>2 DEF ClaimNone, Queued, Held, MayBeLocked
  <2>4. j # NoJob
    BY JobsAssumption DEF NoJob
  <2> QED
    BY <2>2, <2>3, <2>4 DEF WakeupTypeOK, Locking
<1>7. CASE UNCHANGED wakeupVars
  BY <1>0, <1>7 DEF wakeupVars, vars, wakeVars
<1> QED
  BY <1>1, <1>2, <1>3, <1>4, <1>5, <1>6, <1>7 DEF WakeupNext

(* No wakeup is lost: workers that all wait, with no notification on its   *)
(* way, leave no announced job queued - for any number of jobs, workers,   *)
(* crashes, lost announcements and failed listeners.                       *)
THEOREM NoLostWakeup == WakeupSpec => []IdleMeansEmpty
<1>1. WakeupInit => WakeupTypeOK /\ IdleMeansEmpty
  BY WakeupTypeInit DEF WakeupInit, Init, IdleMeansEmpty
<1>2. TypeOK /\ RowInv /\ WakeupTypeOK /\ IdleMeansEmpty
      /\ [WakeupNext]_wakeupVars => (WakeupTypeOK /\ IdleMeansEmpty)'
  BY WakeupTypeStep, IdleStep DEF RowInv
<1> QED
  BY <1>1, <1>2, RowCorrect, WakeupRunsTheQueue, PTL DEF WakeupSpec

(* The domains of the announcements and of the listening connections, for  *)
(* every value of the constants.                                           *)
THEOREM WakeupTypeCorrect == WakeupSpec => []WakeupTypeOK
<1>1. TypeOK /\ RowInv /\ WakeupTypeOK /\ [WakeupNext]_wakeupVars
        => WakeupTypeOK'
  BY WakeupTypeStep DEF RowInv
<1> QED
  BY <1>1, WakeupTypeInit, RowCorrect, WakeupRunsTheQueue, PTL DEF WakeupSpec

(* What the queue promises it promises with notifications too.             *)
THEOREM WakeupImplementsLifecycle ==
  ASSUME Exclusive, ~ DbFaults
  PROVE  WakeupSpec => ImplementsLifecycle
  BY WakeupRunsTheQueue, QueueImplementsLifecycle, PTL
=============================================================================
