----------------------------- MODULE MatchQueue -----------------------------
(***************************************************************************)
(* The durable queue of match jobs: the transaction of POST /matches that  *)
(* admits a job (api/main.py), the worker processes that claim, play and   *)
(* complete jobs, the reaper that runs inside each worker's loop, and the  *)
(* crash and restart of a worker (worker/main.py).                         *)
(*                                                                         *)
(* One action is one database transaction (READ COMMITTED, PostgreSQL), or *)
(* one statement of it where another process can act between two           *)
(* statements.  A worker keeps the ORM object of its job between           *)
(* transactions; seen[w] is what that object has loaded, because a         *)
(* SQLAlchemy flush writes only the columns that differ from what was      *)
(* loaded, and every column assigned on an object no longer loaded.        *)
(*                                                                         *)
(* A definition listed in PROJECT.json as the mutated form of another one  *)
(* precedes it and is used by nothing else: with it in the other's place   *)
(* TLC must find a property violated.                                      *)
(***************************************************************************)
EXTENDS Naturals, FiniteSets

CONSTANTS
  Jobs,         (* job identities, ordered by (created_at, id)              *)
  Users,        (* users who may request matches                            *)
  Requester,    (* the user who requests each job                           *)
  Workers,      (* worker processes                                         *)
  MaxAttempts,  (* MATCH_JOB_MAX_ATTEMPTS                                   *)
  MaxActive,    (* queued or running jobs allowed per user                  *)
  MaxMoves,     (* moves a match can have                                   *)
  MaxCrashes,   (* bound on worker crashes, for model checking              *)
  SlowMatches,  (* may an attempt outlast the stall timeout?                *)
  DbFaults,     (* may a statement fail just after a job was completed?     *)
  BotsHang      (* may a bot keep its worker waiting for ever?              *)

(* created_at is the start time of the inserting transaction, so a job may *)
(* be inserted after one that is younger than it.                          *)
ASSUME JobsAssumption == Jobs \subseteq Nat \ {0} /\ IsFiniteSet(Jobs)

ASSUME RequesterAssumption == Requester \in [Jobs -> Users]

ASSUME BoundsAssumption ==
  /\ MaxAttempts \in Nat \ {0}
  /\ MaxActive \in Nat
  /\ MaxMoves \in Nat
  /\ MaxCrashes \in Nat

ASSUME SwitchesAssumption ==
  /\ SlowMatches \in BOOLEAN
  /\ DbFaults \in BOOLEAN
  /\ BotsHang \in BOOLEAN
  /\ BotsHang => SlowMatches

VARIABLES
  (* columns of match_jobs; status "none" where no row exists *)
  status, attempts, started, match, error,
  (* match_job_moves: the attempt that inserted each row, 0 where absent *)
  liveMoves,
  (* matches: the attempts of each job whose match row was committed *)
  matches,
  (* POST /matches transactions that hold their user's locks *)
  admitted,
  (* workers: control, claimed job, its attempt, loaded columns, moves made *)
  pc, job, attempt, seen, made,
  (* the queued row each worker has locked and not yet claimed *)
  holds,
  crashes

rowVars == <<status, attempts, started, match, error>>
workerVars == <<pc, job, attempt, seen, made>>
vars == <<status, attempts, started, match, error, liveMoves, matches,
          admitted, pc, job, attempt, seen, made, holds, crashes>>

NoJob == 0

MoveNumbers == 1..MaxMoves

Active == {"queued", "running"}
Terminal == {"completed", "failed"}
Statuses == {"none"} \cup Active \cup Terminal

(* started_at: NULL, within the stall timeout, or before the cutoff.       *)
Ages == {"null", "recent", "stale"}

(* error_message: NULL, the reaper's text, or the text of an exception.    *)
Errors == {"null", "stalled", "raised"}

Unloaded == [status |-> "none", error |-> "null"]

Loaded(j) == [status |-> status[j], error |-> error[j]]

Controls == {"loop", "claim", "wait", "clear", "load", "play", "hung",
             "log", "failLoad", "failCommit", "down"}

(* The worker is between its claim and the commit that resolves the job.   *)
Attempting == {"clear", "load", "play", "hung", "failLoad", "failCommit"}

(* In these places the worker's transaction can hold a lock on its job's   *)
(* row: the foreign key of a live move, or the update about to commit.     *)
Locking == {"play", "failCommit"}

Init ==
  /\ status = [j \in Jobs |-> "none"]
  /\ attempts = [j \in Jobs |-> 0]
  /\ started = [j \in Jobs |-> "null"]
  /\ match = [j \in Jobs |-> 0]
  /\ error = [j \in Jobs |-> "null"]
  /\ liveMoves = [j \in Jobs |-> [n \in MoveNumbers |-> 0]]
  /\ matches = [j \in Jobs |-> {}]
  /\ admitted = {}
  /\ pc = [w \in Workers |-> "loop"]
  /\ job = [w \in Workers |-> NoJob]
  /\ attempt = [w \in Workers |-> 0]
  /\ seen = [w \in Workers |-> Unloaded]
  /\ made = [w \in Workers |-> 0]
  /\ holds = [w \in Workers |-> NoJob]
  /\ crashes = 0

-----------------------------------------------------------------------------
(* POST /matches.                                                          *)

ActiveJobs(u) == {j \in Jobs : Requester[j] = u /\ status[j] \in Active}

(* enforce_user_active_match_job_limit waits for the user's locks.         *)
LimitUnlocked(j) == TRUE
LimitLockFree(j) == \A k \in admitted : Requester[k] # Requester[j]

(* The advisory lock and the user's row are held from the count to the     *)
(* commit; a request over the limit ends here and stores nothing.          *)
CheckLimit(j) ==
  /\ status[j] = "none"
  /\ LimitLockFree(j)
  /\ Cardinality(ActiveJobs(Requester[j])) < MaxActive
  /\ admitted' = admitted \cup {j}
  /\ UNCHANGED <<rowVars, liveMoves, matches, workerVars, holds, crashes>>

InsertJob(j) ==
  /\ j \in admitted
  /\ status' = [status EXCEPT ![j] = "queued"]
  /\ admitted' = admitted \ {j}
  /\ UNCHANGED <<attempts, started, match, error, liveMoves, matches,
                 workerVars, holds, crashes>>

(* The request's transaction is rolled back before its commit.             *)
AbortRequest(j) ==
  /\ j \in admitted
  /\ admitted' = admitted \ {j}
  /\ UNCHANGED <<rowVars, liveMoves, matches, workerVars, holds, crashes>>

-----------------------------------------------------------------------------
(* The reaper, at the top of a worker's loop.                              *)

(* The clock passes a running row's cutoff.  Nothing refreshes started_at  *)
(* while a match is played.                                                *)
Age(j) ==
  /\ status[j] = "running"
  /\ started[j] = "recent"
  /\ SlowMatches \/ ~ \E w \in Workers : job[w] = j /\ pc[w] \in Attempting
  /\ started' = [started EXCEPT ![j] = "stale"]
  /\ UNCHANGED <<status, attempts, match, error, liveMoves, matches,
                 admitted, workerVars, holds, crashes>>

StalledWithAttemptsLeft ==
  {j \in Jobs : /\ status[j] = "running" /\ started[j] = "stale"
                /\ attempts[j] < MaxAttempts}
StalledOfAnyAge == {j \in Jobs : status[j] = "running"}
Stalled == {j \in Jobs : status[j] = "running" /\ started[j] = "stale"}

(* Rows that FOR UPDATE SKIP LOCKED may pass over.                         *)
MayBeLocked(w) ==
  {j \in Jobs : \E v \in Workers \ {w} : job[v] = j /\ pc[v] \in Locking}

OutOfAttempts(j) == attempts[j] >= MaxAttempts

Reap(w) ==
  /\ pc[w] = "loop"
  /\ \E S \in SUBSET Stalled :
       /\ Stalled \ MayBeLocked(w) \subseteq S
       /\ status' = [j \in Jobs |->
            IF j \notin S THEN status[j]
            ELSE IF OutOfAttempts(j) THEN "failed" ELSE "queued"]
       /\ error' = [j \in Jobs |->
            IF j \notin S THEN error[j]
            ELSE IF OutOfAttempts(j) THEN "stalled" ELSE "null"]
       /\ started' = [j \in Jobs |-> IF j \in S THEN "null" ELSE started[j]]
  /\ pc' = [pc EXCEPT ![w] = "claim"]
  /\ UNCHANGED <<attempts, match, liveMoves, matches, admitted,
                 job, attempt, seen, made, holds, crashes>>

(* Less than a poll interval has passed since the last reaping.            *)
SkipReap(w) ==
  /\ pc[w] = "loop"
  /\ pc' = [pc EXCEPT ![w] = "claim"]
  /\ UNCHANGED <<rowVars, liveMoves, matches, admitted,
                 job, attempt, seen, made, holds, crashes>>

-----------------------------------------------------------------------------
(* Claiming.                                                               *)

QueuedOrFailed == {j \in Jobs : status[j] \in {"queued", "failed"}}
Queued == {j \in Jobs : status[j] = "queued"}

(* The rows other workers have locked to claim them; who would write one,  *)
(* or insert a move that refers to it, waits.                              *)
Held(w) == {holds[v] : v \in Workers \ {w}}
RowFree(w) == job[w] \notin Held(w)

(* SELECT ... LIMIT 1 FOR UPDATE SKIP LOCKED: the oldest row not locked.   *)
LockJob(w, j) ==
  /\ pc[w] = "claim" /\ holds[w] = NoJob
  /\ j \in Queued \ Held(w)
  /\ \A k \in Queued \ Held(w) : k < j => k \in MayBeLocked(w)
  /\ holds' = [holds EXCEPT ![w] = j]
  /\ UNCHANGED <<rowVars, liveMoves, matches, admitted, workerVars, crashes>>

(* The claim forgets to count the attempt.                                 *)
ClaimUncounted(w, j) ==
  /\ pc[w] = "claim"
  /\ holds[w] = j
  /\ j \in Queued
  /\ status' = [status EXCEPT ![j] = "running"]
  /\ started' = [started EXCEPT ![j] = "recent"]
  /\ error' = [error EXCEPT ![j] = "null"]
  /\ pc' = [pc EXCEPT ![w] = "clear"]
  /\ holds' = [holds EXCEPT ![w] = NoJob]
  /\ job' = [job EXCEPT ![w] = j]
  /\ attempt' = [attempt EXCEPT ![w] = attempts[j] + 1]
  /\ UNCHANGED <<attempts, match, liveMoves, matches, admitted, seen, made,
                 crashes>>

Claim(w, j) ==
  /\ pc[w] = "claim"
  /\ holds[w] = j
  /\ j \in Queued
  /\ status' = [status EXCEPT ![j] = "running"]
  /\ attempts' = [attempts EXCEPT ![j] = @ + 1]
  /\ started' = [started EXCEPT ![j] = "recent"]
  /\ error' = [error EXCEPT ![j] = "null"]
  /\ pc' = [pc EXCEPT ![w] = "clear"]
  /\ holds' = [holds EXCEPT ![w] = NoJob]
  /\ job' = [job EXCEPT ![w] = j]
  /\ attempt' = [attempt EXCEPT ![w] = attempts[j] + 1]
  /\ UNCHANGED <<match, liveMoves, matches, admitted, seen, made, crashes>>

ClaimNone(w) ==
  /\ pc[w] = "claim"
  /\ holds[w] = NoJob
  /\ Queued \subseteq Held(w) \cup MayBeLocked(w)
  /\ pc' = [pc EXCEPT ![w] = "wait"]
  /\ UNCHANGED <<rowVars, liveMoves, matches, admitted,
                 job, attempt, seen, made, holds, crashes>>

(* A notification arrived or the poll interval has passed.                 *)
WaitReturns(w) ==
  /\ pc[w] = "wait"
  /\ pc' = [pc EXCEPT ![w] = "loop"]
  /\ UNCHANGED <<rowVars, liveMoves, matches, admitted,
                 job, attempt, seen, made, holds, crashes>>

-----------------------------------------------------------------------------
(* Playing the claimed job (run_job).                                      *)

FirstMoveCleared(j) ==
  [n \in MoveNumbers |-> IF n = 1 THEN 0 ELSE liveMoves[j][n]]
MovesCleared(j) == [n \in MoveNumbers |-> 0]

(* Delete what earlier attempts left and commit; the commit expires the    *)
(* ORM object.                                                             *)
ClearLiveMoves(w) ==
  /\ pc[w] = "clear"
  /\ liveMoves' = [liveMoves EXCEPT ![job[w]] = MovesCleared(job[w])]
  /\ pc' = [pc EXCEPT ![w] = "load"]
  /\ UNCHANGED <<rowVars, matches, admitted, job, attempt, seen, made, holds,
                 crashes>>

(* Reading job.game_id reloads the row.                                    *)
LoadJob(w) ==
  /\ pc[w] = "load"
  /\ seen' = [seen EXCEPT ![w] = Loaded(job[w])]
  /\ pc' = [pc EXCEPT ![w] = "play"]
  /\ UNCHANGED <<rowVars, liveMoves, matches, admitted,
                 job, attempt, made, holds, crashes>>

(* record_live_move inserts move number made + 1 and commits, which        *)
(* expires the object again.                                               *)
RecordLiveMove(w) ==
  /\ pc[w] = "play"
  /\ made[w] < MaxMoves
  /\ liveMoves[job[w]][made[w] + 1] = 0
  /\ RowFree(w)
  /\ liveMoves' = [liveMoves EXCEPT ![job[w]][made[w] + 1] = attempt[w]]
  /\ made' = [made EXCEPT ![w] = @ + 1]
  /\ seen' = [seen EXCEPT ![w] = Unloaded]
  /\ UNCHANGED <<rowVars, matches, admitted, pc, job, attempt, holds, crashes>>

(* The same insert violates unique (job_id, move_number).                  *)
LiveMoveRejected(w) ==
  /\ pc[w] = "play"
  /\ made[w] < MaxMoves
  /\ liveMoves[job[w]][made[w] + 1] # 0
  /\ pc' = [pc EXCEPT ![w] = "failLoad"]
  /\ UNCHANGED <<rowVars, liveMoves, matches, admitted,
                 job, attempt, seen, made, holds, crashes>>

(* The match is stored and the job completed, but the job does not name    *)
(* the match.                                                              *)
CompleteUnnamed(w) ==
  /\ pc[w] = "play" /\ RowFree(w)
  /\ status' = [status EXCEPT ![job[w]] = "completed"]
  /\ matches' = [matches EXCEPT ![job[w]] = @ \cup {attempt[w]}]
  /\ pc' = [pc EXCEPT ![w] = "log"]
  /\ UNCHANGED <<attempts, started, match, error, liveMoves, admitted,
                 job, attempt, seen, made, holds, crashes>>

(* The match is over: its row, the submissions' records and the job's      *)
(* completion are one commit.  The status is not read again: a column is   *)
(* left out of the update only if it was loaded with the value assigned.   *)
CompleteJob(w) ==
  LET j == job[w] IN
  /\ pc[w] = "play" /\ RowFree(w)
  /\ status' = [status EXCEPT ![j] =
       IF seen[w].status = "completed" THEN @ ELSE "completed"]
  /\ error' = [error EXCEPT ![j] =
       IF seen[w] # Unloaded /\ seen[w].error = "null" THEN @ ELSE "null"]
  /\ match' = [match EXCEPT ![j] = attempt[w]]
  /\ matches' = [matches EXCEPT ![j] = @ \cup {attempt[w]}]
  /\ pc' = [pc EXCEPT ![w] = "log"]
  /\ UNCHANGED <<attempts, started, liveMoves, admitted,
                 job, attempt, seen, made, holds, crashes>>

-----------------------------------------------------------------------------
(* The end of run_once, and mark_job_failed.                               *)

Release(w) ==
  /\ job' = [job EXCEPT ![w] = NoJob]
  /\ attempt' = [attempt EXCEPT ![w] = 0]
  /\ seen' = [seen EXCEPT ![w] = Unloaded]
  /\ made' = [made EXCEPT ![w] = 0]

LogCompleted(w) ==
  /\ pc[w] = "log"
  /\ pc' = [pc EXCEPT ![w] = "loop"]
  /\ Release(w)
  /\ UNCHANGED <<rowVars, liveMoves, matches, admitted, holds, crashes>>

(* The log line reads columns the commit expired; if that statement fails, *)
(* or the commit succeeds and its answer is lost, the handler still runs.  *)
LogFault(w) ==
  /\ DbFaults
  /\ pc[w] = "log"
  /\ pc' = [pc EXCEPT ![w] = "failLoad"]
  /\ UNCHANGED <<rowVars, liveMoves, matches, admitted,
                 job, attempt, seen, made, holds, crashes>>

(* A sandbox that cannot be built, a bot without a submission, a failed    *)
(* statement: everything run_job raises is caught.                         *)
RunJobRaises(w) ==
  /\ pc[w] \in {"clear", "load", "play"}
  /\ pc' = [pc EXCEPT ![w] = "failLoad"]
  /\ UNCHANGED <<rowVars, liveMoves, matches, admitted,
                 job, attempt, seen, made, holds, crashes>>

FailLoad(w) ==
  /\ pc[w] = "failLoad"
  /\ seen' = [seen EXCEPT ![w] = Loaded(job[w])]
  /\ pc' = [pc EXCEPT ![w] = "failCommit"]
  /\ UNCHANGED <<rowVars, liveMoves, matches, admitted,
                 job, attempt, made, holds, crashes>>

(* The exception's text may be the one that was loaded; it is then not     *)
(* written.                                                                *)
FailCommit(w) ==
  LET j == job[w] IN
  /\ pc[w] = "failCommit" /\ RowFree(w)
  /\ status' = [status EXCEPT ![j] =
       IF seen[w].status = "failed" THEN @ ELSE "failed"]
  /\ \E sameText \in BOOLEAN :
       error' = [error EXCEPT ![j] =
         IF sameText /\ seen[w].error = "raised" THEN @ ELSE "raised"]
  /\ pc' = [pc EXCEPT ![w] = "loop"]
  /\ Release(w)
  /\ UNCHANGED <<attempts, started, match, liveMoves, matches, admitted,
                 holds, crashes>>

-----------------------------------------------------------------------------
(* Processes.                                                              *)

(* The referee waits on a bot without a timeout (see engine/referee.py).   *)
Hang(w) ==
  /\ BotsHang
  /\ pc[w] = "play"
  /\ pc' = [pc EXCEPT ![w] = "hung"]
  /\ UNCHANGED <<rowVars, liveMoves, matches, admitted,
                 job, attempt, seen, made, holds, crashes>>

(* The process is killed, or an exception leaves run_loop; an open         *)
(* transaction is rolled back.                                             *)
Crash(w) ==
  /\ pc[w] # "down"
  /\ crashes < MaxCrashes
  /\ crashes' = crashes + 1
  /\ pc' = [pc EXCEPT ![w] = "down"]
  /\ holds' = [holds EXCEPT ![w] = NoJob]
  /\ Release(w)
  /\ UNCHANGED <<rowVars, liveMoves, matches, admitted>>

(* compose: restart: unless-stopped.                                       *)
NoRestart(w) == FALSE
Restart(w) ==
  /\ pc[w] = "down"
  /\ pc' = [pc EXCEPT ![w] = "loop"]
  /\ UNCHANGED <<rowVars, liveMoves, matches, admitted,
                 job, attempt, seen, made, holds, crashes>>

-----------------------------------------------------------------------------

ApiStep(j) == CheckLimit(j) \/ InsertJob(j) \/ AbortRequest(j)

(* What a worker does by itself, in the order of run_loop and run_once.    *)
WorkerStep(w) ==
  \/ Reap(w)
  \/ SkipReap(w)
  \/ \E j \in Jobs : LockJob(w, j) \/ Claim(w, j)
  \/ ClaimNone(w)
  \/ WaitReturns(w)
  \/ ClearLiveMoves(w)
  \/ LoadJob(w)
  \/ RecordLiveMove(w)
  \/ LiveMoveRejected(w)
  \/ CompleteJob(w)
  \/ LogCompleted(w)
  \/ FailLoad(w)
  \/ FailCommit(w)
  \/ Restart(w)

(* What can happen to it.                                                  *)
WorkerFault(w) == LogFault(w) \/ RunJobRaises(w) \/ Hang(w) \/ Crash(w)

Next ==
  \/ \E j \in Jobs : ApiStep(j) \/ Age(j)
  \/ \E w \in Workers : WorkerStep(w) \/ WorkerFault(w)

Spec == Init /\ [][Next]_vars

(* A worker that is not hung goes on, time passes, and the reaper is due   *)
(* again and again: every pass of the loop takes time, and it runs         *)
(* whenever a poll interval has gone by.                                   *)
Fairness ==
  /\ \A w \in Workers : WF_vars(WorkerStep(w)) /\ SF_vars(Reap(w))
  /\ \A j \in Jobs : WF_vars(Age(j))

FairSpec == Spec /\ Fairness

-----------------------------------------------------------------------------
(* Properties.                                                             *)

(* The domain of every variable; a worker names a job exactly from its     *)
(* claim to the end of run_once.                                           *)
TypeOK ==
  /\ status \in [Jobs -> Statuses]
  /\ attempts \in [Jobs -> Nat]
  /\ started \in [Jobs -> Ages]
  /\ match \in [Jobs -> Nat]
  /\ error \in [Jobs -> Errors]
  /\ liveMoves \in [Jobs -> [MoveNumbers -> Nat]]
  /\ matches \in [Jobs -> SUBSET Nat]
  /\ admitted \subseteq Jobs
  /\ pc \in [Workers -> Controls]
  /\ job \in [Workers -> Jobs \cup {NoJob}]
  /\ attempt \in [Workers -> Nat]
  /\ seen \in [Workers -> [status : Statuses, error : Errors]]
  /\ made \in [Workers -> 0..MaxMoves]
  /\ holds \in [Workers -> Jobs \cup {NoJob}]
  /\ crashes \in 0..MaxCrashes
  /\ \A w \in Workers : job[w] # NoJob <=> pc[w] \in Attempting \cup {"log"}

(* A job the queue or a worker still has to deal with names no match and   *)
(* carries no error, and a running one has the started_at without which    *)
(* the reaper would never see it - also when the late commits of an        *)
(* attempt the reaper gave up on land on the row.                          *)
UnresolvedIsClean ==
  \A j \in Jobs :
    /\ status[j] \in {"none", "queued", "running"} =>
         match[j] = 0 /\ error[j] = "null"
    /\ status[j] = "running" => started[j] # "null"

(* A completed job names a match, and whatever match a job names was       *)
(* really stored by one of its attempts, however the completions and       *)
(* failures of several attempts interleave.                                *)
MatchIsRecorded ==
  \A j \in Jobs :
    /\ status[j] = "completed" => match[j] # 0
    /\ match[j] # 0 => match[j] \in matches[j]

(* Every stored match belongs to an attempt the row counts, and no job is  *)
(* attempted more often than MATCH_JOB_MAX_ATTEMPTS: neither a crash nor a *)
(* race of two reapers with a claim opens an attempt too many.             *)
AttemptsAccounted ==
  \A j \in Jobs :
    /\ matches[j] \subseteq 1..attempts[j]
    /\ attempts[j] <= MaxAttempts
    /\ status[j] = "queued" => attempts[j] < MaxAttempts

(* Two workers on one job hold different attempts of it, and an attempt    *)
(* that is still playing has not stored its match yet: an attempt stores   *)
(* at most one match.                                                      *)
AttemptsAreDistinct ==
  \A v, w \in Workers :
    /\ v # w /\ job[v] = job[w] /\ job[v] # NoJob => attempt[v] # attempt[w]
    /\ pc[w] \in {"clear", "load", "play", "hung"} =>
         attempt[w] \notin matches[job[w]]

(* What a row says of its outcome is what happened, and what it says of    *)
(* its attempts is what the workers hold and have stored.                  *)
OutcomeOnRecord == UnresolvedIsClean /\ MatchIsRecorded
AttemptsOnRecord == AttemptsAccounted /\ AttemptsAreDistinct

(* The number of jobs a user has queued or running never passes the limit, *)
(* whatever the requests that count them and the workers that requeue them *)
(* do in between.                                                          *)
QuotaRespected ==
  \A u \in Users : Cardinality(ActiveJobs(u)) <= MaxActive

(* A job reported as completed or failed is never queued or running again, *)
(* although an attempt the reaper gave up on can still write its row.      *)
TerminalNeverReopened ==
  [][\A j \in Jobs : status[j] \in Terminal => status'[j] \in Terminal]_vars

(* The single-match promise: a job is played to a stored match at most     *)
(* once (and so it changes the bots' ratings at most once).                *)
OneMatchPerJob ==
  \A j \in Jobs : \A a, b \in matches[j] : a = b

(* The live moves of a job are moves 1..n of one single attempt, with no   *)
(* gap, so that replaying them is replaying one match.                     *)
LiveMovesCoherent ==
  \A j \in Jobs : \E n \in 0..MaxMoves, a \in 0..MaxAttempts :
    \A k \in MoveNumbers : liveMoves[j][k] = IF k <= n THEN a ELSE 0

(* The worker that attempts a job is the one the row's attempt counter     *)
(* means, and the row is still running.                                    *)
OwnerIsCurrent ==
  \A w \in Workers :
    pc[w] \in Attempting =>
      /\ status[job[w]] = "running"
      /\ attempt[w] = attempts[job[w]]

(* The job rows and their matches follow the promised lifecycle.           *)
Lifecycle == INSTANCE JobLifecycle
ImplementsLifecycle == Lifecycle!Spec

(* However many workers hold a job, its rows follow what SharedJobs leaves *)
(* of that promise, which is what readers of the rows can rely on.         *)
Shared == INSTANCE SharedJobs
ImplementsShared == Shared!SharedSpec

(* A queued job is eventually completed or failed, although workers crash, *)
(* attempts stall and statements fail - unless bots keep every worker      *)
(* waiting.                                                                *)
EveryJobResolves ==
  \A j \in Jobs :
    status[j] = "queued" ~> \/ status[j] \in Terminal
                           \/ \A w \in Workers : pc[w] = "hung"

(* What the documentation says of a completed job: error_message is NULL.  *)
CompletedHasNoError ==
  \A j \in Jobs : status[j] = "completed" => error[j] = "null"

=============================================================================
