------------------------------- MODULE Wakeup -------------------------------
(***************************************************************************)
(* How a waiting worker learns of a new job.  POST /matches commits the    *)
(* job and then issues NOTIFY in a second transaction; a worker listens on *)
(* a connection of its own, opened once when the process starts            *)
(* (PostgresJobNotifier), or not at all (PollingJobNotifier), and looks at *)
(* that connection only after a claim that found nothing.  This module     *)
(* adds the announcements, and what has reached each listening connection, *)
(* to the queue and the workers of MatchQueue.                             *)
(***************************************************************************)
EXTENDS MatchQueue

CONSTANTS
  ApiFaults,    (* the jobs whose NOTIFY may be lost: the API stops after   *)
                (* the commit                                               *)
  ListenFaults  (* the workers whose listening connection may fail to open  *)

ASSUME WakeupAssumption == ApiFaults \subseteq Jobs /\ ListenFaults \subseteq Workers

VARIABLES
  announced,  (* per job: "no", "yes", or "lost" with the API's process     *)
  listens,    (* the worker's notifier is a PostgresJobNotifier             *)
  pending,    (* notifications its connection holds and nobody has read     *)
  asleep      (* the workers inside job_notifier.wait                       *)

wakeVars == <<announced, listens, pending, asleep>>
wakeupVars == <<vars, wakeVars>>

(* create_job_notifier, at the start of run_loop.                          *)
Notifier(w) == {TRUE} \cup {w \notin ListenFaults}

WakeupInit ==
  /\ Init
  /\ announced = [j \in Jobs |-> "no"]
  /\ listens \in [Workers -> BOOLEAN]
  /\ \A w \in Workers : listens[w] \in Notifier(w)
  /\ pending = [w \in Workers |-> 0]
  /\ asleep = {}

-----------------------------------------------------------------------------
(* The API.                                                                *)

AnnounceBeforeCommit(j) ==
  /\ j \in admitted
  /\ announced[j] = "no"
  /\ announced' = [announced EXCEPT ![j] = "yes"]
  /\ pending' = [w \in Workers |-> pending[w] + (IF listens[w] THEN 1 ELSE 0)]
  /\ UNCHANGED <<vars, listens, asleep>>

AnnounceToSleepers(j) ==
  /\ status[j] # "none"
  /\ announced[j] = "no"
  /\ announced' = [announced EXCEPT ![j] = "yes"]
  /\ pending' = [w \in Workers |->
       pending[w] + (IF listens[w] /\ w \in asleep THEN 1 ELSE 0)]
  /\ UNCHANGED <<vars, listens, asleep>>

(* The job is committed and may have been claimed or resolved meanwhile.   *)
Announce(j) ==
  /\ status[j] # "none"
  /\ announced[j] = "no"
  /\ announced' = [announced EXCEPT ![j] = "yes"]
  /\ pending' = [w \in Workers |-> pending[w] + (IF listens[w] THEN 1 ELSE 0)]
  /\ UNCHANGED <<vars, listens, asleep>>

AnnounceLost(j) ==
  /\ j \in ApiFaults
  /\ status[j] # "none"
  /\ announced[j] = "no"
  /\ announced' = [announced EXCEPT ![j] = "lost"]
  /\ UNCHANGED <<vars, listens, pending, asleep>>

-----------------------------------------------------------------------------
(* The workers.                                                            *)

(* job_notifier.wait is entered after the claim's rollback.                *)
Sleep(w) ==
  /\ pc[w] = "wait" /\ w \notin asleep
  /\ asleep' = asleep \cup {w}
  /\ UNCHANGED <<vars, announced, listens, pending>>

(* wait takes the first notification of a packet (stop_after=1); whether   *)
(* the others survive is up to the driver.                                 *)
WakeByNotify(w) ==
  /\ w \in asleep /\ pending[w] > 0
  /\ WaitReturns(w)
  /\ asleep' = asleep \ {w}
  /\ \E left \in 0..(pending[w] - 1) : pending' = [pending EXCEPT ![w] = left]
  /\ UNCHANGED <<announced, listens>>

(* The poll interval is over.                                              *)
WakeByTimeout(w) ==
  /\ w \in asleep
  /\ WaitReturns(w)
  /\ asleep' = asleep \ {w}
  /\ UNCHANGED <<announced, listens, pending>>

(* The connection goes with the process.                                   *)
CrashWaking(w) ==
  /\ Crash(w)
  /\ listens' = [listens EXCEPT ![w] = FALSE]
  /\ pending' = [pending EXCEPT ![w] = 0]
  /\ asleep' = asleep \ {w}
  /\ UNCHANGED announced

(* LISTEN is in force before the first claim of the process.               *)
RestartWaking(w) ==
  /\ Restart(w)
  /\ \E l \in Notifier(w) : listens' = [listens EXCEPT ![w] = l]
  /\ UNCHANGED <<announced, pending, asleep>>

(* Everything else a worker does, or meets, awake and alive.               *)
AwakeStep(w) ==
  /\ pc[w] \notin {"wait", "down"}
  /\ WorkerStep(w)
  /\ UNCHANGED wakeVars

AwakeFault(w) ==
  /\ LogFault(w) \/ RunJobRaises(w) \/ Hang(w)
  /\ UNCHANGED wakeVars

-----------------------------------------------------------------------------

WakeupNext ==
  \/ \E j \in Jobs :
       \/ Announce(j)
       \/ AnnounceLost(j)
       \/ (ApiStep(j) \/ Age(j)) /\ UNCHANGED wakeVars
  \/ \E w \in Workers :
       \/ Sleep(w)
       \/ WakeByNotify(w)
       \/ WakeByTimeout(w)
       \/ CrashWaking(w)
       \/ RestartWaking(w)
       \/ AwakeStep(w)
       \/ AwakeFault(w)

WakeupSpec == WakeupInit /\ [][WakeupNext]_wakeupVars

(* Workers go on and notifications arrive; nothing is asked of the poll    *)
(* interval, which may never end, nor of the reaper.                       *)
WakeupFairness ==
  \A w \in Workers :
    /\ WF_wakeupVars(AwakeStep(w))
    /\ WF_wakeupVars(Sleep(w))
    /\ WF_wakeupVars(WakeByNotify(w))
    /\ WF_wakeupVars(RestartWaking(w))

FairWakeupSpec == WakeupSpec /\ WakeupFairness

-----------------------------------------------------------------------------
(* Properties.                                                             *)

(* The domains of what this module adds; a worker that holds a row lock    *)
(* is in its claim, a sleeping one waits, and only the listening           *)
(* connection of a live process holds notifications.                       *)
WakeupTypeOK ==
  /\ announced \in [Jobs -> {"no", "yes", "lost"}]
  /\ listens \in [Workers -> BOOLEAN]
  /\ pending \in [Workers -> Nat]
  /\ asleep \subseteq {w \in Workers : pc[w] = "wait"}
  /\ \A j \in Jobs : status[j] = "none" => announced[j] = "no"
  /\ \A w \in Workers :
       /\ holds[w] # NoJob => pc[w] = "claim"
       /\ pending[w] > 0 => listens[w]
       /\ listens[w] => pc[w] # "down"

(* No lost wakeup: when every worker has gone to wait and no notification  *)
(* is on its way to any of them, no announced job is still queued - unless *)
(* none of them listens.  A claim that skips a row another worker has      *)
(* locked, a notification read together with others, a requeued job and a  *)
(* worker that dies holding the lock do not break it.                      *)
IdleMeansEmpty ==
  (\E w \in Workers : listens[w]) /\
  (\A w \in Workers : pc[w] = "wait" /\ pending[w] = 0)
    => ~ \E j \in Jobs : status[j] = "queued" /\ announced[j] = "yes"

(* Polling only covers what was missed: an announced job that is queued is *)
(* eventually claimed although no poll interval ever ends, unless there is *)
(* a time at which no worker listens, or bots hang every worker.           *)
ClaimedWithoutPolling ==
  \A j \in Jobs :
    status[j] = "queued" /\ announced[j] = "yes" ~>
      \/ status[j] # "queued"
      \/ \A w \in Workers : ~ listens[w] \/ pc[w] = "hung"
=============================================================================
