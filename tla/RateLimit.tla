----------------------------- MODULE RateLimit ------------------------------
(***************************************************************************)
(* The sliding windows that every request of an authentication endpoint    *)
(* passes first (require_auth_rate_limit in api/main.py), for any number   *)
(* of requests at a time on PostgreSQL.                                    *)
(*                                                                         *)
(* A request takes the time, deletes what no window looks back to, locks   *)
(* its two buckets, counts both and, if there is room, inserts an event in *)
(* each; all of it is one transaction of its own.  The events carry the    *)
(* time their transaction began, later than the time the window is         *)
(* computed from.  Clocks of the API and of the database agree.            *)
(***************************************************************************)
EXTENDS Naturals, FiniteSets

CONSTANTS
  Limited,        (* requests to a limited endpoint                        *)
  Keys,           (* buckets: an action, a scope and an account or address *)
  AccountKey,     (* the account bucket of each request                    *)
  AddressKey,     (* its bucket of the client's address                    *)
  Limit,          (* AUTH_RATE_LIMITS                                      *)
  Window,
  LongestWindow,
  MaxTime         (* bound on the clock, for model checking                *)

ASSUME BucketsAssumption ==
  /\ AccountKey \in [Limited -> Keys]
  /\ AddressKey \in [Limited -> Keys]
  /\ \A r, q \in Limited : AccountKey[r] # AddressKey[q]

ASSUME WindowsAssumption ==
  /\ Limit \in [Keys -> Nat]
  /\ Window \in [Keys -> Nat]
  /\ LongestWindow \in Nat
  /\ \A k \in Keys : Window[k] <= LongestWindow

VARIABLES
  clock,
  events,         (* committed rows of auth_rate_limit_events              *)
  gate,           (* how far a request has come                            *)
  took,           (* the time it computes its windows from                 *)
  began,          (* the time its transaction began: created_at            *)
  deleted,        (* the rows it has deleted and not committed             *)
  locked          (* the advisory locks it holds                           *)

limiterVars == <<clock, events, gate, took, began, deleted, locked>>

Event == [by : Limited, key : Keys, at : Nat]
Gates == {"sent", "begin", "purge", "lock", "count", "record",
          "limited", "dropped", "admitted"}
KeysOf(r) == {AccountKey[r], AddressKey[r]}

LimiterInit ==
  /\ clock = 0
  /\ events = {}
  /\ gate = [r \in Limited |-> "sent"]
  /\ took = [r \in Limited |-> 0]
  /\ began = [r \in Limited |-> 0]
  /\ deleted = [r \in Limited |-> {}]
  /\ locked = [r \in Limited |-> {}]

-----------------------------------------------------------------------------
Arrive(r) ==
  /\ gate[r] = "sent"
  /\ gate' = [gate EXCEPT ![r] = "begin"]
  /\ took' = [took EXCEPT ![r] = clock]
  /\ UNCHANGED <<clock, events, began, deleted, locked>>

Begin(r) ==
  /\ gate[r] = "begin"
  /\ gate' = [gate EXCEPT ![r] = "purge"]
  /\ began' = [began EXCEPT ![r] = clock]
  /\ UNCHANGED <<clock, events, took, deleted, locked>>

OldForItself(r) == {e \in events : e.at + Window[AccountKey[r]] < took[r]}
Old(r) == {e \in events : e.at + LongestWindow < took[r]}

(* A row that another transaction is deleting makes the DELETE wait.       *)
Purge(r) ==
  /\ gate[r] = "purge"
  /\ \A q \in Limited : deleted[q] \cap Old(r) = {}
  /\ gate' = [gate EXCEPT ![r] = "lock"]
  /\ deleted' = [deleted EXCEPT ![r] = Old(r)]
  /\ UNCHANGED <<clock, events, took, began, locked>>

(* pg_advisory_xact_lock, in the order of the sorted names: the account    *)
(* before the ip.                                                          *)
KeyUnguarded(k) == TRUE
KeyFree(k) == \A q \in Limited : k \notin locked[q]
InAnyOrder(r, k) == k \in KeysOf(r) \ locked[r]
IsNext(r, k) ==
  /\ k \in KeysOf(r) \ locked[r]
  /\ k = AccountKey[r] \/ AccountKey[r] \in locked[r]

Lock(r) ==
  /\ gate[r] = "lock"
  /\ \E k \in Keys :
       /\ IsNext(r, k) /\ KeyFree(k)
       /\ locked' = [locked EXCEPT ![r] = @ \cup {k}]
  /\ gate' = [gate EXCEPT ![r] = IF locked'[r] = KeysOf(r) THEN "count" ELSE "lock"]
  /\ UNCHANGED <<clock, events, took, began, deleted>>

Recent(r, k) ==
  {e \in events \ deleted[r] : e.key = k /\ e.at + Window[k] >= took[r]}
Full(r) == \E k \in KeysOf(r) : Cardinality(Recent(r, k)) >= Limit[k]

Count(r) ==
  /\ gate[r] = "count" /\ ~ Full(r)
  /\ gate' = [gate EXCEPT ![r] = "record"]
  /\ UNCHANGED <<clock, events, took, began, deleted, locked>>

(* The transaction's end.                                                  *)
Released(r) ==
  /\ took' = [took EXCEPT ![r] = 0]
  /\ deleted' = [deleted EXCEPT ![r] = {}]
  /\ locked' = [locked EXCEPT ![r] = {}]

Record(r) ==
  /\ gate[r] = "record"
  /\ events' = (events \ deleted[r]) \cup
       {[by |-> r, key |-> k, at |-> began[r]] : k \in KeysOf(r)}
  /\ gate' = [gate EXCEPT ![r] = "admitted"]
  /\ Released(r)
  /\ UNCHANGED <<clock, began>>

RollBackTo(r, place) ==
  /\ gate' = [gate EXCEPT ![r] = place]
  /\ began' = [began EXCEPT ![r] = 0]
  /\ Released(r)
  /\ UNCHANGED <<clock, events>>

TooMany(r) == gate[r] = "count" /\ Full(r) /\ RollBackTo(r, "limited")

(* A statement fails or the process dies.                                  *)
Drop(r) ==
  /\ gate[r] \in {"begin", "purge", "lock", "count", "record"}
  /\ RollBackTo(r, "dropped")

Tick ==
  /\ clock < MaxTime
  /\ clock' = clock + 1
  /\ UNCHANGED <<events, gate, took, began, deleted, locked>>

PassGate(r) ==
  Arrive(r) \/ Begin(r) \/ Purge(r) \/ Lock(r) \/ Count(r) \/ Record(r) \/ TooMany(r)

LimiterNext == Tick \/ \E r \in Limited : PassGate(r) \/ Drop(r)
LimiterSpec == LimiterInit /\ [][LimiterNext]_limiterVars

-----------------------------------------------------------------------------
(* Types; who has not begun or is through holds nothing, and who counts    *)
(* holds both locks.                                                       *)
LimiterTypeOK ==
  /\ clock \in Nat
  /\ events \in SUBSET Event
  /\ gate \in [Limited -> Gates]
  /\ took \in [Limited -> Nat]
  /\ began \in [Limited -> Nat]
  /\ deleted \in [Limited -> SUBSET Event]
  /\ locked \in [Limited -> SUBSET Keys]
  /\ \A r \in Limited :
       /\ gate[r] \notin {"lock", "count", "record"} => locked[r] = {} /\ deleted[r] = {}
       /\ gate[r] \in {"count", "record"} => locked[r] = KeysOf(r)
       /\ gate[r] = "lock" => locked[r] \subseteq {AccountKey[r]}

(* However many requests count and insert at a time, no window of its      *)
(* length holds more events of a bucket than its limit, although events    *)
(* are dated later than the windows they were counted in.                  *)
InWindow(k, t) == {e \in events : e.key = k /\ t <= e.at /\ e.at <= t + Window[k]}
WindowRespected ==
  \A k \in Keys : \A t \in 0..clock : Cardinality(InWindow(k, t)) <= Limit[k]

(* Every admitted attempt counts in both its buckets, whatever becomes of  *)
(* its request, for as long as any bucket looks back: the purges of other  *)
(* actions, with shorter windows, do not take it away.                     *)
AttemptsCounted ==
  \A r \in Limited : gate[r] = "admitted" =>
    \A k \in KeysOf(r) :
      \/ [by |-> r, key |-> k, at |-> began[r]] \in events
      \/ began[r] + LongestWindow < clock
=============================================================================
