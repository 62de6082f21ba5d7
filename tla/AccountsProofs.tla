--------------------------- MODULE AccountsProofs ---------------------------
(***************************************************************************)
(* Proofs about RateLimit, for every set of requests and buckets and all   *)
(* limits and windows, and about Accounts, whose handlers stand behind it, *)
(* for every set of users and requests, whatever they are about.  The      *)
(* clock has no bound.                                                     *)
(***************************************************************************)
EXTENDS Accounts, FiniteSetTheorems, TLAPS

(* The limiter by itself, whatever passes it.                              *)

LEMMA KeysType ==
  ASSUME NEW r \in Limited
  PROVE  /\ AccountKey[r] \in Keys /\ AddressKey[r] \in Keys
         /\ AccountKey[r] # AddressKey[r]
         /\ KeysOf(r) \subseteq Keys
  BY BucketsAssumption DEF KeysOf

-----------------------------------------------------------------------------
(* Type correctness.                                                       *)

LEMMA LimiterTypeInit == LimiterInit => LimiterTypeOK
  BY DEF LimiterInit, LimiterTypeOK, Gates

LEMMA RollBackType ==
  ASSUME LimiterTypeOK, NEW r \in Limited, NEW place \in {"limited", "dropped"},
         RollBackTo(r, place)
  PROVE  LimiterTypeOK'
  BY DEF LimiterTypeOK, RollBackTo, Released, Gates

LEMMA LimiterTypeStep == LimiterTypeOK /\ [LimiterNext]_limiterVars => LimiterTypeOK'
<1> SUFFICES ASSUME LimiterTypeOK, [LimiterNext]_limiterVars PROVE LimiterTypeOK'
  OBVIOUS
<1>1. CASE Tick
  BY <1>1 DEF LimiterTypeOK, Tick
<1>2. ASSUME NEW r \in Limited, Arrive(r) PROVE LimiterTypeOK'
  BY <1>2 DEF LimiterTypeOK, Arrive, Gates
<1>3. ASSUME NEW r \in Limited, Begin(r) PROVE LimiterTypeOK'
  BY <1>3 DEF LimiterTypeOK, Begin, Gates
<1>4. ASSUME NEW r \in Limited, Purge(r) PROVE LimiterTypeOK'
  <2>1. Old(r) \subseteq Event
    BY DEF Old, LimiterTypeOK
  <2> QED
    BY <1>4, <2>1 DEF LimiterTypeOK, Purge, Gates
<1>5. ASSUME NEW r \in Limited, Lock(r) PROVE LimiterTypeOK'
  <2>1. PICK k \in Keys : IsNext(r, k) /\ locked' = [locked EXCEPT ![r] = @ \cup {k}]
    BY <1>5 DEF Lock
  <2>2. locked'[r] = locked[r] \cup {k} /\ \A q \in Limited \ {r} : locked'[q] = locked[q]
    BY <2>1 DEF LimiterTypeOK
  <2>3. locked[r] \subseteq {AccountKey[r]} /\ gate[r] = "lock"
    BY <1>5 DEF LimiterTypeOK, Lock
  <2>4. locked'[r] # KeysOf(r) => locked'[r] \subseteq {AccountKey[r]}
    BY <2>1, <2>2, <2>3, KeysType DEF IsNext, KeysOf
  <2>5. locked' \in [Limited -> SUBSET Keys]
    BY <2>1 DEF LimiterTypeOK
  <2>6. /\ gate' = [gate EXCEPT ![r] = IF locked'[r] = KeysOf(r) THEN "count" ELSE "lock"]
        /\ UNCHANGED <<clock, events, took, began, deleted>>
    BY <1>5 DEF Lock
  <2> QED
    BY <2>2, <2>3, <2>4, <2>5, <2>6 DEF LimiterTypeOK, Gates
<1>6. ASSUME NEW r \in Limited, Count(r) PROVE LimiterTypeOK'
  BY <1>6 DEF LimiterTypeOK, Count, Gates
<1>7. ASSUME NEW r \in Limited, Record(r) PROVE LimiterTypeOK'
  <2>1. \A k \in KeysOf(r) : [by |-> r, key |-> k, at |-> began[r]] \in Event
    BY KeysType DEF Event, LimiterTypeOK
  <2>2. events' \subseteq Event
    BY <1>7, <2>1 DEF Record, LimiterTypeOK
  <2> QED
    BY <1>7, <2>2 DEF LimiterTypeOK, Record, Released, Gates
<1>8. ASSUME NEW r \in Limited, TooMany(r) PROVE LimiterTypeOK'
  BY <1>8, RollBackType DEF TooMany
<1>9. ASSUME NEW r \in Limited, Drop(r) PROVE LimiterTypeOK'
  BY <1>9, RollBackType DEF Drop
<1>10. CASE UNCHANGED limiterVars
  BY <1>10 DEF LimiterTypeOK, limiterVars
<1> QED
  BY <1>1, <1>2, <1>3, <1>4, <1>5, <1>6, <1>7, <1>8, <1>9, <1>10
  DEF LimiterNext, PassGate

(* Every variable of the limiter keeps its domain; a request holds locks   *)
(* and deleted rows only within its transaction, and both locks when it    *)
(* counts.                                                                 *)
THEOREM LimiterTypeCorrect == LimiterSpec => []LimiterTypeOK
  BY LimiterTypeInit, LimiterTypeStep, PTL DEF LimiterSpec

-----------------------------------------------------------------------------
(* Times: what a request took it took before its transaction began, and    *)
(* nothing is dated after the clock.  What is being deleted is old.        *)

TimesOrdered ==
  \A r \in Limited :
    /\ took[r] <= clock /\ began[r] <= clock
    /\ gate[r] \in {"purge", "lock", "count", "record"} => took[r] <= began[r]
DeletedIsOld ==
  \A r \in Limited : \A e \in deleted[r] : e.at + LongestWindow < clock
TimeInv == LimiterTypeOK /\ TimesOrdered /\ DeletedIsOld /\ AttemptsCounted

LEMMA TimeStep == TimeInv /\ [LimiterNext]_limiterVars => TimeInv'
<1> SUFFICES ASSUME TimeInv, [LimiterNext]_limiterVars PROVE TimeInv'
  OBVIOUS
<1> USE WindowsAssumption DEF TimeInv
<1>0. LimiterTypeOK' /\ clock' \in Nat /\ clock' >= clock
  <2>1. clock' = clock \/ clock' = clock + 1
    BY DEF LimiterNext, PassGate, limiterVars, Tick, Arrive, Begin, Purge, Lock, Count,
           Record, TooMany, Drop, RollBackTo
  <2> QED
    BY <2>1, LimiterTypeStep DEF LimiterTypeOK
<1>1. TimesOrdered'
  <2>1. CASE Tick \/ UNCHANGED limiterVars
    BY <2>1, <1>0 DEF TimesOrdered, Tick, limiterVars, LimiterTypeOK
  <2>2. ASSUME NEW r \in Limited, Arrive(r) \/ Begin(r) PROVE TimesOrdered'
    BY <2>2 DEF TimesOrdered, Arrive, Begin, LimiterTypeOK
  <2>3. ASSUME NEW r \in Limited, Purge(r) \/ Lock(r) \/ Count(r) PROVE TimesOrdered'
    BY <2>3 DEF TimesOrdered, Purge, Lock, Count, LimiterTypeOK
  <2>4. ASSUME NEW r \in Limited, Record(r) \/ TooMany(r) \/ Drop(r) PROVE TimesOrdered'
    BY <2>4 DEF TimesOrdered, Record, TooMany, Drop, RollBackTo, Released, LimiterTypeOK
  <2> QED
    BY <2>1, <2>2, <2>3, <2>4 DEF LimiterNext, PassGate
<1>2. DeletedIsOld'
  <2>1. ASSUME NEW r \in Limited, Purge(r) PROVE DeletedIsOld'
    <3>1. \A e \in Old(r) : e.at + LongestWindow < clock
      BY DEF Old, TimesOrdered, LimiterTypeOK, Event
    <3> QED
      BY <2>1, <3>1 DEF Purge, DeletedIsOld, LimiterTypeOK
  <2>2. CASE ~ \E r \in Limited : Purge(r)
    <3>1. \A q \in Limited : deleted'[q] \subseteq deleted[q]
      BY <2>2 DEF LimiterNext, PassGate, limiterVars, Tick, Arrive, Begin, Lock, Count,
                  Record, TooMany, Drop, RollBackTo, Released, LimiterTypeOK
    <3>2. \A q \in Limited : deleted[q] \subseteq Event
      BY DEF LimiterTypeOK
    <3> QED
      BY <1>0, <3>1, <3>2 DEF DeletedIsOld, LimiterTypeOK, Event
  <2> QED
    BY <2>1, <2>2
<1>3. AttemptsCounted'
  <2>1. ASSUME NEW r \in Limited, Record(r) PROVE AttemptsCounted'
    <3> SUFFICES ASSUME NEW q \in Limited, gate'[q] = "admitted", NEW k \in KeysOf(q)
                 PROVE  \/ [by |-> q, key |-> k, at |-> began'[q]] \in events'
                        \/ began'[q] + LongestWindow < clock'
      BY DEF AttemptsCounted
    <3>1. began' = began /\ clock' = clock
      BY <2>1 DEF Record
    <3>2. CASE q = r
      BY <2>1, <3>1, <3>2 DEF Record
    <3>3. CASE q # r
      <4>1. gate[q] = "admitted"
        BY <2>1, <3>3 DEF Record, LimiterTypeOK
      <4>2. CASE [by |-> q, key |-> k, at |-> began[q]] \in events \ deleted[r]
        BY <2>1, <3>1, <4>2 DEF Record
      <4>3. CASE [by |-> q, key |-> k, at |-> began[q]] \in deleted[r]
        BY <3>1, <4>3 DEF DeletedIsOld
      <4> QED
        BY <3>1, <4>1, <4>2, <4>3 DEF AttemptsCounted
    <3> QED
      BY <3>2, <3>3
  <2>2. CASE ~ \E r \in Limited : Record(r)
    <3>1. events' = events
      BY <2>2 DEF LimiterNext, PassGate, limiterVars, Tick, Arrive, Begin, Purge, Lock, Count,
                  TooMany, Drop, RollBackTo
    <3>2. \A q \in Limited : gate'[q] = "admitted" => gate[q] = "admitted" /\ began'[q] = began[q]
      BY <2>2 DEF LimiterNext, PassGate, limiterVars, Tick, Arrive, Begin, Purge, Lock, Count,
                  TooMany, Drop, RollBackTo, LimiterTypeOK
    <3> QED
      BY <1>0, <3>1, <3>2 DEF AttemptsCounted, LimiterTypeOK
  <2> QED
    BY <2>1, <2>2
<1> QED
  BY <1>0, <1>1, <1>2, <1>3

LEMMA TimeInvariant == LimiterSpec => []TimeInv
<1>1. LimiterInit => TimeInv
  BY LimiterTypeInit DEF LimiterInit, TimeInv, TimesOrdered, DeletedIsOld, AttemptsCounted
<1> QED
  BY <1>1, TimeStep, PTL DEF LimiterSpec

(* An admitted attempt stays counted in its account's and its address's    *)
(* bucket while any window looks back to it, whatever the requests of      *)
(* other actions purge meanwhile.                                          *)
THEOREM AttemptsStayCounted == LimiterSpec => []AttemptsCounted
  BY TimeInvariant, PTL DEF TimeInv

-----------------------------------------------------------------------------
(* The window.  Who may insert holds both locks, so that nobody else has   *)
(* inserted in its buckets since it found room in them.                    *)

LocksExclusive == \A r, q \in Limited : r # q => locked[r] \cap locked[q] = {}
RoomLeft ==
  \A r \in Limited : gate[r] = "record" =>
    \A k \in KeysOf(r) : Cardinality(Recent(r, k)) < Limit[k]
WindowBound ==
  \A k \in Keys : \A t \in Nat : Cardinality(InWindow(k, t)) <= Limit[k]
WindowInv == TimeInv /\ IsFiniteSet(events) /\ LocksExclusive /\ RoomLeft /\ WindowBound

LEMMA NoLargerThan ==
  ASSUME NEW T, NEW S \in SUBSET T, IsFiniteSet(T)
  PROVE  /\ IsFiniteSet(S) /\ Cardinality(S) \in Nat /\ Cardinality(T) \in Nat
         /\ Cardinality(S) <= Cardinality(T)
  BY FS_Subset, FS_CardinalityType

LEMMA AtMostOneMore ==
  ASSUME NEW T, NEW x, NEW S \in SUBSET (T \cup {x}), IsFiniteSet(T)
  PROVE  Cardinality(S) \in Nat /\ Cardinality(S) <= Cardinality(T) + 1
<1> DEFINE U == T \cup {x}
<1>1. /\ IsFiniteSet(U)
      /\ Cardinality(U) = Cardinality(T) \/ Cardinality(U) = Cardinality(T) + 1
  BY FS_AddElement
<1>2. /\ Cardinality(T) \in Nat /\ Cardinality(S) \in Nat
      /\ Cardinality(U) \in Nat /\ Cardinality(S) <= Cardinality(U)
  BY <1>1, NoLargerThan, FS_CardinalityType
<1> HIDE DEF U
<1> QED
  BY <1>1, <1>2

LEMMA Inserted ==
  ASSUME TimeInv, NEW r \in Limited, Record(r), NEW k \in Keys
  PROVE  \A e \in events' : e.key = k =>
           \/ e \in events \ deleted[r]
           \/ k \in KeysOf(r) /\ e = [by |-> r, key |-> k, at |-> began[r]]
  BY DEF Record

LEMMA LocksStep == WindowInv /\ [LimiterNext]_limiterVars => LocksExclusive'
<1> SUFFICES ASSUME WindowInv, [LimiterNext]_limiterVars PROVE LocksExclusive'
  OBVIOUS
<1> USE DEF WindowInv, TimeInv
<1>1. ASSUME NEW r \in Limited, Lock(r) PROVE LocksExclusive'
  <2>1. PICK k \in Keys : KeyFree(k) /\ locked' = [locked EXCEPT ![r] = @ \cup {k}]
    BY <1>1 DEF Lock
  <2>2. locked'[r] = locked[r] \cup {k} /\ \A q \in Limited \ {r} : locked'[q] = locked[q]
    BY <2>1 DEF LimiterTypeOK
  <2> QED
    BY <2>1, <2>2 DEF LocksExclusive, KeyFree
<1>2. CASE ~ \E r \in Limited : Lock(r)
  <2>1. \A q \in Limited : locked'[q] \subseteq locked[q]
    BY <1>2 DEF LimiterNext, PassGate, limiterVars, Tick, Arrive, Begin, Purge, Count,
                Record, TooMany, Drop, RollBackTo, Released, LimiterTypeOK
  <2> QED
    BY <2>1 DEF LocksExclusive
<1> QED
  BY <1>1, <1>2

(* Two requests that are both about to insert have no bucket in common.    *)
LEMMA ApartWhenRecording ==
  ASSUME WindowInv, NEW r \in Limited, NEW q \in Limited, r # q,
         gate[r] = "record", gate[q] = "record"
  PROVE  KeysOf(r) \cap KeysOf(q) = {}
  BY DEF WindowInv, TimeInv, LimiterTypeOK, LocksExclusive

LEMMA RecentFinite ==
  ASSUME WindowInv, NEW r \in Limited, NEW k \in Keys
  PROVE  IsFiniteSet(Recent(r, k)) /\ Cardinality(Recent(r, k)) \in Nat
<1>1. Recent(r, k) \in SUBSET events
  BY DEF Recent
<1> QED
  BY <1>1, NoLargerThan DEF WindowInv

LEMMA RoomStep == WindowInv /\ [LimiterNext]_limiterVars => RoomLeft'
<1> SUFFICES ASSUME WindowInv, [LimiterNext]_limiterVars,
                    NEW r \in Limited, gate'[r] = "record", NEW k \in KeysOf(r)
             PROVE  Cardinality(Recent(r, k)') < Limit[k]
  BY DEF RoomLeft
<1>0. k \in Keys /\ Limit[k] \in Nat /\ LimiterTypeOK
  BY KeysType, WindowsAssumption DEF WindowInv, TimeInv
<1>1. ASSUME Count(r) PROVE Cardinality(Recent(r, k)') < Limit[k]
  <2>1. Recent(r, k)' = Recent(r, k)
    BY <1>1 DEF Count, Recent
  <2> QED
    BY <1>0, <1>1, <2>1, RecentFinite DEF Count, Full
<1>2. CASE ~ Count(r)
  <2>1. gate[r] = "record" /\ took'[r] = took[r] /\ deleted'[r] = deleted[r]
    BY <1>0, <1>2 DEF LimiterNext, PassGate, limiterVars, Tick, Arrive, Begin, Purge, Lock,
                 Count, Record, TooMany, Drop, RollBackTo, Released, LimiterTypeOK
  <2>2. Recent(r, k)' \subseteq Recent(r, k)
    <3>1. ASSUME NEW q \in Limited, Record(q) PROVE Recent(r, k)' \subseteq Recent(r, k)
      <4>1. q # r /\ gate[q] = "record"
        BY <1>0, <3>1 DEF Record, LimiterTypeOK
      <4>2. k \notin KeysOf(q)
        BY <2>1, <4>1, ApartWhenRecording
      <4>3. \A e \in events' : e.key = k => e \in events
        BY <1>0, <3>1, <4>2, Inserted DEF WindowInv
      <4> QED
        BY <2>1, <4>3 DEF Recent
    <3>2. CASE ~ \E q \in Limited : Record(q)
      <4>1. events' = events
        BY <3>2 DEF LimiterNext, PassGate, limiterVars, Tick, Arrive, Begin, Purge, Lock,
                    Count, TooMany, Drop, RollBackTo
      <4> QED
        BY <2>1, <4>1 DEF Recent
    <3> QED
      BY <3>1, <3>2
  <2>3. Cardinality(Recent(r, k)) < Limit[k]
    BY <2>1 DEF WindowInv, RoomLeft
  <2>4. Cardinality(Recent(r, k)') \in Nat /\ Cardinality(Recent(r, k)') <= Cardinality(Recent(r, k))
    BY <1>0, <2>2, RecentFinite, NoLargerThan
  <2> QED
    BY <1>0, <2>3, <2>4, RecentFinite
<1> QED
  BY <1>1, <1>2

LEMMA BoundStep ==
  WindowInv /\ [LimiterNext]_limiterVars => IsFiniteSet(events)' /\ WindowBound'
<1> SUFFICES ASSUME WindowInv, [LimiterNext]_limiterVars
             PROVE  IsFiniteSet(events') /\ WindowBound'
  OBVIOUS
<1> USE WindowsAssumption
<1>1. ASSUME NEW r \in Limited, Record(r) PROVE IsFiniteSet(events') /\ WindowBound'
  <2>1. IsFiniteSet(events')
    <3>1. events' = (events \ deleted[r]) \cup
            {[by |-> r, key |-> AccountKey[r], at |-> began[r]],
             [by |-> r, key |-> AddressKey[r], at |-> began[r]]}
      BY <1>1 DEF Record, KeysOf
    <3>2. IsFiniteSet(events \ deleted[r])
      BY NoLargerThan DEF WindowInv
    <3>3. ASSUME NEW a, NEW b PROVE IsFiniteSet({a, b})
      <4>1. IsFiniteSet({}) /\ IsFiniteSet({} \cup {a})
        BY FS_EmptySet, FS_AddElement
      <4>2. IsFiniteSet(({} \cup {a}) \cup {b})
        BY <4>1, FS_AddElement
      <4>3. ({} \cup {a}) \cup {b} = {a, b}
        OBVIOUS
      <4> QED
        BY <4>2, <4>3
    <3> QED
      BY <3>1, <3>2, <3>3, FS_Union
  <2>2. ASSUME NEW k \in Keys, NEW t \in Nat
        PROVE  Cardinality(InWindow(k, t)') <= Limit[k]
    <3> DEFINE new == [by |-> r, key |-> k, at |-> began[r]]
    <3>1. CASE ~ (k \in KeysOf(r) /\ t <= began[r] /\ began[r] <= t + Window[k])
      <4>1. InWindow(k, t)' \in SUBSET InWindow(k, t)
        BY <1>1, <3>1, Inserted DEF InWindow, WindowInv
      <4>2. IsFiniteSet(InWindow(k, t)) /\ Cardinality(InWindow(k, t)) <= Limit[k]
        BY NoLargerThan DEF InWindow, WindowInv, WindowBound
      <4> QED
        BY <4>1, <4>2, NoLargerThan
    <3>2. CASE k \in KeysOf(r) /\ t <= began[r] /\ began[r] <= t + Window[k]
      <4>1. took[r] \in Nat /\ began[r] \in Nat /\ took[r] <= began[r] /\ events \subseteq Event
        BY <1>1 DEF WindowInv, TimeInv, TimesOrdered, LimiterTypeOK, Record
      <4>2. \A e \in events \ deleted[r] :
              e.key = k /\ t <= e.at => e \in Recent(r, k)
        BY <3>2, <4>1 DEF Recent, Event
      <4>3. InWindow(k, t)' \in SUBSET (Recent(r, k) \cup {new})
        BY <1>1, <4>2, Inserted DEF InWindow, WindowInv
      <4>4. Cardinality(Recent(r, k)) < Limit[k]
        BY <1>1, <3>2 DEF WindowInv, RoomLeft, Record
      <4>5. IsFiniteSet(Recent(r, k)) /\ Cardinality(Recent(r, k)) \in Nat /\ Limit[k] \in Nat
        BY RecentFinite
      <4>6. /\ Cardinality(InWindow(k, t)') \in Nat
            /\ Cardinality(InWindow(k, t)') <= Cardinality(Recent(r, k)) + 1
        <5> HIDE DEF new
        <5> QED
          BY <4>3, <4>5, AtMostOneMore
      <4> QED
        BY <4>4, <4>5, <4>6
    <3> QED
      BY <3>1, <3>2
  <2> QED
    BY <2>1, <2>2 DEF WindowBound
<1>2. CASE ~ \E r \in Limited : Record(r)
  <2>1. events' = events
    BY <1>2 DEF LimiterNext, PassGate, limiterVars, Tick, Arrive, Begin, Purge, Lock, Count,
                TooMany, Drop, RollBackTo
  <2> QED
    BY <2>1 DEF WindowInv, WindowBound, InWindow
<1> QED
  BY <1>1, <1>2

LEMMA WindowInvariant == LimiterSpec => []WindowInv
<1>1. LimiterInit => WindowInv
  <2> SUFFICES ASSUME LimiterInit PROVE WindowInv
    OBVIOUS
  <2>1. TimeInv
    BY LimiterTypeInit DEF LimiterInit, TimeInv, TimesOrdered, DeletedIsOld, AttemptsCounted
  <2>2. IsFiniteSet(events) /\ Cardinality({}) = 0
    BY FS_EmptySet DEF LimiterInit
  <2>3. \A k \in Keys, t \in Nat : InWindow(k, t) = {}
    BY DEF LimiterInit, InWindow
  <2> QED
    BY <2>1, <2>2, <2>3, WindowsAssumption
    DEF WindowInv, WindowBound, LocksExclusive, RoomLeft, LimiterInit
<1>2. WindowInv /\ [LimiterNext]_limiterVars => WindowInv'
  BY TimeStep, LocksStep, RoomStep, BoundStep DEF WindowInv
<1> QED
  BY <1>1, <1>2, PTL DEF LimiterSpec

(* The number of events dated within any one window never exceeds the      *)
(* limit of its bucket, for any number of simultaneous requests.           *)
THEOREM WindowKept == LimiterSpec => []WindowRespected
<1>1. WindowInv => WindowRespected
  BY DEF WindowInv, WindowBound, WindowRespected, TimeInv, LimiterTypeOK
<1> QED
  BY <1>1, WindowInvariant, PTL

-----------------------------------------------------------------------------
(* The handlers behind the limiter.                                        *)

USE DEF Exists

Mailers == Registers \cup Resends \cup Resets

LEMMA Kinds ==
  /\ Registers \subseteq Users /\ Registers \subseteq VerificationTokens
  /\ Resends \subseteq VerificationTokens
  /\ Mailers \subseteq Requests /\ Mailers \subseteq Tokens
  /\ sent \in Scripts => sent \subseteq Requests
  BY RequestsAssumption DEF Users, VerificationTokens, Tokens, Requests, Mailers

-----------------------------------------------------------------------------
(* What handlers do leaves the limiter alone: its theorems hold here.      *)

LEMMA LimitsRequests == Spec => LimiterSpec
<1>1. Init => LimiterInit
  BY DEF Init
<1>2. [Next]_vars => [LimiterNext]_limiterVars
  BY DEF Next, PassGates, Handles, Quiet, LimiterNext, vars
<1> QED
  BY <1>1, <1>2, PTL DEF Spec, LimiterSpec

(* No bucket ever holds more events of one window than its limit, whatever *)
(* the handlers behind the gate do and however they fail.                  *)
THEOREM LimitsHold == Spec => []WindowRespected
  BY LimitsRequests, WindowKept, PTL

(* An admitted attempt is counted even if its handler fails and rolls back.*)
THEOREM FailedAttemptsCounted == Spec => []AttemptsCounted
  BY LimitsRequests, AttemptsStayCounted, PTL

-----------------------------------------------------------------------------
(* Type correctness.                                                       *)

LEMMA TypeInit == Init => TypeOK
<1> SUFFICES ASSUME Init PROVE TypeOK
  OBVIOUS
<1>1. LimiterTypeOK
  BY LimiterTypeInit DEF Init
<1>2. tokens \in [Tokens -> [owner : Users \cup {Nobody}, expires : Nat, used : BOOLEAN]]
  BY TimesAssumption DEF Init, NoToken, Users
<1>3. sessions \in [Sessions -> [owner : Users \cup {Nobody}, expires : Nat]]
  BY TimesAssumption, RequestsAssumption DEF Init, NoSession, Users
<1> QED
  BY <1>1, <1>2, <1>3 DEF Init, TypeOK, Passwords, Places, Finished

LEMMA AnswerType ==
  ASSUME TypeOK, LimiterTypeOK', NEW r \in Requests, NEW place \in Finished,
         Answer(r, place)
  PROVE  TypeOK'
  BY DEF TypeOK, Answer, GoTo, Places, Finished, rows

LEMMA LoadType ==
  ASSUME TypeOK, LimiterTypeOK', NEW r \in Requests, pc[r] = "start",
         NEW u \in Users \cup {Nobody}, NEW place \in {"insert", "replace", "use", "open"},
         place = "insert" => u = Nobody,
         Load(r, u, place)
  PROVE  TypeOK'
  BY DEF TypeOK, Load, GoTo, Places, Finished, rows

LEMMA InsertTokenType ==
  ASSUME TypeOK, LimiterTypeOK', NEW r \in Mailers, pc[r] \in {"start", "insert", "update"},
         NEW u \in Users \cup {Nobody}, NEW ttl \in Nat,
         InsertToken(r, u, ttl),
         replaced' \in [Requests -> SUBSET VerificationTokens],
         \A q \in Requests \ {r} : replaced'[q] = replaced[q]
  PROVE  TypeOK'
<1>1. clock + ttl \in Nat /\ r \in Requests
  BY Kinds DEF TypeOK, LimiterTypeOK
<1> QED
  BY <1>1 DEF TypeOK, InsertToken, GoTo, Places, Finished, rows, Mailers

LEMMA MarkUsedType ==
  ASSUME TypeOK, NEW S
  PROVE  MarkUsed(S) \in [Tokens -> [owner : Users \cup {Nobody}, expires : Nat, used : BOOLEAN]]
  BY DEF TypeOK, MarkUsed

LEMMA MarkUsedOwner ==
  ASSUME TypeOK, NEW S, NEW t \in Tokens
  PROVE  /\ MarkUsed(S)[t].owner = tokens[t].owner
         /\ MarkUsed(S)[t].used = (tokens[t].used \/ t \in S)
  BY DEF TypeOK, MarkUsed

LEMMA TypeStep == TypeOK /\ [Next]_vars => TypeOK'
<1> SUFFICES ASSUME TypeOK, [Next]_vars PROVE TypeOK'
  OBVIOUS
<1>0. LimiterTypeOK'
  <2>1. [LimiterNext]_limiterVars
    BY DEF Next, PassGates, Handles, Quiet, LimiterNext, vars
  <2> QED
    BY <2>1, LimiterTypeStep DEF TypeOK
<1>1. CASE UNCHANGED accountVars
  BY <1>0, <1>1 DEF TypeOK, accountVars, rows, handler
<1> USE TimesAssumption, <1>0 DEF Ready
<1>2. ASSUME NEW r \in Registers, FindExisting(r) PROVE TypeOK'
  BY <1>2, AnswerType, LoadType, Kinds DEF FindExisting, Finished, Mailers
<1>3. ASSUME NEW r \in Registers, InsertUser(r) PROVE TypeOK'
  <2>1. CASE ViolatesUnique(r)
    BY <1>3, <2>1, AnswerType, Kinds DEF InsertUser, Finished, Mailers
  <2>2. CASE ~ ViolatesUnique(r)
    BY <1>3, <2>2, InsertTokenType, Kinds DEF InsertUser, Mailers, TypeOK
  <2> QED
    BY <2>1, <2>2
<1>4. ASSUME NEW r \in Resends, LookUp(r) PROVE TypeOK'
  BY <1>4, AnswerType, LoadType, Kinds DEF LookUp, Finished, Mailers, WithEmail
<1>5. ASSUME NEW r \in Resends, StartUpdate(r) PROVE TypeOK'
  <2>1. r \in Requests
    BY Kinds DEF Mailers
  <2>2. replaced' \in [Requests -> SUBSET VerificationTokens]
    BY <1>5 DEF StartUpdate, TypeOK
  <2> QED
    BY <1>5, <2>1, <2>2 DEF TypeOK, StartUpdate, GoTo, Places, Finished, rows
<1>6. ASSUME NEW r \in Resends, ReplaceToken(r) PROVE TypeOK'
  <2>1. r \in Requests /\ r \in Mailers /\ user[r] \in Users \cup {Nobody}
    BY Kinds DEF Mailers, TypeOK
  <2>2. /\ replaced' \in [Requests -> SUBSET VerificationTokens]
        /\ \A q \in Requests \ {r} : replaced'[q] = replaced[q]
    BY <1>6, <2>1 DEF ReplaceToken, TypeOK
  <2> QED
    BY <1>6, <2>1, <2>2, InsertTokenType DEF ReplaceToken
<1>7. ASSUME NEW r \in Resets, RequestReset(r) PROVE TypeOK'
  <2>1. r \in Requests /\ r \in Mailers
    BY Kinds DEF Mailers
  <2>2. CASE Answer(r, "done")
    BY <2>1, <2>2, AnswerType DEF Finished
  <2>3. CASE \E u \in WithEmail(About[r]) : InsertToken(r, u, ResetTTL) /\ UNCHANGED replaced
    BY <1>7, <2>1, <2>3, InsertTokenType DEF RequestReset, WithEmail, TypeOK
  <2> QED
    BY <1>7, <2>2, <2>3 DEF RequestReset
<1>8. ASSUME NEW r \in Requests, MailSent(r) PROVE TypeOK'
  <2>1. r \in Tokens
    BY <1>8, Kinds DEF MailSent, TypeOK, Mailers
  <2>2. outbox' \in Seq(Tokens)
    BY <1>8, <2>1 DEF MailSent, TypeOK
  <2> QED
    BY <1>8, <2>2 DEF TypeOK, MailSent, GoTo, Places, Finished, rows, handler
<1>9. ASSUME NEW r \in Requests, MailFails(r) PROVE TypeOK'
  <2>1. r \in Tokens
    BY <1>9, Kinds DEF MailFails, TypeOK, Mailers
  <2>2. outbox' \in Seq(Tokens)
    <3>1. outbox \in Seq(Tokens) /\ (outbox' = outbox \/ outbox' = Append(outbox, r))
      BY <1>9 DEF MailFails, TypeOK
    <3> QED
      BY <2>1, <3>1
  <2> QED
    BY <1>9, <2>2 DEF TypeOK, MailFails, GoTo, Places, Finished, rows
<1>10. ASSUME NEW r \in Requests, CommitToken(r) PROVE TypeOK'
  <2>1. tokens' \in [Tokens -> [owner : Users \cup {Nobody}, expires : Nat, used : BOOLEAN]]
    BY <1>10, MarkUsedType DEF CommitToken, TypeOK
  <2>2. users' \in [Users -> {"none", "unverified", "verified"}]
    BY <1>10 DEF CommitToken, TypeOK
  <2> QED
    BY <1>10, <2>1, <2>2 DEF TypeOK, CommitToken, GoTo, Places, Finished
<1>11. ASSUME NEW r \in Requests, ResolveToken(r) PROVE TypeOK'
  <2>1. CASE About[r] \in Purpose(r) /\ Active(About[r])
    <3>1. About[r] \in Tokens /\ tokens[About[r]].owner \in Users \cup {Nobody}
      BY <2>1 DEF Purpose, Tokens, TypeOK
    <3> QED
      BY <1>11, <2>1, <3>1, LoadType DEF ResolveToken
  <2>2. CASE ~ (About[r] \in Purpose(r) /\ Active(About[r]))
    BY <1>11, <2>2, AnswerType DEF ResolveToken, Finished
  <2> QED
    BY <2>1, <2>2
<1>12. ASSUME NEW r \in Requests, UseToken(r) PROVE TypeOK'
  <2>1. tokens' \in [Tokens -> [owner : Users \cup {Nobody}, expires : Nat, used : BOOLEAN]]
    BY <1>12, MarkUsedType DEF UseToken
  <2>2. users' \in [Users -> {"none", "unverified", "verified"}]
    BY <1>12 DEF UseToken, TypeOK
  <2>3. password' \in [Users -> Passwords]
    BY <1>12 DEF UseToken, TypeOK, Passwords
  <2> QED
    BY <1>12, <2>1, <2>2, <2>3 DEF TypeOK, UseToken, GoTo, Places, Finished
<1>13. ASSUME NEW r \in Requests, Authenticate(r) PROVE TypeOK'
  <2>1. CASE Answer(r, "refused")
    BY <2>1, AnswerType DEF Finished
  <2>2. CASE ~ Answer(r, "refused")
    <3>1. PICK u \in Users :
            /\ GoTo(r, "open")
            /\ user' = [user EXCEPT ![r] = u]
            /\ due' = [due EXCEPT ![r] = clock + SessionTTL]
            /\ UNCHANGED <<sent, delivery, rows, outbox, replaced>>
      BY <1>13, <2>2 DEF Authenticate, Named
    <3>2. clock + SessionTTL \in Nat /\ pc[r] = "start"
      BY <1>13 DEF TypeOK, LimiterTypeOK, Authenticate
    <3> QED
      BY <3>1, <3>2 DEF TypeOK, GoTo, Places, Finished, rows
  <2> QED
    BY <2>1, <2>2
<1>14. ASSUME NEW r \in Requests, OpenSession(r) PROVE TypeOK'
  <2>1. sessions' \in [Sessions -> [owner : Users \cup {Nobody}, expires : Nat]]
    BY <1>14 DEF OpenSession, TypeOK
  <2> QED
    BY <1>14, <2>1 DEF TypeOK, OpenSession, GoTo, Places, Finished
<1>15. ASSUME NEW r \in Requests, Logout(r) \/ Visit(r) PROVE TypeOK'
  <2>1. CASE Answer(r, "done")
    BY <2>1, AnswerType DEF Finished
  <2>2. CASE ~ Answer(r, "done")
    <3>1. PICK place \in {"done", "refused"} : EndSession(r, place) /\ pc[r] = "start"
      BY <1>15, <2>2 DEF Logout, Visit
    <3>2. sessions' \in [Sessions -> [owner : Users \cup {Nobody}, expires : Nat]]
      BY <3>1 DEF EndSession, TypeOK, NoSession
    <3> QED
      BY <3>1, <3>2 DEF TypeOK, EndSession, GoTo, Places, Finished, handler
  <2> QED
    BY <2>1, <2>2
<1>16. ASSUME NEW r \in Requests, Fail(r) PROVE TypeOK'
  BY <1>16, AnswerType DEF Fail, Finished
<1>17. sent \subseteq Requests
  BY Kinds DEF TypeOK
<1> QED
  BY <1>1, <1>2, <1>3, <1>4, <1>5, <1>6, <1>7, <1>8, <1>9, <1>10, <1>11, <1>12, <1>13,
     <1>14, <1>15, <1>16, <1>17
  DEF Next, PassGates, Handles, Handle, Quiet, vars

(* Every variable keeps its domain; what a handler has loaded or marked is *)
(* gone when its request is answered, and only requests for a token mail.  *)
THEOREM AccountsTypeCorrect == Spec => []TypeOK
  BY TypeInit, TypeStep, PTL DEF Spec

-----------------------------------------------------------------------------
(* Unique keys.  What a register has inserted and not committed differs    *)
(* from what others have, committed or not; and only accounts that exist,  *)
(* or the one a register is inserting, are loaded or own a token.          *)

Inserting(r) == r \in Registers /\ pc[r] \in {"mail", "commit"}

OwnersExist ==
  /\ \A t \in Tokens : tokens[t].owner # Nobody => Exists(tokens[t].owner)
  /\ \A r \in Requests :
       /\ user[r] # Nobody => Exists(user[r]) \/ (Inserting(r) /\ user[r] = r)
       /\ Inserting(r) => user[r] = r
KeysApart ==
  \A r \in Requests : Inserting(r) =>
    /\ \A q \in Requests \ {r} : Inserting(q) => ~ Same(r, q)
    /\ \A u \in Users \ {r} : Exists(u) => ~ Same(u, r)
UniqueInv == TypeOK /\ OwnersExist /\ KeysApart /\ OneAccountPerName

LEMMA SameSymmetric == \A u, v : Same(u, v) <=> Same(v, u)
  BY DEF Same

(* A step of one request that inserts and commits nothing.                 *)
LEMMA UniqueKept ==
  ASSUME UniqueInv, TypeOK', NEW r \in Requests, users' = users, tokens' = tokens,
         \A q \in Requests \ {r} : pc'[q] = pc[q] /\ user'[q] = user[q],
         Inserting(r)' => Inserting(r) /\ user'[r] = user[r],
         \/ user'[r] = Nobody
         \/ user'[r] = user[r] /\ ~ Inserting(r)
         \/ user'[r] = user[r] /\ Inserting(r)'
         \/ Exists(user'[r])
  PROVE  UniqueInv'
<1>1. \A q \in Requests : Inserting(q)' => Inserting(q) /\ user'[q] = user[q]
  BY DEF Inserting
<1>2. OwnersExist'
  BY <1>1 DEF UniqueInv, OwnersExist, Inserting
<1>3. KeysApart'
  BY <1>1 DEF UniqueInv, KeysApart, Same
<1>4. OneAccountPerName'
  BY DEF UniqueInv, OneAccountPerName, Same
<1> QED
  BY <1>2, <1>3, <1>4 DEF UniqueInv

LEMMA UniqueInsert ==
  ASSUME UniqueInv, TypeOK', NEW r \in Registers, InsertUser(r), ~ ViolatesUnique(r)
  PROVE  UniqueInv'
<1>1. /\ users' = users /\ tokens' = tokens /\ r \in Requests /\ r \in Users
      /\ pc' = [pc EXCEPT ![r] = IF delivery THEN "mail" ELSE "commit"]
      /\ user' = [user EXCEPT ![r] = r]
  BY Kinds DEF InsertUser, InsertToken, GoTo, rows, Mailers
<1>2. /\ pc'[r] \in {"mail", "commit"} /\ user'[r] = r
      /\ \A q \in Requests \ {r} : pc'[q] = pc[q] /\ user'[q] = user[q]
  BY <1>1 DEF UniqueInv, TypeOK
<1>3. OwnersExist'
  BY <1>1, <1>2 DEF UniqueInv, OwnersExist, Inserting
<1>4. \A q \in Requests \ {r} : Inserting(q) => ~ Same(q, r)
  BY DEF InsertUser, KeysUnheld, Inserting
<1>5. \A u \in Users : Exists(u) => ~ Same(u, r)
  BY DEF ViolatesUnique, Conflict
<1>6. KeysApart'
  <2> SUFFICES ASSUME NEW p \in Requests, Inserting(p)'
               PROVE  /\ \A q \in Requests \ {p} : Inserting(q)' => ~ Same(p, q)
                      /\ \A u \in Users \ {p} : Exists(u)' => ~ Same(u, p)
    BY DEF KeysApart, Same
  <2>1. CASE p = r
    BY <1>1, <1>2, <1>4, <1>5, <2>1, SameSymmetric DEF Inserting
  <2>2. CASE p # r
    <3>1. Inserting(p)
      BY <1>2, <2>2 DEF Inserting
    <3> QED
      BY <1>1, <1>2, <1>4, <2>2, <3>1 DEF UniqueInv, KeysApart, Inserting
  <2> QED
    BY <2>1, <2>2
<1>7. OneAccountPerName'
  BY <1>1 DEF UniqueInv, OneAccountPerName, Same
<1> QED
  BY <1>3, <1>6, <1>7 DEF UniqueInv

LEMMA UniqueCommit ==
  ASSUME UniqueInv, TypeOK', NEW r \in Requests, CommitToken(r)
  PROVE  UniqueInv'
<1>1. /\ r \in Mailers /\ r \in Tokens
      /\ \A u \in Users \ {r} : users'[u] = users[u]
      /\ r \in Registers => users'[r] = "unverified"
      /\ r \notin Registers => users' = users
  BY Kinds DEF CommitToken, UniqueInv, TypeOK, Mailers
<1>2. /\ \A u \in Users : Exists(u) => Exists(u)'
      /\ \A u \in Users : Exists(u)' => Exists(u) \/ (u = r /\ Inserting(r))
  <2>1. CASE r \in Registers
    <3>1. Inserting(r)
      BY <2>1 DEF CommitToken, Inserting
    <3> QED
      BY <1>1, <2>1, <3>1
  <2>2. CASE r \notin Registers
    <3>1. users' = users
      BY <1>1, <2>2
    <3> QED
      BY <3>1
  <2> QED
    BY <2>1, <2>2
<1>3. /\ pc'[r] = "done" /\ user'[r] = Nobody
      /\ \A q \in Requests \ {r} : pc'[q] = pc[q] /\ user'[q] = user[q]
  BY DEF CommitToken, GoTo, UniqueInv, TypeOK
<1>4. /\ tokens'[r].owner = user[r]
      /\ \A t \in Tokens \ {r} : tokens'[t].owner = tokens[t].owner
  <2>1. MarkUsed(replaced[r]) \in [Tokens -> [owner : Users \cup {Nobody}, expires : Nat, used : BOOLEAN]]
    BY MarkUsedType DEF UniqueInv
  <2>2. tokens' = [MarkUsed(replaced[r]) EXCEPT ![r] =
                     [owner |-> user[r], expires |-> due[r], used |-> FALSE]]
    BY DEF CommitToken
  <2>3. \A t \in Tokens : MarkUsed(replaced[r])[t].owner = tokens[t].owner
    BY MarkUsedOwner DEF UniqueInv
  <2> QED
    BY <1>1, <2>1, <2>2, <2>3
<1>5. OwnersExist'
  <2>1. ASSUME NEW t \in Tokens, tokens'[t].owner # Nobody PROVE users'[tokens'[t].owner] # "none"
    <3>1. CASE t = r
      <4>1. user[r] # Nobody /\ user[r] \in Users
        BY <1>4, <2>1, <3>1 DEF UniqueInv, TypeOK
      <4>2. Exists(user[r]) \/ (user[r] = r /\ r \in Registers)
        BY <4>1 DEF UniqueInv, OwnersExist, Inserting
      <4> QED
        BY <1>1, <1>2, <1>4, <3>1, <4>1, <4>2
    <3>2. CASE t # r
      <4>1. tokens[t].owner # Nobody /\ tokens[t].owner \in Users
        BY <1>4, <2>1, <3>2 DEF UniqueInv, TypeOK
      <4> QED
        BY <1>2, <1>4, <3>2, <4>1 DEF UniqueInv, OwnersExist
    <3> QED
      BY <3>1, <3>2
  <2>2. ASSUME NEW q \in Requests
        PROVE  /\ user'[q] # Nobody => users'[user'[q]] # "none" \/ (Inserting(q)' /\ user'[q] = q)
               /\ Inserting(q)' => user'[q] = q
    <3>1. CASE q = r
      BY <1>3, <3>1 DEF Inserting
    <3>2. CASE q # r
      <4>1. user[q] \in Users \cup {Nobody}
        BY DEF UniqueInv, TypeOK
      <4> QED
        BY <1>2, <1>3, <3>2, <4>1 DEF UniqueInv, OwnersExist, Inserting
    <3> QED
      BY <3>1, <3>2
  <2> QED
    BY <2>1, <2>2 DEF OwnersExist
<1>6. KeysApart'
  <2> SUFFICES ASSUME NEW p \in Requests, Inserting(p)'
               PROVE  /\ \A q \in Requests \ {p} : Inserting(q)' => ~ Same(p, q)
                      /\ \A u \in Users \ {p} : Exists(u)' => ~ Same(u, p)
    BY DEF KeysApart, Same
  <2>1. p # r /\ Inserting(p)
    BY <1>3 DEF Inserting
  <2>2. \A q \in Requests : Inserting(q)' => Inserting(q)
    BY <1>3 DEF Inserting
  <2> QED
    BY <1>2, <2>1, <2>2, SameSymmetric DEF UniqueInv, KeysApart
<1>7. OneAccountPerName'
  <2> SUFFICES ASSUME NEW u \in Users, NEW v \in Users, Exists(u)', Exists(v)', u # v
               PROVE  ~ Same(u, v)
    BY DEF OneAccountPerName, Same
  <2> QED
    BY <1>2, SameSymmetric DEF UniqueInv, KeysApart, OneAccountPerName
<1> QED
  BY <1>5, <1>6, <1>7 DEF UniqueInv

LEMMA UniqueStep == UniqueInv /\ [Next]_vars => UniqueInv'
<1> SUFFICES ASSUME UniqueInv, [Next]_vars PROVE UniqueInv'
  OBVIOUS
<1>0. TypeOK /\ TypeOK' /\ sent \subseteq Requests /\ Mailers \subseteq Requests
  BY TypeStep, Kinds DEF UniqueInv, TypeOK
<1>1. CASE UNCHANGED accountVars
  <2>1. users' = users /\ tokens' = tokens /\ pc' = pc /\ user' = user
    BY <1>1 DEF accountVars, rows, handler
  <2> QED
    BY <1>0, <2>1 DEF UniqueInv, OwnersExist, KeysApart, OneAccountPerName, Inserting, Same
<1> USE <1>0
<1>2. ASSUME NEW r \in Requests, NEW place \in Finished, Answer(r, place) PROVE UniqueInv'
  <2>1. /\ users' = users /\ tokens' = tokens /\ pc'[r] = place /\ user'[r] = Nobody
        /\ \A q \in Requests \ {r} : pc'[q] = pc[q] /\ user'[q] = user[q]
    BY <1>2 DEF Answer, GoTo, rows, TypeOK
  <2> QED
    BY <2>1, UniqueKept DEF Inserting, Finished
<1>3. ASSUME NEW r \in Requests, NEW u, Exists(u) \/ u = Nobody,
             NEW place \in {"insert", "replace", "use", "open"}, Load(r, u, place)
      PROVE  UniqueInv'
  <2>1. /\ users' = users /\ tokens' = tokens /\ pc'[r] = place /\ user'[r] = u
        /\ \A q \in Requests \ {r} : pc'[q] = pc[q] /\ user'[q] = user[q]
    BY <1>3 DEF Load, GoTo, rows, TypeOK
  <2> QED
    BY <1>3, <2>1, UniqueKept DEF Inserting
<1>4. ASSUME NEW r \in Requests, r \notin Registers, NEW u, NEW ttl, InsertToken(r, u, ttl),
             Exists(u) \/ u = user[r]
      PROVE  UniqueInv'
  <2>1. /\ users' = users /\ tokens' = tokens /\ user'[r] = u
        /\ \A q \in Requests \ {r} : pc'[q] = pc[q] /\ user'[q] = user[q]
    BY <1>4 DEF InsertToken, GoTo, rows, TypeOK
  <2> QED
    BY <1>4, <2>1, UniqueKept DEF Inserting
<1>5. ASSUME NEW r \in Registers, FindExisting(r) \/ InsertUser(r) PROVE UniqueInv'
  <2>1. CASE FindExisting(r)
    BY <1>2, <1>3, <2>1 DEF FindExisting, Finished, Mailers
  <2>2. CASE InsertUser(r) /\ ViolatesUnique(r)
    BY <1>2, <2>2 DEF InsertUser, Finished, Mailers
  <2> QED
    BY <1>5, <2>1, <2>2, UniqueInsert
<1>6. ASSUME NEW r \in Resends, LookUp(r) \/ StartUpdate(r) \/ ReplaceToken(r) PROVE UniqueInv'
  <2>1. r \in Requests /\ r \notin Registers
    BY RequestsAssumption DEF Mailers
  <2>2. CASE LookUp(r)
    BY <1>2, <1>3, <2>1, <2>2 DEF LookUp, Finished, WithEmail
  <2>3. CASE StartUpdate(r)
    <3>1. /\ users' = users /\ tokens' = tokens /\ user' = user
          /\ \A q \in Requests \ {r} : pc'[q] = pc[q]
      BY <2>3 DEF StartUpdate, GoTo, rows, TypeOK
    <3> QED
      BY <2>1, <3>1, UniqueKept DEF Inserting
  <2>4. CASE ReplaceToken(r)
    BY <1>4, <2>1, <2>4 DEF ReplaceToken
  <2> QED
    BY <1>6, <2>2, <2>3, <2>4
<1>7. ASSUME NEW r \in Resets, RequestReset(r) PROVE UniqueInv'
  <2>1. r \in Requests /\ r \notin Registers
    BY RequestsAssumption DEF Mailers
  <2> QED
    BY <1>2, <1>4, <1>7, <2>1 DEF RequestReset, Finished, WithEmail
<1>8. ASSUME NEW r \in Requests, MailSent(r) \/ MailFails(r) PROVE UniqueInv'
  <2>1. CASE MailSent(r)
    <3>1. /\ users' = users /\ tokens' = tokens /\ user' = user
          /\ pc[r] = "mail" /\ pc'[r] = "commit"
          /\ \A q \in Requests \ {r} : pc'[q] = pc[q]
      BY <2>1 DEF MailSent, GoTo, rows, handler, TypeOK
    <3> QED
      BY <3>1, UniqueKept DEF Inserting
  <2>2. CASE MailFails(r)
    <3>1. /\ users' = users /\ tokens' = tokens /\ user'[r] = Nobody /\ pc'[r] = "failed"
          /\ \A q \in Requests \ {r} : pc'[q] = pc[q] /\ user'[q] = user[q]
      BY <2>2 DEF MailFails, GoTo, rows, TypeOK
    <3> QED
      BY <3>1, UniqueKept DEF Inserting
  <2> QED
    BY <1>8, <2>1, <2>2
<1>9. ASSUME NEW r \in Requests, CommitToken(r) PROVE UniqueInv'
  BY <1>9, UniqueCommit
<1>10. ASSUME NEW r \in Requests, ResolveToken(r) PROVE UniqueInv'
  <2>1. CASE About[r] \in Purpose(r) /\ Active(About[r])
    <3>1. Exists(tokens[About[r]].owner)
      BY <2>1 DEF Purpose, Tokens, Active, UniqueInv, OwnersExist
    <3> QED
      BY <1>3, <1>10, <2>1, <3>1 DEF ResolveToken
  <2> QED
    BY <1>2, <1>10, <2>1 DEF ResolveToken, Finished
<1>11. ASSUME NEW r \in Requests, UseToken(r) PROVE UniqueInv'
  <2>1. /\ pc[r] = "use" /\ ~ Inserting(r) /\ user'[r] = Nobody /\ pc'[r] = "done"
        /\ \A q \in Requests \ {r} : pc'[q] = pc[q] /\ user'[q] = user[q]
    BY <1>11 DEF UseToken, GoTo, TypeOK, Inserting
  <2>2. \A u \in Users : Exists(u)' <=> Exists(u)
    <3>1. user[r] # Nobody => Exists(user[r])
      BY <2>1 DEF UniqueInv, OwnersExist
    <3>2. user[r] \in Users \cup {Nobody} /\ users' = [users EXCEPT ![user[r]] = "verified"]
      BY <1>11 DEF UseToken, TypeOK
    <3> QED
      BY <3>1, <3>2, RequestsAssumption DEF TypeOK
  <2>3. \A t \in Tokens : tokens'[t].owner = tokens[t].owner
    BY <1>11, MarkUsedOwner DEF UseToken
  <2>4. \A q \in Requests : Inserting(q)' => Inserting(q) /\ user'[q] = user[q]
    BY <2>1 DEF Inserting
  <2>5. OwnersExist'
    <3>1. ASSUME NEW t \in Tokens, tokens'[t].owner # Nobody PROVE users'[tokens'[t].owner] # "none"
      <4>1. tokens[t].owner \in Users
        BY <2>3, <3>1 DEF TypeOK
      <4> QED
        BY <2>2, <2>3, <3>1, <4>1 DEF UniqueInv, OwnersExist
    <3>2. ASSUME NEW q \in Requests
          PROVE  /\ user'[q] # Nobody => users'[user'[q]] # "none" \/ (Inserting(q)' /\ user'[q] = q)
                 /\ Inserting(q)' => user'[q] = q
      <4>1. user[q] \in Users \cup {Nobody}
        BY DEF TypeOK
      <4> QED
        BY <2>1, <2>2, <2>4, <4>1 DEF UniqueInv, OwnersExist, Inserting
    <3> QED
      BY <3>1, <3>2 DEF OwnersExist
  <2>6. KeysApart' /\ OneAccountPerName'
    BY <2>2, <2>4 DEF UniqueInv, KeysApart, OneAccountPerName, Same
  <2> QED
    BY <2>5, <2>6 DEF UniqueInv
<1>12. ASSUME NEW r \in Requests, Authenticate(r) PROVE UniqueInv'
  <2>1. CASE Answer(r, "refused")
    BY <1>2, <2>1 DEF Finished
  <2>2. CASE ~ Answer(r, "refused")
    <3>1. PICK u \in Users :
            /\ Exists(u) /\ GoTo(r, "open") /\ user' = [user EXCEPT ![r] = u]
            /\ UNCHANGED <<sent, delivery, rows, outbox, replaced>>
      BY <1>12, <2>2 DEF Authenticate, Named
    <3>2. /\ users' = users /\ tokens' = tokens /\ pc'[r] = "open" /\ Exists(user'[r])
          /\ \A q \in Requests \ {r} : pc'[q] = pc[q] /\ user'[q] = user[q]
      BY <3>1 DEF GoTo, rows, TypeOK
    <3> QED
      BY <3>2, UniqueKept DEF Inserting
  <2> QED
    BY <2>1, <2>2
<1>13. ASSUME NEW r \in Requests, OpenSession(r) PROVE UniqueInv'
  <2>1. /\ users' = users /\ tokens' = tokens /\ user'[r] = Nobody /\ pc'[r] = "done"
        /\ \A q \in Requests \ {r} : pc'[q] = pc[q] /\ user'[q] = user[q]
    BY <1>13 DEF OpenSession, GoTo, TypeOK
  <2> QED
    BY <2>1, UniqueKept DEF Inserting
<1>14. ASSUME NEW r \in Requests, Logout(r) \/ Visit(r) PROVE UniqueInv'
  <2>1. CASE Answer(r, "done")
    BY <1>2, <2>1 DEF Finished
  <2>2. CASE ~ Answer(r, "done")
    <3>1. PICK place \in {"done", "refused"} : EndSession(r, place) /\ pc[r] = "start"
      BY <1>14, <2>2 DEF Logout, Visit, Ready
    <3>2. /\ users' = users /\ tokens' = tokens /\ user' = user /\ pc'[r] = place
          /\ \A q \in Requests \ {r} : pc'[q] = pc[q]
      BY <3>1 DEF EndSession, GoTo, handler, TypeOK
    <3> QED
      BY <3>1, <3>2, UniqueKept DEF Inserting
  <2> QED
    BY <2>1, <2>2
<1>15. ASSUME NEW r \in Requests, Fail(r) PROVE UniqueInv'
  BY <1>2, <1>15 DEF Fail, Finished
<1> QED
  BY <1>1, <1>5, <1>6, <1>7, <1>8, <1>9, <1>10, <1>11, <1>12, <1>13, <1>14, <1>15
  DEF Next, PassGates, Handles, Handle, Quiet, vars

LEMMA UniqueInit == Init => UniqueInv
<1> SUFFICES ASSUME Init PROVE UniqueInv
  OBVIOUS
<1>1. TypeOK
  BY TypeInit
<1>2. \A u \in Users : Exists(u) <=> u \in FirstUsers
  BY RequestsAssumption DEF Init, Users
<1>3. OwnersExist
  BY <1>2, RequestsAssumption DEF Init, OwnersExist, Inserting, NoToken, Users
<1>4. KeysApart
  BY DEF Init, KeysApart, Inserting
<1>5. OneAccountPerName
  BY <1>2, FirstUsersAssumption DEF OneAccountPerName, Same
<1> QED
  BY <1>1, <1>3, <1>4, <1>5 DEF UniqueInv

LEMMA UniqueInvariant == Spec => []UniqueInv
  BY UniqueInit, UniqueStep, PTL DEF Spec

(* However many register at the same time, no two accounts share an email  *)
(* or a username.                                                          *)
THEOREM AccountsUnique == Spec => []OneAccountPerName
  BY UniqueInvariant, PTL DEF UniqueInv

-----------------------------------------------------------------------------
(* Links.  A token is stored only by the commit of its own request; what a *)
(* resend has marked belongs to its user and was mailed before its own     *)
(* token; so a used token of an unverified user has a newer one.           *)

Stored(t) == tokens[t].owner # Nobody
Fresh ==
  \A r \in Mailers : pc[r] \notin Finished =>
    ~ Stored(r) /\ (r \in Registers => ~ Exists(r))
ReplacedOwned ==
  \A r \in Requests : \A t \in replaced[r] :
    r \in Resends /\ t \in Tokens /\ Stored(t) /\ tokens[t].owner = user[r]
TargetOwned ==
  \A r \in Requests : pc[r] = "use" =>
    About[r] \in Tokens /\ Stored(About[r]) /\ tokens[About[r]].owner = user[r]
MailedAfter(r, j) ==
  outbox[j] = r /\ \A i \in DOMAIN outbox : outbox[i] \in replaced[r] => i < j
MailedLast ==
  /\ \A r \in Requests : pc[r] = "commit" /\ delivery => \E j \in DOMAIN outbox : MailedAfter(r, j)
  /\ ~ delivery => outbox = <<>> /\ \A r \in Requests : pc[r] # "mail"
Registered ==
  \A u \in Registers : Exists(u) =>
    tokens[u].owner = u /\ (delivery => \E i \in DOMAIN outbox : outbox[i] = u)
UsableLeft == \A u \in Users : users[u] = "unverified" => Usable(u) # {}
Superseded ==
  \A u \in Users : users[u] = "unverified" =>
    \A i \in DOMAIN outbox :
      /\ outbox[i] \in VerificationTokens
      /\ tokens[outbox[i]].owner = u
      /\ tokens[outbox[i]].used
      => \E j \in DOMAIN outbox :
           /\ j > i
           /\ outbox[j] \in VerificationTokens
           /\ tokens[outbox[j]].owner = u
HeldInv == Fresh /\ ReplacedOwned /\ TargetOwned
LinkInv == UniqueInv /\ HeldInv /\ MailedLast /\ Registered /\ UsableLeft /\ Superseded

LEMMA LinkInit == Init => LinkInv
<1> SUFFICES ASSUME Init PROVE LinkInv
  OBVIOUS
<1>1. UniqueInv
  BY UniqueInit
<1>2. \A t \in Tokens \ FirstUsers : ~ Stored(t)
  BY DEF Init, Stored, NoToken
<1>3. Fresh /\ ReplacedOwned /\ TargetOwned
  <2>1. Fresh
    BY <1>2, Kinds, RequestsAssumption DEF Init, Fresh, Requests, Mailers
  <2>2. ReplacedOwned /\ TargetOwned
    BY DEF Init, ReplacedOwned, TargetOwned
  <2> QED
    BY <2>1, <2>2
<1>4. MailedLast /\ Superseded
  BY DEF Init, MailedLast, Superseded
<1>5. Registered
  BY RequestsAssumption, Kinds DEF Init, Registered, Mailers
<1>6. UsableLeft
  <2> SUFFICES ASSUME NEW u \in Users, users[u] = "unverified" PROVE u \in Usable(u)
    BY DEF UsableLeft
  <2>1. u \in FirstUsers /\ ~ (u \in FirstVerified) /\ u \in VerificationTokens /\ u \in Tokens
    BY DEF Init, VerificationTokens, Tokens
  <2>2. tokens[u] = [owner |-> u, expires |-> VerificationTTL, used |-> u \in FirstVerified]
    BY <2>1 DEF Init
  <2>3. tokens[u].owner = u
    BY <2>2
  <2>4. ~ tokens[u].used
    <3>1. (u \in FirstVerified) = FALSE
      BY <2>1
    <3>2. tokens[u] = [owner |-> u, expires |-> VerificationTTL, used |-> FALSE]
      BY <2>2, <3>1, Zenon
    <3> QED
      BY <3>2
  <2> QED
    BY <2>1, <2>3, <2>4 DEF Usable
<1> QED
  BY <1>1, <1>3, <1>4, <1>5, <1>6 DEF LinkInv, HeldInv

(* A step of one request that leaves the rows and the mail alone.          *)
LEMMA LinkKept ==
  ASSUME LinkInv, UniqueInv', NEW r \in Requests,
         UNCHANGED <<users, tokens, outbox, delivery>>,
         \A q \in Requests \ {r} :
           pc'[q] = pc[q] /\ user'[q] = user[q] /\ replaced'[q] = replaced[q],
         r \in Mailers => pc[r] \notin Finished,
         \A t \in replaced'[r] :
           r \in Resends /\ t \in Tokens /\ Stored(t) /\ tokens[t].owner = user'[r],
         pc'[r] = "use" => About[r] \in Tokens /\ Stored(About[r])
                           /\ tokens[About[r]].owner = user'[r],
         pc'[r] = "commit" => ~ delivery, pc'[r] = "mail" => delivery
  PROVE  LinkInv'
<1>1. Fresh' /\ ReplacedOwned' /\ TargetOwned'
  BY Kinds DEF LinkInv, HeldInv, Fresh, ReplacedOwned, TargetOwned, Stored
<1>2. MailedLast'
  BY DEF LinkInv, MailedLast, MailedAfter
<1>3. Registered' /\ UsableLeft' /\ Superseded'
  BY DEF LinkInv, Registered, UsableLeft, Usable, Superseded
<1> QED
  BY <1>1, <1>2, <1>3 DEF LinkInv, HeldInv

(* Mail only appends, and what it appends is not stored yet.               *)
LEMMA LinkMailed ==
  ASSUME LinkInv, UniqueInv', NEW r \in Requests, MailSent(r) \/ MailFails(r)
  PROVE  LinkInv'
<1>1. /\ UNCHANGED <<users, tokens, delivery>> /\ r \in Mailers /\ r \in Tokens
      /\ pc[r] = "mail" /\ pc'[r] \in {"commit", "failed"}
      /\ \A q \in Requests \ {r} :
           pc'[q] = pc[q] /\ user'[q] = user[q] /\ replaced'[q] = replaced[q]
      /\ pc'[r] = "commit" => outbox' = Append(outbox, r) /\ user'[r] = user[r]
                              /\ replaced'[r] = replaced[r]
      /\ pc'[r] = "failed" => replaced'[r] = {}
      /\ outbox' = outbox \/ outbox' = Append(outbox, r)
  BY Kinds DEF MailSent, MailFails, GoTo, rows, handler, LinkInv, UniqueInv, TypeOK, Mailers
<1>2. delivery /\ ~ Stored(r)
  BY <1>1 DEF LinkInv, HeldInv, MailedLast, Fresh, Finished
<1>3. outbox \in Seq(Tokens) /\ Len(outbox) \in Nat /\ DOMAIN outbox = 1..Len(outbox)
  BY DEF LinkInv, UniqueInv, TypeOK
<1>4. /\ \A i \in DOMAIN outbox : i \in DOMAIN outbox' /\ outbox'[i] = outbox[i]
      /\ \A i \in DOMAIN outbox' : i \in DOMAIN outbox \/ outbox'[i] = r
      /\ DOMAIN outbox' \subseteq Nat
  <2>1. CASE outbox' = outbox
    BY <1>3, <2>1
  <2>2. CASE outbox' = Append(outbox, r)
    <3>1. /\ DOMAIN outbox' = 1..(Len(outbox) + 1) /\ outbox'[Len(outbox) + 1] = r
          /\ \A i \in 1..Len(outbox) : outbox'[i] = outbox[i]
      BY <1>1, <1>3, <2>2
    <3> QED
      BY <1>3, <3>1
  <2> QED
    BY <1>1, <2>1, <2>2
<1>5. HeldInv'
  <2>1. Fresh'
    BY <1>1, Kinds DEF LinkInv, HeldInv, Fresh, Stored, Finished
  <2>2. ReplacedOwned'
    BY <1>1 DEF LinkInv, HeldInv, ReplacedOwned, Stored
  <2>3. TargetOwned'
    BY <1>1 DEF LinkInv, HeldInv, TargetOwned, Stored
  <2> QED
    BY <2>1, <2>2, <2>3 DEF HeldInv
<1>6. MailedLast'
  <2>1. ASSUME NEW q \in Requests, pc'[q] = "commit"
        PROVE  \E j \in DOMAIN outbox' : MailedAfter(q, j)'
    <3>1. CASE q = r
      <4>1. /\ DOMAIN outbox' = 1..(Len(outbox) + 1) /\ outbox'[Len(outbox) + 1] = r
            /\ \A i \in 1..Len(outbox) : outbox'[i] = outbox[i]
        BY <1>1, <1>3, <2>1, <3>1
      <4>2. r \notin replaced'[r]
        BY <1>1, <1>2, <2>1, <3>1 DEF LinkInv, HeldInv, ReplacedOwned
      <4>3. PICK j \in DOMAIN outbox' : j = Len(outbox) + 1
        BY <1>3, <4>1
      <4>4. MailedAfter(r, j)'
        BY <1>3, <4>1, <4>2, <4>3 DEF MailedAfter
      <4> QED
        BY <3>1, <4>4
    <3>2. CASE q # r
      <4>1. pc[q] = "commit"
        BY <1>1, <2>1, <3>2
      <4>2. PICK j \in DOMAIN outbox : MailedAfter(q, j)
        BY <1>2, <4>1 DEF LinkInv, MailedLast
      <4>3. r \notin replaced[q] /\ replaced'[q] = replaced[q]
        BY <1>1, <1>2, <3>2 DEF LinkInv, HeldInv, ReplacedOwned
      <4>4. MailedAfter(q, j)'
        BY <1>4, <4>2, <4>3 DEF MailedAfter
      <4> QED
        BY <1>4, <4>4
    <3> QED
      BY <3>1, <3>2
  <2> QED
    BY <1>1, <1>2, <2>1 DEF MailedLast
<1>7. Registered' /\ UsableLeft'
  BY <1>1, <1>4 DEF LinkInv, Registered, UsableLeft, Usable
<1>8. Superseded'
  <2> SUFFICES ASSUME NEW u \in Users, users'[u] = "unverified", NEW i \in DOMAIN outbox',
                      outbox'[i] \in VerificationTokens, tokens'[outbox'[i]].owner = u,
                      tokens'[outbox'[i]].used
               PROVE  \E j \in DOMAIN outbox' :
                        /\ j > i /\ outbox'[j] \in VerificationTokens
                        /\ tokens'[outbox'[j]].owner = u
    BY DEF Superseded
  <2>1. outbox'[i] # r
    BY <1>1, <1>2, RequestsAssumption DEF Stored
  <2>2. i \in DOMAIN outbox /\ outbox'[i] = outbox[i]
    BY <1>4, <2>1
  <2>3. PICK j \in DOMAIN outbox : /\ j > i /\ outbox[j] \in VerificationTokens
                                   /\ tokens[outbox[j]].owner = u
    BY <1>1, <2>2 DEF LinkInv, Superseded
  <2> QED
    BY <1>1, <1>4, <2>3
<1> QED
  BY <1>5, <1>6, <1>7, <1>8 DEF LinkInv

(* What a resend marks when it commits was mailed before its own token.    *)
LEMMA LinkCommit ==
  ASSUME LinkInv, UniqueInv', NEW r \in Requests, CommitToken(r)
  PROVE  LinkInv'
<1> DEFINE T == [Tokens -> [owner : Users \cup {Nobody}, expires : Nat, used : BOOLEAN]]
<1>1. /\ r \in Mailers /\ r \in Tokens /\ pc[r] = "commit" /\ pc'[r] = "done"
      /\ user'[r] = Nobody /\ replaced'[r] = {} /\ UNCHANGED <<outbox, delivery>>
      /\ \A q \in Requests \ {r} :
           pc'[q] = pc[q] /\ user'[q] = user[q] /\ replaced'[q] = replaced[q]
      /\ \A u \in Users \ {r} : users'[u] = users[u]
      /\ r \notin Registers => users' = users
  BY Kinds DEF CommitToken, GoTo, LinkInv, UniqueInv, TypeOK, Mailers
<1>2. /\ ~ Stored(r) /\ (r \in Registers => ~ Exists(r) /\ user[r] = r)
      /\ r \notin replaced[r]
  BY <1>1 DEF LinkInv, HeldInv, Fresh, ReplacedOwned, Finished, UniqueInv, OwnersExist, Inserting
<1>3. /\ tokens'[r].owner = user[r] /\ tokens'[r].used = FALSE
      /\ \A t \in Tokens \ {r} :
           /\ tokens'[t].owner = tokens[t].owner
           /\ t \notin replaced[r] => tokens'[t] = tokens[t]
  <2>1. MarkUsed(replaced[r]) \in T /\ tokens \in T
    BY MarkUsedType DEF LinkInv, UniqueInv, TypeOK
  <2>2. tokens' = [MarkUsed(replaced[r]) EXCEPT ![r] =
                     [owner |-> user[r], expires |-> due[r], used |-> FALSE]]
    BY DEF CommitToken
  <2>3. \A t \in Tokens :
          /\ MarkUsed(replaced[r])[t].owner = tokens[t].owner
          /\ t \notin replaced[r] => MarkUsed(replaced[r])[t] = tokens[t]
    BY MarkUsedOwner DEF MarkUsed, LinkInv, UniqueInv
  <2> QED
    BY <1>1, <2>1, <2>2, <2>3
<1> HIDE DEF T
<1>4. HeldInv'
  <2>1. Fresh'
    <3> SUFFICES ASSUME NEW q \in Mailers, pc'[q] \notin Finished
                 PROVE  tokens'[q].owner = Nobody /\ (q \in Registers => users'[q] = "none")
      BY DEF Fresh, Stored
    <3>1. q # r /\ q \in Requests /\ q \in Tokens /\ (q \in Registers => q \in Users)
      BY <1>1, Kinds DEF Finished
    <3> QED
      BY <1>1, <1>3, <3>1 DEF LinkInv, HeldInv, Fresh, Stored
  <2>2. ReplacedOwned'
    <3> SUFFICES ASSUME NEW q \in Requests, NEW t \in replaced'[q]
                 PROVE  /\ q \in Resends /\ t \in Tokens /\ tokens'[t].owner # Nobody
                        /\ tokens'[t].owner = user'[q]
      BY DEF ReplacedOwned, Stored
    <3>1. q # r
      BY <1>1
    <3>2. /\ q \in Resends /\ t \in Tokens /\ Stored(t) /\ tokens[t].owner = user[q]
      BY <1>1, <3>1 DEF LinkInv, HeldInv, ReplacedOwned
    <3> QED
      BY <1>1, <1>2, <1>3, <3>1, <3>2 DEF Stored
  <2>3. TargetOwned'
    <3> SUFFICES ASSUME NEW q \in Requests, pc'[q] = "use"
                 PROVE  /\ About[q] \in Tokens /\ tokens'[About[q]].owner # Nobody
                        /\ tokens'[About[q]].owner = user'[q]
      BY DEF TargetOwned, Stored
    <3>1. q # r
      BY <1>1
    <3>2. About[q] \in Tokens /\ Stored(About[q]) /\ tokens[About[q]].owner = user[q]
      BY <1>1, <3>1 DEF LinkInv, HeldInv, TargetOwned
    <3> QED
      BY <1>1, <1>2, <1>3, <3>1, <3>2 DEF Stored
  <2> QED
    BY <2>1, <2>2, <2>3 DEF HeldInv
<1>5. MailedLast'
  BY <1>1 DEF LinkInv, MailedLast, MailedAfter
<1>6. Registered'
  <2> SUFFICES ASSUME NEW u \in Registers, users'[u] # "none"
               PROVE  tokens'[u].owner = u /\ (delivery => \E i \in DOMAIN outbox : outbox[i] = u)
    BY <1>1 DEF Registered
  <2>1. CASE u = r
    BY <1>1, <1>2, <1>3, <2>1 DEF LinkInv, MailedLast, MailedAfter
  <2>2. CASE u # r
    BY <1>1, <1>3, <2>2, Kinds DEF LinkInv, Registered, Mailers
  <2> QED
    BY <2>1, <2>2
<1>7. UsableLeft'
  <2> SUFFICES ASSUME NEW u \in Users, users'[u] = "unverified"
               PROVE  \E t \in VerificationTokens : tokens'[t].owner = u /\ ~ tokens'[t].used
    BY DEF UsableLeft, Usable
  <2>1. CASE u = user[r] /\ r \in VerificationTokens
    BY <1>3, <2>1
  <2>2. CASE u # user[r] \/ r \notin VerificationTokens
    <3>1. users[u] = "unverified"
      BY <1>1, <1>2, <2>2, Kinds
    <3>2. PICK t \in VerificationTokens : tokens[t].owner = u /\ ~ tokens[t].used
      BY <3>1 DEF LinkInv, UsableLeft, Usable
    <3>3. t # r /\ t \in Tokens
      BY <1>2, <3>2, RequestsAssumption DEF Stored, Tokens
    <3>4. t \notin replaced[r]
      BY <2>2, <3>2, Kinds DEF LinkInv, HeldInv, ReplacedOwned
    <3> QED
      BY <1>3, <3>2, <3>3, <3>4
  <2> QED
    BY <2>1, <2>2
<1>8. Superseded'
  <2> SUFFICES ASSUME NEW u \in Users, users'[u] = "unverified", NEW i \in DOMAIN outbox,
                      outbox[i] \in VerificationTokens, tokens'[outbox[i]].owner = u,
                      tokens'[outbox[i]].used
               PROVE  \E j \in DOMAIN outbox :
                        /\ j > i /\ outbox[j] \in VerificationTokens
                        /\ tokens'[outbox[j]].owner = u
    BY <1>1 DEF Superseded
  <2>1. outbox[i] # r /\ outbox[i] \in Tokens /\ u # Nobody
    BY <1>3, RequestsAssumption DEF Tokens
  <2>2. tokens[outbox[i]].owner = u /\ Exists(u)
    BY <1>3, <2>1 DEF LinkInv, UniqueInv, OwnersExist
  <2>3. users[u] = "unverified"
    BY <1>1, <1>2, <2>2
  <2>4. CASE tokens[outbox[i]].used
    <3>1. PICK j \in DOMAIN outbox : /\ j > i /\ outbox[j] \in VerificationTokens
                                     /\ tokens[outbox[j]].owner = u
      BY <2>2, <2>3, <2>4 DEF LinkInv, Superseded
    <3>2. outbox[j] # r /\ outbox[j] \in Tokens
      BY <1>2, <2>1, <3>1 DEF Stored, Tokens
    <3> QED
      BY <1>3, <3>1, <3>2
  <2>5. CASE ~ tokens[outbox[i]].used
    <3>1. outbox[i] \in replaced[r]
      BY <1>3, <2>1, <2>5
    <3>2. r \in Resends /\ user[r] = u
      BY <2>2, <3>1 DEF LinkInv, HeldInv, ReplacedOwned
    <3>3. outbox # <<>> /\ delivery \in BOOLEAN
      BY DEF LinkInv, UniqueInv, TypeOK
    <3>4. PICK j \in DOMAIN outbox : MailedAfter(r, j)
      BY <1>1, <3>3 DEF LinkInv, MailedLast
    <3>5. i < j /\ outbox[j] = r
      BY <3>1, <3>4 DEF MailedAfter
    <3>6. i \in Nat /\ j \in Nat
      BY <3>4 DEF LinkInv, UniqueInv, TypeOK
    <3> QED
      BY <1>3, <3>2, <3>4, <3>5, <3>6, Kinds
  <2> QED
    BY <2>4, <2>5
<1> QED
  BY <1>4, <1>5, <1>6, <1>7, <1>8 DEF LinkInv

(* Who uses a token is its owner, and is then verified.                    *)
LEMMA LinkUse ==
  ASSUME LinkInv, UniqueInv', NEW r \in Requests, UseToken(r)
  PROVE  LinkInv'
<1>1. /\ pc[r] = "use" /\ pc'[r] = "done" /\ replaced[r] = {} /\ replaced' = replaced
      /\ UNCHANGED <<outbox, delivery>>
      /\ \A q \in Requests \ {r} : pc'[q] = pc[q] /\ user'[q] = user[q]
  BY DEF UseToken, GoTo, LinkInv, UniqueInv, TypeOK
<1>2. /\ About[r] \in Tokens /\ tokens[About[r]].owner = user[r] /\ user[r] # Nobody
      /\ user[r] \in Users /\ Exists(user[r])
  BY <1>1, Kinds DEF LinkInv, HeldInv, TargetOwned, Stored, UniqueInv, OwnersExist, TypeOK
<1>3. \A u \in Users : /\ Exists(u)' <=> Exists(u)
                       /\ users'[u] = "unverified" => users[u] = "unverified" /\ u # user[r]
  BY <1>2 DEF UseToken, LinkInv, UniqueInv, TypeOK
<1>4. \A t \in Tokens : /\ tokens'[t].owner = tokens[t].owner
                        /\ t # About[r] => tokens'[t] = tokens[t]
  BY MarkUsedOwner DEF UseToken, MarkUsed, LinkInv, UniqueInv
<1>5. HeldInv'
  <2>1. Fresh'
    BY <1>1, <1>3, <1>4, Kinds DEF LinkInv, HeldInv, Fresh, Stored, Finished
  <2>2. ReplacedOwned'
    BY <1>1, <1>4 DEF LinkInv, HeldInv, ReplacedOwned, Stored
  <2>3. TargetOwned'
    BY <1>1, <1>4 DEF LinkInv, HeldInv, TargetOwned, Stored
  <2> QED
    BY <2>1, <2>2, <2>3 DEF HeldInv
<1>6. MailedLast'
  BY <1>1 DEF LinkInv, MailedLast, MailedAfter
<1>7. Registered'
  BY <1>1, <1>3, <1>4, Kinds DEF LinkInv, Registered, Mailers
<1>8. UsableLeft'
  BY <1>2, <1>3, <1>4 DEF LinkInv, UsableLeft, Usable, Tokens
<1>9. Superseded'
  <2> SUFFICES ASSUME NEW u \in Users, users'[u] = "unverified", NEW i \in DOMAIN outbox,
                      outbox[i] \in VerificationTokens, tokens'[outbox[i]].owner = u,
                      tokens'[outbox[i]].used
               PROVE  \E j \in DOMAIN outbox :
                        /\ j > i /\ outbox[j] \in VerificationTokens
                        /\ tokens'[outbox[j]].owner = u
    BY <1>1 DEF Superseded
  <2>1. users[u] = "unverified" /\ u # user[r] /\ outbox[i] \in Tokens
    BY <1>3 DEF Tokens
  <2>2. tokens[outbox[i]].owner = u /\ tokens[outbox[i]].used
    BY <1>2, <1>4, <2>1
  <2>3. PICK j \in DOMAIN outbox : /\ j > i /\ outbox[j] \in VerificationTokens
                                   /\ tokens[outbox[j]].owner = u
    BY <2>1, <2>2 DEF LinkInv, Superseded
  <2> QED
    BY <1>4, <2>3 DEF Tokens
<1> QED
  BY <1>5, <1>6, <1>7, <1>8, <1>9 DEF LinkInv

LEMMA LinkStep == LinkInv /\ [Next]_vars => LinkInv'
<1> SUFFICES ASSUME LinkInv, [Next]_vars PROVE LinkInv'
  OBVIOUS
<1>0. /\ TypeOK /\ UniqueInv' /\ sent \subseteq Requests /\ Mailers \subseteq Requests
      /\ HeldInv /\ MailedLast
  BY UniqueStep, Kinds DEF LinkInv, UniqueInv, TypeOK
<1>1. CASE UNCHANGED accountVars
  <2>1. UNCHANGED <<users, tokens, outbox, delivery, pc, user, replaced>>
    BY <1>1 DEF accountVars, rows, handler
  <2>2. HeldInv' /\ MailedLast'
    BY <1>0, <2>1 DEF HeldInv, Fresh, ReplacedOwned, TargetOwned, Stored, MailedLast, MailedAfter
  <2>3. Registered' /\ UsableLeft' /\ Superseded'
    BY <2>1 DEF LinkInv, Registered, UsableLeft, Usable, Superseded
  <2> QED
    BY <1>0, <2>2, <2>3 DEF LinkInv
<1> USE <1>0
<1>2. ASSUME NEW r \in Requests, pc[r] \notin Finished, NEW place \in Finished, Answer(r, place)
      PROVE  LinkInv'
  <2>1. /\ UNCHANGED <<users, tokens, outbox, delivery>> /\ pc'[r] = place /\ replaced'[r] = {}
        /\ \A q \in Requests \ {r} :
             pc'[q] = pc[q] /\ user'[q] = user[q] /\ replaced'[q] = replaced[q]
    BY <1>2 DEF Answer, GoTo, rows, TypeOK
  <2> QED
    BY <1>2, <2>1, LinkKept DEF Finished
<1>3. ASSUME NEW r \in Requests, pc[r] = "start", NEW u,
             NEW place \in {"insert", "replace", "use", "open"}, Load(r, u, place),
             place = "use" => /\ About[r] \in Tokens /\ Stored(About[r])
                              /\ tokens[About[r]].owner = u
      PROVE  LinkInv'
  <2>1. /\ UNCHANGED <<users, tokens, outbox, delivery>> /\ pc'[r] = place
        /\ user'[r] = u /\ replaced'[r] = {}
        /\ \A q \in Requests \ {r} :
             pc'[q] = pc[q] /\ user'[q] = user[q] /\ replaced'[q] = replaced[q]
    BY <1>3 DEF Load, GoTo, rows, TypeOK
  <2> QED
    BY <1>3, <2>1, LinkKept DEF Finished
<1>4. ASSUME NEW r \in Requests, pc[r] \notin Finished, NEW u, NEW ttl, InsertToken(r, u, ttl),
             replaced' = [replaced EXCEPT ![r] = replaced'[r]],
             replaced'[r] \subseteq replaced[r], replaced'[r] # {} => u = user[r]
      PROVE  LinkInv'
  <2>1. /\ UNCHANGED <<users, tokens, outbox, delivery>> /\ user'[r] = u
        /\ pc'[r] = IF delivery THEN "mail" ELSE "commit"
        /\ \A q \in Requests \ {r} :
             pc'[q] = pc[q] /\ user'[q] = user[q] /\ replaced'[q] = replaced[q]
    BY <1>4 DEF InsertToken, GoTo, rows, TypeOK
  <2>2. \A t \in replaced'[r] :
          r \in Resends /\ t \in Tokens /\ Stored(t) /\ tokens[t].owner = user'[r]
    BY <1>4, <2>1 DEF HeldInv, ReplacedOwned
  <2>3. pc'[r] # "use" /\ (pc'[r] = "commit" => ~ delivery) /\ (pc'[r] = "mail" => delivery)
    BY <2>1
  <2> QED
    BY <1>4, <2>1, <2>2, <2>3, LinkKept DEF Finished
<1>5. ASSUME NEW r \in Registers, FindExisting(r) \/ InsertUser(r) PROVE LinkInv'
  <2>1. CASE FindExisting(r)
    BY <1>2, <1>3, <2>1 DEF FindExisting, Ready, Finished, Mailers
  <2>2. CASE InsertUser(r) /\ ViolatesUnique(r)
    BY <1>2, <2>2 DEF InsertUser, Finished, Mailers
  <2>3. CASE InsertUser(r) /\ ~ ViolatesUnique(r)
    <3>1. /\ InsertToken(r, r, VerificationTTL) /\ replaced' = replaced
          /\ pc[r] = "insert" /\ r \in Requests
      BY <2>3 DEF InsertUser, Mailers
    <3>2. replaced[r] = {} /\ replaced' = [replaced EXCEPT ![r] = replaced'[r]]
      BY <3>1 DEF TypeOK
    <3> QED
      BY <1>4, <3>1, <3>2 DEF Finished
  <2> QED
    BY <1>5, <2>1, <2>2, <2>3
<1>6. ASSUME NEW r \in Resends, LookUp(r) \/ StartUpdate(r) \/ ReplaceToken(r) PROVE LinkInv'
  <2>1. r \in Requests
    BY DEF Mailers
  <2>2. CASE LookUp(r)
    BY <1>2, <1>3, <2>1, <2>2 DEF LookUp, Ready, Finished
  <2>3. CASE StartUpdate(r)
    <3>1. /\ UNCHANGED <<users, tokens, outbox, delivery, user>>
          /\ pc[r] = "replace" /\ pc'[r] = "update"
          /\ replaced'[r] = {t \in VerificationTokens : tokens[t].owner = user[r] /\ Active(t)}
          /\ \A q \in Requests \ {r} : pc'[q] = pc[q] /\ replaced'[q] = replaced[q]
      BY <2>1, <2>3 DEF StartUpdate, GoTo, rows, TypeOK
    <3>2. \A t \in replaced'[r] :
            r \in Resends /\ t \in Tokens /\ Stored(t) /\ tokens[t].owner = user'[r]
      BY <3>1 DEF Active, Stored, Tokens
    <3> QED
      BY <2>1, <3>1, <3>2, LinkKept DEF Finished
  <2>4. CASE ReplaceToken(r)
    <3>1. /\ InsertToken(r, user[r], VerificationTTL) /\ pc[r] = "update"
          /\ replaced' = [replaced EXCEPT ![r] = {t \in replaced[r] : ~ tokens[t].used}]
      BY <2>4 DEF ReplaceToken
    <3>2. /\ replaced'[r] \subseteq replaced[r]
          /\ replaced' = [replaced EXCEPT ![r] = replaced'[r]]
      BY <2>1, <3>1 DEF TypeOK
    <3> QED
      BY <1>4, <2>1, <3>1, <3>2 DEF Finished
  <2> QED
    BY <1>6, <2>2, <2>3, <2>4
<1>7. ASSUME NEW r \in Resets, RequestReset(r) PROVE LinkInv'
  <2>1. r \in Requests /\ pc[r] = "start" /\ replaced[r] = {}
    BY <1>7 DEF RequestReset, Ready, Mailers, TypeOK
  <2>2. CASE Answer(r, "done")
    BY <1>2, <2>1, <2>2 DEF Finished
  <2>3. CASE ~ Answer(r, "done")
    <3>1. PICK u : InsertToken(r, u, ResetTTL) /\ replaced' = replaced
      BY <1>7, <2>3 DEF RequestReset
    <3>2. replaced' = [replaced EXCEPT ![r] = replaced'[r]]
      BY <3>1 DEF TypeOK
    <3> QED
      BY <1>4, <2>1, <3>1, <3>2 DEF Finished
  <2> QED
    BY <2>2, <2>3
<1>8. ASSUME NEW r \in Requests, MailSent(r) \/ MailFails(r) PROVE LinkInv'
  BY <1>8, LinkMailed
<1>9. ASSUME NEW r \in Requests, CommitToken(r) PROVE LinkInv'
  BY <1>9, LinkCommit
<1>10. ASSUME NEW r \in Requests, ResolveToken(r) PROVE LinkInv'
  <2>1. CASE About[r] \in Purpose(r) /\ Active(About[r])
    <3>1. About[r] \in Tokens /\ Stored(About[r])
      BY <2>1 DEF Purpose, Tokens, Active, Stored
    <3> QED
      BY <1>3, <1>10, <2>1, <3>1 DEF ResolveToken, Ready
  <2> QED
    BY <1>2, <1>10, <2>1 DEF ResolveToken, Ready, Finished
<1>11. ASSUME NEW r \in Requests, UseToken(r) PROVE LinkInv'
  BY <1>11, LinkUse
<1>12. ASSUME NEW r \in Requests, Authenticate(r) PROVE LinkInv'
  <2>1. pc[r] = "start" /\ replaced[r] = {}
    BY <1>12 DEF Authenticate, Ready, TypeOK
  <2>2. CASE Answer(r, "refused")
    BY <1>2, <2>1, <2>2 DEF Finished
  <2>3. CASE ~ Answer(r, "refused")
    <3>1. PICK u \in Users :
            /\ GoTo(r, "open") /\ user' = [user EXCEPT ![r] = u]
            /\ UNCHANGED <<sent, delivery, rows, outbox, replaced>>
      BY <1>12, <2>3 DEF Authenticate, Named
    <3>2. /\ UNCHANGED <<users, tokens, outbox, delivery, replaced>> /\ pc'[r] = "open"
          /\ \A q \in Requests \ {r} : pc'[q] = pc[q] /\ user'[q] = user[q]
      BY <3>1 DEF GoTo, rows, TypeOK
    <3> QED
      BY <2>1, <3>2, LinkKept DEF Finished
  <2> QED
    BY <2>2, <2>3
<1>13. ASSUME NEW r \in Requests, OpenSession(r) PROVE LinkInv'
  <2>1. /\ UNCHANGED <<users, tokens, outbox, delivery, replaced>> /\ pc[r] = "open"
        /\ pc'[r] = "done" /\ replaced[r] = {}
        /\ \A q \in Requests \ {r} : pc'[q] = pc[q] /\ user'[q] = user[q]
    BY <1>13 DEF OpenSession, GoTo, TypeOK
  <2> QED
    BY <2>1, LinkKept DEF Finished
<1>14. ASSUME NEW r \in Requests, Logout(r) \/ Visit(r) PROVE LinkInv'
  <2>1. pc[r] = "start" /\ replaced[r] = {}
    BY <1>14 DEF Logout, Visit, Ready, TypeOK
  <2>2. CASE Answer(r, "done")
    BY <1>2, <2>1, <2>2 DEF Finished
  <2>3. CASE ~ Answer(r, "done")
    <3>1. PICK place \in {"done", "refused"} : EndSession(r, place)
      BY <1>14, <2>3 DEF Logout, Visit
    <3>2. /\ UNCHANGED <<users, tokens, outbox, delivery, user, replaced>> /\ pc'[r] = place
          /\ \A q \in Requests \ {r} : pc'[q] = pc[q]
      BY <3>1 DEF EndSession, GoTo, handler, TypeOK
    <3> QED
      BY <2>1, <3>1, <3>2, LinkKept DEF Finished
  <2> QED
    BY <2>2, <2>3
<1>15. ASSUME NEW r \in Requests, Fail(r) PROVE LinkInv'
  BY <1>2, <1>15 DEF Fail, Ready, Finished
<1> QED
  BY <1>1, <1>5, <1>6, <1>7, <1>8, <1>9, <1>10, <1>11, <1>12, <1>13, <1>14, <1>15
  DEF Next, PassGates, Handles, Handle, Quiet, vars

(* An account that is not verified has a link that works, and with mail    *)
(* the newest one that was mailed and stored: whatever resends overlap,    *)
(* however mail and statements fail.                                       *)
THEOREM LinksWork == Spec => []NewestLinkWorks
<1>1. LinkInv => NewestLinkWorks
  <2> SUFFICES ASSUME LinkInv, NEW u \in Users, users[u] = "unverified"
               PROVE  /\ Usable(u) # {}
                      /\ delivery /\ u \in Registers =>
                           \E i \in DOMAIN outbox : tokens[outbox[i]].owner = u
                      /\ \A i \in DOMAIN outbox : Newest(u, i) => outbox[i] \in Usable(u)
    BY DEF NewestLinkWorks
  <2>1. Usable(u) # {}
    BY DEF LinkInv, UsableLeft
  <2>2. delivery /\ u \in Registers => \E i \in DOMAIN outbox : tokens[outbox[i]].owner = u
    BY DEF LinkInv, Registered
  <2>3. ASSUME NEW i \in DOMAIN outbox, Newest(u, i) PROVE outbox[i] \in Usable(u)
    BY <2>3 DEF LinkInv, Superseded, Newest, Usable
  <2> QED
    BY <2>1, <2>2, <2>3
<1> QED
  BY <1>1, LinkInit, LinkStep, PTL DEF Spec

-----------------------------------------------------------------------------
(* Waiting.  Only requests that were sent have come anywhere, and only     *)
(* those that were admitted have begun to be handled.                      *)

SentInv ==
  /\ \A r \in Requests :
       pc[r] # "start" => r \in sent /\ (r \in Limited => gate[r] = "admitted")
  /\ \A r \in Limited : gate[r] # "sent" => r \in sent

LEMMA SentInit == Init => SentInv
  BY DEF Init, LimiterInit, SentInv

LEMMA GateMoves ==
  ASSUME LimiterTypeOK, NEW r \in Limited, PassGate(r) \/ Drop(r)
  PROVE  \E place : gate[r] # "admitted" /\ gate' = [gate EXCEPT ![r] = place]
  BY DEF PassGate, Drop, Arrive, Begin, Purge, Lock, Count, Record, TooMany, RollBackTo

LEMMA HandlerMoves ==
  ASSUME NEW r, Handle(r) \/ Fail(r)
  PROVE  \E place : /\ Ready(r) \/ pc[r] # "start"
                    /\ pc' = [pc EXCEPT ![r] = place] /\ sent' = sent
  BY DEF Handle, Fail, FindExisting, InsertUser, LookUp, StartUpdate, ReplaceToken,
         RequestReset, MailSent, MailFails, CommitToken, ResolveToken, UseToken,
         Authenticate, OpenSession, Logout, Visit, EndSession, Answer, Load,
         InsertToken, GoTo

LEMMA SentStep == TypeOK /\ SentInv /\ [Next]_vars => SentInv'
<1> SUFFICES ASSUME TypeOK, SentInv, [Next]_vars PROVE SentInv'
  OBVIOUS
<1>0. sent \subseteq Requests
  BY Kinds DEF TypeOK
<1>1. ASSUME NEW r \in sent \cap Limited, PassGate(r) \/ Drop(r), UNCHANGED accountVars
      PROVE  SentInv'
  <2>1. PICK place : gate[r] # "admitted" /\ gate' = [gate EXCEPT ![r] = place]
    BY <1>1, GateMoves DEF TypeOK
  <2> QED
    BY <1>0, <1>1, <2>1 DEF SentInv, TypeOK, LimiterTypeOK, accountVars
<1>2. ASSUME NEW r \in sent, Handle(r) \/ Fail(r), UNCHANGED limiterVars
      PROVE  SentInv'
  <2>1. PICK place : /\ Ready(r) \/ pc[r] # "start"
                     /\ pc' = [pc EXCEPT ![r] = place] /\ sent' = sent
    BY <1>2, HandlerMoves
  <2> QED
    BY <1>0, <1>2, <2>1 DEF SentInv, TypeOK, Ready, limiterVars
<1>3. CASE UNCHANGED <<gate, accountVars>>
  BY <1>3 DEF SentInv, accountVars
<1> QED
  BY <1>1, <1>2, <1>3
  DEF Next, PassGates, Handles, Tick, Quiet, vars, limiterVars

(* However many requests share buckets, rows and names: an address bucket  *)
(* is locked by nobody who still waits for a lock, and rows and names by   *)
(* nobody who waits at all, so that some unanswered request can go on.     *)
THEOREM RequestsGoOn == Spec => []SomeoneGoesOn
<1>1. TypeOK /\ SentInv => SomeoneGoesOn
  <2> SUFFICES ASSUME TypeOK, SentInv, NEW r \in sent, ~ Answered(r),
                      \A q \in sent : ~ Answered(q) => Waits(q)
               PROVE  FALSE
    BY DEF SomeoneGoesOn
  <2> LimiterTypeOK /\ sent \subseteq Requests
    BY Kinds DEF TypeOK
  <2>1. ASSUME NEW q \in Requests, pc[q] \in {"mail", "commit"} PROVE FALSE
    <3>1. q \in sent /\ (q \in Limited => gate[q] = "admitted")
      BY <2>1 DEF SentInv
    <3> QED
      BY <2>1, <3>1 DEF Answered, Finished, Waits
  <2>2. \A q, t : KeysUnheld(q) /\ RowUnheld(t)
    BY <2>1, Kinds DEF KeysUnheld, RowUnheld, Mailers
  <2>3. \A q \in Limited : gate[q] \in {"purge", "lock", "count", "record"} =>
          q \in sent /\ q \in Requests /\ ~ Answered(q) /\ Waits(q)
    <3> SUFFICES ASSUME NEW q \in Limited,
                        gate[q] \in {"purge", "lock", "count", "record"}
                 PROVE  q \in sent /\ ~ Answered(q)
      OBVIOUS
    <3>1. q \in sent /\ q \in Requests
      BY DEF SentInv
    <3>2. pc[q] = "start"
      BY <3>1 DEF SentInv
    <3> QED
      BY <3>1, <3>2 DEF Answered, Finished
  <2>4. \A q \in Limited : gate[q] \notin {"count", "record"}
    BY <2>2, <2>3 DEF Waits
  <2>5. \A q \in Limited : locked[q] \subseteq {AccountKey[q]}
    BY <2>4 DEF LimiterTypeOK
  <2>6. ASSUME NEW q \in Limited, AccountKey[q] \in locked[q] PROVE FALSE
    <3>1. gate[q] = "lock"
      BY <2>4, <2>6 DEF LimiterTypeOK
    <3>2. ~ \E k \in Keys : IsNext(q, k) /\ KeyFree(k)
      BY <2>2, <2>3, <3>1 DEF Waits
    <3>3. AddressKey[q] \in Keys /\ IsNext(q, AddressKey[q])
      BY <2>5, <2>6, KeysType DEF IsNext, KeysOf
    <3>4. PICK p \in Limited : AddressKey[q] \in locked[p]
      BY <3>2, <3>3 DEF KeyFree
    <3> QED
      BY <2>5, <3>4, BucketsAssumption
  <2>7. ASSUME NEW q \in Limited, gate[q] = "lock" PROVE FALSE
    <3>1. ~ \E k \in Keys : IsNext(q, k) /\ KeyFree(k)
      BY <2>2, <2>3, <2>7 DEF Waits
    <3>2. AccountKey[q] \in Keys /\ IsNext(q, AccountKey[q])
      BY <2>6, KeysType DEF IsNext, KeysOf
    <3>3. PICK p \in Limited : AccountKey[q] \in locked[p]
      BY <3>1, <3>2 DEF KeyFree
    <3> QED
      BY <2>5, <2>6, <3>3
  <2>8. \A q \in Limited : deleted[q] = {}
    BY <2>4, <2>7 DEF LimiterTypeOK
  <2>9. Waits(r)
    OBVIOUS
  <2> QED
    BY <2>2, <2>7, <2>8, <2>9 DEF Waits
<1> QED
  BY TypeInit, TypeStep, SentInit, SentStep, <1>1, PTL DEF Spec

=============================================================================
