------------------------- MODULE BotRegistryProofs --------------------------
(* Proofs about BotRegistry, for every set of names, users, requests and   *)
(* replicas, and every bound.                                              *)
EXTENDS BotRegistry, DataLemmas

USE DEF Processes, Requests, NoVersion

LEMMA SpecsAreNames ==
  /\ Len(Specs) \in Nat
  /\ DOMAIN Specs = 1..Len(Specs)
  /\ \A i \in DOMAIN Specs : Specs[i] \in Names
  BY SpecsAssumption

LEMMA OwnerType ==
  ASSUME NEW p \in Processes
  PROVE  OwnerOf(p) \in Users \cup {System} /\ OwnerOf(p) # Nobody
  BY PartiesAssumption DEF OwnerOf

-----------------------------------------------------------------------------
(* Type correctness.                                                       *)

LEMMA TypeInit == Init => TypeOK
<1> SUFFICES ASSUME Init PROVE TypeOK
  OBVIOUS
<1>1. NoBot \in Rows
  BY DEF NoBot, Rows
<1> QED
  BY <1>1, FirstBotsAssumption, LimitsAssumption, SpecsAreNames
  DEF Init, TypeOK, NoRows, Answered

(* The end of a transaction leaves nothing of it.                          *)
LEMMA ReleasedType ==
  ASSUME TypeOK, NEW p \in Processes, Released(p)
  PROVE  /\ seen' \in [Processes -> [Names -> Rows]]
         /\ newBots' \in [Processes -> SUBSET Names]
         /\ newVersion' \in [Processes -> [Names -> Nat]]
         /\ spec' \in [Processes -> 1..Len(Specs) + 1]
         /\ newBots'[p] = {} /\ newVersion'[p] = NoVersion
         /\ \A q \in Processes \ {p} :
              /\ newBots'[q] = newBots[q] /\ newVersion'[q] = newVersion[q]
              /\ seen'[q] = seen[q] /\ spec'[q] = spec[q]
<1>1. NoBot \in Rows
  BY DEF NoBot, Rows
<1> QED
  BY <1>1, SpecsAreNames DEF TypeOK, Released, NoRows

LEMMA RollBackType ==
  ASSUME TypeOK, NEW p \in Processes, NEW place \in {"rejected", "failed", "down"},
         RollBack(p, place), crashes' \in 0..MaxCrashes
  PROVE  TypeOK'
<1>1. Released(p) /\ pc' = [pc EXCEPT ![p] = place]
      /\ UNCHANGED <<bots, subs>>
  BY DEF RollBack, GoTo
<1> QED
  BY <1>1, ReleasedType DEF TypeOK, Answered

LEMMA CommitType ==
  ASSUME TypeOK, NEW p \in Processes, NEW place \in {"accepted", "failed", "up"},
         CommitAs(p, place)
  PROVE  TypeOK'
<1>1. Released(p) /\ pc' = [pc EXCEPT ![p] = place]
      /\ UNCHANGED crashes
  BY DEF CommitAs, GoTo
<1>2. bots' \in [Names -> Rows]
  <2>1. ASSUME NEW n \in Names
        PROVE  /\ (IF n \in newBots[p] THEN OwnerOf(p) ELSE bots[n].owner)
                    \in Users \cup {System, Nobody}
               /\ (IF newVersion[p][n] = 0 THEN bots[n].latest ELSE newVersion[p][n]) \in Nat
               /\ (IF newVersion[p][n] = 0 THEN bots[n].active ELSE newVersion[p][n]) \in Nat
    BY OwnerType DEF TypeOK, Rows
  <2> QED
    BY <2>1 DEF CommitAs, Rows
<1>3. subs' \subseteq Submissions
  BY DEF CommitAs, TypeOK, Submissions
<1> QED
  BY <1>1, <1>2, <1>3, ReleasedType DEF TypeOK, Answered

LEMMA TypeStep == TypeOK /\ [Next]_vars => TypeOK'
<1> SUFFICES ASSUME TypeOK, [Next]_vars PROVE TypeOK'
  OBVIOUS
<1> USE DEF Answered, GoTo
<1>1. ASSUME NEW c \in Creates, EnforceLimit(c) PROVE TypeOK'
  BY <1>1 DEF TypeOK, EnforceLimit, pending
<1>2. ASSUME NEW c \in Creates, FindName(c) PROVE TypeOK'
  BY <1>2 DEF TypeOK, FindName, pending
<1>3. ASSUME NEW c \in Creates, InsertBot(c) PROVE TypeOK'
  BY <1>3, PartiesAssumption DEF TypeOK, InsertBot
<1>4. ASSUME NEW c \in Creates, NameTaken(c) PROVE TypeOK'
  BY <1>4, RollBackType DEF NameTaken, TypeOK
<1>5. ASSUME NEW s \in Submits, LoadBot(s) PROVE TypeOK'
  <2>1. /\ UNCHANGED <<bots, subs, newBots, newVersion, spec, crashes>>
        /\ seen' \in [Processes -> [Names -> Rows]]
        /\ \E place \in {"insert", "rejected"} : pc' = [pc EXCEPT ![s] = place]
        /\ pc[s] = "start"
    <3>1. bots[About[s]] \in Rows
      BY PartiesAssumption DEF TypeOK
    <3>2. CASE bots[About[s]].owner = By[s]
      <4>1. seen' = [seen EXCEPT ![s][About[s]] = bots[About[s]]] /\ pc' = [pc EXCEPT ![s] = "insert"]
        BY <1>5, <3>2 DEF LoadBot
      <4>2. seen \in [Processes -> [Names -> Rows]] /\ s \in Processes /\ About[s] \in Names
        BY PartiesAssumption DEF TypeOK
      <4>3. UNCHANGED <<bots, subs, newBots, newVersion, spec, crashes>> /\ pc[s] = "start"
        BY <1>5 DEF LoadBot, pending
      <4>4. seen' \in [Processes -> [Names -> Rows]]
        <5> HIDE DEF Processes
        <5> QED
          BY <4>1, <4>2, <3>1
      <4> QED
        BY <4>1, <4>3, <4>4
    <3>3. CASE bots[About[s]].owner # By[s]
      BY <1>5, <3>3 DEF TypeOK, LoadBot, pending
    <3> QED
      BY <3>2, <3>3
  <2>4. pc' \in [Processes -> {"start", "find", "insert", "commit", "down", "bot",
                              "executable", "up"} \cup Answered]
    BY <2>1 DEF TypeOK
  <2>5. \A p \in Processes :
          newBots'[p] # {} \/ newVersion'[p] # NoVersion =>
            pc'[p] \in {"commit", "bot", "executable"}
    BY <2>1 DEF TypeOK
  <2>6. \A q \in Replicas : pc'[q] = "executable" => spec'[q] <= Len(Specs)
    BY <2>1, PartiesAssumption DEF TypeOK
  <2> QED
    BY <2>1, <2>4, <2>5, <2>6 DEF TypeOK
<1>6. ASSUME NEW s \in Submits, InsertSubmission(s) PROVE TypeOK'
  <2>1. NextVersion(s, About[s]) \in Nat
    BY PartiesAssumption DEF TypeOK, Rows, NextVersion
  <2> QED
    BY <1>6, <2>1, PartiesAssumption DEF TypeOK, InsertSubmission
<1>7. ASSUME NEW s \in Submits, SubmissionConflict(s) PROVE TypeOK'
  BY <1>7, RollBackType DEF SubmissionConflict, TypeOK
<1>8. ASSUME NEW p \in Requests, CommitAccepted(p) PROVE TypeOK'
  BY <1>8, CommitType DEF CommitAccepted
<1>9. ASSUME NEW p \in Requests, Abort(p) \/ RefreshFails(p) PROVE TypeOK'
  BY <1>9, RollBackType, CommitType DEF Abort, RefreshFails, TypeOK
<1>10. ASSUME NEW r \in Replicas, Start(r) PROVE TypeOK'
  BY <1>10, SpecsAreNames DEF TypeOK, Start, pending
<1>11. ASSUME NEW r \in Replicas, SeedBot(r) PROVE TypeOK'
  <2>1. Seeding(r) \in Names
    BY <1>11, SpecsAreNames DEF TypeOK, SeedBot, Seeding
  <2>2. /\ newBots' \in [Processes -> SUBSET Names]
        /\ \A q \in Processes \ {r} : newBots'[q] = newBots[q]
    <3>1. CASE Missing(r)
      <4>1. newBots' = [newBots EXCEPT ![r] = newBots[r] \cup {Seeding(r)}]
        BY <1>11, <3>1 DEF SeedBot
      <4>2. newBots \in [Processes -> SUBSET Names] /\ r \in Processes
        BY DEF TypeOK
      <4>3. newBots[r] \cup {Seeding(r)} \in SUBSET Names
        BY <2>1, <4>2
      <4> HIDE DEF Processes
      <4> QED
        BY <4>1, <4>2, <4>3
    <3>2. CASE ~ Missing(r)
      BY <1>11, <3>2 DEF TypeOK, SeedBot
    <3> QED
      BY <3>1, <3>2
  <2>3. UNCHANGED <<bots, subs, seen, newVersion, spec, crashes>>
        /\ pc' = [pc EXCEPT ![r] = "executable"] /\ spec[r] <= Len(Specs)
    BY <1>11 DEF SeedBot
  <2>4. pc' \in [Processes -> {"start", "find", "insert", "commit", "down", "bot",
                              "executable", "up"} \cup Answered]
    BY <2>3 DEF TypeOK
  <2>5. \A p \in Processes :
          newBots'[p] # {} \/ newVersion'[p] # NoVersion =>
            pc'[p] \in {"commit", "bot", "executable"}
    BY <2>2, <2>3 DEF TypeOK
  <2>6. \A q \in Replicas : pc'[q] = "executable" => spec'[q] <= Len(Specs)
    BY <2>3 DEF TypeOK
  <2> QED
    BY <2>2, <2>3, <2>4, <2>5, <2>6 DEF TypeOK
<1>12. ASSUME NEW r \in Replicas, SeedSubmission(r) PROVE TypeOK'
  <2>1. /\ pc[r] = "executable" /\ spec[r] + 1 \in 1..Len(Specs) + 1
        /\ Seeding(r) \in Names
    BY <1>12, SpecsAreNames DEF TypeOK, SeedSubmission, Seeding
  <2>2. NextVersion(r, Seeding(r)) \in Nat
    BY <2>1 DEF TypeOK, Rows, NextVersion
  <2> QED
    BY <1>12, <2>1, <2>2 DEF TypeOK, SeedSubmission, NextSpec
<1>13. ASSUME NEW r \in Replicas, SeedNothing(r) PROVE TypeOK'
  <2>1. pc[r] = "executable" /\ spec[r] + 1 \in 1..Len(Specs) + 1
    BY <1>13, SpecsAreNames DEF TypeOK, SeedNothing
  <2> QED
    BY <1>13, <2>1 DEF TypeOK, SeedNothing, NextSpec, pending
<1>14. ASSUME NEW r \in Replicas, SeedCommit(r) PROVE TypeOK'
  BY <1>14, CommitType DEF SeedCommit
<1>15. ASSUME NEW r \in Replicas, SeedConflict(r) PROVE TypeOK'
  BY <1>15, RollBackType DEF SeedConflict, TypeOK
<1>16. ASSUME NEW r \in Replicas, CrashReplica(r) PROVE TypeOK'
  BY <1>16, RollBackType, LimitsAssumption DEF CrashReplica, TypeOK
<1>17. ASSUME UNCHANGED vars PROVE TypeOK'
  BY <1>17 DEF vars, TypeOK
<1> QED
  BY <1>1, <1>2, <1>3, <1>4, <1>5, <1>6, <1>7, <1>8, <1>9, <1>10, <1>11,
     <1>12, <1>13, <1>14, <1>15, <1>16, <1>17
  DEF Next, RequestStep, CreateStep, SubmitStep, SeedStep, Settled

(* Every variable keeps its domain, keys are only held within a            *)
(* transaction, and a replica never looks past its list of default bots.   *)
THEOREM TypeCorrect == Spec => []TypeOK
  BY TypeInit, TypeStep, PTL DEF Spec

HIDE DEF Processes, Requests, NoVersion

-----------------------------------------------------------------------------
(* Versions.  What is stored, what is reserved and what was read belong    *)
(* together: a key that is held is the next one of its bot, and a row that *)
(* was read lies behind the committed one.                                 *)

Stored ==
  /\ VersionsChain
  /\ \A n \in Names :
       /\ FirstBots[n].latest <= bots[n].latest
       /\ ~ Exists(n) => bots[n] = NoBot

KeysHeld ==
  \A p \in Processes, n \in Names :
    /\ n \in newBots[p] => ~ Exists(n) /\ NameFree(p, n)
    /\ newVersion[p][n] # 0 =>
         /\ newVersion[p][n] = bots[n].latest + 1
         /\ Exists(n) \/ n \in newBots[p]
         /\ \A q \in Processes \ {p} : newVersion[q][n] = 0

LoadedRows ==
  /\ \A p \in Processes, n \in Names :
       /\ seen[p][n].owner = Nobody => seen[p][n].latest = 0
       /\ seen[p][n].owner # Nobody =>
            /\ Exists(n)
            /\ FirstBots[n].latest <= seen[p][n].latest
            /\ seen[p][n].latest <= bots[n].latest
  /\ \A s \in Submits :
       pc[s] \in {"insert", "commit"} => seen[s][About[s]].owner = By[s]
  /\ \A r \in Replicas :
       pc[r] = "executable" => ~ Missing(r) \/ Seeding(r) \in newBots[r]

RegInv == TypeOK /\ Stored /\ KeysHeld /\ LoadedRows

LEMMA Members ==
  /\ Creates \subseteq Processes /\ Submits \subseteq Processes
  /\ Replicas \subseteq Processes /\ Requests \subseteq Processes
  /\ Creates \subseteq Requests /\ Submits \subseteq Requests
  /\ Creates \cap Submits = {} /\ Requests \cap Replicas = {}
  /\ \A p \in Processes : p \in Creates \/ p \in Submits \/ p \in Replicas
  BY PartiesAssumption DEF Processes, Requests

LEMMA RowTypes ==
  ASSUME TypeOK, NEW n \in Names
  PROVE  /\ bots[n].latest \in Nat /\ bots[n].active \in Nat
         /\ FirstBots[n].latest \in Nat
         /\ \A p \in Processes : /\ seen[p][n].latest \in Nat
                                 /\ newVersion[p][n] \in Nat
  BY FirstBotsAssumption DEF TypeOK, Rows

LEMMA RegInit == Init => RegInv
<1> SUFFICES ASSUME Init PROVE RegInv
  OBVIOUS
<1>1. TypeOK
  BY TypeInit
<1>2. Stored
  <2>1. ASSUME NEW n \in Names
        PROVE  /\ bots[n].latest = FirstBots[n].latest
               /\ bots[n].active = 0
               /\ {s.version : s \in {t \in subs : t.bot = n}} = {}
               /\ ~ Exists(n) => bots[n] = NoBot
    BY FirstBotsAssumption DEF Init, Exists
  <2> QED
    BY <2>1, <1>1, RowTypes DEF Stored, VersionsChain, Init
<1>3. KeysHeld
  BY DEF KeysHeld, Init, NoVersion
<1>4. LoadedRows
  BY Members DEF LoadedRows, Init, NoRows, NoBot
<1> QED
  BY <1>1, <1>2, <1>3, <1>4 DEF RegInv

(* An insert that the unique key lets through takes the next version, and  *)
(* nobody else holds one.                                                  *)
LEMMA NextIsFree ==
  ASSUME RegInv, NEW p \in Processes, NEW n \in Names,
         VersionFree(p, n, NextVersion(p, n)),
         ~ VersionStored(n, NextVersion(p, n)),
         seen[p][n].owner # Nobody \/ n \in newBots[p]
  PROVE  /\ NextVersion(p, n) = bots[n].latest + 1
         /\ Exists(n) \/ n \in newBots[p]
         /\ \A q \in Processes \ {p} : newVersion[q][n] = 0
<1> DEFINE v == NextVersion(p, n)
<1>1. v \notin FirstBots[n].latest + 1 .. bots[n].latest
  BY DEF VersionStored, RegInv, Stored, VersionsChain
<1>2. v = bots[n].latest + 1 /\ (Exists(n) \/ n \in newBots[p])
  <2>1. CASE seen[p][n].owner # Nobody
    BY <1>1, <2>1, RowTypes DEF RegInv, LoadedRows, NextVersion
  <2>2. CASE seen[p][n].owner = Nobody /\ n \in newBots[p]
    BY <2>2, RowTypes DEF RegInv, LoadedRows, KeysHeld, Stored, NoBot, NextVersion
  <2> QED
    BY <2>1, <2>2
<1> QED
  BY <1>2 DEF RegInv, KeysHeld, VersionFree

LEMMA VersionInserted ==
  ASSUME RegInv, NEW p \in Processes, NEW n \in Names,
         Exists(n) \/ n \in newBots'[p],
         \A q \in Processes \ {p} : newVersion[q][n] = 0,
         newVersion' = [newVersion EXCEPT ![p][n] = bots[n].latest + 1],
         newBots' = [newBots EXCEPT ![p] = newBots'[p]],
         newBots[p] \subseteq newBots'[p],
         \A m \in newBots'[p] : m \in Names /\ ~ Exists(m) /\ NameFree(p, m),
         UNCHANGED bots
  PROVE  KeysHeld'
<1>1. \A q \in Processes, m \in Names :
        newVersion'[q][m] = IF q = p /\ m = n THEN bots[n].latest + 1 ELSE newVersion[q][m]
  BY DEF RegInv, TypeOK
<1>2. \A q \in Processes \ {p} : newBots'[q] = newBots[q]
  BY DEF RegInv, TypeOK
<1>3. \A m \in Names : Exists(m)' <=> Exists(m)
  BY DEF Exists
<1> SUFFICES ASSUME NEW q \in Processes, NEW m \in Names
             PROVE  /\ m \in newBots'[q] => ~ Exists(m)' /\ NameFree(q, m)'
                    /\ newVersion'[q][m] # 0 =>
                         /\ newVersion'[q][m] = bots'[m].latest + 1
                         /\ Exists(m)' \/ m \in newBots'[q]
                         /\ \A o \in Processes \ {q} : newVersion'[o][m] = 0
  BY DEF KeysHeld
<1>4. m \in newBots'[q] => ~ Exists(m)' /\ NameFree(q, m)'
  <2>1. CASE q = p
    BY <2>1, <1>2, <1>3 DEF NameFree
  <2>2. CASE q # p
    BY <2>2, <1>2, <1>3 DEF NameFree, RegInv, KeysHeld
  <2> QED
    BY <2>1, <2>2
<1>5. ASSUME newVersion'[q][m] # 0
      PROVE  /\ newVersion'[q][m] = bots'[m].latest + 1
             /\ Exists(m)' \/ m \in newBots'[q]
             /\ \A o \in Processes \ {q} : newVersion'[o][m] = 0
  <2>1. CASE m = n
    BY <1>1, <1>3, <1>5, <2>1
  <2>2. CASE m # n
    BY <1>1, <1>2, <1>3, <1>5, <2>2 DEF RegInv, KeysHeld
  <2> QED
    BY <2>1, <2>2
<1> QED
  BY <1>4, <1>5

(* What a commit does to each row.                                         *)
LEMMA CommitRows ==
  ASSUME RegInv, NEW p \in Processes, NEW place, CommitAs(p, place), NEW n \in Names
  PROVE  /\ Exists(n) => Exists(n)' /\ bots'[n].owner = bots[n].owner
         /\ ~ Exists(n) => (Exists(n)' <=> n \in newBots[p])
         /\ newVersion[p][n] = 0 =>
              bots'[n].latest = bots[n].latest /\ bots'[n].active = bots[n].active
         /\ newVersion[p][n] # 0 =>
              /\ bots'[n].latest = bots[n].latest + 1
              /\ bots'[n].active = bots[n].latest + 1
              /\ Exists(n)'
         /\ ~ Exists(n)' => bots'[n] = bots[n]
<1>1. /\ bots'[n].owner = IF n \in newBots[p] THEN OwnerOf(p) ELSE bots[n].owner
      /\ bots'[n].latest = IF newVersion[p][n] = 0 THEN bots[n].latest ELSE newVersion[p][n]
      /\ bots'[n].active = IF newVersion[p][n] = 0 THEN bots[n].active ELSE newVersion[p][n]
  BY DEF CommitAs
<1>2. n \in newBots[p] => ~ Exists(n)
  BY DEF RegInv, KeysHeld
<1>3. newVersion[p][n] # 0 =>
        newVersion[p][n] = bots[n].latest + 1 /\ (Exists(n) \/ n \in newBots[p])
  BY DEF RegInv, KeysHeld
<1>4. ~ Exists(n)' => bots'[n] = bots[n]
  <2> SUFFICES ASSUME ~ Exists(n)' PROVE bots'[n] = bots[n]
    OBVIOUS
  <2>1. n \notin newBots[p] /\ ~ Exists(n)
    BY <1>1, OwnerType DEF Exists
  <2>2. newVersion[p][n] = 0
    BY <2>1, <1>3
  <2>3. bots'[n] = [owner |-> bots[n].owner, latest |-> bots[n].latest, active |-> bots[n].active]
    BY <2>1, <2>2 DEF CommitAs
  <2>4. bots[n] \in Rows
    BY DEF RegInv, TypeOK
  <2> QED
    BY <2>3, <2>4 DEF Rows
<1> QED
  BY <1>1, <1>2, <1>3, <1>4, OwnerType DEF Exists

LEMMA CommitStored ==
  ASSUME RegInv, NEW p \in Processes, NEW place, CommitAs(p, place)
  PROVE  Stored'
<1> DEFINE V(S, n) == {s.version : s \in {t \in S : t.bot = n}}
           Added == {[bot |-> n, version |-> newVersion[p][n], by |-> p] :
                       n \in {m \in Names : newVersion[p][m] # 0}}
<1>1. subs' = subs \cup Added
  BY DEF CommitAs
<1>2. ASSUME NEW n \in Names
      PROVE  V(subs', n) = IF newVersion[p][n] = 0 THEN V(subs, n)
                           ELSE V(subs, n) \cup {newVersion[p][n]}
  <2>1. \A s \in Added : s.bot = n => newVersion[p][n] # 0 /\ s.version = newVersion[p][n]
    OBVIOUS
  <2>2. newVersion[p][n] # 0 =>
          \E s \in Added : s.bot = n /\ s.version = newVersion[p][n]
    <3> SUFFICES ASSUME newVersion[p][n] # 0
                 PROVE  \E s \in Added : s.bot = n /\ s.version = newVersion[p][n]
      OBVIOUS
    <3> DEFINE new == [bot |-> n, version |-> newVersion[p][n], by |-> p]
    <3>1. new \in Added
      OBVIOUS
    <3>2. new.bot = n /\ new.version = newVersion[p][n]
      OBVIOUS
    <3> QED
      BY <3>1, <3>2
  <2> QED
    BY <1>1, <2>1, <2>2
<1>3. ASSUME NEW n \in Names
      PROVE  /\ V(subs', n) = FirstBots[n].latest + 1 .. bots'[n].latest
             /\ bots'[n].active =
                  IF bots'[n].latest = FirstBots[n].latest THEN 0 ELSE bots'[n].latest
             /\ FirstBots[n].latest <= bots'[n].latest
             /\ ~ Exists(n)' => bots'[n] = NoBot
  <2>1. /\ V(subs, n) = FirstBots[n].latest + 1 .. bots[n].latest
        /\ bots[n].active = IF bots[n].latest = FirstBots[n].latest THEN 0 ELSE bots[n].latest
        /\ FirstBots[n].latest <= bots[n].latest
        /\ ~ Exists(n) => bots[n] = NoBot
    BY DEF RegInv, Stored, VersionsChain
  <2>2. ~ Exists(n)' => bots'[n] = NoBot
    BY <2>1, CommitRows
  <2>3. FirstBots[n].latest \in Nat /\ bots[n].latest \in Nat
    BY RowTypes DEF RegInv
  <2>4. CASE newVersion[p][n] = 0
    BY <1>2, <2>1, <2>2, <2>4, CommitRows
  <2>5. CASE newVersion[p][n] # 0
    <3>1. bots'[n].latest = bots[n].latest + 1 /\ bots'[n].active = bots[n].latest + 1
      BY <2>5, CommitRows
    <3>2. newVersion[p][n] = bots[n].latest + 1
      BY <2>5 DEF RegInv, KeysHeld
    <3>3. V(subs', n) = (FirstBots[n].latest + 1 .. bots[n].latest) \cup {bots[n].latest + 1}
      BY <1>2, <2>1, <2>5, <3>2
    <3>4. (FirstBots[n].latest + 1 .. bots[n].latest) \cup {bots[n].latest + 1}
            = FirstBots[n].latest + 1 .. bots[n].latest + 1
      BY <2>1, <2>3
    <3> QED
      BY <3>1, <3>3, <3>4, <2>1, <2>2, <2>3
  <2> QED
    BY <2>4, <2>5
<1>4. ASSUME NEW s \in subs', NEW t \in subs', s.bot = t.bot, s.version = t.version
      PROVE  s = t
  <2>1. ASSUME NEW a \in subs, NEW b \in Added, a.bot = b.bot
        PROVE  a.version # b.version
    <3>1. PICK n \in Names : /\ newVersion[p][n] # 0
                             /\ b = [bot |-> n, version |-> newVersion[p][n], by |-> p]
      OBVIOUS
    <3>2. a.version \in FirstBots[n].latest + 1 .. bots[n].latest
      BY <2>1, <3>1 DEF RegInv, Stored, VersionsChain
    <3>3. newVersion[p][n] = bots[n].latest + 1
      BY <3>1 DEF RegInv, KeysHeld
    <3> QED
      BY <3>1, <3>2, <3>3, RowTypes DEF RegInv
  <2>2. \A a, b \in subs : a.bot = b.bot /\ a.version = b.version => a = b
    BY DEF RegInv, Stored, VersionsChain
  <2>3. \A a, b \in Added : a.bot = b.bot => a = b
    OBVIOUS
  <2> QED
    BY <1>1, <1>4, <2>1, <2>2, <2>3
<1> QED
  BY <1>3, <1>4 DEF Stored, VersionsChain

LEMMA ReleasedProjects ==
  ASSUME TypeOK, NEW p \in Processes, Released(p)
  PROVE  /\ newBots'[p] = {} /\ \A n \in Names : newVersion'[p][n] = 0
         /\ seen'[p] = NoRows
         /\ \A q \in Processes \ {p} :
              /\ newBots'[q] = newBots[q] /\ newVersion'[q] = newVersion[q]
              /\ seen'[q] = seen[q] /\ spec'[q] = spec[q]
  BY DEF TypeOK, Released, NoVersion

(* The end of a transaction, committed or not: what the others hold and    *)
(* have read stays in order as long as the rows only grow.                 *)
LEMMA EndKeeps ==
  ASSUME RegInv, NEW p \in Processes, NEW place \in Answered \cup {"up", "down"},
         Released(p), GoTo(p, place),
         \A n \in Names :
           /\ Exists(n) => Exists(n)'
           /\ ~ Exists(n) /\ Exists(n)' => n \in newBots[p]
           /\ bots[n].latest <= bots'[n].latest
           /\ newVersion[p][n] = 0 => bots'[n].latest = bots[n].latest,
         TypeOK'
  PROVE  KeysHeld' /\ LoadedRows'
<1>1. ASSUME NEW q \in Processes, NEW n \in Names
      PROVE  /\ n \in newBots'[q] => ~ Exists(n)' /\ NameFree(q, n)'
             /\ newVersion'[q][n] # 0 =>
                  /\ newVersion'[q][n] = bots'[n].latest + 1
                  /\ Exists(n)' \/ n \in newBots'[q]
                  /\ \A o \in Processes \ {q} : newVersion'[o][n] = 0
  <2>1. CASE q = p
    BY <2>1, ReleasedProjects DEF RegInv
  <2>2. CASE q # p
    <3>1. newBots'[q] = newBots[q] /\ newVersion'[q] = newVersion[q]
      BY <2>2, ReleasedProjects DEF RegInv
    <3>2. ASSUME n \in newBots[q] PROVE ~ Exists(n)' /\ NameFree(q, n)'
      BY <2>2, <3>2, ReleasedProjects DEF RegInv, KeysHeld, NameFree
    <3>3. ASSUME newVersion[q][n] # 0
          PROVE  /\ newVersion[q][n] = bots'[n].latest + 1
                 /\ Exists(n)' \/ n \in newBots[q]
                 /\ \A o \in Processes \ {q} : newVersion'[o][n] = 0
      BY <2>2, <3>3, ReleasedProjects DEF RegInv, KeysHeld
    <3> QED
      BY <3>1, <3>2, <3>3
  <2> QED
    BY <2>1, <2>2
<1>2. ASSUME NEW q \in Processes, NEW n \in Names
      PROVE  /\ seen'[q][n].owner = Nobody => seen'[q][n].latest = 0
             /\ seen'[q][n].owner # Nobody =>
                  /\ Exists(n)'
                  /\ FirstBots[n].latest <= seen'[q][n].latest
                  /\ seen'[q][n].latest <= bots'[n].latest
  <2>1. CASE q = p
    BY <2>1, ReleasedProjects DEF RegInv, NoRows, NoBot
  <2>2. CASE q # p
    <3>1. bots'[n].latest \in Nat
      BY DEF TypeOK, Rows
    <3> QED
      BY <2>2, <3>1, ReleasedProjects, RowTypes DEF RegInv, LoadedRows
  <2> QED
    BY <2>1, <2>2
<1>3. \A q \in Processes \ {p} : pc'[q] = pc[q]
  BY DEF GoTo, RegInv, TypeOK
<1>4. pc'[p] \notin {"insert", "commit", "executable"}
  BY DEF GoTo, RegInv, TypeOK, Answered
<1>5. \A s \in Submits :
        pc'[s] \in {"insert", "commit"} => seen'[s][About[s]].owner = By[s]
  BY <1>3, <1>4, Members, ReleasedProjects DEF RegInv, LoadedRows
<1>6. \A r \in Replicas :
        pc'[r] = "executable" => ~ Missing(r)' \/ Seeding(r)' \in newBots'[r]
  BY <1>3, <1>4, Members, ReleasedProjects DEF RegInv, LoadedRows, Missing, Seeding
<1> QED
  BY <1>1, <1>2, <1>5, <1>6 DEF KeysHeld, LoadedRows

LEMMA RollBackKeeps ==
  ASSUME RegInv, NEW p \in Processes, NEW place \in {"rejected", "failed", "down"},
         RollBack(p, place), crashes' \in 0..MaxCrashes
  PROVE  RegInv'
<1>1. TypeOK'
  BY RollBackType DEF RegInv
<1>2. UNCHANGED <<bots, subs>> /\ Released(p) /\ GoTo(p, place)
  BY DEF RollBack
<1>3. Stored'
  BY <1>2 DEF RegInv, Stored, VersionsChain, Exists
<1>4. \A n \in Names : bots'[n] = bots[n] /\ (Exists(n)' <=> Exists(n))
                       /\ bots[n].latest \in Nat
  BY <1>2, RowTypes DEF Exists, RegInv
<1>5. KeysHeld' /\ LoadedRows'
  BY <1>1, <1>2, <1>4, EndKeeps DEF Answered
<1> QED
  BY <1>1, <1>3, <1>5 DEF RegInv

LEMMA CommitKeeps ==
  ASSUME RegInv, NEW p \in Processes, NEW place \in {"accepted", "failed", "up"},
         CommitAs(p, place)
  PROVE  RegInv'
<1>1. TypeOK'
  BY CommitType DEF RegInv
<1>2. Released(p) /\ GoTo(p, place)
  BY DEF CommitAs
<1>3. \A n \in Names : bots[n].latest <= bots'[n].latest
  BY CommitRows, RowTypes DEF RegInv
<1>4. KeysHeld' /\ LoadedRows'
  BY <1>1, <1>2, <1>3, CommitRows, EndKeeps DEF Answered
<1> QED
  BY <1>1, <1>4, CommitStored DEF RegInv

(* A step that leaves the rows, the keys and what was read alone.          *)
LEMMA LookKeeps ==
  ASSUME RegInv, TypeOK', UNCHANGED <<bots, subs, seen, newBots, newVersion>>,
         \A s \in Submits : pc'[s] \in {"insert", "commit"} => pc[s] \in {"insert", "commit"},
         \A r \in Replicas : pc'[r] = "executable" => pc[r] = "executable" /\ spec'[r] = spec[r]
  PROVE  RegInv'
<1>1. Stored' /\ KeysHeld'
  BY DEF RegInv, Stored, VersionsChain, KeysHeld, Exists, NameFree
<1>2. LoadedRows'
  BY DEF RegInv, LoadedRows, Exists, Missing, Seeding
<1> QED
  BY <1>1, <1>2 DEF RegInv

LEMMA RegStep == RegInv /\ [Next]_vars => RegInv'
<1> SUFFICES ASSUME RegInv, [Next]_vars PROVE RegInv'
  OBVIOUS
<1> TypeOK /\ TypeOK'
  BY TypeStep DEF RegInv
<1> USE Members
<1>1. ASSUME NEW c \in Creates, EnforceLimit(c) PROVE RegInv'
  BY <1>1, LookKeeps DEF EnforceLimit, pending, GoTo, TypeOK
<1>2. ASSUME NEW c \in Creates, FindName(c) PROVE RegInv'
  BY <1>2, LookKeeps DEF FindName, pending, GoTo, TypeOK
<1>3. ASSUME NEW c \in Creates, InsertBot(c) PROVE RegInv'
  <2> DEFINE n == About[c]
  <2>1. /\ UNCHANGED <<bots, subs, seen, spec>> /\ ~ Exists(n) /\ NameFree(c, n)
        /\ newBots' = [newBots EXCEPT ![c] = {n}]
        /\ newVersion' = [newVersion EXCEPT ![c][n] = 1]
        /\ pc' = [pc EXCEPT ![c] = "commit"] /\ n \in Names
    BY <1>3, PartiesAssumption DEF InsertBot, GoTo
  <2>2. newBots[c] = {}
    BY <1>3 DEF InsertBot, TypeOK
  <2>3. bots[n].latest = 0
    BY <2>1 DEF RegInv, Stored, NoBot
  <2>4. \A q \in Processes \ {c} : newVersion[q][n] = 0
    BY <2>1 DEF RegInv, KeysHeld, NameFree
  <2>5. newBots'[c] = {n}
    BY <2>1 DEF TypeOK
  <2>6. KeysHeld'
    <3>1. bots[n].latest + 1 = 1
      BY <2>3
    <3>2. newVersion' = [newVersion EXCEPT ![c][n] = bots[n].latest + 1]
      BY <2>1, <3>1
    <3>3. newBots' = [newBots EXCEPT ![c] = newBots'[c]]
      BY <2>1, <2>5
    <3> HIDE DEF n
    <3> QED
      BY <2>1, <2>2, <2>4, <2>5, <3>2, <3>3, VersionInserted
  <2>7. Stored'
    BY <2>1 DEF RegInv, Stored, VersionsChain, Exists
  <2>8. LoadedRows'
    BY <2>1 DEF RegInv, LoadedRows, Exists, Missing, Seeding, TypeOK
  <2> QED
    BY <2>6, <2>7, <2>8 DEF RegInv
<1>4. ASSUME NEW c \in Creates, NameTaken(c) PROVE RegInv'
  BY <1>4, RollBackKeeps DEF NameTaken, TypeOK
<1>5. ASSUME NEW s \in Submits, LoadBot(s) PROVE RegInv'
  <2> DEFINE n == About[s]
  <2>1. CASE bots[n].owner # By[s]
    BY <1>5, <2>1, LookKeeps DEF LoadBot, pending, GoTo, TypeOK
  <2>2. CASE bots[n].owner = By[s]
    <3>1. /\ seen' = [seen EXCEPT ![s][n] = bots[n]] /\ n \in Names
          /\ pc' = [pc EXCEPT ![s] = "insert"]
          /\ UNCHANGED <<bots, subs, newBots, newVersion, spec>>
      BY <1>5, <2>2, PartiesAssumption DEF LoadBot, GoTo, pending
    <3>2. Stored' /\ KeysHeld'
      BY <3>1 DEF RegInv, Stored, VersionsChain, KeysHeld, Exists, NameFree
    <3>3. \A q \in Processes, m \in Names :
            seen'[q][m] = IF q = s /\ m = n THEN bots[n] ELSE seen[q][m]
      BY <3>1 DEF TypeOK
    <3>4. By[s] # Nobody /\ Exists(n)
      BY <2>2, PartiesAssumption DEF Exists
    <3>5. \A q \in Processes, m \in Names :
            /\ seen'[q][m].owner = Nobody => seen'[q][m].latest = 0
            /\ seen'[q][m].owner # Nobody =>
                 /\ Exists(m)'
                 /\ FirstBots[m].latest <= seen'[q][m].latest
                 /\ seen'[q][m].latest <= bots'[m].latest
      BY <2>2, <3>1, <3>3, <3>4, RowTypes DEF RegInv, Stored, LoadedRows, Exists
    <3>6. \A t \in Submits :
            pc'[t] \in {"insert", "commit"} => seen'[t][About[t]].owner = By[t]
      BY <2>2, <3>1, <3>3, PartiesAssumption DEF RegInv, LoadedRows, TypeOK
    <3>7. \A r \in Replicas : pc'[r] = "executable" =>
            ~ Missing(r)' \/ Seeding(r)' \in newBots'[r]
      BY <3>1 DEF RegInv, LoadedRows, TypeOK, Missing, Seeding
    <3> QED
      BY <3>2, <3>5, <3>6, <3>7 DEF RegInv, LoadedRows
  <2> QED
    BY <2>1, <2>2
<1>6. ASSUME NEW s \in Submits, InsertSubmission(s) PROVE RegInv'
  <2> DEFINE n == About[s]
  <2>1. /\ UNCHANGED <<bots, subs, seen, newBots, spec>> /\ n \in Names
        /\ VersionFree(s, n, NextVersion(s, n)) /\ ~ VersionStored(n, NextVersion(s, n))
        /\ newVersion' = [newVersion EXCEPT ![s][n] = NextVersion(s, n)]
        /\ pc[s] = "insert" /\ pc' = [pc EXCEPT ![s] = "commit"]
    BY <1>6, PartiesAssumption DEF InsertSubmission, GoTo
  <2>2. seen[s][n].owner # Nobody
    BY <2>1, PartiesAssumption DEF RegInv, LoadedRows
  <2>3. /\ NextVersion(s, n) = bots[n].latest + 1 /\ (Exists(n) \/ n \in newBots[s])
        /\ \A q \in Processes \ {s} : newVersion[q][n] = 0
    BY <2>1, <2>2, NextIsFree
  <2>4. /\ newBots' = [newBots EXCEPT ![s] = newBots'[s]] /\ newBots'[s] = newBots[s]
        /\ \A m \in newBots[s] : m \in Names /\ ~ Exists(m) /\ NameFree(s, m)
    BY <2>1 DEF TypeOK, RegInv, KeysHeld
  <2>5. KeysHeld'
    BY <2>1, <2>3, <2>4, VersionInserted
  <2>6. Stored'
    BY <2>1 DEF RegInv, Stored, VersionsChain, Exists
  <2>7. LoadedRows'
    BY <2>1 DEF RegInv, LoadedRows, Exists, Missing, Seeding, TypeOK
  <2> QED
    BY <2>5, <2>6, <2>7 DEF RegInv
<1>7. ASSUME NEW s \in Submits, SubmissionConflict(s) PROVE RegInv'
  BY <1>7, RollBackKeeps DEF SubmissionConflict, TypeOK
<1>8. ASSUME NEW p \in Requests, CommitAccepted(p) PROVE RegInv'
  BY <1>8, CommitKeeps DEF CommitAccepted
<1>9. ASSUME NEW p \in Requests, Abort(p) \/ RefreshFails(p) PROVE RegInv'
  BY <1>9, RollBackKeeps, CommitKeeps DEF Abort, RefreshFails, TypeOK
<1>10. ASSUME NEW r \in Replicas, Start(r) PROVE RegInv'
  <2>1. /\ seen' = [seen EXCEPT ![r] = bots] /\ pc' = [pc EXCEPT ![r] = "bot"]
        /\ UNCHANGED <<bots, subs, newBots, newVersion, spec>>
    BY <1>10 DEF Start, GoTo, pending
  <2>2. Stored' /\ KeysHeld'
    BY <2>1 DEF RegInv, Stored, VersionsChain, KeysHeld, Exists, NameFree
  <2>3. seen'[r] = bots /\ \A q \in Processes \ {r} : seen'[q] = seen[q]
    BY <2>1 DEF TypeOK
  <2>4. \A q \in Processes, m \in Names :
          /\ seen'[q][m].owner = Nobody => seen'[q][m].latest = 0
          /\ seen'[q][m].owner # Nobody =>
               /\ Exists(m)'
               /\ FirstBots[m].latest <= seen'[q][m].latest
               /\ seen'[q][m].latest <= bots'[m].latest
    BY <2>1, <2>3, RowTypes DEF RegInv, Stored, LoadedRows, Exists, NoBot
  <2>5. \A s \in Submits :
          pc'[s] \in {"insert", "commit"} => seen'[s][About[s]].owner = By[s]
    BY <2>1, <2>3 DEF RegInv, LoadedRows, TypeOK
  <2>6. \A q \in Replicas : pc'[q] = "executable" =>
          ~ Missing(q)' \/ Seeding(q)' \in newBots'[q]
    BY <2>1, <2>3 DEF RegInv, LoadedRows, TypeOK, Missing, Seeding
  <2> QED
    BY <2>2, <2>4, <2>5, <2>6 DEF RegInv, LoadedRows
<1>11. ASSUME NEW r \in Replicas, SeedBot(r) PROVE RegInv'
  <2> DEFINE n == Seeding(r)
  <2>1. /\ UNCHANGED <<bots, subs, seen, newVersion, spec>>
        /\ pc' = [pc EXCEPT ![r] = "executable"] /\ n \in Names
    BY <1>11, SpecsAreNames DEF SeedBot, GoTo, Seeding, TypeOK
  <2>2. IF Missing(r)
        THEN /\ NameFree(r, n) /\ ~ Exists(n)
             /\ newBots'[r] = newBots[r] \cup {n}
        ELSE newBots'[r] = newBots[r]
    BY <1>11 DEF SeedBot, TypeOK
  <2>3. \A q \in Processes \ {r} : newBots'[q] = newBots[q]
    BY <1>11 DEF SeedBot, TypeOK
  <2>4. KeysHeld'
    <3>1. \A m \in newBots'[r] \ newBots[r] : ~ Exists(m) /\ NameFree(r, m)
      BY <2>2
    <3>2. newBots[r] \subseteq newBots'[r]
      BY <2>2
    <3> QED
      BY <2>1, <2>3, <3>1, <3>2 DEF RegInv, KeysHeld, NameFree, Exists
  <2>5. Stored'
    BY <2>1 DEF RegInv, Stored, VersionsChain, Exists
  <2>6. LoadedRows'
    BY <2>1, <2>2, <2>3 DEF RegInv, LoadedRows, Exists, Missing, Seeding, TypeOK
  <2> QED
    BY <2>4, <2>5, <2>6 DEF RegInv
<1>12. ASSUME NEW r \in Replicas, SeedSubmission(r) PROVE RegInv'
  <2> DEFINE n == Seeding(r)
  <2>1. /\ UNCHANGED <<bots, subs, seen, newBots>>
        /\ pc[r] = "executable" /\ pc' = [pc EXCEPT ![r] = "bot"]
        /\ spec' = [spec EXCEPT ![r] = spec[r] + 1]
        /\ VersionFree(r, n, NextVersion(r, n)) /\ ~ VersionStored(n, NextVersion(r, n))
        /\ newVersion' = [newVersion EXCEPT ![r][n] = NextVersion(r, n)]
    BY <1>12 DEF SeedSubmission, NextSpec, GoTo
  <2>2. n \in Names
    BY <2>1, SpecsAreNames DEF Seeding, TypeOK
  <2>3. seen[r][n].owner # Nobody \/ n \in newBots[r]
    BY <2>1 DEF RegInv, LoadedRows, Missing
  <2>4. /\ NextVersion(r, n) = bots[n].latest + 1 /\ (Exists(n) \/ n \in newBots[r])
        /\ \A q \in Processes \ {r} : newVersion[q][n] = 0
    BY <2>1, <2>2, <2>3, NextIsFree
  <2>5. /\ newBots' = [newBots EXCEPT ![r] = newBots'[r]] /\ newBots'[r] = newBots[r]
        /\ \A m \in newBots[r] : m \in Names /\ ~ Exists(m) /\ NameFree(r, m)
    BY <2>1 DEF TypeOK, RegInv, KeysHeld
  <2>6. KeysHeld'
    BY <2>1, <2>2, <2>4, <2>5, VersionInserted
  <2>7. Stored'
    BY <2>1 DEF RegInv, Stored, VersionsChain, Exists
  <2>8. LoadedRows'
    <3>1. \A q \in Processes \ {r} : pc'[q] = pc[q] /\ spec'[q] = spec[q]
      BY <2>1 DEF TypeOK
    <3>2. pc'[r] = "bot"
      BY <2>1 DEF TypeOK
    <3>3. \A q \in Replicas : pc'[q] = "executable" => pc[q] = "executable" /\ spec'[q] = spec[q]
      BY <3>1, <3>2
    <3>4. \A q \in Replicas : pc'[q] = "executable" =>
            ~ Missing(q)' \/ Seeding(q)' \in newBots'[q]
      BY <2>1, <3>3 DEF RegInv, LoadedRows, Missing, Seeding
    <3>5. \A s \in Submits :
            pc'[s] \in {"insert", "commit"} => seen'[s][About[s]].owner = By[s]
      BY <2>1, <3>1 DEF RegInv, LoadedRows
    <3> QED
      BY <2>1, <3>4, <3>5 DEF RegInv, LoadedRows, Exists
  <2> QED
    BY <2>6, <2>7, <2>8 DEF RegInv
<1>13. ASSUME NEW r \in Replicas, SeedNothing(r) PROVE RegInv'
  BY <1>13, LookKeeps DEF SeedNothing, NextSpec, pending, GoTo, TypeOK
<1>14. ASSUME NEW r \in Replicas, SeedCommit(r) PROVE RegInv'
  BY <1>14, CommitKeeps DEF SeedCommit
<1>15. ASSUME NEW r \in Replicas, SeedConflict(r) PROVE RegInv'
  BY <1>15, RollBackKeeps DEF SeedConflict, TypeOK
<1>16. ASSUME NEW r \in Replicas, CrashReplica(r) PROVE RegInv'
  BY <1>16, RollBackKeeps, LimitsAssumption DEF CrashReplica, TypeOK
<1>17. ASSUME UNCHANGED vars PROVE RegInv'
  BY <1>17, LookKeeps DEF vars
<1> QED
  BY <1>1, <1>2, <1>3, <1>4, <1>5, <1>6, <1>7, <1>8, <1>9, <1>10, <1>11,
     <1>12, <1>13, <1>14, <1>15, <1>16, <1>17
  DEF Next, RequestStep, CreateStep, SubmitStep, SeedStep, Settled

(* The stored versions of every bot are consecutive and the active one is  *)
(* the last, whoever competes for the next one.                            *)
THEOREM VersionsChained == Spec => []VersionsChain
<1>1. RegInv => VersionsChain
  BY DEF RegInv, Stored
<1> QED
  BY RegInit, RegStep, <1>1, PTL DEF Spec

(* Only a commit changes what is stored.                                   *)
LEMMA OnlyCommitsStore ==
  ASSUME RegInv, [Next]_vars
  PROVE  \/ UNCHANGED <<bots, subs>>
         \/ \E p \in Requests :
              pc[p] = "commit" /\ (CommitAs(p, "accepted") \/ CommitAs(p, "failed"))
         \/ \E r \in Replicas : pc[r] = "bot" /\ spec[r] > Len(Specs) /\ CommitAs(r, "up")
<1>1. ASSUME NEW c \in Creates, CreateStep(c) PROVE UNCHANGED <<bots, subs>>
  BY <1>1 DEF CreateStep, EnforceLimit, FindName, InsertBot, NameTaken, RollBack
<1>2. ASSUME NEW s \in Submits, SubmitStep(s) PROVE UNCHANGED <<bots, subs>>
  BY <1>2 DEF SubmitStep, LoadBot, InsertSubmission, SubmissionConflict, RollBack
<1>3. ASSUME NEW r \in Replicas, SeedStep(r), ~ SeedCommit(r)
      PROVE  UNCHANGED <<bots, subs>>
  BY <1>3 DEF SeedStep, Start, SeedBot, SeedSubmission, SeedNothing, SeedConflict, RollBack
<1>4. ASSUME NEW p \in Processes, Abort(p) \/ CrashReplica(p)
      PROVE  UNCHANGED <<bots, subs>>
  BY <1>4 DEF Abort, CrashReplica, RollBack
<1>5. ASSUME Settled \/ UNCHANGED vars PROVE UNCHANGED <<bots, subs>>
  BY <1>5 DEF Settled, vars
<1> QED
  BY <1>1, <1>2, <1>3, <1>4, <1>5, Members
  DEF Next, RequestStep, CommitAccepted, RefreshFails, SeedCommit

(* A bot keeps its owner and its active submission only gives way to a     *)
(* newer one.                                                              *)
THEOREM ActiveGrows == Spec => ActiveOnlyGrows
<1> DEFINE Grows ==
      \A n \in Names :
        /\ Exists(n) => bots'[n].owner = bots[n].owner
        /\ bots'[n] # bots[n] /\ Exists(n) =>
             bots'[n].active > bots[n].active /\ bots'[n].latest > bots[n].latest
<1>1. RegInv /\ [Next]_vars => [Grows]_vars
  <2> SUFFICES ASSUME RegInv, [Next]_vars PROVE Grows
    OBVIOUS
  <2>1. CASE UNCHANGED <<bots, subs>>
    BY <2>1
  <2>2. ASSUME NEW p \in Processes, NEW place, CommitAs(p, place) PROVE Grows
    <3> SUFFICES ASSUME NEW n \in Names, Exists(n)
                 PROVE  /\ bots'[n].owner = bots[n].owner
                        /\ bots'[n] # bots[n] => /\ bots'[n].active > bots[n].active
                                                 /\ bots'[n].latest > bots[n].latest
      OBVIOUS
    <3>1. bots'[n].owner = bots[n].owner
      BY <2>2, CommitRows
    <3>2. CASE newVersion[p][n] = 0
      <4>1. bots'[n] = [owner |-> bots'[n].owner, latest |-> bots'[n].latest,
                        active |-> bots'[n].active]
        BY <2>2 DEF CommitAs
      <4>2. bots[n] \in Rows
        BY DEF RegInv, TypeOK
      <4>3. bots'[n] = bots[n]
        BY <2>2, <3>1, <3>2, <4>1, <4>2, CommitRows DEF Rows
      <4> QED
        BY <3>1, <4>3
    <3>3. CASE newVersion[p][n] # 0
      <4>1. bots[n].active <= bots[n].latest
        BY RowTypes DEF RegInv, Stored, VersionsChain
      <4>2. bots'[n].latest = bots[n].latest + 1 /\ bots'[n].active = bots[n].latest + 1
        BY <2>2, <3>3, CommitRows
      <4> QED
        BY <3>1, <4>1, <4>2, RowTypes DEF RegInv
    <3> QED
      BY <3>2, <3>3
  <2> QED
    BY <2>1, <2>2, OnlyCommitsStore, Members
<1> QED
  BY RegInit, RegStep, <1>1, PTL DEF Spec, ActiveOnlyGrows

-----------------------------------------------------------------------------
(* The limit of bots.  A create holds its user's lock from the count to    *)
(* the end of its transaction, so the count still holds when it commits.   *)

InLimit(c) == pc[c] \in {"find", "insert", "commit"}

QuotaInv ==
  /\ QuotaRespected
  /\ \A c \in Creates :
       /\ newBots[c] \subseteq {About[c]}
       /\ InLimit(c) => Cardinality(BotsOf(By[c])) < MaxBots
       /\ \A d \in Creates : InLimit(c) /\ InLimit(d) /\ By[c] = By[d] => c = d
  /\ \A s \in Submits : newBots[s] = {}

LEMMA BotsAreFinite ==
  ASSUME NEW u
  PROVE  IsFiniteSet(BotsOf(u)) /\ Cardinality(BotsOf(u)) \in Nat
<1>1. BotsOf(u) \subseteq Names
  BY DEF BotsOf
<1> QED
  BY <1>1, PartiesAssumption, FS_Subset, FS_CardinalityType

(* A step that adds no bot, sends nobody into the lock but who found it    *)
(* free, and inserts none but the bot it is about.                         *)
LEMMA QuotaKeeps ==
  ASSUME QuotaInv, NEW p \in Processes,
         \A u \in Users : BotsOf(u)' = BotsOf(u),
         \A q \in Processes \ {p} : pc'[q] = pc[q] /\ newBots'[q] = newBots[q],
         p \in Creates => newBots'[p] \subseteq {About[p]},
         p \in Submits => newBots'[p] = {},
         p \in Creates /\ InLimit(p)' =>
           \/ InLimit(p)
           \/ LimitLockFree(By[p]) /\ Cardinality(BotsOf(By[p])) < MaxBots
  PROVE  QuotaInv'
<1> USE Members, PartiesAssumption DEF Requests
<1>1. QuotaRespected'
  BY DEF QuotaInv, QuotaRespected
<1>2. ASSUME NEW c \in Creates
      PROVE  /\ newBots'[c] \subseteq {About[c]}
             /\ InLimit(c)' => Cardinality(BotsOf(By[c]))' < MaxBots
  BY DEF QuotaInv, InLimit
<1>3. ASSUME NEW c \in Creates, NEW d \in Creates, InLimit(c)', InLimit(d)', By[c] = By[d]
      PROVE  c = d
  <2>1. \A e \in Creates \ {p} : InLimit(e)' <=> InLimit(e)
    BY DEF InLimit
  <2>2. \A e \in Creates : InLimit(e) => e \in Creating(By[e])
    BY DEF InLimit, Creating
  <2>3. p \in Creates /\ LimitLockFree(By[p]) =>
          \A e \in Creates : By[e] = By[p] => ~ InLimit(e)
    BY <2>2 DEF LimitLockFree
  <2> QED
    BY <1>3, <2>1, <2>3 DEF QuotaInv
<1>4. \A s \in Submits : newBots'[s] = {}
  BY DEF QuotaInv
<1> QED
  BY <1>1, <1>2, <1>3, <1>4 DEF QuotaInv

LEMMA QuotaCommit ==
  ASSUME RegInv, QuotaInv, NEW p \in Processes, NEW place \in {"accepted", "failed", "up"},
         CommitAs(p, place), p \in Creates => InLimit(p)
  PROVE  QuotaInv'
<1> USE Members, PartiesAssumption DEF Requests
<1>1. /\ \A q \in Processes \ {p} : pc'[q] = pc[q] /\ newBots'[q] = newBots[q]
      /\ newBots'[p] = {} /\ pc'[p] = place
  BY ReleasedProjects DEF CommitAs, GoTo, RegInv, TypeOK
<1>2. \A n \in Names : n \in newBots[p] => bots[n].owner = Nobody
  BY DEF RegInv, KeysHeld, Exists
<1>3. \A n \in Names :
        bots'[n].owner = IF n \in newBots[p] THEN OwnerOf(p) ELSE bots[n].owner
  BY DEF CommitAs
<1>4. CASE p \notin Creates
  <2>1. \A u \in Users : BotsOf(u)' = BotsOf(u)
    <3>1. CASE p \in Submits
      BY <1>3, <3>1 DEF BotsOf, QuotaInv
    <3>2. CASE p \in Replicas
      <4>1. OwnerOf(p) = System
        BY <3>2 DEF OwnerOf
      <4>2. \A u \in Users, n \in Names :
              bots'[n].owner = u <=> bots[n].owner = u
        BY <1>2, <1>3, <4>1
      <4> QED
        BY <4>2 DEF BotsOf
    <3> QED
      BY <1>4, <3>1, <3>2
  <2> QED
    <3>1. p \in Submits => newBots'[p] = {}
      BY <1>1
    <3> QED
      BY <1>1, <1>4, <2>1, <3>1, QuotaKeeps
<1>5. CASE p \in Creates
  <2>1. OwnerOf(p) = By[p] /\ newBots[p] \subseteq {About[p]}
    BY <1>5 DEF OwnerOf, QuotaInv
  <2>2. \A u \in Users : u # By[p] => BotsOf(u)' = BotsOf(u)
    BY <1>2, <1>3, <2>1 DEF BotsOf
  <2>3. BotsOf(By[p])' \subseteq BotsOf(By[p]) \cup {About[p]}
    BY <1>3, <2>1 DEF BotsOf
  <2>4. Cardinality(BotsOf(By[p]))' <= Cardinality(BotsOf(By[p])) + 1
    <3>1. /\ IsFiniteSet(BotsOf(By[p]) \cup {About[p]})
          /\ Cardinality(BotsOf(By[p]) \cup {About[p]}) \in Nat
          /\ Cardinality(BotsOf(By[p]) \cup {About[p]}) <= Cardinality(BotsOf(By[p])) + 1
      <4> DEFINE B == BotsOf(By[p])
      <4>1. IsFiniteSet(B) /\ Cardinality(B) \in Nat
        BY BotsAreFinite
      <4>2. /\ IsFiniteSet(B \cup {About[p]})
            /\ Cardinality(B \cup {About[p]}) =
                 IF About[p] \in B THEN Cardinality(B) ELSE Cardinality(B) + 1
        <5> HIDE DEF B
        <5> QED
          BY <4>1, FS_AddElement
      <4> QED
        BY <4>1, <4>2
    <3>2. /\ Cardinality(BotsOf(By[p])') \in Nat
          /\ Cardinality(BotsOf(By[p])') <= Cardinality(BotsOf(By[p]) \cup {About[p]})
      BY <2>3, <3>1, FS_Subset, FS_CardinalityType
    <3> QED
      BY <3>1, <3>2, BotsAreFinite
  <2>5. Cardinality(BotsOf(By[p])) < MaxBots
    BY <1>5 DEF QuotaInv
  <2>6. QuotaRespected'
    <3> SUFFICES ASSUME NEW u \in Users PROVE Cardinality(BotsOf(u)') <= MaxBots
      BY DEF QuotaRespected
    <3>1. CASE u = By[p]
      <4>1. Cardinality(BotsOf(u)') \in Nat
        <5>1. BotsOf(u)' \subseteq Names
          BY DEF BotsOf
        <5> QED
          BY <5>1, FS_Subset, FS_CardinalityType
      <4> QED
        BY <2>4, <2>5, <3>1, <4>1, BotsAreFinite, LimitsAssumption
    <3>2. CASE u # By[p]
      BY <2>2, <3>2 DEF QuotaInv, QuotaRespected
    <3> QED
      BY <3>1, <3>2
  <2>7. ASSUME NEW c \in Creates, InLimit(c)'
        PROVE  InLimit(c) /\ c # p /\ By[c] # By[p]
    <3>1. c # p
      BY <1>1, <2>7 DEF InLimit
    <3>2. InLimit(c)
      BY <1>1, <2>7, <3>1 DEF InLimit
    <3> QED
      BY <1>5, <3>1, <3>2 DEF QuotaInv
  <2>8. \A c \in Creates :
          /\ newBots'[c] \subseteq {About[c]}
          /\ InLimit(c)' => Cardinality(BotsOf(By[c]))' < MaxBots
          /\ \A d \in Creates : InLimit(c)' /\ InLimit(d)' /\ By[c] = By[d] => c = d
    BY <1>1, <2>2, <2>7 DEF QuotaInv
  <2>9. \A s \in Submits : newBots'[s] = {}
    BY <1>1 DEF QuotaInv
  <2> QED
    BY <2>6, <2>8, <2>9 DEF QuotaInv
<1> QED
  BY <1>4, <1>5

LEMMA QuotaInit == Init => QuotaInv
<1> SUFFICES ASSUME Init PROVE QuotaInv
  OBVIOUS
<1>1. \A u \in Users : BotsOf(u) = {n \in Names : FirstBots[n].owner = u}
  BY DEF Init, BotsOf
<1>2. QuotaRespected
  BY <1>1, QuotaAssumption DEF QuotaRespected
<1>3. \A c \in Creates : ~ InLimit(c)
  BY Members DEF Init, InLimit
<1> QED
  BY <1>2, <1>3, Members DEF Init, QuotaInv

LEMMA QuotaStep == RegInv /\ QuotaInv /\ [Next]_vars => QuotaInv'
<1> SUFFICES ASSUME RegInv, QuotaInv, [Next]_vars PROVE QuotaInv'
  OBVIOUS
<1> TypeOK
  BY DEF RegInv
<1> USE Members
<1>1. ASSUME NEW p \in Processes, NEW place \in {"rejected", "failed", "down"}, RollBack(p, place)
      PROVE  QuotaInv'
  <2>1. /\ UNCHANGED bots /\ newBots'[p] = {} /\ pc'[p] = place
        /\ \A q \in Processes \ {p} : pc'[q] = pc[q] /\ newBots'[q] = newBots[q]
    BY <1>1, ReleasedProjects DEF RollBack, GoTo, TypeOK
  <2> QED
    BY <2>1, QuotaKeeps DEF BotsOf, InLimit
<1>2. ASSUME NEW p \in Processes, NEW place, UNCHANGED <<bots, newBots>>, GoTo(p, place),
             p \in Creates /\ place \in {"find", "insert", "commit"} =>
               \/ InLimit(p)
               \/ LimitLockFree(By[p]) /\ Cardinality(BotsOf(By[p])) < MaxBots
      PROVE  QuotaInv'
  <2>1. pc'[p] = place /\ \A q \in Processes \ {p} : pc'[q] = pc[q]
    BY <1>2 DEF GoTo, TypeOK
  <2>2. /\ p \in Creates => newBots'[p] \subseteq {About[p]}
        /\ p \in Submits => newBots'[p] = {}
    BY <1>2 DEF QuotaInv
  <2> QED
    BY <1>2, <2>1, <2>2, QuotaKeeps DEF BotsOf, InLimit
<1>3. ASSUME NEW c \in Creates, CreateStep(c) PROVE QuotaInv'
  <2>1. CASE EnforceLimit(c)
    BY <1>2, <2>1 DEF EnforceLimit, pending
  <2>2. CASE FindName(c)
    BY <1>2, <2>2 DEF FindName, pending, InLimit
  <2>3. CASE InsertBot(c)
    <3>1. /\ UNCHANGED bots /\ newBots'[c] = {About[c]} /\ InLimit(c)
          /\ \A q \in Processes \ {c} : pc'[q] = pc[q] /\ newBots'[q] = newBots[q]
      BY <2>3 DEF InsertBot, GoTo, TypeOK, InLimit
    <3> QED
      BY <3>1, QuotaKeeps DEF BotsOf
  <2>4. CASE NameTaken(c)
    BY <1>1, <2>4 DEF NameTaken
  <2> QED
    BY <1>3, <2>1, <2>2, <2>3, <2>4 DEF CreateStep
<1>4. ASSUME NEW s \in Submits, SubmitStep(s) PROVE QuotaInv'
  <2>1. CASE LoadBot(s)
    <3>1. \E place : UNCHANGED <<bots, newBots>> /\ GoTo(s, place)
      BY <2>1 DEF LoadBot, pending
    <3> QED
      BY <1>2, <3>1
  <2>2. CASE InsertSubmission(s)
    BY <1>2, <2>2 DEF InsertSubmission
  <2>3. CASE SubmissionConflict(s)
    BY <1>1, <2>3 DEF SubmissionConflict
  <2> QED
    BY <1>4, <2>1, <2>2, <2>3 DEF SubmitStep
<1>5. ASSUME NEW p \in Requests, CommitAccepted(p) PROVE QuotaInv'
  BY <1>5, QuotaCommit DEF CommitAccepted, InLimit
<1>6. ASSUME NEW p \in Requests, Abort(p) \/ RefreshFails(p) PROVE QuotaInv'
  BY <1>1, <1>6, QuotaCommit DEF Abort, RefreshFails, InLimit
<1>7. ASSUME NEW r \in Replicas, SeedStep(r) PROVE QuotaInv'
  <2>1. CASE Start(r)
    BY <1>2, <2>1 DEF Start, pending
  <2>2. CASE SeedBot(r)
    <3>1. /\ UNCHANGED bots
          /\ \A q \in Processes \ {r} : pc'[q] = pc[q] /\ newBots'[q] = newBots[q]
      BY <2>2 DEF SeedBot, GoTo, TypeOK
    <3> QED
      BY <3>1, QuotaKeeps DEF BotsOf
  <2>3. CASE SeedSubmission(r)
    BY <1>2, <2>3 DEF SeedSubmission, NextSpec
  <2>4. CASE SeedNothing(r)
    BY <1>2, <2>4 DEF SeedNothing, NextSpec, pending
  <2>5. CASE SeedCommit(r)
    BY <2>5, QuotaCommit DEF SeedCommit
  <2>6. CASE SeedConflict(r)
    BY <1>1, <2>6 DEF SeedConflict
  <2> QED
    BY <1>7, <2>1, <2>2, <2>3, <2>4, <2>5, <2>6 DEF SeedStep
<1>8. ASSUME NEW r \in Replicas, CrashReplica(r) PROVE QuotaInv'
  BY <1>1, <1>8 DEF CrashReplica
<1>9. ASSUME UNCHANGED vars PROVE QuotaInv'
  BY <1>9 DEF vars, QuotaInv, QuotaRespected, BotsOf, InLimit
<1> QED
  BY <1>3, <1>4, <1>5, <1>6, <1>7, <1>8, <1>9 DEF Next, RequestStep, Settled

(* However many requests of a user run at a time, their bots stay within   *)
(* the limit.                                                              *)
THEOREM BotQuotaKept == Spec => []QuotaRespected
<1>1. QuotaInv => QuotaRespected
  BY DEF QuotaInv
<1> QED
  BY RegInit, RegStep, QuotaInit, QuotaStep, <1>1, PTL DEF Spec

-----------------------------------------------------------------------------
(* Answers.  Before its commit a request has inserted the version it is    *)
(* about, and the bot it is about is its user's.                           *)

AnswerInv ==
  /\ AnswersAreTrue
  /\ \A p \in Requests : pc[p] = "commit" => newVersion[p][About[p]] # 0
  /\ \A c \in Creates : pc[c] = "commit" => About[c] \in newBots[c]
  /\ \A s \in Submits :
       pc[s] \in {"insert", "commit"} => bots[About[s]].owner = By[s]

LEMMA Parties ==
  /\ \A p \in Requests : About[p] \in Names /\ By[p] \in Users /\ By[p] # Nobody
                        /\ OwnerOf(p) = By[p]
  BY PartiesAssumption DEF OwnerOf

LEMMA AnswerInit == Init => AnswerInv
  BY Members DEF Init, AnswerInv, AnswersAreTrue

(* A step of p that stores nothing and answers nobody with 201.            *)
LEMMA AnswerKeeps ==
  ASSUME AnswerInv, NEW p \in Processes, UNCHANGED <<bots, subs>>,
         \A q \in Processes \ {p} : /\ pc'[q] = pc[q] /\ newBots'[q] = newBots[q]
                                    /\ newVersion'[q] = newVersion[q],
         p \in Requests => pc[p] \notin {"accepted", "failed"} /\ pc'[p] # "accepted",
         p \in Requests /\ pc'[p] = "commit" => newVersion'[p][About[p]] # 0,
         p \in Creates /\ pc'[p] = "commit" => About[p] \in newBots'[p],
         p \in Submits /\ pc'[p] \in {"insert", "commit"} =>
           bots[About[p]].owner = By[p]
  PROVE  AnswerInv'
<1> USE Members
<1>1. AnswersAreTrue'
  BY DEF AnswerInv, AnswersAreTrue
<1> QED
  BY <1>1 DEF AnswerInv

LEMMA AnswerCommit ==
  ASSUME RegInv, AnswerInv, NEW p \in Processes, NEW place \in {"accepted", "failed", "up"},
         CommitAs(p, place), p \in Requests => pc[p] = "commit" /\ place # "up"
  PROVE  AnswerInv'
<1> USE Members
<1>1. /\ \A q \in Processes \ {p} : /\ pc'[q] = pc[q] /\ newBots'[q] = newBots[q]
                                    /\ newVersion'[q] = newVersion[q]
      /\ pc'[p] = place
  BY ReleasedProjects DEF CommitAs, GoTo, RegInv, TypeOK
<1>2. ASSUME NEW n \in Names, bots[n].owner # Nobody PROVE bots'[n].owner = bots[n].owner
  BY <1>2, CommitRows DEF Exists
<1>3. \A s \in subs' : s \in subs \/ s.by = p
  BY DEF CommitAs
<1>4. subs \subseteq subs'
  BY DEF CommitAs
<1>5. ASSUME NEW q \in Requests, q # p
      PROVE  /\ pc'[q] = "accepted" =>
                  /\ \E s \in subs' : s.by = q /\ s.bot = About[q]
                  /\ bots'[About[q]].owner = By[q]
             /\ pc'[q] \notin {"accepted", "failed"} => \A s \in subs' : s.by # q
  BY <1>1, <1>2, <1>3, <1>4, <1>5, Parties DEF AnswerInv, AnswersAreTrue
<1>6. ASSUME p \in Requests
      PROVE  /\ \E s \in subs' : s.by = p /\ s.bot = About[p]
             /\ bots'[About[p]].owner = By[p]
  <2> DEFINE new == [bot |-> About[p], version |-> newVersion[p][About[p]], by |-> p]
  <2>1. newVersion[p][About[p]] # 0 /\ About[p] \in Names
    BY <1>6, Parties DEF AnswerInv
  <2>2. new \in subs'
    BY <2>1 DEF CommitAs
  <2>3. new.by = p /\ new.bot = About[p]
    OBVIOUS
  <2>4. bots'[About[p]].owner = By[p]
    <3>1. CASE p \in Creates
      <4>1. About[p] \in newBots[p]
        BY <1>6, <3>1 DEF AnswerInv
      <4> QED
        BY <1>6, <2>1, <4>1, Parties DEF CommitAs
    <3>2. CASE p \in Submits
      BY <1>2, <1>6, <2>1, <3>2, Parties DEF AnswerInv
    <3> QED
      BY <1>6, <3>1, <3>2
  <2> QED
    BY <2>2, <2>3, <2>4
<1>7. AnswersAreTrue'
  BY <1>1, <1>5, <1>6 DEF AnswersAreTrue
<1>8. /\ \A q \in Requests : pc'[q] = "commit" => newVersion'[q][About[q]] # 0
      /\ \A c \in Creates : pc'[c] = "commit" => About[c] \in newBots'[c]
  BY <1>1 DEF AnswerInv
<1>9. \A s \in Submits :
        pc'[s] \in {"insert", "commit"} => bots'[About[s]].owner = By[s]
  BY <1>1, <1>2, Parties DEF AnswerInv
<1> QED
  BY <1>7, <1>8, <1>9 DEF AnswerInv

LEMMA AnswerStep == RegInv /\ AnswerInv /\ [Next]_vars => AnswerInv'
<1> SUFFICES ASSUME RegInv, AnswerInv, [Next]_vars PROVE AnswerInv'
  OBVIOUS
<1> TypeOK
  BY DEF RegInv
<1> USE Members
<1>1. ASSUME NEW p \in Processes, NEW place \in {"rejected", "failed", "down"}, RollBack(p, place),
             p \in Requests => pc[p] \notin {"accepted", "failed"}
      PROVE  AnswerInv'
  <2>1. /\ UNCHANGED <<bots, subs>> /\ pc'[p] = place
        /\ \A q \in Processes \ {p} : /\ pc'[q] = pc[q] /\ newBots'[q] = newBots[q]
                                      /\ newVersion'[q] = newVersion[q]
    BY <1>1, ReleasedProjects DEF RollBack, GoTo, TypeOK
  <2> QED
    BY <1>1, <2>1, AnswerKeeps
<1>2. ASSUME NEW p \in Processes, NEW place,
             UNCHANGED <<bots, subs, newBots, newVersion>>, GoTo(p, place),
             p \in Requests => /\ pc[p] \notin {"accepted", "failed"}
                               /\ place \notin {"accepted", "commit"},
             p \in Submits /\ place = "insert" => bots[About[p]].owner = By[p]
      PROVE  AnswerInv'
  <2>1. pc'[p] = place /\ \A q \in Processes \ {p} : pc'[q] = pc[q]
    BY <1>2 DEF GoTo, TypeOK
  <2> QED
    BY <1>2, <2>1, AnswerKeeps
<1>3. ASSUME NEW c \in Creates, CreateStep(c) PROVE AnswerInv'
  <2>1. CASE EnforceLimit(c)
    BY <1>2, <2>1 DEF EnforceLimit, pending
  <2>2. CASE FindName(c)
    BY <1>2, <2>2 DEF FindName, pending
  <2>3. CASE InsertBot(c)
    <3>1. /\ UNCHANGED <<bots, subs>> /\ newBots'[c] = {About[c]}
          /\ newVersion'[c][About[c]] = 1
          /\ pc[c] = "insert" /\ pc'[c] = "commit"
          /\ \A q \in Processes \ {c} : /\ pc'[q] = pc[q] /\ newBots'[q] = newBots[q]
                                        /\ newVersion'[q] = newVersion[q]
      BY <2>3, Parties DEF InsertBot, GoTo, TypeOK
    <3> QED
      BY <3>1, AnswerKeeps
  <2>4. CASE NameTaken(c)
    BY <1>1, <2>4 DEF NameTaken
  <2> QED
    BY <1>3, <2>1, <2>2, <2>3, <2>4 DEF CreateStep
<1>4. ASSUME NEW s \in Submits, SubmitStep(s) PROVE AnswerInv'
  <2>1. CASE LoadBot(s)
    <3>1. CASE bots[About[s]].owner = By[s]
      BY <1>2, <2>1, <3>1 DEF LoadBot, pending
    <3>2. CASE bots[About[s]].owner # By[s]
      BY <1>2, <2>1, <3>2 DEF LoadBot, pending
    <3> QED
      BY <3>1, <3>2
  <2>2. CASE InsertSubmission(s)
    <3>1. /\ UNCHANGED <<bots, subs, newBots>>
          /\ newVersion'[s][About[s]] = NextVersion(s, About[s])
          /\ pc[s] = "insert" /\ pc'[s] = "commit"
          /\ \A q \in Processes \ {s} : pc'[q] = pc[q] /\ newVersion'[q] = newVersion[q]
      BY <2>2, Parties DEF InsertSubmission, GoTo, TypeOK
    <3>2. NextVersion(s, About[s]) # 0
      BY Parties, RowTypes DEF NextVersion
    <3>3. bots[About[s]].owner = By[s]
      BY <3>1 DEF AnswerInv
    <3> QED
      BY <3>1, <3>2, <3>3, AnswerKeeps
  <2>3. CASE SubmissionConflict(s)
    BY <1>1, <2>3 DEF SubmissionConflict
  <2> QED
    BY <1>4, <2>1, <2>2, <2>3 DEF SubmitStep
<1>5. ASSUME NEW p \in Requests, CommitAccepted(p) PROVE AnswerInv'
  BY <1>5, AnswerCommit DEF CommitAccepted
<1>6. ASSUME NEW p \in Requests, Abort(p) \/ RefreshFails(p) PROVE AnswerInv'
  BY <1>1, <1>6, AnswerCommit DEF Abort, RefreshFails
<1>7. ASSUME NEW r \in Replicas, SeedStep(r) PROVE AnswerInv'
  <2>1. CASE SeedCommit(r)
    BY <2>1, AnswerCommit DEF SeedCommit
  <2>2. CASE SeedConflict(r)
    BY <1>1, <2>2 DEF SeedConflict
  <2>3. CASE Start(r) \/ SeedBot(r) \/ SeedSubmission(r) \/ SeedNothing(r)
    <3>1. /\ UNCHANGED <<bots, subs>>
          /\ \A q \in Processes \ {r} : /\ pc'[q] = pc[q] /\ newBots'[q] = newBots[q]
                                        /\ newVersion'[q] = newVersion[q]
      BY <2>3 DEF Start, SeedBot, SeedSubmission, SeedNothing, NextSpec, GoTo, pending, TypeOK
    <3> QED
      BY <3>1, AnswerKeeps
  <2> QED
    BY <1>7, <2>1, <2>2, <2>3 DEF SeedStep
<1>8. ASSUME NEW r \in Replicas, CrashReplica(r) PROVE AnswerInv'
  BY <1>1, <1>8 DEF CrashReplica
<1>9. ASSUME UNCHANGED vars PROVE AnswerInv'
  BY <1>9 DEF vars, AnswerInv, AnswersAreTrue
<1> QED
  BY <1>3, <1>4, <1>5, <1>6, <1>7, <1>8, <1>9 DEF Next, RequestStep, Settled

(* 201 means that the executable is stored under the user's own bot, a    *)
(* rejection that nothing of the request is.                               *)
THEOREM AnswersTrue == Spec => []AnswersAreTrue
<1>1. AnswerInv => AnswersAreTrue
  BY DEF AnswerInv
<1> QED
  BY RegInit, RegStep, AnswerInit, AnswerStep, <1>1, PTL DEF Spec

-----------------------------------------------------------------------------
(* Default bots.  Behind a replica's place in the list every bot is stored *)
(* or inserted, and has an executable if there is one.                     *)

Provided(r, n) ==
  /\ Exists(n) \/ n \in newBots[r]
  /\ n \in Artifacts[r] => bots[n].active # 0 \/ newVersion[r][n] # 0

SeedInv ==
  /\ ServesDefaultBots
  /\ \A r \in Replicas :
       /\ pc[r] = "down" => spec[r] = 1
       /\ pc[r] \in {"bot", "executable"} =>
            \A i \in DOMAIN Specs : i < spec[r] => Provided(r, Specs[i])
       /\ \A n \in Names : seen[r][n].active # 0 => bots[n].active # 0

LEMMA SeedInit == Init => SeedInv
  BY Members DEF Init, SeedInv, ServesDefaultBots, NoRows, NoBot

(* A step of p under which rows only grow and the other replicas keep what *)
(* they hold: only p's own place in the list remains to be looked at.      *)
LEMMA SeedKeeps ==
  ASSUME SeedInv, NEW p \in Processes,
         \A n \in Names : /\ Exists(n) => Exists(n)'
                          /\ bots[n].active # 0 => bots'[n].active # 0,
         \A q \in Processes \ {p} :
           /\ pc'[q] = pc[q] /\ newBots'[q] = newBots[q] /\ newVersion'[q] = newVersion[q]
           /\ spec'[q] = spec[q] /\ seen'[q] = seen[q],
         p \in Replicas =>
           /\ pc'[p] = "down" => spec'[p] = 1
           /\ pc'[p] \in {"bot", "executable"} =>
                \A i \in DOMAIN Specs : i < spec'[p] => Provided(p, Specs[i])'
           /\ pc'[p] = "up" =>
                \A i \in DOMAIN Specs :
                  /\ Exists(Specs[i])'
                  /\ Specs[i] \in Artifacts[p] => bots'[Specs[i]].active # 0
           /\ \A n \in Names : seen'[p][n].active # 0 => bots'[n].active # 0
  PROVE  SeedInv'
<1> USE Members, SpecsAreNames
<1>1. ASSUME NEW r \in Replicas, r # p
      PROVE  /\ pc'[r] = "down" => spec'[r] = 1
             /\ pc'[r] \in {"bot", "executable"} =>
                  \A i \in DOMAIN Specs : i < spec'[r] => Provided(r, Specs[i])'
             /\ pc'[r] = "up" =>
                  \A i \in DOMAIN Specs :
                    /\ Exists(Specs[i])'
                    /\ Specs[i] \in Artifacts[r] => bots'[Specs[i]].active # 0
             /\ \A n \in Names : seen'[r][n].active # 0 => bots'[n].active # 0
  <2>1. pc[r] = "up" =>
          \A i \in DOMAIN Specs :
            /\ Exists(Specs[i])
            /\ Specs[i] \in Artifacts[r] => bots[Specs[i]].active # 0
    BY DEF SeedInv, ServesDefaultBots
  <2>2. pc[r] \in {"bot", "executable"} =>
          \A i \in DOMAIN Specs : i < spec[r] => Provided(r, Specs[i])
    BY DEF SeedInv
  <2>3. /\ pc'[r] = pc[r] /\ newBots'[r] = newBots[r] /\ newVersion'[r] = newVersion[r]
        /\ spec'[r] = spec[r] /\ seen'[r] = seen[r]
    BY <1>1
  <2>4. \A n \in Names : Provided(r, n) => Provided(r, n)'
    BY <2>3 DEF Provided, Exists
  <2>5. pc'[r] \in {"bot", "executable"} =>
          \A i \in DOMAIN Specs : i < spec'[r] => Provided(r, Specs[i])'
    BY <2>2, <2>3, <2>4
  <2>6. pc'[r] = "up" =>
          \A i \in DOMAIN Specs :
            /\ Exists(Specs[i])'
            /\ Specs[i] \in Artifacts[r] => bots'[Specs[i]].active # 0
    BY <2>1, <2>3 DEF Exists
  <2>7. /\ pc[r] = "down" => spec[r] = 1
        /\ \A n \in Names : seen[r][n].active # 0 => bots[n].active # 0
    BY DEF SeedInv
  <2> QED
    BY <2>3, <2>5, <2>6, <2>7
<1> QED
  BY <1>1 DEF SeedInv, ServesDefaultBots

LEMMA SeedTransition == RegInv /\ SeedInv /\ [Next]_vars => SeedInv'
<1> SUFFICES ASSUME RegInv, SeedInv, [Next]_vars PROVE SeedInv'
  OBVIOUS
<1> TypeOK
  BY DEF RegInv
<1> USE Members
<1>1. ASSUME NEW p \in Processes, NEW place \in {"rejected", "failed", "down"}, RollBack(p, place)
      PROVE  SeedInv'
  <2>1. /\ UNCHANGED bots /\ pc'[p] = place /\ spec'[p] = 1 /\ seen'[p] = NoRows
        /\ \A q \in Processes \ {p} :
             /\ pc'[q] = pc[q] /\ newBots'[q] = newBots[q] /\ newVersion'[q] = newVersion[q]
             /\ spec'[q] = spec[q] /\ seen'[q] = seen[q]
    BY <1>1 DEF RollBack, Released, GoTo, TypeOK
  <2>2. place \notin {"bot", "executable", "up"}
    OBVIOUS
  <2> QED
    BY <2>1, SeedKeeps DEF Exists, NoRows, NoBot
<1>2. ASSUME NEW p \in Requests, NEW place, UNCHANGED <<bots, spec>>, GoTo(p, place),
             \A q \in Processes \ {p} :
               newBots'[q] = newBots[q] /\ newVersion'[q] = newVersion[q] /\ seen'[q] = seen[q]
      PROVE  SeedInv'
  <2>1. p \notin Replicas /\ \A q \in Processes \ {p} : pc'[q] = pc[q]
    BY <1>2 DEF GoTo, TypeOK
  <2> QED
    BY <1>2, <2>1, SeedKeeps DEF Exists
<1>3. ASSUME NEW c \in Creates, CreateStep(c) PROVE SeedInv'
  <2>1. CASE EnforceLimit(c)
    BY <1>2, <2>1 DEF EnforceLimit, pending
  <2>2. CASE FindName(c)
    BY <1>2, <2>2 DEF FindName, pending
  <2>3. CASE InsertBot(c)
    BY <1>2, <2>3 DEF InsertBot, TypeOK
  <2>4. CASE NameTaken(c)
    BY <1>1, <2>4 DEF NameTaken
  <2> QED
    BY <1>3, <2>1, <2>2, <2>3, <2>4 DEF CreateStep
<1>4. ASSUME NEW s \in Submits, SubmitStep(s) PROVE SeedInv'
  <2>1. CASE LoadBot(s)
    <3>1. UNCHANGED <<bots, spec, newBots, newVersion>>
          /\ \E place : GoTo(s, place)
      BY <2>1 DEF LoadBot, pending
    <3>2. \A q \in Processes \ {s} : seen'[q] = seen[q]
      <4>1. CASE bots[About[s]].owner = By[s]
        BY <2>1, <4>1 DEF LoadBot, TypeOK
      <4>2. CASE bots[About[s]].owner # By[s]
        BY <2>1, <4>2 DEF LoadBot
      <4> QED
        BY <4>1, <4>2
    <3> QED
      BY <1>2, <3>1, <3>2
  <2>2. CASE InsertSubmission(s)
    BY <1>2, <2>2 DEF InsertSubmission, TypeOK
  <2>3. CASE SubmissionConflict(s)
    BY <1>1, <2>3 DEF SubmissionConflict
  <2> QED
    BY <1>4, <2>1, <2>2, <2>3 DEF SubmitStep
<1>5. ASSUME NEW p \in Processes, NEW place \in {"accepted", "failed", "up"}, CommitAs(p, place),
             p \in Replicas => pc[p] = "bot" /\ spec[p] > Len(Specs)
      PROVE  SeedInv'
  <2>1. /\ pc'[p] = place /\ seen'[p] = NoRows
        /\ \A q \in Processes \ {p} :
             /\ pc'[q] = pc[q] /\ newBots'[q] = newBots[q] /\ newVersion'[q] = newVersion[q]
             /\ spec'[q] = spec[q] /\ seen'[q] = seen[q]
    BY <1>5 DEF CommitAs, Released, GoTo, TypeOK
  <2>2. \A n \in Names : /\ Exists(n) => Exists(n)'
                         /\ bots[n].active # 0 => bots'[n].active # 0
                         /\ n \in newBots[p] => Exists(n)'
                         /\ newVersion[p][n] # 0 => bots'[n].active # 0
    <3> SUFFICES ASSUME NEW n \in Names
                 PROVE  /\ Exists(n) => Exists(n)'
                        /\ bots[n].active # 0 => bots'[n].active # 0
                        /\ n \in newBots[p] => Exists(n)'
                        /\ newVersion[p][n] # 0 => bots'[n].active # 0
      OBVIOUS
    <3> QED
      BY <1>5, CommitRows, RowTypes DEF RegInv, KeysHeld
  <2>3. p \in Replicas => \A i \in DOMAIN Specs : Provided(p, Specs[i])
    <3>1. p \in Replicas => \A i \in DOMAIN Specs : i < spec[p]
      BY <1>5, SpecsAreNames DEF TypeOK
    <3> QED
      BY <1>5, <3>1 DEF SeedInv
  <2>4. p \in Replicas =>
          \A i \in DOMAIN Specs :
            /\ Exists(Specs[i])'
            /\ Specs[i] \in Artifacts[p] => bots'[Specs[i]].active # 0
    <3> SUFFICES ASSUME p \in Replicas, NEW i \in DOMAIN Specs
                 PROVE  /\ Exists(Specs[i])'
                        /\ Specs[i] \in Artifacts[p] => bots'[Specs[i]].active # 0
      OBVIOUS
    <3>1. Specs[i] \in Names
      BY SpecsAreNames
    <3>2. /\ Exists(Specs[i]) \/ Specs[i] \in newBots[p]
          /\ Specs[i] \in Artifacts[p] =>
               bots[Specs[i]].active # 0 \/ newVersion[p][Specs[i]] # 0
      BY <2>3 DEF Provided
    <3> QED
      BY <2>2, <3>1, <3>2 DEF Exists
  <2>5. p \in Replicas => /\ pc'[p] \in {"accepted", "failed", "up"}
                          /\ \A n \in Names : seen'[p][n].active = 0
    BY <2>1 DEF NoRows, NoBot
  <2>6. /\ \A n \in Names : /\ Exists(n) => Exists(n)'
                            /\ bots[n].active # 0 => bots'[n].active # 0
    BY <2>1, <2>2
  <2> QED
    BY <2>1, <2>4, <2>5, <2>6, SeedKeeps
<1>6. ASSUME NEW r \in Replicas, SeedStep(r) PROVE SeedInv'
  <2> USE SpecsAreNames
  <2>1. CASE Start(r)
    <3>1. /\ UNCHANGED <<bots, newBots, newVersion, spec>>
          /\ pc[r] = "down" /\ pc'[r] = "bot" /\ seen'[r] = bots
          /\ \A q \in Processes \ {r} :
               pc'[q] = pc[q] /\ seen'[q] = seen[q]
      BY <2>1 DEF Start, GoTo, pending, TypeOK
    <3>2. spec'[r] = 1
      BY <3>1 DEF SeedInv
    <3>3. \A i \in DOMAIN Specs : ~ (i < spec'[r])
      BY <3>2
    <3> QED
      BY <3>1, <3>3, SeedKeeps DEF Exists
  <2>2. CASE SeedBot(r)
    <3>1. /\ UNCHANGED <<bots, seen, newVersion, spec>>
          /\ pc[r] = "bot" /\ pc'[r] = "executable"
          /\ \A q \in Processes \ {r} : pc'[q] = pc[q]
      BY <2>2 DEF SeedBot, GoTo, TypeOK
    <3>2. newBots[r] \subseteq newBots'[r]
          /\ \A q \in Processes \ {r} : newBots'[q] = newBots[q]
      BY <2>2 DEF SeedBot, TypeOK
    <3>3. \A i \in DOMAIN Specs : i < spec'[r] => Provided(r, Specs[i])'
      BY <3>1, <3>2 DEF SeedInv, Provided, Exists
    <3> QED
      BY <3>1, <3>2, <3>3, SeedKeeps DEF SeedInv, Exists
  <2>3. CASE SeedSubmission(r) \/ SeedNothing(r)
    <3>0. PICK n \in Names : n = Seeding(r) /\ pc[r] = "executable" /\ spec[r] \in Nat
      BY <2>3 DEF SeedSubmission, SeedNothing, Seeding, TypeOK
    <3>1. /\ UNCHANGED <<bots, seen, newBots>>
          /\ pc[r] = "executable" /\ pc'[r] = "bot" /\ spec'[r] = spec[r] + 1
          /\ \A q \in Processes \ {r} :
               pc'[q] = pc[q] /\ spec'[q] = spec[q] /\ newVersion'[q] = newVersion[q]
      BY <2>3 DEF SeedSubmission, SeedNothing, NextSpec, GoTo, pending, TypeOK
    <3>3. /\ \A m \in Names : newVersion[r][m] # 0 => newVersion'[r][m] # 0
          /\ NeedsExecutable(r) => newVersion'[r][n] # 0
      <4>1. CASE SeedSubmission(r)
        <5>1. newVersion' = [newVersion EXCEPT ![r][n] = NextVersion(r, n)]
          BY <3>0, <4>1 DEF SeedSubmission
        <5>2. NextVersion(r, n) # 0
          BY RowTypes DEF NextVersion
        <5> QED
          BY <5>1, <5>2 DEF TypeOK
      <4>2. CASE SeedNothing(r)
        BY <4>2 DEF SeedNothing, pending
      <4> QED
        BY <2>3, <4>1, <4>2
    <3>4. Exists(n) \/ n \in newBots[r]
      BY <3>0 DEF RegInv, LoadedRows, Missing
    <3>5. n \in Artifacts[r] => bots[n].active # 0 \/ newVersion'[r][n] # 0
      BY <3>0, <3>3 DEF NeedsExecutable, SeedInv
    <3>6. Provided(r, n)'
      BY <3>1, <3>4, <3>5 DEF Provided, Exists
    <3>7. \A i \in DOMAIN Specs : i < spec'[r] => i < spec[r] \/ Specs[i] = n
      BY <3>0, <3>1 DEF Seeding
    <3>8. \A m \in Names : Provided(r, m) => Provided(r, m)'
      BY <3>1, <3>3 DEF Provided, Exists
    <3>9. \A i \in DOMAIN Specs : i < spec'[r] => Provided(r, Specs[i])'
      BY <3>1, <3>6, <3>7, <3>8 DEF SeedInv
    <3> QED
      BY <3>1, <3>9, SeedKeeps DEF SeedInv, Exists
  <2>4. CASE SeedCommit(r)
    BY <1>5, <2>4 DEF SeedCommit
  <2>5. CASE SeedConflict(r)
    BY <1>1, <2>5 DEF SeedConflict
  <2> QED
    BY <1>6, <2>1, <2>2, <2>3, <2>4, <2>5 DEF SeedStep
<1>7. ASSUME NEW p \in Requests, CommitAccepted(p) \/ RefreshFails(p) PROVE SeedInv'
  BY <1>5, <1>7 DEF CommitAccepted, RefreshFails
<1>8. ASSUME NEW p \in Requests, Abort(p) PROVE SeedInv'
  BY <1>1, <1>8 DEF Abort
<1>9. ASSUME NEW r \in Replicas, CrashReplica(r) PROVE SeedInv'
  BY <1>1, <1>9 DEF CrashReplica
<1>10. ASSUME UNCHANGED vars PROVE SeedInv'
  BY <1>10 DEF vars, SeedInv, ServesDefaultBots, Provided, Exists
<1> QED
  BY <1>3, <1>4, <1>6, <1>7, <1>8, <1>9, <1>10 DEF Next, RequestStep, Settled

(* A replica that serves has its default bots, whichever replicas start    *)
(* with it, with or without the executables.                               *)
THEOREM DefaultBotsServed == Spec => []ServesDefaultBots
<1>1. SeedInv => ServesDefaultBots
  BY DEF SeedInv
<1> QED
  BY RegInit, RegStep, SeedInit, SeedTransition, <1>1, PTL DEF Spec

-----------------------------------------------------------------------------
(* Waiting.  What a replica holds lies behind its place in the list that   *)
(* all replicas go through in the same order, and requests hold keys only  *)
(* when they commit.                                                       *)

(* Requests and replicas are each at places of their own.                  *)
Placed(p) ==
  /\ p \in Requests => pc[p] \in {"start", "find", "insert", "commit"} \cup Answered
  /\ p \in Replicas => pc[p] \in {"down", "bot", "executable", "up"}

(* The replica has passed this name in its list.                           *)
Behind(r, n) == \E i \in DOMAIN Specs : Specs[i] = n /\ i < spec[r]

(* A replica has inserted nothing but what lies behind its place, and the  *)
(* bot at its place while it adds the executable.                          *)
HeldBehind(r) ==
  \A n \in Names :
    /\ n \in newBots[r] => Behind(r, n) \/ (pc[r] = "executable" /\ n = Seeding(r))
    /\ newVersion[r][n] # 0 => Behind(r, n)

OrderInv == \A p \in Processes : Placed(p) /\ (p \in Replicas => HeldBehind(p))

LEMMA OrderInit == Init => OrderInv
  BY Members DEF Init, OrderInv, Placed, HeldBehind, NoVersion, Answered

(* Only the place and the keys of the process that takes a step change.    *)
LEMMA OrderKeeps ==
  ASSUME OrderInv, NEW p \in Processes,
         \A q \in Processes \ {p} :
           /\ pc'[q] = pc[q] /\ spec'[q] = spec[q]
           /\ newBots'[q] = newBots[q] /\ newVersion'[q] = newVersion[q],
         Placed(p)', p \in Replicas => HeldBehind(p)'
  PROVE  OrderInv'
<1>1. ASSUME NEW q \in Processes, q # p PROVE Placed(q)'
  BY <1>1 DEF OrderInv, Placed
<1>2. ASSUME NEW q \in Replicas, q \in Processes, q # p PROVE HeldBehind(q)'
  BY <1>2 DEF OrderInv, HeldBehind, Behind, Seeding
<1> QED
  BY <1>1, <1>2 DEF OrderInv

(* At the end of its transaction a process holds nothing.                  *)
LEMMA OrderEnd ==
  ASSUME TypeOK, OrderInv, NEW p \in Processes,
         NEW place \in Answered \cup {"up", "down"}, GoTo(p, place), Released(p),
         p \in Requests => place \in Answered, p \in Replicas => place \in {"up", "down"}
  PROVE  OrderInv'
<1>1. \A q \in Processes \ {p} :
        /\ pc'[q] = pc[q] /\ spec'[q] = spec[q]
        /\ newBots'[q] = newBots[q] /\ newVersion'[q] = newVersion[q]
  BY ReleasedProjects DEF GoTo, TypeOK
<1>2. newBots'[p] = {} /\ \A n \in Names : newVersion'[p][n] = 0
  BY ReleasedProjects
<1>3. pc'[p] = place
  BY DEF GoTo, TypeOK
<1>4. Placed(p)' /\ HeldBehind(p)'
  BY <1>2, <1>3 DEF Placed, HeldBehind
<1> QED
  BY <1>1, <1>4, OrderKeeps

LEMMA OrderStep == RegInv /\ OrderInv /\ [Next]_vars => OrderInv'
<1> SUFFICES ASSUME RegInv, OrderInv, [Next]_vars PROVE OrderInv'
  OBVIOUS
<1> TypeOK
  BY DEF RegInv
<1> USE Members
<1>1. ASSUME NEW p \in Requests, NEW place \in {"find", "insert", "commit"} \cup Answered,
             GoTo(p, place), UNCHANGED spec,
             \A q \in Processes \ {p} :
               newBots'[q] = newBots[q] /\ newVersion'[q] = newVersion[q]
      PROVE  OrderInv'
  <2>1. /\ pc'[p] = place /\ \A q \in Processes \ {p} : pc'[q] = pc[q]
        /\ p \notin Replicas
    BY <1>1 DEF GoTo, TypeOK
  <2> QED
    BY <1>1, <2>1, OrderKeeps DEF Placed
<1>2. ASSUME NEW c \in Creates, CreateStep(c) PROVE OrderInv'
  <2>1. CASE EnforceLimit(c)
    BY <1>1, <2>1 DEF EnforceLimit, pending, Answered
  <2>2. CASE FindName(c)
    BY <1>1, <2>2 DEF FindName, pending, Answered
  <2>3. CASE InsertBot(c)
    BY <1>1, <2>3 DEF InsertBot, TypeOK
  <2>4. CASE NameTaken(c)
    BY <2>4, OrderEnd DEF NameTaken, RollBack, Answered
  <2> QED
    BY <1>2, <2>1, <2>2, <2>3, <2>4 DEF CreateStep
<1>3. ASSUME NEW s \in Submits, SubmitStep(s) PROVE OrderInv'
  <2>1. CASE LoadBot(s)
    BY <1>1, <2>1 DEF LoadBot, pending, Answered
  <2>2. CASE InsertSubmission(s)
    BY <1>1, <2>2 DEF InsertSubmission, TypeOK
  <2>3. CASE SubmissionConflict(s)
    BY <2>3, OrderEnd DEF SubmissionConflict, RollBack, Answered
  <2> QED
    BY <1>3, <2>1, <2>2, <2>3 DEF SubmitStep
<1>4. ASSUME NEW p \in Requests, CommitAccepted(p) \/ RefreshFails(p) \/ Abort(p)
      PROVE  OrderInv'
  <2>1. \E place \in Answered : GoTo(p, place) /\ Released(p)
    BY <1>4 DEF CommitAccepted, RefreshFails, Abort, CommitAs, RollBack, Answered
  <2> QED
    BY <2>1, OrderEnd
<1>5. ASSUME NEW r \in Replicas, SeedStep(r) \/ CrashReplica(r) PROVE OrderInv'
  <2>1. CASE SeedCommit(r) \/ SeedConflict(r) \/ CrashReplica(r)
    <3>1. \E place \in {"up", "down"} : GoTo(r, place) /\ Released(r)
      BY <2>1 DEF SeedCommit, SeedConflict, CrashReplica, CommitAs, RollBack
    <3> QED
      BY <3>1, OrderEnd
  <2>2. CASE Start(r) \/ SeedBot(r) \/ SeedSubmission(r) \/ SeedNothing(r)
    <3>1. /\ \A q \in Processes \ {r} :
               /\ pc'[q] = pc[q] /\ spec'[q] = spec[q]
               /\ newBots'[q] = newBots[q] /\ newVersion'[q] = newVersion[q]
          /\ Placed(r)'
      BY <2>2 DEF Start, SeedBot, SeedSubmission, SeedNothing, NextSpec, GoTo,
                  pending, Placed, TypeOK
    <3>2. CASE Start(r)
      <4>1. newBots'[r] = {} /\ newVersion'[r] = NoVersion
        BY <3>2 DEF Start, pending, TypeOK
      <4> QED
        BY <3>1, <4>1, OrderKeeps DEF HeldBehind, NoVersion
    <3>3. CASE SeedBot(r)
      <4>1. /\ newBots'[r] \subseteq newBots[r] \cup {Seeding(r)}
            /\ newVersion'[r] = newVersion[r] /\ spec'[r] = spec[r]
            /\ pc[r] = "bot" /\ pc'[r] = "executable"
        BY <3>3 DEF SeedBot, GoTo, TypeOK
      <4>2. HeldBehind(r)'
        BY <4>1 DEF OrderInv, HeldBehind, Behind, Seeding
      <4> QED
        BY <3>1, <4>2, OrderKeeps
    <3>4. CASE SeedSubmission(r) \/ SeedNothing(r)
      <4>1. /\ newBots'[r] = newBots[r] /\ spec'[r] = spec[r] + 1
            /\ spec[r] \in DOMAIN Specs
            /\ \A n \in Names : n = Seeding(r) \/ newVersion'[r][n] = newVersion[r][n]
        BY <3>4, SpecsAreNames
        DEF SeedSubmission, SeedNothing, NextSpec, pending, TypeOK
      <4>2. \A n \in Names : Behind(r, n) \/ n = Seeding(r) => Behind(r, n)'
        BY <4>1, SpecsAreNames DEF Behind, Seeding
      <4>3. HeldBehind(r)'
        BY <4>1, <4>2 DEF OrderInv, HeldBehind
      <4> QED
        BY <3>1, <4>3, OrderKeeps
    <3> QED
      BY <2>2, <3>2, <3>3, <3>4
  <2> QED
    BY <1>5, <2>1, <2>2 DEF SeedStep
<1>6. CASE UNCHANGED vars
  BY <1>6 DEF vars, pending, OrderInv, Placed, HeldBehind, Behind, Seeding
<1> QED
  BY <1>2, <1>3, <1>4, <1>5, <1>6 DEF Next, RequestStep, Settled

(* A replica that waits is behind the one it waits for.                    *)
Place(r) == 2 * spec[r] + (IF pc[r] = "executable" THEN 1 ELSE 0)
Seeders == {r \in Replicas : pc[r] \in {"bot", "executable"}}

LEMMA WaitsForOneAhead ==
  ASSUME RegInv, OrderInv, \A p \in Processes : pc[p] # "commit",
         NEW r \in Seeders, Waits(r)
  PROVE  \E q \in Seeders : Place(q) > Place(r)
<1> TypeOK
  BY DEF RegInv
<1> USE Members
<1>0. r \in Replicas /\ r \notin Creates /\ r \notin Submits
  BY DEF Seeders
<1>1. \A q \in Processes :
        newBots[q] # {} \/ (\E n \in Names : newVersion[q][n] # 0) => q \in Seeders
  <2> SUFFICES ASSUME NEW q \in Processes,
                      newBots[q] # {} \/ (\E n \in Names : newVersion[q][n] # 0)
               PROVE  q \in Seeders
    OBVIOUS
  <2>1. newBots[q] # {} \/ newVersion[q] # NoVersion
    BY DEF NoVersion
  <2>2. pc[q] \in {"bot", "executable"}
    BY <2>1 DEF TypeOK
  <2>3. q \notin Requests
    BY <2>2 DEF OrderInv, Placed, Answered
  <2> QED
    BY <2>2, <2>3 DEF Seeders
<1>2. spec[r] \in DOMAIN Specs /\ spec[r] \in Nat /\ Seeding(r) \in Names
  BY <1>0, SpecsAreNames DEF Waits, TypeOK, Seeding
<1>3. \A q \in Processes : spec[q] \in Nat
  BY SpecsAreNames DEF TypeOK
<1>4. ASSUME NEW q \in Processes, Behind(q, Seeding(r)) PROVE Place(q) > Place(r)
  <2>1. spec[r] < spec[q]
    BY <1>2, <1>4, SpecsAssumption DEF Behind, Seeding
  <2>2. spec[r] \in Nat /\ spec[q] \in Nat
    BY <1>2, <1>3
  <2>3. Place(q) >= 2 * spec[q] /\ Place(r) <= 2 * spec[r] + 1
    BY <2>2 DEF Place
  <2>4. Place(q) \in Nat /\ Place(r) \in Nat
    BY <2>2 DEF Place
  <2> QED
    BY <2>1, <2>2, <2>3, <2>4
<1>5. CASE pc[r] = "bot"
  <2>1. PICK q \in Processes \ {r} : Seeding(r) \in newBots[q]
    BY <1>0, <1>5 DEF Waits, NameFree
  <2>2. q \in Seeders
    BY <1>1, <2>1
  <2>3. Behind(q, Seeding(r)) \/ (pc[q] = "executable" /\ Seeding(r) = Seeding(q))
    BY <1>2, <2>1, <2>2 DEF OrderInv, HeldBehind, Seeders
  <2>4. CASE Behind(q, Seeding(r))
    BY <1>4, <2>2, <2>4
  <2>5. CASE pc[q] = "executable" /\ Seeding(r) = Seeding(q)
    <3>1. spec[q] \in DOMAIN Specs
      BY <2>2, <2>5, SpecsAreNames DEF TypeOK, Seeders
    <3>2. spec[q] = spec[r]
      BY <1>2, <2>5, <3>1, SpecsAssumption DEF Seeding
    <3> QED
      BY <1>3, <1>5, <2>2, <2>5, <3>2 DEF Place
  <2> QED
    BY <2>3, <2>4, <2>5
<1>6. CASE pc[r] = "executable"
  <2>1. PICK q \in Processes \ {r} :
          newVersion[q][Seeding(r)] = NextVersion(r, Seeding(r))
    BY <1>0, <1>6 DEF Waits, VersionFree
  <2>2. newVersion[q][Seeding(r)] # 0
    BY <1>0, <1>2, <2>1, RowTypes DEF NextVersion
  <2>3. q \in Seeders
    BY <1>1, <1>2, <2>2
  <2>4. Behind(q, Seeding(r))
    BY <1>2, <2>2, <2>3 DEF OrderInv, HeldBehind, Seeders
  <2> QED
    BY <1>4, <2>3, <2>4
<1> QED
  BY <1>5, <1>6 DEF Seeders

(* However many replicas seed any number of built-in bots while users      *)
(* create bots of the same names, some process that is not done can go on. *)
THEOREM RegistryGoesOn == Spec => []SomeoneGoesOn
<1>1. RegInv /\ OrderInv => SomeoneGoesOn
  <2> SUFFICES ASSUME RegInv, OrderInv, NEW p \in Processes, Busy(p),
                      \A q \in Processes : Busy(q) => Waits(q)
               PROVE  FALSE
    BY DEF SomeoneGoesOn
  <2> TypeOK
    BY DEF RegInv
  <2> USE Members
  <2>1. \A q \in Processes : pc[q] \notin {"find", "commit", "down"}
    BY DEF Busy, Waits, Answered
  <2>2. Seeders = {}
    <3> SUFFICES ASSUME Seeders # {} PROVE FALSE
      OBVIOUS
    <3> DEFINE Places == {Place(r) : r \in Seeders}
    <3>1. \A r \in Seeders : Busy(r) /\ r \in Processes
      BY DEF Seeders, Busy, Answered
    <3>2. \A r \in Seeders : \E q \in Seeders : Place(q) > Place(r)
      BY <2>1, <3>1, WaitsForOneAhead
    <3>3. \A r \in Seeders : Place(r) \in 0..(2 * Len(Specs) + 3)
      BY <3>1, SpecsAreNames DEF Place, TypeOK
    <3>4. Places \in SUBSET (0..(2 * Len(Specs) + 3)) /\ Places # {}
      BY <3>3
    <3>5. PICK m \in Places : \A k \in Places : m >= k
      <4> HIDE DEF Places
      <4>1. 2 * Len(Specs) + 3 \in Nat
        BY SpecsAreNames
      <4> QED
        BY ONLY <3>4, <4>1, MaxOfNaturals
    <3>6. PICK r \in Seeders : m = Place(r)
      OBVIOUS
    <3>7. PICK q \in Seeders : Place(q) > Place(r)
      BY <3>2
    <3>8. Place(q) \in Places /\ Place(q) \in Nat /\ Place(r) \in Nat
      BY <3>3
    <3> QED
      BY <3>5, <3>6, <3>7, <3>8
  <2>3. \A q \in Processes : newBots[q] = {} /\ \A n \in Names : newVersion[q][n] = 0
    <3> SUFFICES ASSUME NEW q \in Processes,
                        newBots[q] # {} \/ (\E n \in Names : newVersion[q][n] # 0)
                 PROVE  FALSE
      OBVIOUS
    <3>1. newBots[q] # {} \/ newVersion[q] # NoVersion
      BY DEF NoVersion
    <3>2. pc[q] \in {"bot", "executable"}
      BY <2>1, <3>1 DEF TypeOK
    <3> QED
      BY <2>2, <3>2 DEF OrderInv, Placed, Answered, Seeders
  <2>4. \A q \in Processes : pc[q] # "insert"
    <3> SUFFICES ASSUME NEW q \in Processes, pc[q] = "insert" PROVE FALSE
      OBVIOUS
    <3>1. Busy(q) /\ Waits(q)
      BY DEF Busy, Answered
    <3>2. q \notin Replicas
      BY DEF OrderInv, Placed
    <3>3. ~ NameFree(q, About[q])
          \/ (q \in Submits /\ ~ VersionFree(q, About[q], NextVersion(q, About[q])))
      BY <3>1, <3>2 DEF Waits
    <3>4. About[q] \in Names
      BY <3>2, Parties
    <3>5. NextVersion(q, About[q]) # 0
      BY <3>4, RowTypes DEF NextVersion
    <3> QED
      BY <2>3, <3>3, <3>4, <3>5 DEF NameFree, VersionFree
  <2>5. p \in Creates /\ pc[p] = "start" /\ Creating(By[p]) # {}
    <3>1. Waits(p)
      OBVIOUS
    <3>2. pc[p] \notin {"bot", "executable"} \/ p \notin Replicas
      BY <2>2 DEF Seeders
    <3> QED
      BY <2>4, <3>1, <3>2 DEF Waits, LimitLockFree
  <2> QED
    BY <2>1, <2>4, <2>5 DEF Creating
<1> QED
  BY RegInit, RegStep, OrderInit, OrderStep, <1>1, PTL DEF Spec

=============================================================================
