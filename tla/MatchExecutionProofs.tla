------------------------ MODULE MatchExecutionProofs -------------------------
(***************************************************************************)
(* Proofs about MatchExecution, for any number of executions, bots and     *)
(* submissions, and whatever fails.                                        *)
(***************************************************************************)
EXTENDS MatchExecution, DataLemmas

Records == [rating : Nat, games : Nat, wins : Nat, losses : Nat, draws : Nat]
Boxes == [holds : Submissions \cup {NoSub}, container : BOOLEAN]
Places == {"load", "build", "play", "clean", "reload", "update", "commit"} \cup Ended
MatchRows ==
  [execution : Executions, sub : [Slots -> Submissions], winner : 0..2,
   before : [Slots -> Nat], after : [Slots -> Nat]]

TypeOK ==
  /\ active \in [Bots -> Submissions]
  /\ record \in [Submissions -> Records]
  /\ history \in Seq(MatchRows)
  /\ at \in [Executions -> Places]
  /\ slot \in [Executions -> Slots]
  /\ sub \in [Executions -> [Slots -> Submissions \cup {NoSub}]]
  /\ before \in [Executions -> [Slots -> Nat]]
  /\ row \in [Executions -> [Slots -> Records \cup {Expired}]]
  /\ box \in [Executions -> [Slots -> Boxes]]
  /\ played \in [Executions -> [Slots -> Submissions \cup {NoSub}]]
  /\ winner \in [Executions -> 0..2]
  /\ raising \in [Executions -> BOOLEAN]
  /\ overlapped \subseteq Submissions

(* Where a bot's submission is loaded, it is a submission of that bot; the *)
(* steps of an execution come in order, slot by slot.                      *)
BeyondLoad ==
  {"build", "play", "clean", "reload", "update", "commit", "done", "conflict"}
LoadedInOrder ==
  /\ \A b \in Bots : BotOf[active[b]] = b
  /\ \A e \in Executions :
       /\ \A i \in Slots : sub[e][i] # NoSub => BotOf[sub[e][i]] = Plays[e][i]
       /\ at[e] \in BeyondLoad => \A i \in Slots : sub[e][i] # NoSub
       /\ at[e] = "load" => sub[e][2] = NoSub /\ (slot[e] = 1 <=> sub[e][1] = NoSub)
       /\ at[e] \in {"play", "commit"} \cup Ended => slot[e] = 1
       /\ raising[e] => at[e] = "clean" \/ ~ InProgress(e)

(* The executables in the sandboxes are those of the submissions loaded,   *)
(* and the stored row of a match is that of an execution that is over.     *)
Played ==
  \A e \in Executions :
    /\ at[e] = "build" /\ slot[e] = 2 => played[e][1] = sub[e][1]
    /\ \/ at[e] \in {"play", "reload", "update", "commit", "done"}
       \/ at[e] = "clean" /\ ~ raising[e]
       => played[e] = sub[e]
Stored ==
  \A n \in DOMAIN history :
    /\ at[history[n].execution] = "done"
    /\ history[n].sub = sub[history[n].execution]

(* Which directories there may be at each place.                           *)
Directories ==
  \A e \in Executions :
    /\ at[e] = "build" => box[e][2].holds = NoSub
    /\ at[e] = "build" /\ slot[e] = 1 => box[e][1].holds = NoSub
    /\ at[e] = "clean" /\ slot[e] = 2 => box[e][1].holds = NoSub
    /\ at[e] \in {"load", "reload", "update", "commit", "done", "raised", "conflict"}
         => \A i \in Slots : box[e][i].holds = NoSub

(* A submission that was never in two matches at a time is held by one     *)
(* execution at most, which has loaded its record as it still is.          *)
SoleUser ==
  \A e, f \in Executions, i, j \in Slots :
    e # f /\ InProgress(e) /\ InProgress(f) /\ sub[e][i] # NoSub
      /\ sub[e][i] = sub[f][j] => sub[e][i] \in overlapped
UpToDate ==
  \A e \in Executions, i \in Slots :
    InProgress(e) /\ sub[e][i] # NoSub /\ sub[e][i] \notin overlapped =>
      /\ before[e][i] = record[sub[e][i]].rating
      /\ row[e][i] \in {Expired, record[sub[e][i]]}

(* What the update reads is loaded.                                        *)
Loaded ==
  \A e \in Executions :
    /\ at[e] = "reload" /\ slot[e] = 2 => row[e][1] # Expired
    /\ at[e] \in {"update", "commit"} => \A i \in Slots : row[e][i] # Expired

(* A loaded counter is never ahead of the matches that are stored.         *)
NotAhead ==
  /\ \A s \in Submissions : record[s].games <= Cardinality(MatchesOf(s))
  /\ \A e \in Executions, i \in Slots :
       row[e][i] # Expired =>
         /\ sub[e][i] # NoSub
         /\ row[e][i].games <= Cardinality(MatchesOf(sub[e][i]))

(* The record of a submission never in two matches at a time is the sum of *)
(* its stored matches and the end of their chain; an update is rejected    *)
(* only in a match of a submission that was in two at a time.              *)
Sums ==
  \A s \in Submissions \ overlapped : RecordAddsUp(record[s]) /\ SumsUp(s)
Conflicts ==
  \A e \in Executions :
    at[e] = "conflict" => \E i \in Slots : sub[e][i] \in overlapped

Inv ==
  /\ TypeOK /\ LoadedInOrder /\ Played /\ Stored /\ Directories
  /\ SoleUser /\ UpToDate /\ Loaded /\ NotAhead /\ Sums /\ Conflicts

-----------------------------------------------------------------------------

LEMMA SlotFacts ==
  ASSUME NEW i \in Slots
  PROVE  3 - i \in Slots /\ 3 - i # i /\ Slots = {i, 3 - i}
BY DEF Slots

LEMMA LargerOfZero ==
  ASSUME NEW x \in Int
  PROVE  Max({0, x}) \in Nat
<1>1. \E y \in {0, x} : \A z \in {0, x} : y >= z
  <2>1. CASE x >= 0
    BY <2>1
  <2>2. CASE x < 0
    BY <2>2
  <2> QED
    BY <2>1, <2>2
<1>2. Max({0, x}) \in {0, x} /\ \A z \in {0, x} : Max({0, x}) >= z
  BY <1>1 DEF Max
<1> QED
  BY <1>2

(* The Elo update yields a rating whatever the ratings before.             *)
LEMMA RatingType ==
  ASSUME TypeOK, NEW e \in Executions, NEW i \in Slots
  PROVE  RatingAfter(e, i) \in Nat
<1>1. before[e][i] \in Nat /\ before[e][3 - i] \in Nat
  BY SlotFacts DEF TypeOK
<1>2. Score(e, i) \in Int /\ Expected(before[e][i], before[e][3 - i]) \in Int
  BY DEF Score, Expected
<1> QED
  BY <1>1, <1>2, LargerOfZero DEF RatingAfter

(* The new row is the one in the database, but for the columns computed    *)
(* from what was loaded.                                                   *)
LEMMA NewRowType ==
  ASSUME TypeOK, NEW e \in Executions, NEW i \in Slots,
         sub[e][i] # NoSub, row[e][i] # Expired
  PROVE  /\ NewRow(e, i) \in Records
         /\ NewRow(e, i).games = row[e][i].games + 1
         /\ NewRow(e, i).rating =
              IF row[e][i].rating = RatingAfter(e, i) THEN record[sub[e][i]].rating
              ELSE RatingAfter(e, i)
         /\ NewRow(e, i).wins =
              IF winner[e] = i THEN row[e][i].wins + 1 ELSE record[sub[e][i]].wins
         /\ NewRow(e, i).losses =
              IF winner[e] = 3 - i THEN row[e][i].losses + 1
              ELSE record[sub[e][i]].losses
         /\ NewRow(e, i).draws =
              IF winner[e] = 0 THEN row[e][i].draws + 1 ELSE record[sub[e][i]].draws
<1>1. sub[e][i] \in Submissions /\ record[sub[e][i]] \in Records
      /\ row[e][i] \in Records
  BY DEF TypeOK
<1>2. RatingAfter(e, i) \in Nat
  BY RatingType
<1> DEFINE
      r == record[sub[e][i]]
      l == row[e][i]
      rating == IF l.rating = RatingAfter(e, i) THEN r.rating ELSE RatingAfter(e, i)
      wins == IF winner[e] = i THEN l.wins + 1 ELSE r.wins
      losses == IF winner[e] = 3 - i THEN l.losses + 1 ELSE r.losses
      draws == IF winner[e] = 0 THEN l.draws + 1 ELSE r.draws
<1>3. /\ rating \in Nat /\ wins \in Nat /\ losses \in Nat /\ draws \in Nat
      /\ l.games + 1 \in Nat
  BY <1>1, <1>2 DEF Records
<1>4. NewRow(e, i) = [r EXCEPT !.rating = rating, !.games = l.games + 1,
                               !.wins = wins, !.losses = losses, !.draws = draws]
  BY Zenon DEF NewRow
<1>5. r \in Records
  BY <1>1
<1> HIDE DEF rating, wins, losses, draws, r, l
<1>6. /\ NewRow(e, i) \in Records
      /\ NewRow(e, i).games = l.games + 1 /\ NewRow(e, i).rating = rating
      /\ NewRow(e, i).wins = wins /\ NewRow(e, i).losses = losses
      /\ NewRow(e, i).draws = draws
  BY <1>3, <1>4, <1>5 DEF Records
<1> QED
  BY <1>6, Zenon DEF l, r, rating, wins, losses, draws

(* Where the loaded row still is the one in the database, the record gets  *)
(* the match and nothing else, and goes on adding up.                      *)
LEMMA NewRowExact ==
  ASSUME TypeOK, NEW e \in Executions, NEW i \in Slots,
         sub[e][i] # NoSub, row[e][i] # Expired,
         row[e][i] = record[sub[e][i]]
  PROVE  /\ NewRow(e, i).rating = RatingAfter(e, i)
         /\ NewRow(e, i).games = record[sub[e][i]].games + 1
         /\ NewRow(e, i).wins = record[sub[e][i]].wins
              + (IF winner[e] = i THEN 1 ELSE 0)
         /\ NewRow(e, i).losses = record[sub[e][i]].losses
              + (IF winner[e] = 3 - i THEN 1 ELSE 0)
         /\ NewRow(e, i).draws = record[sub[e][i]].draws
              + (IF winner[e] = 0 THEN 1 ELSE 0)
         /\ RecordAddsUp(record[sub[e][i]]) => RecordAddsUp(NewRow(e, i))
<1> DEFINE r == record[sub[e][i]]
<1>1. r \in Records /\ winner[e] \in {0, i, 3 - i} /\ i # 0 /\ 3 - i # 0 /\ 3 - i # i
  BY DEF TypeOK, Slots
<1>2. /\ NewRow(e, i).games = r.games + 1
      /\ NewRow(e, i).rating = IF r.rating = RatingAfter(e, i) THEN r.rating
                               ELSE RatingAfter(e, i)
      /\ NewRow(e, i).wins = IF winner[e] = i THEN r.wins + 1 ELSE r.wins
      /\ NewRow(e, i).losses = IF winner[e] = 3 - i THEN r.losses + 1 ELSE r.losses
      /\ NewRow(e, i).draws = IF winner[e] = 0 THEN r.draws + 1 ELSE r.draws
  BY NewRowType, SMT
<1>3. r.games \in Nat /\ r.wins \in Nat /\ r.losses \in Nat /\ r.draws \in Nat
  BY <1>1 DEF Records
<1>4. /\ NewRow(e, i).wins = r.wins + (IF winner[e] = i THEN 1 ELSE 0)
      /\ NewRow(e, i).losses = r.losses + (IF winner[e] = 3 - i THEN 1 ELSE 0)
      /\ NewRow(e, i).draws = r.draws + (IF winner[e] = 0 THEN 1 ELSE 0)
  BY <1>2, <1>3
<1>5. RecordAddsUp(r) => RecordAddsUp(NewRow(e, i))
  BY <1>1, <1>2, <1>3, <1>4 DEF RecordAddsUp
<1> QED
  BY <1>2, <1>4, <1>5

LEMMA BoxUpdate ==
  ASSUME NEW b \in [Executions -> [Slots -> Boxes]], NEW e \in Executions,
         NEW i \in Slots, NEW s \in Submissions \cup {NoSub}, NEW c \in BOOLEAN
  PROVE  /\ [b EXCEPT ![e][i].holds = s] \in [Executions -> [Slots -> Boxes]]
         /\ [b EXCEPT ![e][i].container = c] \in [Executions -> [Slots -> Boxes]]
<1>1. [b EXCEPT ![e][i].holds = s] \in [Executions -> [Slots -> Boxes]]
  BY DEF Boxes
<1>2. [b EXCEPT ![e][i].container = c] \in [Executions -> [Slots -> Boxes]]
  BY DEF Boxes
<1> QED
  BY <1>1, <1>2

LEMMA TypeInit == Init => TypeOK
<1> SUFFICES ASSUME Init PROVE TypeOK
  OBVIOUS
<1>1. NewRecord \in Records
  BY RatingAssumption DEF NewRecord, Expired, Records
<1>2. NoBox \in Boxes
  BY DEF NoBox, Boxes
<1> QED
  BY <1>1, <1>2, SubmissionsAssumption
  DEF Init, TypeOK, Places, Slots, MatchRows

LEMMA TypeStep == TypeOK /\ LoadedInOrder /\ Loaded /\ [Next]_vars => TypeOK'
<1> SUFFICES ASSUME TypeOK, LoadedInOrder, Loaded, [Next]_vars PROVE TypeOK'
  OBVIOUS
<1> USE SlotFacts DEF TypeOK, data, Leave, Advance
<1>1. ASSUME NEW e \in Executions, Load(e) PROVE TypeOK'
  <2> DEFINE s == active[Plays[e][slot[e]]]
  <2>1. s \in Submissions /\ record[s] \in Records /\ record[s].rating \in Nat
    BY PlaysAssumption DEF Slots, Records
  <2>2. overlapped' \subseteq overlapped \cup {s}
    BY <1>1 DEF Load
  <2>3. /\ sub' = [sub EXCEPT ![e][slot[e]] = s]
        /\ before' = [before EXCEPT ![e][slot[e]] = record[s].rating]
        /\ row' = [row EXCEPT ![e][slot[e]] = record[s]]
    BY <1>1 DEF Load
  <2> HIDE DEF s
  <2>4. sub' \in [Executions -> [Slots -> Submissions \cup {NoSub}]]
    BY <2>1, <2>3
  <2>5. before' \in [Executions -> [Slots -> Nat]]
    BY <2>1, <2>3
  <2>6. row' \in [Executions -> [Slots -> Records \cup {Expired}]]
    BY <2>1, <2>3
  <2> QED
    BY <1>1, <2>1, <2>2, <2>4, <2>5, <2>6 DEF Load, Places, Slots
<1>2. ASSUME NEW e \in Executions, Build(e) \/ BuildFails(e) PROVE TypeOK'
  <2>1. CASE Build(e)
    <3>1. box' \in [Executions -> [Slots -> Boxes]]
      <4>1. box' = [box EXCEPT ![e][slot[e]].holds = sub[e][slot[e]]]
        BY <2>1 DEF Build
      <4>2. slot[e] \in Slots /\ sub[e][slot[e]] \in Submissions \cup {NoSub}
        OBVIOUS
      <4> QED
        BY ONLY <4>1, <4>2, BoxUpdate, TypeOK DEF TypeOK
    <3>2. played' \in [Executions -> [Slots -> Submissions \cup {NoSub}]]
      BY <2>1 DEF Build
    <3> QED
      BY <2>1, <3>1, <3>2 DEF Build, Places, Slots
  <2>2. CASE BuildFails(e)
    BY <2>2 DEF BuildFails, Places, Slots
  <2> QED
    BY <1>2, <2>1, <2>2
<1>3. ASSUME NEW e \in Executions, NEW i \in Slots, StartContainer(e, i)
      PROVE  TypeOK'
  BY <1>3, BoxUpdate DEF StartContainer
<1>4. ASSUME NEW e \in Executions, CommitLiveMove(e) PROVE TypeOK'
  BY <1>4 DEF CommitLiveMove
<1>5. ASSUME NEW e \in Executions, NEW w \in {0} \cup Slots, EndMatch(e, w)
      PROVE  TypeOK'
  BY <1>5 DEF EndMatch, Places, Slots
<1>6. ASSUME NEW e \in Executions, PlayRaises(e) PROVE TypeOK'
  BY <1>6 DEF PlayRaises, Places, Slots
<1>7. ASSUME NEW e \in Executions, Clean(e) PROVE TypeOK'
  BY <1>7 DEF Clean, AfterClean, Places, Ended, Slots, Boxes
<1>8. ASSUME NEW e \in Executions, CleanRaises(e) PROVE TypeOK'
  <2>1. box' \in [Executions -> [Slots -> Boxes]]
    <3>1. PICK removed \in BOOLEAN :
            box' = [box EXCEPT ![e][slot[e]].container = @ /\ ~ removed]
      BY <1>8 DEF CleanRaises
    <3>2. box' = [box EXCEPT ![e][slot[e]].container =
                    box[e][slot[e]].container /\ ~ removed]
      BY <3>1, Zenon
    <3>3. (box[e][slot[e]].container /\ ~ removed) \in BOOLEAN
      OBVIOUS
    <3> QED
      BY <3>2, <3>3, BoxUpdate
  <2> QED
    BY <1>8, <2>1 DEF CleanRaises, Gone, Places, Ended, Slots
<1>9. ASSUME NEW e \in Executions, Reload(e) PROVE TypeOK'
  BY <1>9 DEF Reload, Places, Slots, LoadedInOrder, BeyondLoad
<1>10. ASSUME NEW e \in Executions, UpdateRow(e) PROVE TypeOK'
  BY <1>10 DEF UpdateRow, MayUpdate, Places, Slots
<1>11. ASSUME NEW e \in Executions,
              UpdateRejected(e) \/ DatabaseFails(e) \/ Crash(e)
       PROVE  TypeOK'
  <2>1. PICK place \in Ended : Gone(e, place)
    BY <1>11 DEF UpdateRejected, DatabaseFails, Crash, Ended
  <2>2. UNCHANGED <<active, record, history, sub, box, played, overlapped>>
    BY <1>11 DEF UpdateRejected, DatabaseFails, Crash
  <2> QED
    BY <2>1, <2>2 DEF Gone, Places, Slots
<1>12. ASSUME NEW e \in Executions, Commit(e) PROVE TypeOK'
  <2>1. \A i \in Slots : sub[e][i] # NoSub /\ row[e][i] # Expired
    BY <1>12 DEF Commit, LoadedInOrder, Loaded, BeyondLoad
  <2>2. \A i \in Slots : NewRow(e, i) \in Records
    BY <2>1, NewRowType
  <2>3. record' \in [Submissions -> Records]
    BY <1>12, <2>2 DEF Commit, Slots
  <2>4. MatchRow(e) \in MatchRows
    BY <2>1, RatingType DEF MatchRow, MatchRows, Credited
  <2>5. history' \in Seq(MatchRows)
    BY <1>12, <2>4 DEF Commit
  <2> QED
    BY <1>12, <2>3, <2>5 DEF Commit, Gone, Places, Ended, Slots
<1>13. ASSUME NEW b \in Bots, Activate(b) PROVE TypeOK'
  BY <1>13 DEF Activate
<1>14. CASE UNCHANGED vars
  BY <1>14 DEF vars
<1> QED
  BY <1>1, <1>2, <1>3, <1>4, <1>5, <1>6, <1>7, <1>8, <1>9, <1>10, <1>11,
     <1>12, <1>13, <1>14 DEF Next, Execute, Fail

-----------------------------------------------------------------------------
(* What a step of an execution does to the others: nothing, but for the    *)
(* rows it commits and the submissions it joins them in.                   *)

Same(f) ==
  /\ at'[f] = at[f] /\ slot'[f] = slot[f] /\ raising'[f] = raising[f]
  /\ sub'[f] = sub[f] /\ played'[f] = played[f] /\ box'[f] = box[f]
  /\ before'[f] = before[f] /\ row'[f] = row[f] /\ winner'[f] = winner[f]

LEMMA Others ==
  ASSUME TypeOK, NEW e \in Executions, Execute(e) \/ Fail(e)
  PROVE  \A f \in Executions \ {e} : Same(f)
<1> USE DEF TypeOK, data, Leave, Advance, Same
<1>1. CASE Load(e)
  BY <1>1 DEF Load
<1>2. CASE Build(e) \/ BuildFails(e)
  BY <1>2 DEF Build, BuildFails
<1>3. ASSUME NEW i \in Slots, StartContainer(e, i)
      PROVE  \A f \in Executions \ {e} : Same(f)
  BY <1>3 DEF StartContainer
<1>4. CASE CommitLiveMove(e) \/ PlayRaises(e) \/ Reload(e) \/ UpdateRow(e)
  BY <1>4 DEF CommitLiveMove, PlayRaises, Reload, UpdateRow
<1>5. ASSUME NEW w \in {0} \cup Slots, EndMatch(e, w)
      PROVE  \A f \in Executions \ {e} : Same(f)
  BY <1>5 DEF EndMatch
<1>6. CASE Clean(e)
  BY <1>6 DEF Clean
<1>7. CASE CleanRaises(e)
  BY <1>7 DEF CleanRaises, Gone
<1>8. CASE UpdateRejected(e) \/ DatabaseFails(e) \/ Crash(e) \/ Commit(e)
  BY <1>8 DEF UpdateRejected, DatabaseFails, Crash, Commit, Gone
<1> QED
  BY <1>1, <1>2, <1>3, <1>4, <1>5, <1>6, <1>7, <1>8 DEF Execute, Fail

LEMMA LoadedInOrderInit == Init => LoadedInOrder
BY SubmissionsAssumption, PlaysAssumption
DEF Init, LoadedInOrder, BeyondLoad, Ended, Slots, NoSub

LEMMA LoadedInOrderStep ==
  ASSUME TypeOK, LoadedInOrder, [Next]_vars
  PROVE  LoadedInOrder'
<1> DEFINE
      Ok(f) == /\ \A i \in Slots : sub[f][i] # NoSub => BotOf[sub[f][i]] = Plays[f][i]
               /\ at[f] \in BeyondLoad => \A i \in Slots : sub[f][i] # NoSub
               /\ at[f] = "load" =>
                    sub[f][2] = NoSub /\ (slot[f] = 1 <=> sub[f][1] = NoSub)
               /\ at[f] \in {"play", "commit"} \cup Ended => slot[f] = 1
               /\ raising[f] => at[f] = "clean" \/ ~ InProgress(f)
<1>1. ASSUME NEW e \in Executions, Execute(e) \/ Fail(e)
      PROVE  LoadedInOrder'
  <2>1. ASSUME NEW f \in Executions \ {e} PROVE Ok(f)'
    <3>1. Same(f)
      BY <1>1, Others
    <3> QED
      BY <3>1 DEF LoadedInOrder, InProgress, Same
  <2>2. \A b \in Bots : BotOf[active'[b]] = b
    <3>1. active' = active
      BY <1>1 DEF Execute, Fail, Load, Build, BuildFails, StartContainer, data,
         CommitLiveMove, EndMatch, PlayRaises, Clean, CleanRaises, Reload,
         UpdateRow, UpdateRejected, Commit, DatabaseFails, Crash
    <3> QED
      BY <3>1 DEF LoadedInOrder
  <2>3. Ok(e)
    BY DEF LoadedInOrder
  <2>4. Ok(e)'
    <3> USE <2>3, SlotFacts
        DEF TypeOK, data, Leave, Advance, BeyondLoad, Ended, InProgress, Slots, NoSub
    <3>1. CASE Load(e)
      <4> DEFINE s == active[Plays[e][slot[e]]]
      <4>1. s \in Submissions /\ BotOf[s] = Plays[e][slot[e]] /\ s # NoSub
        BY PlaysAssumption, SubmissionsAssumption DEF LoadedInOrder
      <4>2. sub' = [sub EXCEPT ![e][slot[e]] = s]
        BY <3>1 DEF Load
      <4> HIDE DEF s
      <4> QED
        BY <3>1, <4>1, <4>2 DEF Load
    <3>2. CASE Build(e) \/ BuildFails(e)
      BY <3>2 DEF Build, BuildFails
    <3>3. ASSUME NEW i \in Slots, StartContainer(e, i) PROVE Ok(e)'
      BY <3>3 DEF StartContainer
    <3>4. CASE CommitLiveMove(e) \/ PlayRaises(e) \/ Reload(e) \/ UpdateRow(e)
      BY <3>4 DEF CommitLiveMove, PlayRaises, Reload, UpdateRow, MayUpdate
    <3>5. ASSUME NEW w \in {0} \cup Slots, EndMatch(e, w) PROVE Ok(e)'
      BY <3>5 DEF EndMatch
    <3>6. CASE Clean(e)
      BY <3>6 DEF Clean, AfterClean
    <3>7. CASE CleanRaises(e)
      BY <3>7 DEF CleanRaises, Gone
    <3>8. CASE UpdateRejected(e) \/ Commit(e)
      BY <3>8 DEF UpdateRejected, MayUpdate, Commit, Gone
    <3>9. CASE DatabaseFails(e) \/ Crash(e)
      BY <3>9 DEF DatabaseFails, Crash, Gone
    <3> QED
      BY <1>1, <3>1, <3>2, <3>3, <3>4, <3>5, <3>6, <3>7, <3>8, <3>9
      DEF Execute, Fail
  <2> QED
    BY <2>1, <2>2, <2>4 DEF LoadedInOrder
<1>2. ASSUME NEW b \in Bots, Activate(b) PROVE LoadedInOrder'
  BY <1>2 DEF Activate, TypeOK, LoadedInOrder, InProgress
<1>3. CASE UNCHANGED vars
  BY <1>3 DEF vars, LoadedInOrder, InProgress
<1> QED
  BY <1>1, <1>2, <1>3 DEF Next

(* Only an execution that is not over acts; only its commit writes what    *)
(* was stored before.                                                      *)
LEMMA ActsInProgress ==
  ASSUME NEW e \in Executions, Execute(e) \/ Fail(e)
  PROVE  /\ InProgress(e)
         /\ active' = active
         /\ (record' = record /\ history' = history) \/ Commit(e)
         /\ overlapped' = overlapped \/ Load(e)
<1> USE DEF InProgress, Ended, data
<1>1. CASE Execute(e)
  BY <1>1 DEF Execute, Load, Build, StartContainer, CommitLiveMove, EndMatch,
     Clean, Reload, UpdateRow, MayUpdate, Commit
<1>2. CASE Fail(e)
  BY <1>2 DEF Fail, BuildFails, PlayRaises, CleanRaises, UpdateRejected,
     MayUpdate, DatabaseFails, Crash
<1> QED
  BY <1>1, <1>2

LEMMA PlayedInit == Init => Played /\ Stored
BY DEF Init, Played, Stored

LEMMA PlayedStep ==
  ASSUME TypeOK, LoadedInOrder, Played, Stored, [Next]_vars
  PROVE  Played' /\ Stored'
<1> DEFINE
      Ok(f) ==
        /\ at[f] = "build" /\ slot[f] = 2 => played[f][1] = sub[f][1]
        /\ (\/ at[f] \in {"play", "reload", "update", "commit", "done"}
            \/ at[f] = "clean" /\ ~ raising[f])
           => played[f] = sub[f]
<1>1. ASSUME NEW e \in Executions, Execute(e) \/ Fail(e)
      PROVE  Played' /\ Stored'
  <2>1. ASSUME NEW f \in Executions \ {e} PROVE Ok(f)'
    <3>1. Same(f)
      BY <1>1, Others
    <3> QED
      BY <3>1 DEF Played, Same
  <2>2. Ok(e)
    BY DEF Played
  <2>3. Ok(e)'
    <3> USE <2>2, SlotFacts DEF TypeOK, data, Leave, Advance, Slots
    <3>1. CASE Load(e)
      <4>1. at'[e] \in {"load", "build"} /\ (at'[e] = "build" => slot'[e] = 1)
        BY <3>1 DEF Load
      <4> QED
        BY <4>1
    <3>2. CASE Build(e)
      <4>1. /\ at[e] = "build" /\ sub' = sub
            /\ played' = [played EXCEPT ![e][slot[e]] = sub[e][slot[e]]]
            /\ at' = [at EXCEPT ![e] = IF slot[e] = 1 THEN @ ELSE "play"]
            /\ slot' = [slot EXCEPT ![e] = 3 - @]
        BY <3>2 DEF Build
      <4>2. CASE slot[e] = 1
        BY <4>1, <4>2
      <4>3. CASE slot[e] = 2
        <5>1. played'[e] \in [Slots -> Submissions \cup {NoSub}]
          BY <4>1, <4>3
        <5>2. played'[e][1] = sub[e][1] /\ played'[e][2] = sub[e][2]
          BY <4>1, <4>3
        <5>3. played'[e] = [i \in Slots |-> played'[e][i]]
              /\ sub[e] = [i \in Slots |-> sub[e][i]]
          BY <5>1
        <5>4. played'[e] = sub[e]
          BY <5>2, <5>3
        <5> QED
          BY <4>1, <4>3, <5>4
      <4> QED
        BY <4>2, <4>3
    <3>3. CASE BuildFails(e)
      BY <3>3 DEF BuildFails
    <3>4. ASSUME NEW i \in Slots, StartContainer(e, i) PROVE Ok(e)'
      BY <3>4 DEF StartContainer
    <3>5. CASE CommitLiveMove(e) \/ PlayRaises(e) \/ Reload(e) \/ UpdateRow(e)
      BY <3>5 DEF CommitLiveMove, PlayRaises, Reload, UpdateRow, MayUpdate
    <3>6. ASSUME NEW w \in {0} \cup Slots, EndMatch(e, w) PROVE Ok(e)'
      BY <3>6 DEF EndMatch
    <3>7. CASE Clean(e)
      BY <3>7 DEF Clean, AfterClean
    <3>8. CASE CleanRaises(e)
      BY <3>8 DEF CleanRaises, Gone
    <3>9. CASE UpdateRejected(e) \/ Commit(e)
      BY <3>9 DEF UpdateRejected, MayUpdate, Commit, Gone
    <3>10. CASE DatabaseFails(e) \/ Crash(e)
      BY <3>10 DEF DatabaseFails, Crash, Gone
    <3> QED
      BY <1>1, <3>1, <3>2, <3>3, <3>4, <3>5, <3>6, <3>7, <3>8, <3>9, <3>10
      DEF Execute, Fail
  <2>4. Stored'
    <3>1. InProgress(e)
      BY <1>1, ActsInProgress
    <3>2. ASSUME NEW n \in DOMAIN history
          PROVE  /\ at'[history[n].execution] = "done"
                 /\ history[n].sub = sub'[history[n].execution]
      <4>1. history[n].execution \in Executions /\ at[history[n].execution] = "done"
            /\ history[n].sub = sub[history[n].execution]
        <5>1. history[n] \in MatchRows
          BY DEF TypeOK
        <5> QED
          BY <5>1 DEF Stored, MatchRows
      <4>2. history[n].execution # e
        BY <3>1, <4>1 DEF InProgress, Ended
      <4>3. Same(history[n].execution)
        BY <1>1, <4>1, <4>2, Others
      <4> QED
        BY <4>1, <4>3 DEF Same
    <3>3. CASE history' = history
      BY <3>2, <3>3 DEF Stored
    <3>4. CASE Commit(e)
      <4>1. history' = Append(history, MatchRow(e)) /\ sub' = sub
            /\ at'[e] = "done"
        BY <3>4 DEF Commit, Gone, Leave, TypeOK
      <4>2. MatchRow(e).execution = e /\ MatchRow(e).sub = sub[e]
        BY DEF MatchRow, Credited, TypeOK
      <4>3. DOMAIN history' = DOMAIN history \cup {Len(history) + 1}
            /\ \A n \in DOMAIN history : history'[n] = history[n]
            /\ history'[Len(history) + 1] = MatchRow(e)
        BY <4>1 DEF TypeOK
      <4> QED
        BY <3>2, <4>1, <4>2, <4>3 DEF Stored
    <3> QED
      BY <1>1, <3>3, <3>4, ActsInProgress
  <2> QED
    BY <2>1, <2>3, <2>4 DEF Played
<1>2. ASSUME NEW b \in Bots, Activate(b) PROVE Played' /\ Stored'
  BY <1>2 DEF Activate, Played, Stored
<1>3. CASE UNCHANGED vars
  BY <1>3 DEF vars, Played, Stored
<1> QED
  BY <1>1, <1>2, <1>3 DEF Next

LEMMA DirectoriesInit == Init => Directories
BY DEF Init, Directories, NoBox, Slots

LEMMA DirectoriesStep ==
  ASSUME TypeOK, LoadedInOrder, Directories, [Next]_vars
  PROVE  Directories'
<1> DEFINE
      Ok(f) ==
        /\ at[f] = "build" => box[f][2].holds = NoSub
        /\ at[f] = "build" /\ slot[f] = 1 => box[f][1].holds = NoSub
        /\ at[f] = "clean" /\ slot[f] = 2 => box[f][1].holds = NoSub
        /\ at[f] \in {"load", "reload", "update", "commit", "done", "raised", "conflict"}
             => \A i \in Slots : box[f][i].holds = NoSub
<1>1. ASSUME NEW e \in Executions, Execute(e) \/ Fail(e) PROVE Directories'
  <2>1. ASSUME NEW f \in Executions \ {e} PROVE Ok(f)'
    <3>1. Same(f)
      BY <1>1, Others
    <3> QED
      BY <3>1 DEF Directories, Same
  <2>2. Ok(e)
    BY DEF Directories
  <2>3. Ok(e)'
    <3> USE <2>2, SlotFacts DEF TypeOK, data, Leave, Advance, Slots
    <3>1. CASE Load(e)
      BY <3>1 DEF Load
    <3>2. CASE Build(e)
      <4>1. /\ at[e] = "build" /\ at'[e] = IF slot[e] = 1 THEN "build" ELSE "play"
            /\ slot'[e] = 3 - slot[e]
            /\ box' = [box EXCEPT ![e][slot[e]].holds = sub[e][slot[e]]]
        BY <3>2 DEF Build
      <4>2. slot[e] = 1 => box'[e][2] = box[e][2]
        BY <4>1
      <4> QED
        BY <4>1, <4>2
    <3>3. CASE BuildFails(e)
      BY <3>3 DEF BuildFails
    <3>4. ASSUME NEW i \in Slots, StartContainer(e, i) PROVE Ok(e)'
      BY <3>4 DEF StartContainer
    <3>5. CASE CommitLiveMove(e) \/ PlayRaises(e) \/ Reload(e) \/ UpdateRow(e)
      BY <3>5 DEF CommitLiveMove, PlayRaises, Reload, UpdateRow, MayUpdate
    <3>6. ASSUME NEW w \in {0} \cup Slots, EndMatch(e, w) PROVE Ok(e)'
      BY <3>6 DEF EndMatch
    <3>7. CASE Clean(e)
      <4>1. /\ at[e] = "clean" /\ slot'[e] = 3 - slot[e]
            /\ at'[e] = IF slot[e] = 1 THEN "clean" ELSE AfterClean(e)
            /\ box'[e][slot[e]].holds = NoSub
            /\ box'[e][3 - slot[e]] = box[e][3 - slot[e]]
        BY <3>7 DEF Clean
      <4>2. AfterClean(e) \in {"raised", "reload"}
        BY DEF AfterClean
      <4> QED
        BY <4>1, <4>2
    <3>8. CASE CleanRaises(e)
      BY <3>8 DEF CleanRaises, Gone
    <3>9. CASE UpdateRejected(e) \/ Commit(e)
      BY <3>9 DEF UpdateRejected, MayUpdate, Commit, Gone
    <3>10. CASE DatabaseFails(e) \/ Crash(e)
      BY <3>10 DEF DatabaseFails, Crash, Gone
    <3> QED
      BY <1>1, <3>1, <3>2, <3>3, <3>4, <3>5, <3>6, <3>7, <3>8, <3>9, <3>10
      DEF Execute, Fail
  <2> QED
    BY <2>1, <2>3 DEF Directories
<1>2. ASSUME NEW b \in Bots, Activate(b) PROVE Directories'
  BY <1>2 DEF Activate, Directories
<1>3. CASE UNCHANGED vars
  BY <1>3 DEF vars, Directories
<1> QED
  BY <1>1, <1>2, <1>3 DEF Next

-----------------------------------------------------------------------------
(* What an execution has loaded.                                           *)

LEMMA LoadedInit == Init => Loaded
BY DEF Init, Loaded

LEMMA LoadedStep ==
  ASSUME TypeOK, LoadedInOrder, Loaded, [Next]_vars
  PROVE  Loaded'
<1> DEFINE
      Ok(f) == /\ at[f] = "reload" /\ slot[f] = 2 => row[f][1] # Expired
               /\ at[f] \in {"update", "commit"} => \A i \in Slots : row[f][i] # Expired
<1>1. ASSUME NEW e \in Executions, Execute(e) \/ Fail(e) PROVE Loaded'
  <2>1. ASSUME NEW f \in Executions \ {e} PROVE Ok(f)'
    <3>1. Same(f)
      BY <1>1, Others
    <3> QED
      BY <3>1 DEF Loaded, Same
  <2>2. Ok(e)
    BY DEF Loaded
  <2>3. Ok(e)'
    <3> USE <2>2, SlotFacts DEF TypeOK, data, Leave, Advance, Slots
    <3>1. CASE Load(e)
      BY <3>1 DEF Load
    <3>2. CASE Build(e) \/ BuildFails(e)
      BY <3>2 DEF Build, BuildFails
    <3>3. ASSUME NEW i \in Slots, StartContainer(e, i) PROVE Ok(e)'
      BY <3>3 DEF StartContainer
    <3>4. CASE CommitLiveMove(e) \/ PlayRaises(e) \/ UpdateRow(e)
      BY <3>4 DEF CommitLiveMove, PlayRaises, UpdateRow, MayUpdate
    <3>5. ASSUME NEW w \in {0} \cup Slots, EndMatch(e, w) PROVE Ok(e)'
      BY <3>5 DEF EndMatch
    <3>6. CASE Clean(e)
      <4>1. slot[e] = 2 => slot'[e] = 1
        BY <3>6 DEF Clean
      <4>2. at'[e] \in {"clean", "raised"} \/ (at'[e] = "reload" /\ slot'[e] = 1)
        BY <3>6, <4>1 DEF Clean, AfterClean
      <4> QED
        BY <4>2
    <3>7. CASE Reload(e)
      <4>1. sub[e][slot[e]] \in Submissions
        BY <3>7 DEF Reload, LoadedInOrder, BeyondLoad
      <4>2. record[sub[e][slot[e]]] # Expired
        BY <4>1 DEF Records, Expired
      <4>3. row'[e][slot[e]] # Expired /\ row'[e][3 - slot[e]] = row[e][3 - slot[e]]
        BY <3>7, <4>2 DEF Reload
      <4>4. /\ at[e] = "reload" /\ slot'[e] = 3 - slot[e]
            /\ at'[e] = IF slot[e] = 1 THEN "reload" ELSE "update"
        BY <3>7 DEF Reload
      <4> QED
        BY <4>3, <4>4
    <3>8. CASE CleanRaises(e) \/ UpdateRejected(e) \/ Commit(e)
      BY <3>8 DEF CleanRaises, UpdateRejected, Commit, Gone
    <3>9. CASE DatabaseFails(e) \/ Crash(e)
      BY <3>9 DEF DatabaseFails, Crash, Gone
    <3> QED
      BY <1>1, <3>1, <3>2, <3>3, <3>4, <3>5, <3>6, <3>7, <3>8, <3>9
      DEF Execute, Fail
  <2> QED
    BY <2>1, <2>3 DEF Loaded
<1>2. ASSUME NEW b \in Bots, Activate(b) PROVE Loaded'
  BY <1>2 DEF Activate, Loaded
<1>3. CASE UNCHANGED vars
  BY <1>3 DEF vars, Loaded
<1> QED
  BY <1>1, <1>2, <1>3 DEF Next

(* The submissions an execution has loaded are those of two bots.          *)
LEMMA TwoSubmissions ==
  ASSUME TypeOK, LoadedInOrder, NEW e \in Executions, at[e] = "commit"
  PROVE  /\ sub[e][1] \in Submissions /\ sub[e][2] \in Submissions
         /\ sub[e][1] # sub[e][2]
<1>1. \A i \in Slots : sub[e][i] \in Submissions /\ BotOf[sub[e][i]] = Plays[e][i]
  BY DEF TypeOK, LoadedInOrder, BeyondLoad, NoSub
<1> QED
  BY <1>1, PlaysAssumption DEF Slots

(* An execution takes submissions up only when it loads them.              *)
LEMMA KeepsSubmissions ==
  ASSUME TypeOK, NEW e \in Executions, Execute(e) \/ Fail(e), ~ Load(e)
  PROVE  sub' = sub /\ before'[e] \in {before[e], [i \in Slots |-> 0]}
         /\ (InProgress(e)' => before'[e] = before[e])
BY DEF TypeOK, data, Execute, Fail, Build, StartContainer, CommitLiveMove,
   EndMatch, Clean, Reload, UpdateRow, Commit, BuildFails, PlayRaises,
   CleanRaises, UpdateRejected, DatabaseFails, Crash, Gone, Leave, InProgress, Ended

(* After that it forgets a row, or reads it again.                         *)
LEMMA KeepsRows ==
  ASSUME TypeOK, NEW e \in Executions, Execute(e) \/ Fail(e), ~ Load(e),
         NEW i \in Slots
  PROVE  \/ row'[e][i] = row[e][i] /\ ~ Commit(e)
         \/ row'[e][i] = Expired
         \/ row'[e][i] = record[sub[e][i]] /\ Reload(e)
<1>1. CASE CommitLiveMove(e)
  BY <1>1 DEF CommitLiveMove, TypeOK
<1>2. CASE Reload(e)
  BY <1>2 DEF Reload, Commit, TypeOK
<1>3. CASE Fail(e)
  <2>1. CASE BuildFails(e) \/ PlayRaises(e)
    BY <2>1 DEF BuildFails, PlayRaises, Commit
  <2>2. CASE ~ (BuildFails(e) \/ PlayRaises(e))
    BY <1>3, <2>2 DEF Fail, CleanRaises, UpdateRejected, DatabaseFails, Crash,
       Gone, TypeOK
  <2> QED
    BY <2>1, <2>2
<1>4. CASE Build(e) \/ Clean(e) \/ UpdateRow(e)
  BY <1>4 DEF Build, Clean, UpdateRow, MayUpdate, Commit
<1>5. ASSUME NEW j \in Slots, StartContainer(e, j) PROVE row' = row /\ ~ Commit(e)
  BY <1>5 DEF StartContainer, Commit
<1>6. ASSUME NEW w \in {0} \cup Slots, EndMatch(e, w)
      PROVE  row' = row /\ ~ Commit(e)
  BY <1>6 DEF EndMatch, Commit
<1>7. CASE Commit(e)
  BY <1>7 DEF Commit, Gone, TypeOK
<1> QED
  BY <1>1, <1>2, <1>3, <1>4, <1>5, <1>6, <1>7 DEF Execute

LEMMA SoleUserInit == Init => SoleUser /\ UpToDate
BY DEF Init, SoleUser, UpToDate

LEMMA SoleUserStep ==
  ASSUME TypeOK, LoadedInOrder, SoleUser, [Next]_vars
  PROVE  SoleUser'
<1>1. ASSUME NEW e \in Executions, Execute(e) \/ Fail(e) PROVE SoleUser'
  <2>1. \A f \in Executions : InProgress(f)' => InProgress(f)
    <3>1. \A f \in Executions \ {e} : Same(f)
      BY <1>1, Others
    <3> QED
      BY <1>1, <3>1, ActsInProgress DEF Same, InProgress
  <2>2. CASE Load(e)
    <3> DEFINE s == active[Plays[e][slot[e]]]
    <3>1. /\ sub' = [sub EXCEPT ![e][slot[e]] = s]
          /\ overlapped' = overlapped \cup
               {t \in {s} : \E f \in Executions \ {e}, i \in Slots :
                              InProgress(f) /\ sub[f][i] = t}
      BY <2>2 DEF Load
    <3>2. ASSUME NEW f \in Executions \ {e}, NEW j \in Slots,
                 InProgress(f), sub[f][j] = s
          PROVE  s \in overlapped'
      BY <3>1, <3>2
    <3>3. overlapped \subseteq overlapped'
      BY <3>1
    <3>4. InProgress(e)
      BY <1>1, ActsInProgress
    <3> HIDE DEF s
    <3>5. ASSUME NEW f \in Executions, NEW i \in Slots
          PROVE  sub'[f][i] = IF f = e /\ i = slot[e] THEN s ELSE sub[f][i]
      BY <3>1 DEF TypeOK
    <3> QED
      BY <2>1, <3>2, <3>3, <3>4, <3>5 DEF SoleUser
  <2>3. CASE ~ Load(e)
    <3>1. sub' = sub /\ overlapped' = overlapped
      BY <1>1, <2>3, KeepsSubmissions, ActsInProgress
    <3> QED
      BY <2>1, <3>1 DEF SoleUser
  <2> QED
    BY <2>2, <2>3
<1>2. ASSUME NEW b \in Bots, Activate(b) PROVE SoleUser'
  BY <1>2 DEF Activate, SoleUser, InProgress
<1>3. CASE UNCHANGED vars
  BY <1>3 DEF vars, SoleUser, InProgress
<1> QED
  BY <1>1, <1>2, <1>3 DEF Next

LEMMA UpToDateStep ==
  ASSUME TypeOK, LoadedInOrder, SoleUser, UpToDate, [Next]_vars
  PROVE  UpToDate'
<1> DEFINE
      Ok(f, i) ==
        InProgress(f) /\ sub[f][i] # NoSub /\ sub[f][i] \notin overlapped =>
          /\ before[f][i] = record[sub[f][i]].rating
          /\ row[f][i] \in {Expired, record[sub[f][i]]}
<1>1. ASSUME NEW e \in Executions, Execute(e) \/ Fail(e),
             NEW f \in Executions, NEW i \in Slots
      PROVE  Ok(f, i)'
  <2>1. Ok(f, i) /\ overlapped \subseteq overlapped' /\ InProgress(e)
    <3>1. overlapped \subseteq overlapped'
      BY <1>1, ActsInProgress DEF Load
    <3> QED
      BY <1>1, <3>1, ActsInProgress DEF UpToDate
  <2>2. CASE f # e
    <3>1. Same(f)
      BY <1>1, <2>2, Others
    <3>2. SUFFICES ASSUME InProgress(f)', sub[f][i] # NoSub,
                          sub[f][i] \notin overlapped'
                   PROVE  /\ before[f][i] = record'[sub[f][i]].rating
                          /\ row[f][i] \in {Expired, record'[sub[f][i]]}
      BY <3>1 DEF Same
    <3>3. InProgress(f) /\ sub[f][i] \notin overlapped /\ sub[f][i] \in Submissions
      BY <2>1, <3>1, <3>2 DEF Same, InProgress, TypeOK
    <3>4. record'[sub[f][i]] = record[sub[f][i]]
      <4>1. CASE record' = record
        BY <4>1
      <4>2. CASE Commit(e)
        <5>1. sub[e][1] # sub[f][i] /\ sub[e][2] # sub[f][i]
          BY <2>1, <2>2, <3>2, <3>3 DEF SoleUser, Slots
        <5> QED
          BY <3>3, <4>2, <5>1 DEF Commit
      <4> QED
        BY <1>1, <4>1, <4>2, ActsInProgress
    <3> QED
      BY <2>1, <3>2, <3>3, <3>4
  <2>3. CASE f = e
    <3>1. CASE Load(e)
      <4> DEFINE s == active[Plays[e][slot[e]]]
      <4>1. /\ sub' = [sub EXCEPT ![e][slot[e]] = s]
            /\ before' = [before EXCEPT ![e][slot[e]] = record[s].rating]
            /\ row' = [row EXCEPT ![e][slot[e]] = record[s]]
            /\ record' = record
        BY <3>1 DEF Load, data
      <4> HIDE DEF s
      <4>2. CASE i = slot[e]
        <5>1. /\ sub'[e][i] = s /\ before'[e][i] = record[s].rating
              /\ row'[e][i] = record[s]
          BY <4>1, <4>2 DEF TypeOK
        <5> QED
          BY <2>3, <4>1, <5>1
      <4>3. CASE i # slot[e]
        <5>1. /\ sub'[e][i] = sub[e][i] /\ before'[e][i] = before[e][i]
              /\ row'[e][i] = row[e][i]
          BY <4>1, <4>3 DEF TypeOK
        <5> QED
          BY <2>1, <2>3, <4>1, <5>1
      <4> QED
        BY <4>2, <4>3
    <3>2. CASE ~ Load(e)
      <4>1. sub' = sub /\ (InProgress(e)' => before'[e] = before[e])
            /\ overlapped' = overlapped
        BY <1>1, <3>2, KeepsSubmissions, ActsInProgress
      <4>2. CASE Commit(e)
        BY <2>3, <4>2 DEF Commit, Gone, Leave, InProgress, Ended, TypeOK
      <4>3. CASE ~ Commit(e)
        <5>1. record' = record
          BY <1>1, <4>3, ActsInProgress
        <5>2. row'[e][i] \in {row[e][i], Expired, record[sub[e][i]]}
          BY <1>1, <2>3, <3>2, KeepsRows
        <5> QED
          BY <2>1, <2>3, <4>1, <5>1, <5>2
      <4> QED
        BY <4>2, <4>3
    <3> QED
      BY <3>1, <3>2
  <2> QED
    BY <2>2, <2>3
<1>2. ASSUME NEW b \in Bots, Activate(b) PROVE UpToDate'
  BY <1>2 DEF Activate, UpToDate, InProgress
<1>3. CASE UNCHANGED vars
  BY <1>3 DEF vars, UpToDate, InProgress
<1> QED
  <2>1. CASE \E e \in Executions : Execute(e) \/ Fail(e)
    BY <1>1, <2>1 DEF UpToDate
  <2> QED
    BY <1>2, <1>3, <2>1 DEF Next

-----------------------------------------------------------------------------
(* The records and the history.                                            *)

LEMMA MatchesFinite ==
  ASSUME TypeOK, NEW s
  PROVE  /\ IsFiniteSet(MatchesOf(s)) /\ IsFiniteSet(Wins(s))
         /\ IsFiniteSet(Losses(s)) /\ IsFiniteSet(Draws(s))
         /\ Cardinality(MatchesOf(s)) \in Nat /\ Cardinality(Wins(s)) \in Nat
         /\ Cardinality(Losses(s)) \in Nat /\ Cardinality(Draws(s)) \in Nat
         /\ MatchesOf(s) \subseteq 1..Len(history)
<1>1. IsFiniteSet(1..Len(history)) /\ MatchesOf(s) \subseteq 1..Len(history)
  BY FS_Interval DEF TypeOK, MatchesOf
<1>2. Wins(s) \subseteq MatchesOf(s) /\ Losses(s) \subseteq MatchesOf(s)
      /\ Draws(s) \subseteq MatchesOf(s)
  BY DEF Wins, Losses, Draws
<1>3. IsFiniteSet(MatchesOf(s))
  BY <1>1, FS_Subset
<1>4. IsFiniteSet(Wins(s)) /\ IsFiniteSet(Losses(s)) /\ IsFiniteSet(Draws(s))
  BY <1>2, <1>3, FS_Subset
<1> QED
  BY <1>1, <1>3, <1>4, FS_CardinalityType

(* What a commit adds to the history.                                      *)
LEMMA CommitRow ==
  ASSUME TypeOK, LoadedInOrder, NEW e \in Executions, Commit(e)
  PROVE  LET n == Len(history) + 1 IN
         /\ DOMAIN history' = DOMAIN history \cup {n} /\ Len(history') = n
         /\ DOMAIN history = 1..Len(history) /\ Len(history) \in Nat
         /\ \A k \in DOMAIN history : history'[k] = history[k]
         /\ history'[n].sub = sub[e] /\ history'[n].winner = winner[e]
         /\ history'[n].before = before[e]
         /\ \A i \in Slots : history'[n].after[i] = RatingAfter(e, i)
<1> DEFINE n == Len(history) + 1
<1>1. history' = Append(history, MatchRow(e))
  BY DEF Commit
<1>2. /\ DOMAIN history' = DOMAIN history \cup {n} /\ Len(history') = n
      /\ DOMAIN history = 1..Len(history) /\ Len(history) \in Nat
      /\ \A k \in DOMAIN history : history'[k] = history[k]
      /\ history'[n] = MatchRow(e)
  BY <1>1 DEF TypeOK
<1>3. /\ MatchRow(e).sub = sub[e] /\ MatchRow(e).winner = winner[e]
      /\ MatchRow(e).before = before[e]
      /\ \A i \in Slots : MatchRow(e).after[i] = RatingAfter(e, i)
  BY DEF MatchRow, Credited, TypeOK
<1> QED
  BY <1>2, <1>3

(* A match of two others leaves a submission's matches as they are.        *)
LEMMA CommitOfOthers ==
  ASSUME TypeOK, LoadedInOrder, NEW e \in Executions, Commit(e),
         NEW s \in Submissions, s # sub[e][1], s # sub[e][2]
  PROVE  /\ MatchesOf(s)' = MatchesOf(s) /\ Wins(s)' = Wins(s)
         /\ Losses(s)' = Losses(s) /\ Draws(s)' = Draws(s)
<1>1. MatchesOf(s)' = MatchesOf(s)
  BY CommitRow DEF MatchesOf, Slots
<1>2. \A k \in MatchesOf(s) : history'[k] = history[k]
  BY CommitRow DEF MatchesOf
<1> QED
  BY <1>1, <1>2 DEF Wins, Losses, Draws

(* A match of its own is one more, won, lost or drawn.                     *)
LEMMA CommitOfOwn ==
  ASSUME TypeOK, LoadedInOrder, NEW e \in Executions, Commit(e),
         NEW i \in Slots, NEW s \in Submissions, s = sub[e][i]
  PROVE  LET n == Len(history) + 1 IN
         /\ MatchesOf(s)' = MatchesOf(s) \cup {n}
         /\ Wins(s)' = Wins(s) \cup (IF winner[e] = i THEN {n} ELSE {})
         /\ Losses(s)' = Losses(s) \cup (IF winner[e] = 3 - i THEN {n} ELSE {})
         /\ Draws(s)' = Draws(s) \cup (IF winner[e] = 0 THEN {n} ELSE {})
         /\ n \notin MatchesOf(s)
<1> DEFINE n == Len(history) + 1
<1>1. \A j \in Slots : sub[e][j] = s => j = i
  BY TwoSubmissions DEF Commit, Slots
<1>2. MatchesOf(s)' = MatchesOf(s) \cup {n}
  BY CommitRow DEF MatchesOf
<1>3. n \notin MatchesOf(s) /\ \A k \in MatchesOf(s) : history'[k] = history[k]
  BY CommitRow DEF MatchesOf
<1>4. history'[n].sub = sub[e] /\ history'[n].winner = winner[e]
  BY CommitRow
<1> HIDE DEF n
<1>5. Wins(s)' = Wins(s) \cup (IF winner[e] = i THEN {n} ELSE {})
  BY <1>1, <1>2, <1>3, <1>4 DEF Wins
<1>6. Losses(s)' = Losses(s) \cup (IF winner[e] = 3 - i THEN {n} ELSE {})
  BY <1>1, <1>2, <1>3, <1>4 DEF Losses
<1>7. Draws(s)' = Draws(s) \cup (IF winner[e] = 0 THEN {n} ELSE {})
  BY <1>2, <1>3, <1>4 DEF Draws
<1> QED
  BY <1>2, <1>3, <1>5, <1>6, <1>7 DEF n

LEMMA RecordsInit == Init => NotAhead /\ Sums /\ Conflicts
<1> SUFFICES ASSUME Init PROVE NotAhead /\ Sums /\ Conflicts
  OBVIOUS
<1>1. DOMAIN history = {} /\ Len(history) = 0
  BY DEF Init
<1>2. ASSUME NEW s
      PROVE  MatchesOf(s) = {} /\ Wins(s) = {} /\ Losses(s) = {} /\ Draws(s) = {}
  BY <1>1 DEF MatchesOf, Wins, Losses, Draws
<1>3. ASSUME NEW s \in Submissions
      PROVE  /\ record[s].rating = InitialRating /\ record[s].games = 0
             /\ record[s].wins = 0 /\ record[s].losses = 0 /\ record[s].draws = 0
  BY DEF Init, NewRecord, Expired
<1>4. ASSUME NEW s \in Submissions
      PROVE  /\ record[s].games = Cardinality(MatchesOf(s))
             /\ RecordAddsUp(record[s]) /\ SumsUp(s)
  <2>1. Cardinality({}) = 0
    BY FS_EmptySet
  <2>2. RecordAddsUp(record[s])
    BY <1>3 DEF RecordAddsUp
  <2>3. CarriesInto(s, record[s].rating, Len(history) + 1)
    BY <1>2, <1>3 DEF CarriesInto
  <2>4. SumsUp(s)
    BY <1>2, <1>3, <2>1, <2>3 DEF SumsUp
  <2> QED
    BY <1>2, <1>3, <2>1, <2>2, <2>4
<1>5. NotAhead
  <2>1. \A s \in Submissions : record[s].games <= Cardinality(MatchesOf(s))
    <3>1. Cardinality({}) = 0
      BY FS_EmptySet
    <3> QED
      BY <1>2, <1>3, <3>1
  <2>2. \A e \in Executions, i \in Slots : row[e][i] = Expired
    BY DEF Init
  <2> QED
    BY <2>1, <2>2 DEF NotAhead
<1> QED
  BY <1>4, <1>5 DEF Sums, Conflicts, Init

LEMMA NotAheadStep ==
  ASSUME TypeOK, LoadedInOrder, Loaded, NotAhead, [Next]_vars
  PROVE  NotAhead'
<1>1. ASSUME NEW e \in Executions, Execute(e) \/ Fail(e) PROVE NotAhead'
  <2>1. \A f \in Executions \ {e} : Same(f)
    BY <1>1, Others
  <2>2. CASE Load(e)
    <3> DEFINE s == active[Plays[e][slot[e]]]
    <3>1. /\ sub' = [sub EXCEPT ![e][slot[e]] = s]
          /\ row' = [row EXCEPT ![e][slot[e]] = record[s]]
          /\ record' = record /\ history' = history
      BY <2>2 DEF Load, data
    <3>2. s \in Submissions /\ s # NoSub
      BY PlaysAssumption, SubmissionsAssumption DEF TypeOK, NoSub, Slots
    <3> HIDE DEF s
    <3>3. ASSUME NEW f \in Executions, NEW i \in Slots
          PROVE  \/ sub'[f][i] = sub[f][i] /\ row'[f][i] = row[f][i]
                 \/ sub'[f][i] = s /\ row'[f][i] = record[s]
      BY <3>1 DEF TypeOK
    <3>4. ASSUME NEW t PROVE MatchesOf(t)' = MatchesOf(t)
      BY <3>1 DEF MatchesOf
    <3>5. \A t \in Submissions : record'[t].games <= Cardinality(MatchesOf(t)')
      BY <3>1, <3>4 DEF NotAhead
    <3>6. ASSUME NEW f \in Executions, NEW i \in Slots, row'[f][i] # Expired
          PROVE  /\ sub'[f][i] # NoSub
                 /\ row'[f][i].games <= Cardinality(MatchesOf(sub[f][i])')
      <4>1. MatchesOf(sub[f][i])' = MatchesOf(sub'[f][i])
        BY <3>1 DEF MatchesOf
      <4> QED
        BY <3>2, <3>3, <3>6, <4>1 DEF NotAhead
    <3> QED
      BY <3>5, <3>6 DEF NotAhead
  <2>3. CASE ~ Load(e) /\ ~ Commit(e)
    <3>1. record' = record /\ history' = history /\ sub' = sub
      BY <1>1, <2>3, ActsInProgress, KeepsSubmissions
    <3>2. ASSUME NEW t PROVE MatchesOf(t)' = MatchesOf(t)
      BY <3>1 DEF MatchesOf
    <3>3. ASSUME NEW f \in Executions, NEW i \in Slots, row'[f][i] # Expired
          PROVE  /\ sub[f][i] # NoSub
                 /\ row'[f][i].games <= Cardinality(MatchesOf(sub[f][i]))
      <4>1. CASE row'[f][i] = row[f][i]
        BY <3>3, <4>1 DEF NotAhead
      <4>2. CASE f = e /\ Reload(e) /\ row'[f][i] = record[sub[f][i]]
        <5>1. sub[e][i] \in Submissions /\ sub[e][i] # NoSub
          BY <4>2 DEF Reload, LoadedInOrder, BeyondLoad, TypeOK
        <5> QED
          BY <4>2, <5>1 DEF NotAhead
      <4> QED
        BY <1>1, <2>1, <2>3, <3>3, <4>1, <4>2, KeepsRows DEF Same
    <3>4. \A t \in Submissions : record'[t].games <= Cardinality(MatchesOf(t)')
      BY <3>1, <3>2 DEF NotAhead
    <3>5. ASSUME NEW f \in Executions, NEW i \in Slots
          PROVE  MatchesOf(sub[f][i])' = MatchesOf(sub[f][i])
      BY <3>1 DEF MatchesOf
    <3> QED
      BY <3>1, <3>3, <3>4, <3>5 DEF NotAhead
  <2>4. CASE Commit(e)
    <3>1. sub' = sub /\ \A i \in Slots : row'[e][i] = Expired
      BY <2>4 DEF Commit, Gone, TypeOK
    <3>2. ASSUME NEW s \in Submissions
          PROVE  /\ Cardinality(MatchesOf(s)) <= Cardinality(MatchesOf(s)')
                 /\ Cardinality(MatchesOf(s)) \in Nat
                 /\ Cardinality(MatchesOf(s)') \in Nat
      <4>1. CASE \E i \in Slots : s = sub[e][i]
        <5>1. PICK i \in Slots : s = sub[e][i]
          BY <4>1
        <5>2. MatchesOf(s)' = MatchesOf(s) \cup {Len(history) + 1}
              /\ Len(history) + 1 \notin MatchesOf(s)
          BY <2>4, <5>1, CommitOfOwn
        <5>3. IsFiniteSet(MatchesOf(s)) /\ Cardinality(MatchesOf(s)) \in Nat
          BY MatchesFinite
        <5>4. Cardinality(MatchesOf(s) \cup {Len(history) + 1})
                = Cardinality(MatchesOf(s)) + 1
          BY <5>2, <5>3, OneMore
        <5> QED
          BY <5>2, <5>3, <5>4
      <4>2. CASE ~ \E i \in Slots : s = sub[e][i]
        BY <2>4, <4>2, CommitOfOthers, MatchesFinite DEF Slots
      <4> QED
        BY <4>1, <4>2
    <3>3. ASSUME NEW s \in Submissions
          PROVE  record'[s].games <= Cardinality(MatchesOf(s)')
      <4>1. ASSUME NEW i \in Slots, s = sub[e][i],
                   record'[s] = NewRow(e, i)
            PROVE  record'[s].games <= Cardinality(MatchesOf(s)')
        <5>1. sub[e][i] # NoSub /\ row[e][i] # Expired
          BY <2>4 DEF Commit, Loaded, LoadedInOrder, BeyondLoad
        <5>2. record'[s].games = row[e][i].games + 1
          BY <4>1, <5>1, NewRowType
        <5>3. row[e][i].games \in Nat /\ row[e][i].games <= Cardinality(MatchesOf(s))
          <6>1. row[e][i] \in Records
            BY <5>1 DEF TypeOK
          <6>2. row[e][i].games <= Cardinality(MatchesOf(s))
            BY <4>1, <5>1 DEF NotAhead
          <6> QED
            BY <6>1, <6>2 DEF Records
        <5>4. Cardinality(MatchesOf(s)') = Cardinality(MatchesOf(s)) + 1
          <6>1. MatchesOf(s)' = MatchesOf(s) \cup {Len(history) + 1}
                /\ Len(history) + 1 \notin MatchesOf(s)
            BY <2>4, <4>1, CommitOfOwn
          <6>2. IsFiniteSet(MatchesOf(s))
            BY MatchesFinite
          <6>3. Cardinality(MatchesOf(s) \cup {Len(history) + 1})
                  = Cardinality(MatchesOf(s)) + 1
            BY <6>1, <6>2, OneMore
          <6> QED
            BY <6>1, <6>3
        <5> QED
          BY <5>2, <5>3, <5>4, MatchesFinite
      <4>2. CASE s # sub[e][1] /\ s # sub[e][2]
        BY <2>4, <4>2, CommitOfOthers DEF Commit, NotAhead
      <4>3. CASE s = sub[e][1]
        BY <2>4, <4>1, <4>3 DEF Commit, Slots
      <4>4. CASE s # sub[e][1] /\ s = sub[e][2]
        BY <2>4, <4>1, <4>4 DEF Commit, Slots
      <4> QED
        BY <4>2, <4>3, <4>4
    <3>4. ASSUME NEW f \in Executions, NEW i \in Slots, row'[f][i] # Expired
          PROVE  /\ sub'[f][i] # NoSub
                 /\ row'[f][i].games <= Cardinality(MatchesOf(sub[f][i])')
      <4>1. f # e /\ row'[f][i] = row[f][i]
        BY <2>1, <3>1, <3>4 DEF Same
      <4>2. row[f][i].games <= Cardinality(MatchesOf(sub[f][i])) /\ sub[f][i] # NoSub
        BY <3>4, <4>1 DEF NotAhead
      <4> DEFINE t == sub[f][i]
      <4>3. t \in Submissions /\ row[f][i] \in Records
        BY <3>4, <4>1, <4>2 DEF TypeOK
      <4>4. row[f][i].games \in Nat
        BY <4>3 DEF Records
      <4>5. PICK u \in Submissions : u = t
        BY <4>3
      <4>6. Cardinality(MatchesOf(u)) <= Cardinality(MatchesOf(u)')
        BY <3>2
      <4>7. MatchesOf(u)' = MatchesOf(sub[f][i])' /\ MatchesOf(u) = MatchesOf(sub[f][i])
        BY <3>1, <4>5 DEF MatchesOf
      <4>8. Cardinality(MatchesOf(u)) \in Nat /\ Cardinality(MatchesOf(u)') \in Nat
        BY <3>2
      <4> QED
        BY <3>1, <4>1, <4>2, <4>4, <4>6, <4>7, <4>8
    <3> QED
      BY <3>3, <3>4 DEF NotAhead
  <2> QED
    BY <2>2, <2>3, <2>4
<1>2. ASSUME NEW b \in Bots, Activate(b) PROVE NotAhead'
  BY <1>2 DEF Activate, NotAhead, MatchesOf
<1>3. CASE UNCHANGED vars
  BY <1>3 DEF vars, NotAhead, MatchesOf
<1> QED
  BY <1>1, <1>2, <1>3 DEF Next

(* A chain of ratings is not broken by rows that come later.               *)
LEMMA ChainGoesOn ==
  ASSUME TypeOK, LoadedInOrder, NEW e \in Executions, Commit(e),
         NEW s \in Submissions, NEW rating, NEW n \in 1..(Len(history) + 1),
         CarriesInto(s, rating, n)
  PROVE  CarriesInto(s, rating, n)'
<1>1. /\ MatchesOf(s)' \subseteq MatchesOf(s) \cup {Len(history) + 1}
      /\ MatchesOf(s) \subseteq MatchesOf(s)'
      /\ MatchesOf(s) \subseteq 1..Len(history)
      /\ \A k \in MatchesOf(s) : history'[k] = history[k]
      /\ Len(history) \in Nat
  BY CommitRow, Zenon DEF MatchesOf
<1>2. CASE rating = InitialRating /\ \A k \in MatchesOf(s) : k >= n
  BY <1>1, <1>2 DEF CarriesInto
<1>3. CASE \E k \in MatchesOf(s), i \in Slots :
             /\ k < n /\ \A l \in MatchesOf(s) : l <= k \/ l >= n
             /\ history[k].sub[i] = s /\ rating = history[k].after[i]
  BY <1>1, <1>3 DEF CarriesInto
<1> QED
  BY <1>2, <1>3 DEF CarriesInto

(* The rating a match leaves a submission with is the end of its chain.    *)
LEMMA ChainEndsInCommit ==
  ASSUME TypeOK, LoadedInOrder, NEW e \in Executions, Commit(e),
         NEW s \in Submissions, NEW i \in Slots, s = sub[e][i],
         NEW rating, rating = RatingAfter(e, i)
  PROVE  CarriesInto(s, rating, Len(history) + 1)'
<1> DEFINE k == Len(history) + 1
<1>1. MatchesOf(s)' = MatchesOf(s) \cup {k} /\ MatchesOf(s) \subseteq 1..Len(history)
  BY CommitOfOwn, MatchesFinite
<1>2. history'[k].sub[i] = s /\ rating = history'[k].after[i] /\ Len(history') = k
      /\ Len(history) \in Nat
  BY CommitRow
<1>3. k \in MatchesOf(s)' /\ k < k + 1 /\ \A l \in MatchesOf(s)' : l <= k
  BY <1>1, <1>2
<1> HIDE DEF k
<1> QED
  BY <1>2, <1>3 DEF CarriesInto

LEMMA SumsStep ==
  ASSUME TypeOK, LoadedInOrder, Loaded, UpToDate, Sums, [Next]_vars
  PROVE  Sums'
<1>1. ASSUME NEW s \in Submissions, s \notin overlapped,
             record'[s] = record[s], history' = history
      PROVE  RecordAddsUp(record[s])' /\ SumsUp(s)'
  <2>1. RecordAddsUp(record[s]) /\ SumsUp(s)
    BY <1>1 DEF Sums
  <2>2. MatchesOf(s)' = MatchesOf(s) /\ Wins(s)' = Wins(s)
        /\ Losses(s)' = Losses(s) /\ Draws(s)' = Draws(s)
    BY <1>1 DEF MatchesOf, Wins, Losses, Draws
  <2> QED
    BY <1>1, <2>1, <2>2 DEF SumsUp, CarriesInto, RecordAddsUp
<1>2. ASSUME NEW e \in Executions, Commit(e),
             NEW s \in Submissions, s \notin overlapped
      PROVE  RecordAddsUp(record[s])' /\ SumsUp(s)'
  <2> DEFINE n == Len(history) + 1
  <2>1. RecordAddsUp(record[s]) /\ SumsUp(s)
    BY <1>2 DEF Sums
  <2>2. /\ Len(history') = n /\ Len(history) \in Nat
        /\ DOMAIN history = 1..Len(history)
        /\ \A k \in DOMAIN history : history'[k] = history[k]
        /\ history'[n].sub = sub[e] /\ history'[n].before = before[e]
    BY <1>2, CommitRow
  <2>3. \A k \in MatchesOf(s), i \in Slots :
          history'[k].sub[i] = s => CarriesInto(s, history[k].before[i], k)'
    <3>1. ASSUME NEW k \in MatchesOf(s), NEW i \in Slots, history'[k].sub[i] = s
          PROVE  CarriesInto(s, history[k].before[i], k)'
      <4>1. k \in DOMAIN history /\ history'[k] = history[k]
        BY <2>2 DEF MatchesOf
      <4>2. PICK b : b = history[k].before[i]
        OBVIOUS
      <4>3. CarriesInto(s, b, k)
        BY <2>1, <3>1, <4>1, <4>2 DEF SumsUp
      <4>4. k \in 1..(Len(history) + 1)
        BY <2>2, <4>1
      <4>5. CarriesInto(s, b, k)'
        BY <1>2, <4>3, <4>4, ChainGoesOn
      <4> QED
        BY <4>1, <4>2, <4>5
    <3> QED
      BY <3>1
  <2>4. CASE s # sub[e][1] /\ s # sub[e][2]
    <3>1. record'[s] = record[s]
      BY <1>2, <2>4 DEF Commit
    <3>2. MatchesOf(s)' = MatchesOf(s) /\ Wins(s)' = Wins(s)
          /\ Losses(s)' = Losses(s) /\ Draws(s)' = Draws(s)
      BY <1>2, <2>4, CommitOfOthers
    <3>3. CarriesInto(s, record[s].rating, Len(history) + 1)'
      <4>1. CarriesInto(s, record[s].rating, Len(history) + 1)
        BY <2>1 DEF SumsUp
      <4>2. \A k \in MatchesOf(s) : history'[k] = history[k] /\ k \in 1..Len(history)
        BY <2>2 DEF MatchesOf
      <4> DEFINE r == record[s].rating
      <4>3. CASE r = InitialRating /\ \A k \in MatchesOf(s) : k >= n
        <5>1. MatchesOf(s) = {}
          BY <2>2, <4>2, <4>3
        <5> QED
          BY <3>1, <3>2, <4>3, <5>1 DEF CarriesInto
      <4>4. CASE \E k \in MatchesOf(s), i \in Slots :
                   /\ k < n /\ \A l \in MatchesOf(s) : l <= k \/ l >= n
                   /\ history[k].sub[i] = s /\ r = history[k].after[i]
        <5>1. PICK k \in MatchesOf(s), i \in Slots :
                   /\ k < n /\ \A l \in MatchesOf(s) : l <= k \/ l >= n
                   /\ history[k].sub[i] = s /\ r = history[k].after[i]
          BY <4>4
        <5>2. /\ k < n + 1 /\ \A l \in MatchesOf(s) : l <= k
              /\ history'[k].sub[i] = s /\ r = history'[k].after[i]
          BY <2>2, <4>2, <5>1
        <5> QED
          BY <2>2, <3>1, <3>2, <5>2 DEF CarriesInto
      <4> QED
        BY <4>1, <4>3, <4>4 DEF CarriesInto
    <3> QED
      BY <2>1, <2>3, <3>1, <3>2, <3>3 DEF SumsUp, RecordAddsUp
  <2>5. ASSUME NEW i \in Slots, s = sub[e][i]
        PROVE  RecordAddsUp(record[s])' /\ SumsUp(s)'
    <3>1. sub[e][i] # NoSub /\ row[e][i] # Expired /\ InProgress(e)
      BY <1>2 DEF Commit, LoadedInOrder, BeyondLoad, Loaded, InProgress, Ended
    <3>2. row[e][i] = record[s] /\ before[e][i] = record[s].rating
      BY <1>2, <2>5, <3>1 DEF UpToDate
    <3>3. record'[s] = NewRow(e, i)
      BY <1>2, <2>5, TwoSubmissions DEF Commit, Slots
    <3>4. /\ record'[s].rating = RatingAfter(e, i)
          /\ record'[s].games = record[s].games + 1
          /\ record'[s].wins = record[s].wins + (IF winner[e] = i THEN 1 ELSE 0)
          /\ record'[s].losses = record[s].losses + (IF winner[e] = 3 - i THEN 1 ELSE 0)
          /\ record'[s].draws = record[s].draws + (IF winner[e] = 0 THEN 1 ELSE 0)
          /\ RecordAddsUp(record'[s])
      BY <2>1, <2>5, <3>1, <3>2, <3>3, NewRowExact
    <3>5. /\ MatchesOf(s)' = MatchesOf(s) \cup {n}
          /\ Wins(s)' = Wins(s) \cup (IF winner[e] = i THEN {n} ELSE {})
          /\ Losses(s)' = Losses(s) \cup (IF winner[e] = 3 - i THEN {n} ELSE {})
          /\ Draws(s)' = Draws(s) \cup (IF winner[e] = 0 THEN {n} ELSE {})
          /\ n \notin MatchesOf(s)
      BY <1>2, <2>5, CommitOfOwn
    <3>6. n \notin Wins(s) /\ n \notin Losses(s) /\ n \notin Draws(s)
      BY <3>5 DEF Wins, Losses, Draws
    <3>. IsFiniteSet(MatchesOf(s)) /\ IsFiniteSet(Wins(s))
         /\ IsFiniteSet(Losses(s)) /\ IsFiniteSet(Draws(s))
      BY MatchesFinite
    <3>7. Cardinality(MatchesOf(s)') = Cardinality(MatchesOf(s)) + 1
      BY <3>5, OneMore
    <3>8. Cardinality(Wins(s)')
            = Cardinality(Wins(s)) + (IF winner[e] = i THEN 1 ELSE 0)
      BY <3>5, <3>6, OneMoreIf
    <3>9. Cardinality(Losses(s)')
            = Cardinality(Losses(s)) + (IF winner[e] = 3 - i THEN 1 ELSE 0)
      BY <3>5, <3>6, OneMoreIf
    <3>10. Cardinality(Draws(s)')
            = Cardinality(Draws(s)) + (IF winner[e] = 0 THEN 1 ELSE 0)
      BY <3>5, <3>6, OneMoreIf
    <3>11. CarriesInto(s, record[s].rating, Len(history) + 1)'
      <4>1. PICK r : r = RatingAfter(e, i)
        OBVIOUS
      <4>2. CarriesInto(s, r, Len(history) + 1)'
        BY <1>2, <2>5, <4>1, ChainEndsInCommit
      <4> QED
        BY <3>4, <4>1, <4>2
    <3>12. PICK m \in 1..(Len(history) + 1), b \in {before[e][i]} : m = n
      BY <2>2
    <3>13. \A j \in Slots : history'[m].sub[j] = s =>
             CarriesInto(s, history[m].before[j], m)'
      <4>1. ASSUME NEW j \in Slots, history'[n].sub[j] = s PROVE j = i
        BY <1>2, <2>2, <2>5, <4>1, TwoSubmissions DEF Commit, Slots
      <4>2. CarriesInto(s, b, m)
        BY <2>1, <3>2, <3>12 DEF SumsUp
      <4>3. CarriesInto(s, b, m)'
        BY <1>2, <4>2, ChainGoesOn
      <4>4. history'[m].before[i] = b
        BY <2>2, <3>12
      <4>5. \A j \in Slots : history'[m].sub[j] = s => j = i
        BY <3>12, <4>1
      <4> QED
        BY <4>3, <4>4, <4>5
    <3>14. \A k \in MatchesOf(s)', j \in Slots :
             history'[k].sub[j] = s => CarriesInto(s, history[k].before[j], k)'
      <4>1. MatchesOf(s)' = MatchesOf(s) \cup {m}
        BY <3>5, <3>12
      <4> QED
        BY <2>3, <3>13, <4>1
    <3> QED
      BY <2>1, <3>4, <3>7, <3>8, <3>9, <3>10, <3>11, <3>14
      DEF SumsUp, RecordAddsUp
  <2> QED
    BY <2>4, <2>5 DEF Slots
<1>3. overlapped \subseteq overlapped'
  <2>1. ASSUME NEW e \in Executions, Execute(e) \/ Fail(e)
        PROVE  overlapped \subseteq overlapped'
    BY <2>1, ActsInProgress DEF Load
  <2>2. ASSUME NEW b \in Bots, Activate(b) PROVE overlapped \subseteq overlapped'
    BY <2>2 DEF Activate
  <2> QED
    BY <2>1, <2>2 DEF Next, vars
<1>4. (record' = record /\ history' = history) \/ \E e \in Executions : Commit(e)
  BY ActsInProgress DEF Next, Activate, vars
<1> QED
  BY <1>1, <1>2, <1>3, <1>4 DEF Sums

(* The check constraint turns down only what was counted from a row that   *)
(* is no longer the one in the database.                                   *)
LEMMA ConflictsStep ==
  ASSUME TypeOK, LoadedInOrder, Loaded, UpToDate, Sums, Conflicts, [Next]_vars
  PROVE  Conflicts'
<1>1. ASSUME NEW e \in Executions, Execute(e) \/ Fail(e),
             NEW f \in Executions, at'[f] = "conflict"
      PROVE  \E i \in Slots : sub'[f][i] \in overlapped'
  <2>1. overlapped \subseteq overlapped' /\ InProgress(e)
    BY <1>1, ActsInProgress DEF Load
  <2>2. CASE f # e
    <3>1. Same(f)
      BY <1>1, <2>2, Others
    <3> QED
      BY <1>1, <2>1, <3>1 DEF Same, Conflicts
  <2>3. CASE f = e
    <3>1. CASE UpdateRejected(e)
      <4> DEFINE i == SlotToUpdate(e)
      <4>1. i \in Slots
        <5>1. sub[e][1] \in Int /\ sub[e][2] \in Int
          <6>1. \A j \in Slots : sub[e][j] \in Submissions \cup {0}
            BY DEF TypeOK, NoSub
          <6>2. \A t \in Submissions \cup {0} : t \in Int
            BY SubmissionsAssumption
          <6> QED
            BY <6>1, <6>2 DEF Slots
        <5>2. \E j \in Slots : IF slot[e] = 1 THEN sub[e][j] <= sub[e][3 - j]
                               ELSE sub[e][j] >= sub[e][3 - j]
          <6>1. CASE sub[e][1] <= sub[e][2]
            BY <5>1, <6>1 DEF Slots
          <6>2. CASE sub[e][1] > sub[e][2]
            BY <5>1, <6>2 DEF Slots
          <6> QED
            BY <5>1, <6>1, <6>2
        <5> QED
          BY <5>2 DEF SlotToUpdate
      <4>2. /\ at[e] = "update" /\ ~ RecordAddsUp(NewRow(e, i))
            /\ sub' = sub /\ overlapped' = overlapped
        BY <3>1 DEF UpdateRejected, MayUpdate
      <4> HIDE DEF i
      <4>3. sub[e][i] \in Submissions /\ sub[e][i] # NoSub /\ row[e][i] # Expired
        BY <4>1, <4>2 DEF TypeOK, LoadedInOrder, BeyondLoad, Loaded
      <4>4. CASE sub[e][i] \notin overlapped
        <5>1. row[e][i] = record[sub[e][i]]
          BY <2>1, <4>1, <4>3, <4>4 DEF UpToDate
        <5>2. RecordAddsUp(record[sub[e][i]])
          BY <4>3, <4>4 DEF Sums
        <5> QED
          BY <4>1, <4>2, <4>3, <5>1, <5>2, NewRowExact
      <4> QED
        BY <2>3, <4>1, <4>2, <4>4
    <3>2. CASE ~ UpdateRejected(e)
      <4>1. at'[e] # "conflict"
        BY <1>1, <2>1, <3>2 DEF Execute, Fail, Load, Build, BuildFails,
           StartContainer, CommitLiveMove, EndMatch, PlayRaises, Clean,
           AfterClean, CleanRaises, Reload, UpdateRow, MayUpdate, Commit,
           DatabaseFails, Crash, Gone, Leave, Advance, InProgress, Ended, TypeOK
      <4> QED
        BY <1>1, <2>3, <4>1
    <3> QED
      BY <3>1, <3>2
  <2> QED
    BY <2>2, <2>3
<1>2. ASSUME NEW b \in Bots, Activate(b) PROVE Conflicts'
  BY <1>2 DEF Activate, Conflicts
<1>3. CASE UNCHANGED vars
  BY <1>3 DEF vars, Conflicts
<1> QED
  <2>1. CASE \E e \in Executions : Execute(e) \/ Fail(e)
    BY <1>1, <2>1 DEF Conflicts
  <2> QED
    BY <1>2, <1>3, <2>1 DEF Next

-----------------------------------------------------------------------------
(* The theorems.                                                           *)

(* Whatever executions, activations and failures interleave, every part of *)
(* the bookkeeping holds in every state.                                   *)
THEOREM MatchExecutionInvariant == Spec => []Inv
<1>1. Init => Inv
  BY TypeInit, LoadedInOrderInit, PlayedInit, DirectoriesInit, SoleUserInit,
     LoadedInit, RecordsInit DEF Inv
<1>2. Inv /\ [Next]_vars => Inv'
  BY TypeStep, LoadedInOrderStep, PlayedStep, DirectoriesStep, SoleUserStep,
     UpToDateStep, LoadedStep, NotAheadStep, SumsStep, ConflictsStep DEF Inv
<1> QED
  BY <1>1, <1>2, PTL DEF Spec

(* In particular every variable keeps its type: no rating or counter of a  *)
(* record ever leaves the naturals, whatever is computed from stale rows.  *)
THEOREM TypeCorrect == Spec => []TypeOK
<1>1. Inv => TypeOK
  BY DEF Inv
<1> QED
  BY <1>1, MatchExecutionInvariant, PTL

(* Settlement: the record of a submission that was never in two matches at *)
(* a time is the sum of its stored matches and the end of their chain of   *)
(* ratings; the check constraint of bot_submissions fails no match of two  *)
(* such submissions; and no record counts a match that was not stored.     *)
THEOREM RecordsAreHistories == Spec => []RecordIsHistory
<1>1. Inv => RecordIsHistory
  BY DEF Inv, Sums, Conflicts, NotAhead, RecordIsHistory
<1> QED
  BY <1>1, MatchExecutionInvariant, PTL

(* What the comment on workers promises of settlement holds as long as no  *)
(* submission is in two matches at a time: then every stored match counts. *)
THEOREM SeparateMatchesCount == Spec => [](overlapped = {} => EveryMatchCounted)
<1>1. Inv => (overlapped = {} => EveryMatchCounted)
  BY DEF Inv, Sums, SumsUp, EveryMatchCounted
<1> QED
  BY <1>1, MatchExecutionInvariant, PTL

(* A stored match credits the submissions whose executables were played,   *)
(* of the bots that were to play, whatever is activated meanwhile.         *)
THEOREM MatchesCreditWhoPlayed == Spec => []CreditsWhoPlayed
<1>1. Inv => CreditsWhoPlayed
  <2> SUFFICES ASSUME Inv, NEW n \in DOMAIN history, NEW i \in Slots
               PROVE  /\ history[n].sub[i] = played[history[n].execution][i]
                      /\ BotOf[history[n].sub[i]] = Plays[history[n].execution][i]
    BY DEF CreditsWhoPlayed
  <2> DEFINE e == history[n].execution
  <2>1. e \in Executions
    <3>1. history[n] \in MatchRows
      BY DEF Inv, TypeOK
    <3> QED
      BY <3>1 DEF MatchRows
  <2>2. at[e] = "done" /\ history[n].sub = sub[e]
    BY DEF Inv, Stored
  <2> HIDE DEF e
  <2>3. played[e] = sub[e]
    BY <2>1, <2>2 DEF Inv, Played
  <2>4. sub[e][i] # NoSub
    BY <2>1, <2>2 DEF Inv, LoadedInOrder, BeyondLoad
  <2>5. BotOf[sub[e][i]] = Plays[e][i]
    BY <2>1, <2>4 DEF Inv, LoadedInOrder
  <2> QED
    BY <2>2, <2>3, <2>5 DEF e
<1> QED
  BY <1>1, MatchExecutionInvariant, PTL

(* A match that ends by itself leaves neither temporary directory.         *)
THEOREM DirectoriesAreRemoved == Spec => []NoDirectoryLeft
<1>1. Inv => NoDirectoryLeft
  BY DEF Inv, Directories, NoDirectoryLeft
<1> QED
  BY <1>1, MatchExecutionInvariant, PTL

(* The row an execution waits for is in the hands of one that waits for a  *)
(* row with a larger key, since rows are updated in the order of their     *)
(* keys; the one that waits for the largest therefore waits for nobody.    *)
LEMMA TwoRows ==
  ASSUME Inv, NEW e \in Executions, at[e] = "update"
  PROVE  /\ sub[e][1] \in Nat /\ sub[e][2] \in Nat /\ sub[e][1] # sub[e][2]
         /\ sub[e][SlotToUpdate(e)] \in Submissions
         /\ slot[e] = 2 => \A i \in Slots : sub[e][i] <= sub[e][SlotToUpdate(e)]
<1>1. \A i \in Slots : sub[e][i] \in Submissions /\ BotOf[sub[e][i]] = Plays[e][i]
  BY DEF Inv, TypeOK, LoadedInOrder, BeyondLoad
<1>2. sub[e][1] \in Nat /\ sub[e][2] \in Nat /\ sub[e][1] # sub[e][2]
  BY <1>1, SubmissionsAssumption, PlaysAssumption DEF Slots
<1>3. \E i \in Slots : IF slot[e] = 1 THEN sub[e][i] <= sub[e][3 - i]
                       ELSE sub[e][i] >= sub[e][3 - i]
  <2>1. CASE sub[e][1] <= sub[e][2]
    BY <1>2, <2>1 DEF Slots
  <2>2. CASE sub[e][1] > sub[e][2]
    BY <1>2, <2>2 DEF Slots
  <2> QED
    BY <1>2, <2>1, <2>2
<1>4. /\ SlotToUpdate(e) \in Slots
      /\ slot[e] = 2 => sub[e][SlotToUpdate(e)] >= sub[e][3 - SlotToUpdate(e)]
  BY <1>3 DEF SlotToUpdate
<1>5. slot[e] = 2 => \A i \in Slots : sub[e][i] <= sub[e][SlotToUpdate(e)]
  BY <1>2, <1>4 DEF Slots
<1> QED
  BY <1>1, <1>2, <1>4, <1>5

(* No two settlements wait for each other, nor do any number of them in a  *)
(* circle, whichever bots the matches share and in whichever order.        *)
THEOREM SettlementsGoOn == Spec => []SettlementGoesOn
<1>1. Inv => SettlementGoesOn
  <2> SUFFICES ASSUME Inv, NEW e \in Executions, at[e] = "update",
                      \A f \in Executions : at[f] # "commit" /\ ~ MayUpdate(f)
               PROVE  FALSE
    BY DEF SettlementGoesOn
  <2> DEFINE awaited(f) == sub[f][SlotToUpdate(f)]
             Waiting == {f \in Executions : at[f] = "update"}
             Awaited == {awaited(f) : f \in Waiting}
  <2>1. \A f \in Waiting : awaited(f) \in Submissions
    BY TwoRows
  <2>2. ASSUME NEW f \in Waiting PROVE \E g \in Waiting : awaited(g) > awaited(f)
    <3>1. PICK g \in Executions \ {f} : awaited(f) \in Locked(g)
      BY DEF MayUpdate
    <3>2. at[g] = "update" /\ slot[g] = 2
      BY <3>1 DEF Locked
    <3>3. /\ awaited(f) # awaited(g)
          /\ \E i \in Slots : awaited(f) = sub[g][i]
      BY <3>1, <3>2 DEF Locked
    <3>4. awaited(f) <= awaited(g)
      BY <3>2, <3>3, TwoRows
    <3>5. awaited(f) \in Nat /\ awaited(g) \in Nat
      BY <2>1, <3>2, SubmissionsAssumption
    <3> QED
      BY <3>2, <3>3, <3>4, <3>5
  <2>3. Awaited \in SUBSET Submissions /\ Awaited # {}
    BY <2>1
  <2>4. IsFiniteSet(Awaited) /\ Awaited \in SUBSET Nat
    BY <2>3, FS_Subset, SubmissionsAssumption
  <2>5. PICK m \in Awaited : \A k \in Awaited : k <= m
    <3> HIDE DEF Awaited
    <3> QED
      BY <2>3, <2>4, LargestOfFinite
  <2>6. PICK f \in Waiting : m = awaited(f)
    OBVIOUS
  <2>7. PICK g \in Waiting : awaited(g) > awaited(f)
    BY <2>2
  <2>8. awaited(g) \in Awaited /\ awaited(g) \in Nat /\ m \in Nat
    BY <2>4
  <2> QED
    BY <2>5, <2>6, <2>7, <2>8
<1> QED
  BY <1>1, MatchExecutionInvariant, PTL

=============================================================================
