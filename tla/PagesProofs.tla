----------------------------- MODULE PagesProofs ----------------------------
(* Proofs about Pages, for every number of jobs, of requests under way and *)
(* of errors, and for every page.                                          *)
EXTENDS Pages, TLAPS

(* What SharedJobs keeps true of a job, attempts overlapping or not: what  *)
(* it names is a match that was stored, and no match is stored of a job    *)
(* that is not resolved.                                                   *)
JobTypeOK ==
  /\ status \in [Jobs -> {"none"} \cup Active \cup Terminal]
  /\ attempts \in [Jobs -> Nat]
  /\ matches \in [Jobs -> SUBSET Nat]
  /\ match \in [Jobs -> Nat]
  /\ liveMoves \in [Jobs -> [1..MaxMoves -> Nat]]

JobInv ==
  \A j \in Jobs :
    /\ status[j] = "running" => attempts[j] # 0
    /\ status[j] = "completed" => match[j] # 0
    /\ match[j] # 0 => match[j] \in matches[j]
    /\ matches[j] # {} => status[j] \in Terminal

(* Only where attempts do not overlap are the published moves of one.      *)
OneAttempt(j) ==
  \A m, n \in 1..MaxMoves :
    liveMoves[j][m] # 0 /\ liveMoves[j][n] # 0 =>
      liveMoves[j][m] = liveMoves[j][n]

MovesInv == ~ overlapping => \A j \in Jobs : OneAttempt(j)

(* What no step of the jobs changes.                                       *)
ResolvedStays ==
  \A j \in Jobs :
    /\ status[j] \in Terminal => status'[j] \in Terminal
    /\ matches[j] \subseteq matches'[j]

OutcomeStays ==
  /\ overlapping' = overlapping
  /\ ResolvedStays
  /\ ~ overlapping =>
       \A j \in Jobs : status[j] \in Terminal =>
         status'[j] = status[j] /\ match'[j] = match[j]

JobsInv == JobTypeOK /\ JobInv /\ MovesInv

(* The steps of the promised lifecycle.                                    *)
LEMMA JobStep ==
  ASSUME JobsInv, Next, overlapping' = overlapping
  PROVE  JobsInv' /\ OutcomeStays
<1> USE LifecycleAssumption
        DEF JobsInv, JobTypeOK, JobInv, MovesInv, OneAttempt, OutcomeStays,
            ResolvedStays, Active, Terminal
<1>1. ASSUME NEW j \in Jobs, Enqueue(j)
      PROVE  JobsInv' /\ OutcomeStays
  BY <1>1 DEF Enqueue
<1>2. ASSUME NEW j \in Jobs, Start(j)
      PROVE  JobsInv' /\ OutcomeStays
  <2>1. /\ status[j] = "queued" /\ attempts[j] \in Nat
        /\ status' = [status EXCEPT ![j] = "running"]
        /\ attempts' = [attempts EXCEPT ![j] = @ + 1]
        /\ UNCHANGED <<matches, match, liveMoves>>
    BY <1>2 DEF Start
  <2>2. attempts'[j] # 0 /\ \A i \in Jobs \ {j} : attempts'[i] = attempts[i]
    BY <2>1
  <2>3. JobTypeOK' /\ MovesInv' /\ OutcomeStays
    BY <2>1
  <2>4. JobInv'
    BY <2>1, <2>2
  <2> QED
    BY <2>3, <2>4
<1>3. ASSUME NEW j \in Jobs, ClearMoves(j)
      PROVE  JobsInv' /\ OutcomeStays
  <2>1. /\ UNCHANGED <<status, attempts, matches, match>>
        /\ liveMoves' = [liveMoves EXCEPT ![j] = [n \in 1..MaxMoves |-> 0]]
    BY <1>3 DEF ClearMoves
  <2>2. liveMoves' \in [Jobs -> [1..MaxMoves -> Nat]]
    BY <2>1
  <2>3. MovesInv'
    BY <2>1
  <2> QED
    BY <2>1, <2>2, <2>3
<1>4. ASSUME NEW j \in Jobs, NEW n \in 1..MaxMoves, RecordMove(j, n)
      PROVE  JobsInv' /\ OutcomeStays
  <2>1. /\ UNCHANGED <<status, attempts, matches, match>>
        /\ liveMoves' = [liveMoves EXCEPT ![j][n] = attempts[j]]
        /\ \A k \in 1..MaxMoves : liveMoves[j][k] \in {attempts[j], 0}
    BY <1>4 DEF RecordMove
  <2>2. liveMoves' \in [Jobs -> [1..MaxMoves -> Nat]]
    BY <2>1
  <2>3. \A k \in 1..MaxMoves : liveMoves'[j][k] \in {attempts[j], 0}
    BY <2>1
  <2>4. \A i \in Jobs \ {j} : liveMoves'[i] = liveMoves[i]
    BY <2>1
  <2>5. ASSUME ~ overlapping,
               NEW i \in Jobs, NEW l \in 1..MaxMoves, NEW m \in 1..MaxMoves,
               liveMoves'[i][l] # 0, liveMoves'[i][m] # 0
        PROVE  liveMoves'[i][l] = liveMoves'[i][m]
    <3>1. CASE i = j
      <4>1. liveMoves'[j][l] = attempts[j] /\ liveMoves'[j][m] = attempts[j]
        BY ONLY <2>3, <2>5, <3>1
      <4> QED
        BY ONLY <4>1, <3>1
    <3>2. CASE i # j
      <4>1. liveMoves'[i] = liveMoves[i]
        BY <2>4, <3>2
      <4>2. liveMoves[i][l] # 0 /\ liveMoves[i][m] # 0 =>
              liveMoves[i][l] = liveMoves[i][m]
        BY <2>5
      <4> QED
        BY ONLY <2>5, <4>1, <4>2
    <3> QED
      BY <3>1, <3>2
  <2>6. JobTypeOK' /\ JobInv' /\ OutcomeStays
    BY <2>1, <2>2
  <2>7. MovesInv'
    BY <2>5
  <2> QED
    BY <2>6, <2>7
<1>5. ASSUME NEW j \in Jobs, Complete(j)
      PROVE  JobsInv' /\ OutcomeStays
  <2>1. /\ status[j] = "running" /\ matches[j] = {}
        /\ attempts[j] \in Nat \ {0}
    BY <1>5 DEF Complete
  <2>2. JobTypeOK'
    BY <1>5, <2>1 DEF Complete
  <2>3. JobInv' /\ OutcomeStays
    BY <1>5, <2>1 DEF Complete
  <2>4. MovesInv'
    BY <1>5 DEF Complete
  <2> QED
    BY <2>2, <2>3, <2>4
<1>6. ASSUME NEW j \in Jobs, Fail(j)
      PROVE  JobsInv' /\ OutcomeStays
  BY <1>6 DEF Fail
<1>7. ASSUME NEW S \in SUBSET Jobs, GiveUp(S)
      PROVE  JobsInv' /\ OutcomeStays
  BY <1>7 DEF GiveUp
<1> QED
  BY <1>1, <1>2, <1>3, <1>4, <1>5, <1>6, <1>7 DEF Next

(* The steps of attempts that go on although the job is not theirs.        *)
LEMMA LateStep ==
  ASSUME JobsInv, overlapping, Late, overlapping' = overlapping
  PROVE  JobsInv' /\ OutcomeStays
<1> USE LifecycleAssumption
        DEF JobsInv, JobTypeOK, JobInv, MovesInv, OutcomeStays,
            ResolvedStays, Active, Terminal
<1>1. ASSUME NEW j \in Jobs, LateClear(j)
      PROVE  JobsInv' /\ OutcomeStays
  <2>1. liveMoves' \in [Jobs -> [1..MaxMoves -> Nat]]
    BY <1>1 DEF LateClear
  <2> QED
    BY <1>1, <2>1 DEF LateClear
<1>2. ASSUME NEW j \in Jobs, NEW n \in 1..MaxMoves, NEW a \in Opened(j),
             LateMove(j, n, a)
      PROVE  JobsInv' /\ OutcomeStays
  <2>1. a \in Nat /\ liveMoves' = [liveMoves EXCEPT ![j][n] = a]
    BY <1>2 DEF LateMove, Opened
  <2>2. liveMoves' \in [Jobs -> [1..MaxMoves -> Nat]]
    BY <2>1
  <2> QED
    BY <1>2, <2>2 DEF LateMove
<1>3. ASSUME NEW j \in Jobs, NEW a \in Opened(j), LateComplete(j, a)
      PROVE  JobsInv' /\ OutcomeStays
  <2>1. /\ a \in Nat \ {0}
        /\ matches' = [matches EXCEPT ![j] = @ \cup {a}]
        /\ match' = [match EXCEPT ![j] = a]
        /\ UNCHANGED <<attempts, liveMoves>>
    BY <1>3 DEF LateComplete, Opened
  <2>2. /\ status' \in [Jobs -> {"none"} \cup Active \cup Terminal]
        /\ status'[j] \in Terminal
        /\ \A i \in Jobs \ {j} : status'[i] = status[i]
    BY <1>3 DEF LateComplete
  <2>3. matches' \in [Jobs -> SUBSET Nat]
    <3>1. matches[j] \cup {a} \in SUBSET Nat
      BY <2>1
    <3> QED
      BY <2>1, <3>1
  <2>4. JobTypeOK'
    BY <2>1, <2>2, <2>3
  <2>5. /\ match'[j] = a /\ matches'[j] = matches[j] \cup {a}
        /\ \A i \in Jobs \ {j} :
             match'[i] = match[i] /\ matches'[i] = matches[i]
    BY <2>1
  <2>6. JobInv' /\ OutcomeStays
    BY <2>1, <2>2, <2>5
  <2> QED
    BY <2>4, <2>6
<1>4. ASSUME NEW j \in Jobs, LateFail(j)
      PROVE  JobsInv' /\ OutcomeStays
  BY <1>4 DEF LateFail
<1> QED
  BY <1>1, <1>2, <1>3, <1>4 DEF Late

-----------------------------------------------------------------------------
(* Views.  ViewsAreTrue alone is not inductive: an answer shows what its   *)
(* request has read, so the same must hold of what every request under way *)
(* has read so far, by whichever statements.                               *)
Faithful(v, j) == TrueOf(v, j) /\ (~ overlapping => FinalFor(v, j))

Request ==
  [left : SUBSET {"idle", "rows", "moves", "queued", "running"},
   got : [Jobs -> Views]]

ShownInv ==
  /\ shown \in [Jobs -> Views]
  /\ \A j \in Jobs : Faithful(shown[j], j)

RequestsInv ==
  /\ requests = [k \in Kinds |-> requests[k]]
  /\ \A k \in Kinds :
       /\ requests[k] \in [Slots(k) -> Request]
       /\ \A n \in Slots(k), j \in Jobs : Faithful(requests[k][n].got[j], j)

RestInv ==
  /\ overlapping \in BOOLEAN
  /\ page \in {"match", "featured", "home"}
  /\ opened \in BOOLEAN /\ dirty \in BOOLEAN
  /\ polling \subseteq Kinds
  /\ told \in {"nothing", "waiting", "left", "error", "lost", "arrived"}
  /\ errors \in 0..MaxErrors
  /\ told = "arrived" => status[Watched] \in Terminal /\ matches[Watched] # {}

PagesInv == JobsInv /\ ShownInv /\ RequestsInv /\ RestInv

(* Faithful to the job as it is after the step.                            *)
TrueThen(v, j) ==
  /\ v.status \in Terminal => status'[j] \in Terminal
  /\ v.status = "completed" => v.match # 0
  /\ v.match # 0 => v.match \in matches'[j] /\ v.of \subseteq {v.match}
  /\ ~ overlapping' =>
       /\ v.status \in Terminal => status'[j] = v.status /\ match'[j] = v.match
       /\ \A a, b \in v.of : a = b

LEMMA NoViewTrue ==
  /\ NoView \in Views
  /\ \A j \in Jobs : Faithful(NoView, j) /\ TrueThen(NoView, j)
  BY DEF Faithful, TrueOf, FinalFor, TrueThen, NoView, Terminal, Views

(* A view faithful to a job stays so.                                      *)
LEMMA TrueStays ==
  ASSUME OutcomeStays, NEW j \in Jobs, NEW v, Faithful(v, j)
  PROVE  TrueThen(v, j)
  BY DEF OutcomeStays, ResolvedStays, Faithful, TrueOf, FinalFor, TrueThen,
     Terminal

LEMMA JobsUnchanged ==
  ASSUME UNCHANGED <<lifecycleVars, overlapping>>
  PROVE  OutcomeStays
  BY DEF lifecycleVars, OutcomeStays, ResolvedStays

(* What the first statement reads of a row.                                *)
LEMMA RowTrue ==
  ASSUME JobsInv, NEW j \in Jobs
  PROVE  Row(j) \in Views /\ Faithful(Row(j), j)
<1>1. Row(j) \in Views
  BY DEF JobsInv, JobTypeOK, Row, Views, Active, Terminal
<1>2. TrueOf(Row(j), j) /\ FinalFor(Row(j), j)
  BY DEF JobsInv, JobInv, Row, TrueOf, FinalFor
<1> QED
  BY <1>1, <1>2 DEF Faithful

(* The second statement adds moves to a view of the first.                 *)
LEMMA FilledTrue ==
  ASSUME JobsInv, NEW j \in Jobs, NEW v \in Views, Faithful(v, j)
  PROVE  Filled(v, j) \in Views /\ Faithful(Filled(v, j), j)
<1>1. CASE v = NoView
  BY <1>1 DEF Filled
<1>2. CASE v # NoView
  <2>1. /\ Filled(v, j).status = v.status /\ Filled(v, j).match = v.match
        /\ Filled(v, j).of = MovesShown(v, j)
        /\ MovesShown(v, j) \in SUBSET Nat => Filled(v, j) \in Views
    BY <1>2 DEF Filled, Views
  <2>2. /\ ~ overlapping => \A a, b \in MovesShown(v, j) : a = b
        /\ v.match # 0 => MovesShown(v, j) \subseteq {v.match}
        /\ MovesShown(v, j) \in SUBSET Nat
    <3>1. CASE v.match # 0
      BY <3>1 DEF MovesShown, Views
    <3>2. CASE v.match = 0
      <4>1. MovesShown(v, j) = {liveMoves[j][n] : n \in 1..MaxMoves} \ {0}
        BY <3>2 DEF MovesShown
      <4>2. \A n \in 1..MaxMoves : liveMoves[j][n] \in Nat
        BY DEF JobsInv, JobTypeOK
      <4>3. ~ overlapping =>
              \A m, n \in 1..MaxMoves :
                liveMoves[j][m] # 0 /\ liveMoves[j][n] # 0 =>
                  liveMoves[j][m] = liveMoves[j][n]
        BY DEF JobsInv, MovesInv, OneAttempt
      <4>4. ASSUME NEW a \in MovesShown(v, j), NEW b \in MovesShown(v, j)
            PROVE  a \in Nat /\ (~ overlapping => a = b)
        <5>1. PICK m \in 1..MaxMoves : a = liveMoves[j][m] /\ a # 0
          BY <4>1
        <5>2. PICK n \in 1..MaxMoves : b = liveMoves[j][n] /\ b # 0
          BY <4>1
        <5> QED
          BY ONLY <5>1, <5>2, <4>2, <4>3
      <4> QED
        BY <3>2, <4>4
    <3> QED
      BY <3>1, <3>2
  <2>3. TrueOf(Filled(v, j), j)
    BY <2>1, <2>2 DEF Faithful, TrueOf
  <2>4. ~ overlapping => FinalFor(Filled(v, j), j)
    BY <2>1, <2>2 DEF Faithful, FinalFor
  <2> QED
    BY <2>1, <2>2, <2>3, <2>4 DEF Faithful
<1> QED
  BY <1>1, <1>2

-----------------------------------------------------------------------------
(* The parts of the invariant, for the steps that leave them alone and for *)
(* those that set one request.                                             *)

LEMMA ShownSet ==
  ASSUME shown' \in [Jobs -> Views], \A j \in Jobs : TrueThen(shown'[j], j)
  PROVE  ShownInv'
  BY DEF ShownInv, Faithful, TrueOf, FinalFor, TrueThen

LEMMA ShownKept ==
  ASSUME ShownInv, OutcomeStays, shown' = shown
  PROVE  ShownInv'
<1>1. \A j \in Jobs : TrueThen(shown[j], j)
  BY TrueStays DEF ShownInv
<1> QED
  BY <1>1, ShownSet DEF ShownInv

LEMMA ShownNothing ==
  ASSUME shown' = Nothing
  PROVE  ShownInv'
  BY NoViewTrue, ShownSet DEF Nothing

LEMMA RequestsSet ==
  ASSUME requests' = [k \in Kinds |-> requests'[k]],
         \A k \in Kinds :
           /\ requests'[k] \in [Slots(k) -> Request]
           /\ \A n \in Slots(k), j \in Jobs :
                TrueThen(requests'[k][n].got[j], j)
  PROVE  RequestsInv'
  BY DEF RequestsInv, Faithful, TrueOf, FinalFor, TrueThen

LEMMA RequestsKept ==
  ASSUME RequestsInv, OutcomeStays, requests' = requests
  PROVE  RequestsInv'
<1>1. \A k \in Kinds : \A n \in Slots(k), j \in Jobs :
        TrueThen(requests[k][n].got[j], j)
  BY TrueStays DEF RequestsInv
<1> QED
  BY <1>1, RequestsSet DEF RequestsInv

LEMMA OneRequestSet ==
  ASSUME RequestsInv, OutcomeStays,
         NEW k \in Kinds, NEW n \in Slots(k), NEW r \in Request,
         requests' = [requests EXCEPT ![k][n] = r],
         \A j \in Jobs : TrueThen(r.got[j], j)
  PROVE  RequestsInv'
<1>1. requests' = [i \in Kinds |-> requests'[i]]
  BY DEF RequestsInv
<1>2. \A i \in Kinds \ {k} : requests'[i] = requests[i]
  BY DEF RequestsInv
<1>3. requests'[k] = [requests[k] EXCEPT ![n] = r]
  BY DEF RequestsInv
<1>4. requests'[k] \in [Slots(k) -> Request]
  BY <1>3 DEF RequestsInv
<1>5. \A m \in Slots(k) :
        requests'[k][m] = IF m = n THEN r ELSE requests[k][m]
  BY <1>3 DEF RequestsInv
<1>6. \A i \in Kinds : \A m \in Slots(i), j \in Jobs :
        TrueThen(requests[i][m].got[j], j)
  BY TrueStays DEF RequestsInv
<1>7. ASSUME NEW i \in Kinds
      PROVE  /\ requests'[i] \in [Slots(i) -> Request]
             /\ \A m \in Slots(i), j \in Jobs :
                  TrueThen(requests'[i][m].got[j], j)
  <2>1. CASE i = k
    BY <2>1, <1>4, <1>5, <1>6
  <2>2. CASE i # k
    BY <2>2, <1>2, <1>6 DEF RequestsInv
  <2> QED
    BY <2>1, <2>2
<1> QED
  BY <1>1, <1>7, RequestsSet

LEMMA NoRequestGood ==
  /\ NoRequest \in Request
  /\ \A j \in Jobs : TrueThen(NoRequest.got[j], j)
  BY NoViewTrue DEF NoRequest, Request, Nothing

LEMMA SendKeeps ==
  ASSUME RequestsInv, OutcomeStays, NEW k \in Kinds, Send(k)
  PROVE  RequestsInv'
<1> DEFINE r == [left |-> StatementsOf(k), got |-> Nothing]
<1>1. PICK n \in Slots(k) : requests' = [requests EXCEPT ![k][n] = r]
  BY DEF Send
<1>2. r \in Request
  BY NoViewTrue DEF Request, StatementsOf, Active, Nothing
<1>3. \A j \in Jobs : TrueThen(r.got[j], j)
  BY NoViewTrue DEF Nothing
<1> QED
  BY <1>1, <1>2, <1>3, OneRequestSet

LEMMA DoneKeeps ==
  ASSUME RequestsInv, OutcomeStays, NEW k \in Kinds, NEW n \in Slots(k),
         Done(k, n)
  PROVE  RequestsInv'
  BY NoRequestGood, OneRequestSet DEF Done

LEMMA ReadRowsKeeps ==
  ASSUME JobsInv, RequestsInv, UNCHANGED <<lifecycleVars, overlapping>>,
         NEW k \in Kinds, NEW n \in Slots(k), ReadRows(k, n)
  PROVE  RequestsInv'
<1> DEFINE r == [left |-> requests[k][n].left \ {"rows"},
                 got |-> [j \in Jobs |->
                            IF RowSelected(k, j) THEN Row(j) ELSE NoView]]
<1>1. requests' = [requests EXCEPT ![k][n] = r]
  BY DEF ReadRows, RequestsInv
<1>2. \A j \in Jobs : r.got[j] \in Views /\ Faithful(r.got[j], j)
  BY RowTrue, NoViewTrue
<1>3. r \in Request
  BY <1>2 DEF RequestsInv, Request
<1>4. \A j \in Jobs : TrueThen(r.got[j], j)
  BY <1>2, TrueStays, JobsUnchanged
<1> QED
  BY <1>1, <1>3, <1>4, OneRequestSet, JobsUnchanged

LEMMA ReadMovesKeeps ==
  ASSUME JobsInv, RequestsInv, UNCHANGED <<lifecycleVars, overlapping>>,
         NEW k \in Kinds, NEW n \in Slots(k), ReadMoves(k, n)
  PROVE  RequestsInv'
<1> DEFINE r == [left |-> requests[k][n].left \ {"moves"},
                 got |-> [j \in Jobs |-> Filled(requests[k][n].got[j], j)]]
<1>1. requests' = [requests EXCEPT ![k][n] = r]
  BY DEF ReadMoves, RequestsInv
<1>2. \A j \in Jobs : r.got[j] \in Views /\ Faithful(r.got[j], j)
  BY FilledTrue DEF RequestsInv, Request
<1>3. r \in Request
  BY <1>2 DEF RequestsInv, Request
<1>4. \A j \in Jobs : TrueThen(r.got[j], j)
  BY <1>2, TrueStays, JobsUnchanged
<1> QED
  BY <1>1, <1>3, <1>4, OneRequestSet, JobsUnchanged

LEMMA ReadListKeeps ==
  ASSUME JobsInv, RequestsInv, UNCHANGED <<lifecycleVars, overlapping>>,
         NEW k \in Kinds, NEW n \in Slots(k), ReadList(k, n)
  PROVE  RequestsInv'
<1>1. PICK s \in requests[k][n].left \cap Active :
        requests' = [requests EXCEPT ![k][n] =
          [left |-> @.left \ {s},
           got |-> [j \in Jobs |->
                      IF status[j] = s THEN Row(j) ELSE @.got[j]]]]
  BY DEF ReadList
<1> DEFINE r == [left |-> requests[k][n].left \ {s},
                 got |-> [j \in Jobs |-> IF status[j] = s THEN Row(j)
                                         ELSE requests[k][n].got[j]]]
<1>2. requests' = [requests EXCEPT ![k][n] = r]
  BY <1>1 DEF RequestsInv
<1>3. \A j \in Jobs : r.got[j] \in Views /\ Faithful(r.got[j], j)
  BY RowTrue DEF RequestsInv, Request
<1>4. r \in Request
  BY <1>3 DEF RequestsInv, Request
<1>5. \A j \in Jobs : TrueThen(r.got[j], j)
  BY <1>3, TrueStays, JobsUnchanged
<1> QED
  BY <1>2, <1>4, <1>5, OneRequestSet, JobsUnchanged

-----------------------------------------------------------------------------
(* Every step of the browser keeps the views true.                         *)

LEMMA BrowserStep ==
  ASSUME PagesInv, UNCHANGED <<lifecycleVars, fixedVars>>, Browser
  PROVE  ShownInv' /\ RequestsInv' /\ RestInv'
<1> USE JobsUnchanged DEF PagesInv
<1>0. OutcomeStays /\ UNCHANGED <<status, matches, overlapping, page>>
  BY DEF lifecycleVars, fixedVars
<1>1. CASE Open
  <2>1. Send(FirstRequest) /\ FirstRequest \in Kinds
    BY <1>1 DEF Open, FirstRequest, RestInv, Kinds
  <2>2. RequestsInv'
    BY <2>1, <1>0, SendKeeps
  <2>3. ShownInv'
    BY <1>0, <1>1, ShownKept DEF Open
  <2>4. RestInv'
    BY <1>0, <1>1 DEF Open, RestInv, Kinds
  <2> QED
    BY <2>2, <2>3, <2>4
<1>2. CASE Submit
  <2>1. RequestsInv'
    BY <1>0, <1>2, RequestsKept DEF Submit
  <2>2. ShownInv'
    <3> DEFINE v == [NoView EXCEPT !.status = "queued"]
    <3>1. shown' = [shown EXCEPT ![Watched] = v]
      BY <1>2 DEF Submit
    <3>2. v \in Views /\ TrueThen(v, Watched)
      BY DEF NoView, Views, TrueThen, Active, Terminal
    <3>3. \A j \in Jobs : TrueThen(shown[j], j)
      BY <1>0, TrueStays DEF ShownInv
    <3> HIDE DEF v
    <3> QED
      BY <3>1, <3>2, <3>3, ShownSet DEF ShownInv
  <2>3. RestInv'
    BY <1>0, <1>2 DEF Submit, RestInv
  <2> QED
    BY <2>1, <2>2, <2>3
<1>3. CASE ChooseGame
  <2>1. RequestsInv' /\ ShownInv'
    BY <1>0, <1>3, RequestsKept, ShownKept DEF ChooseGame
  <2>2. RestInv'
    BY <1>0, <1>3 DEF ChooseGame, RestInv
  <2> QED
    BY <2>1, <2>2
<1>4. CASE Effects
  <2>1. ShownInv'
    BY <1>0, <1>4, ShownKept DEF Effects
  <2>2. RequestsInv'
    <3>1. \A k \in Kinds : requests'[k] \in {NoRequests[k], requests[k]}
      BY <1>4 DEF Effects
    <3>2. requests' = [k \in Kinds |-> requests'[k]]
      BY <1>4 DEF Effects
    <3>3. ASSUME NEW k \in Kinds
          PROVE  /\ requests'[k] \in [Slots(k) -> Request]
                 /\ \A n \in Slots(k), j \in Jobs :
                      TrueThen(requests'[k][n].got[j], j)
      <4>1. CASE requests'[k] = NoRequests[k]
        BY <4>1, NoRequestGood DEF NoRequests
      <4>2. CASE requests'[k] = requests[k]
        BY <4>2, <1>0, TrueStays DEF RequestsInv
      <4> QED
        BY <3>1, <4>1, <4>2
    <3> QED
      BY <3>2, <3>3, RequestsSet
  <2>3. RestInv'
    BY <1>0, <1>4 DEF Effects, RestInv, Kinds
  <2> QED
    BY <2>1, <2>2, <2>3
<1>5. ASSUME NEW k \in Kinds, Tick(k)
      PROVE  ShownInv' /\ RequestsInv' /\ RestInv'
  <2>1. RequestsInv' /\ ShownInv'
    BY <1>0, <1>5, SendKeeps, ShownKept DEF Tick
  <2>2. RestInv'
    BY <1>0, <1>5 DEF Tick, RestInv
  <2> QED
    BY <2>1, <2>2
<1>6. ASSUME NEW k \in Kinds, NEW n \in Slots(k), Statement(k, n)
      PROVE  ShownInv' /\ RequestsInv' /\ RestInv'
  <2>1. RequestsInv'
    BY <1>0, <1>6, ReadRowsKeeps, ReadMovesKeeps, ReadListKeeps DEF Statement
  <2>2. ShownInv'
    BY <1>0, <1>6, ShownKept DEF Statement
  <2>3. RestInv'
    BY <1>0, <1>6 DEF Statement, RestInv
  <2> QED
    BY <2>1, <2>2, <2>3
<1>7. ASSUME NEW k \in Kinds, NEW n \in Slots(k), AnswerPage(k, n)
      PROVE  ShownInv' /\ RequestsInv' /\ RestInv'
  <2>1. RequestsInv'
    BY <1>0, <1>7, DoneKeeps DEF AnswerPage
  <2>2. ShownInv'
    <3>1. shown' = requests[k][n].got
      BY <1>7 DEF AnswerPage
    <3>2. shown' \in [Jobs -> Views]
      BY <3>1 DEF RequestsInv, Request
    <3>3. \A j \in Jobs : TrueThen(shown'[j], j)
      BY <1>0, <3>1, TrueStays DEF RequestsInv
    <3> QED
      BY <3>2, <3>3, ShownSet
  <2>3. RestInv'
    BY <1>0, <1>7 DEF AnswerPage, Done, RestInv
  <2> QED
    BY <2>1, <2>2, <2>3
<1>8. ASSUME NEW n \in Slots("job"), Arrive(n)
      PROVE  ShownInv' /\ RequestsInv' /\ RestInv'
  <2>1. ShownInv'
    BY <1>8, ShownNothing DEF Arrive
  <2>2. RequestsInv'
    <3>1. \A k \in Kinds : requests'[k] = [i \in Slots(k) |-> NoRequest]
      BY <1>8 DEF Arrive, NoRequests
    <3>2. requests' = [k \in Kinds |-> requests'[k]]
      BY <1>8 DEF Arrive, NoRequests
    <3> QED
      BY <3>1, <3>2, NoRequestGood, RequestsSet
  <2>3. RestInv'
    <3>1. LET v == requests["job"][n].got[Watched]
          IN  TrueOf(v, Watched) /\ v.status = "completed" /\ v.match # 0
      BY <1>8, PagesAssumption DEF Arrive, RequestsInv, Kinds, Faithful
    <3>2. status[Watched] \in Terminal /\ matches[Watched] # {}
      BY <3>1 DEF TrueOf, Terminal
    <3> QED
      BY <1>0, <1>8, <3>2 DEF Arrive, RestInv
  <2> QED
    BY <2>1, <2>2, <2>3
<1>9. ASSUME NEW n \in Slots("job"), StillWaiting(n)
      PROVE  ShownInv' /\ RequestsInv' /\ RestInv'
  <2>1. RequestsInv' /\ ShownInv'
    BY <1>0, <1>9, DoneKeeps, ShownKept DEF StillWaiting, Kinds
  <2>2. RestInv'
    BY <1>0, <1>9 DEF StillWaiting, Done, RestInv
  <2> QED
    BY <2>1, <2>2
<1>10. ASSUME NEW k \in Kinds, NEW n \in Slots(k), Fails(k, n)
       PROVE  ShownInv' /\ RequestsInv' /\ RestInv'
  <2>1. RequestsInv'
    BY <1>0, <1>10, DoneKeeps DEF Fails
  <2>2. ShownInv'
    <3>1. shown' \in {Nothing, shown}
      BY <1>10 DEF Fails
    <3> QED
      BY <3>1, <1>0, ShownKept, ShownNothing
  <2>3. RestInv'
    <3>1. errors' \in 0..MaxErrors
      BY <1>10, PagesAssumption DEF Fails, RestInv
    <3> QED
      BY <1>0, <1>10, <3>1 DEF Fails, Done, RestInv
  <2> QED
    BY <2>1, <2>2, <2>3
<1> QED
  BY <1>1, <1>2, <1>3, <1>4, <1>5, <1>6, <1>7, <1>8, <1>9, <1>10
     DEF Browser, Progress

LEMMA PagesInvInit == PagesInit => PagesInv
<1> SUFFICES ASSUME PagesInit PROVE PagesInv
  OBVIOUS
<1>1. JobsInv
  BY LifecycleAssumption
     DEF PagesInit, Init, JobsInv, JobTypeOK, JobInv, MovesInv, OneAttempt,
         Terminal
<1>2. ShownInv
  BY NoViewTrue DEF PagesInit, ShownInv, Nothing
<1>3. RequestsInv
  BY NoViewTrue
     DEF PagesInit, RequestsInv, NoRequests, NoRequest, Request, Nothing
<1>4. RestInv
  <2>1. errors \in 0..MaxErrors
    BY PagesAssumption DEF PagesInit
  <2>2. /\ overlapping \in BOOLEAN /\ page \in {"match", "featured", "home"}
        /\ opened = FALSE /\ dirty = FALSE /\ polling = {} /\ told = "nothing"
    BY DEF PagesInit
  <2> QED
    BY <2>1, <2>2 DEF RestInv
<1> QED
  BY <1>1, <1>2, <1>3, <1>4 DEF PagesInv

LEMMA PagesInvStep == PagesInv /\ [PagesNext]_pagesVars => PagesInv'
<1> SUFFICES ASSUME PagesInv, [PagesNext]_pagesVars PROVE PagesInv'
  OBVIOUS
<1>1. CASE JobsNext /\ UNCHANGED pageVars
  <2>0. UNCHANGED <<overlapping, page, opened, shown, requests, polling, dirty,
                    told, errors>>
    BY <1>1 DEF pageVars, fixedVars
  <2>1. JobsInv' /\ OutcomeStays
    BY <1>1, <2>0, JobStep, LateStep DEF PagesInv, JobsNext
  <2>2. ShownInv' /\ RequestsInv'
    BY <2>0, <2>1, ShownKept, RequestsKept DEF PagesInv
  <2>3. told = "arrived" =>
          status'[Watched] \in Terminal /\ matches'[Watched] # {}
    BY <2>1, PagesAssumption DEF PagesInv, RestInv, OutcomeStays, ResolvedStays
  <2>4. RestInv'
    BY <2>0, <2>3 DEF PagesInv, RestInv
  <2> QED
    BY <2>1, <2>2, <2>4 DEF PagesInv
<1>2. CASE Browser
  <2>1. UNCHANGED <<lifecycleVars, fixedVars>>
    BY <1>2 DEF Browser, Progress, Open, Submit, ChooseGame, Effects, Tick,
       Statement, AnswerPage, Arrive, StillWaiting, Fails, Done
  <2>2. JobsInv'
    BY <2>1 DEF PagesInv, JobsInv, JobTypeOK, JobInv, MovesInv, OneAttempt,
       lifecycleVars, fixedVars
  <2> QED
    BY <1>2, <2>1, <2>2, BrowserStep DEF PagesInv
<1>3. CASE UNCHANGED pagesVars
  <2>0. UNCHANGED <<lifecycleVars, overlapping, page, opened, shown, requests,
                    polling, dirty, told, errors>>
    BY <1>3 DEF pagesVars, pageVars, fixedVars
  <2>1. OutcomeStays
    BY <2>0, JobsUnchanged
  <2>2. JobsInv'
    BY <2>0 DEF PagesInv, JobsInv, JobTypeOK, JobInv, MovesInv, OneAttempt,
       lifecycleVars
  <2>3. ShownInv' /\ RequestsInv'
    BY <2>0, <2>1, ShownKept, RequestsKept DEF PagesInv
  <2>4. RestInv'
    BY <2>0 DEF PagesInv, RestInv, lifecycleVars
  <2> QED
    BY <2>2, <2>3, <2>4 DEF PagesInv
<1> QED
  BY <1>1, <1>2, <1>3 DEF PagesNext

(* Whatever a page shows is true of the job, although it was read by       *)
(* separate statements and may have overtaken other answers.  Attempts     *)
(* that overlap are part of it: a job shown resolved is resolved, and a    *)
(* match shown was stored and is shown with its own moves.  Where none do  *)
(* (~ overlapping: MatchQueue then implements JobLifecycle), the outcome   *)
(* shown is also the job's for ever, and live moves are of one attempt.    *)
THEOREM ViewsAlwaysTrue == PagesSpec => []ViewsAreTrue
<1>1. PagesInv => ViewsAreTrue
  BY DEF PagesInv, ShownInv, RestInv, ViewsAreTrue, Faithful
<1> QED
  BY <1>1, PagesInvInit, PagesInvStep, PTL DEF PagesSpec

(* The state of the browser keeps its type.                                *)
THEOREM PagesTypeCorrect == PagesSpec => []PagesTypeOK
<1>1. PagesInv => PagesTypeOK
  BY DEF PagesInv, ShownInv, RequestsInv, RestInv, PagesTypeOK, Request
<1> QED
  BY <1>1, PagesInvInit, PagesInvStep, PTL DEF PagesSpec

-----------------------------------------------------------------------------
(* The page of a match that has settled.  Why no late answer can reach it: *)
(* of the kinds of request only the page's own are sent, the first load is *)
(* over once anything is shown, and the effects that ran for the resolved  *)
(* job stopped the polling and ignore what was sent before.                *)
Quiet(k) == \A n \in Slots(k) : Idle(k, n)

SettledInv ==
  page = "match" =>
    /\ Quiet("list") /\ Quiet("job") /\ polling \subseteq {"live"}
    /\ told # "waiting"
    /\ ~ opened => Quiet("first")
    /\ ~ opened \/ ~ Quiet("first") =>
         shown = Nothing /\ polling = {} /\ Quiet("live")
    /\ \A m, n \in Slots("first") :
         ~ Idle("first", m) /\ ~ Idle("first", n) => m = n
    /\ shown[Watched].status \in Terminal /\ ~ dirty =>
         polling = {} /\ Quiet("live")

StaysSettled ==
  page = "match" /\ shown[Watched].status \in Terminal /\ ~ dirty
    => UNCHANGED <<shown, told>>

(* Only the request that is set changes.                                   *)
LEMMA OneRequestChanges ==
  ASSUME RequestsInv, NEW k \in Kinds, NEW n \in Slots(k), NEW r,
         requests' = [requests EXCEPT ![k][n] = r]
  PROVE  /\ requests'[k][n] = r
         /\ \A i \in Kinds : \A m \in Slots(i) :
              i # k \/ m # n => requests'[i][m] = requests[i][m]
<1>1. \A i \in Kinds \ {k} : requests'[i] = requests[i]
  BY DEF RequestsInv
<1>2. requests'[k] = [requests[k] EXCEPT ![n] = r]
  BY DEF RequestsInv
<1>3. \A m \in Slots(k) :
        requests'[k][m] = IF m = n THEN r ELSE requests[k][m]
  BY <1>2 DEF RequestsInv
<1> QED
  BY <1>1, <1>3

(* No request begins: an idle one stays idle.                              *)
NoneBegins ==
  \A k \in Kinds : \A n \in Slots(k) : Idle(k, n) => requests'[k][n] = NoRequest

LEMMA StatementBegins ==
  ASSUME RequestsInv, NEW k \in Kinds, NEW n \in Slots(k), Statement(k, n)
  PROVE  NoneBegins /\ ~ Idle(k, n)
<1>1. ~ Idle(k, n)
  BY DEF Statement, ReadRows, ReadMoves, ReadList, Idle, NoRequest, Active
<1>2. PICK r : requests' = [requests EXCEPT ![k][n] = r]
  BY DEF Statement, ReadRows, ReadMoves, ReadList, RequestsInv
<1> QED
  BY <1>1, <1>2, OneRequestChanges DEF NoneBegins, Idle

LEMMA DoneBegins ==
  ASSUME RequestsInv, NEW k \in Kinds, NEW n \in Slots(k), Done(k, n)
  PROVE  /\ NoneBegins
         /\ requests'[k][n] = NoRequest
<1>1. requests' = [requests EXCEPT ![k][n] = NoRequest]
  BY DEF Done
<1>2. /\ requests'[k][n] = NoRequest
      /\ \A i \in Kinds : \A m \in Slots(i) :
           i # k \/ m # n => requests'[i][m] = requests[i][m]
  BY <1>1, OneRequestChanges
<1> QED
  BY <1>2 DEF NoneBegins, Idle

(* An answer or a failure on the page of a match.                          *)
LEMMA AnsweredOnMatchPage ==
  ASSUME PagesInv, SettledInv, page = "match",
         NEW k \in Kinds, NEW n \in Slots(k), ~ Idle(k, n), Done(k, n)
  PROVE  /\ k \in {"first", "live"} /\ opened
         /\ k = "live" => Quiet("first")
         /\ Quiet("first")'
         /\ k = "live" => ~ (shown[Watched].status \in Terminal /\ ~ dirty)
         /\ k = "first" => shown = Nothing
<1>1. k \in {"first", "live"}
  BY DEF SettledInv, Kinds, Quiet
<1>2. k = "live" => ~ Quiet("live")
  BY DEF Quiet
<1>3. k = "first" => ~ Quiet("first")
  BY DEF Quiet
<1>4. opened /\ (k = "live" => Quiet("first"))
  BY <1>1, <1>2, <1>3 DEF SettledInv
<1>5. Quiet("first")'
  <2>1. NoneBegins /\ requests'[k][n] = NoRequest
    BY DoneBegins DEF PagesInv
  <2>2. CASE k = "live"
    BY <2>1, <2>2, <1>4 DEF NoneBegins, Quiet, Idle, Kinds
  <2>3. CASE k = "first"
    <3>1. \A m \in Slots("first") : m # n => Idle("first", m)
      BY <2>3 DEF SettledInv
    <3> QED
      BY <2>1, <2>3, <3>1 DEF NoneBegins, Quiet, Idle, Kinds
  <2> QED
    BY <1>1, <2>2, <2>3
<1> QED
  BY <1>1, <1>2, <1>3, <1>4, <1>5 DEF SettledInv

LEMMA SettledStep ==
  ASSUME PagesInv, SettledInv, PagesNext
  PROVE  SettledInv' /\ StaysSettled
<1>0. page' = page
  BY DEF PagesNext, Browser, Progress, pageVars, Open, Submit, ChooseGame,
     Effects, Tick, Statement, AnswerPage, Arrive, StillWaiting, Fails, Done,
     fixedVars
<1>1. CASE page # "match"
  BY <1>0, <1>1 DEF SettledInv, StaysSettled
<1> SUFFICES ASSUME page = "match" PROVE SettledInv' /\ StaysSettled
  BY <1>1
<1>2. CASE JobsNext /\ UNCHANGED pageVars
  BY <1>2 DEF SettledInv, StaysSettled, pageVars, fixedVars, Quiet, Idle
<1>3. CASE Open
  <2>1. /\ ~ opened /\ opened' /\ Send("first") /\ polling' = {}
        /\ UNCHANGED <<shown, dirty, told>>
    BY <1>3 DEF Open, FirstRequest
  <2>2. PICK n \in Slots("first") : requests' = [requests EXCEPT ![("first")][n] =
          [left |-> StatementsOf("first"), got |-> Nothing]]
    BY <2>1 DEF Send
  <2>3. \A i \in Kinds : \A m \in Slots(i) :
          i # "first" \/ m # n => requests'[i][m] = requests[i][m]
    BY <2>2, OneRequestChanges DEF PagesInv, Kinds
  <2>4. Quiet("list")' /\ Quiet("job")' /\ Quiet("live")'
    BY <2>1, <2>3 DEF SettledInv, Quiet, Idle, Kinds
  <2>5. \A m \in Slots("first") : m # n => Idle("first", m)'
    BY <2>1, <2>3 DEF SettledInv, Quiet, Idle, Kinds
  <2>6. shown' = Nothing
    BY <2>1 DEF SettledInv
  <2> QED
    BY <1>0, <2>1, <2>4, <2>5, <2>6 DEF SettledInv, StaysSettled
<1>4. CASE Submit
  BY <1>4 DEF Submit
<1>5. CASE ChooseGame
  BY <1>5 DEF ChooseGame, SettledInv
<1>6. CASE Effects
  <2>1. /\ polling' = {k \in {"live"} : shown[Watched].status \in Active}
        /\ UNCHANGED <<opened, shown, told>> /\ ~ dirty'
    BY <1>6 DEF Effects
  <2>2. Quiet("live")'
    BY <1>6 DEF Effects, Quiet, Idle, NoRequests, Kinds
  <2>3. \A n \in Slots("first") : Idle("first", n)' <=> Idle("first", n)
    BY <1>6 DEF Effects, Idle, Kinds
  <2>4. Quiet("list")' /\ Quiet("job")'
    BY <1>6 DEF Effects, SettledInv, Quiet, Idle, NoRequests, Kinds
  <2>5. shown[Watched].status \in Terminal \/ shown = Nothing => polling' = {}
    BY <2>1, PagesAssumption DEF Terminal, Active, Nothing, NoView
  <2>6. Quiet("first")' <=> Quiet("first")
    BY <2>3 DEF Quiet
  <2> QED
    BY <1>0, <2>1, <2>2, <2>3, <2>4, <2>5, <2>6 DEF SettledInv, StaysSettled
<1>7. ASSUME NEW k \in Kinds, Tick(k)
      PROVE  SettledInv' /\ StaysSettled
  <2>1. k = "live" /\ polling # {}
    BY <1>7 DEF Tick, SettledInv
  <2>2. /\ opened /\ Quiet("first")
        /\ ~ (shown[Watched].status \in Terminal /\ ~ dirty)
    BY <2>1 DEF SettledInv
  <2>3. UNCHANGED <<opened, shown, polling, dirty, told>>
    BY <1>7 DEF Tick
  <2>4. PICK n \in Slots("live") : requests' = [requests EXCEPT ![("live")][n] =
          [left |-> StatementsOf("live"), got |-> Nothing]]
    BY <1>7, <2>1 DEF Tick, Send
  <2>5. \A i \in Kinds : \A m \in Slots(i) :
          i # "live" => requests'[i][m] = requests[i][m]
    BY <2>4, OneRequestChanges DEF PagesInv, Kinds
  <2>6. Quiet("list")' /\ Quiet("job")' /\ Quiet("first")'
    BY <2>2, <2>5 DEF SettledInv, Quiet, Idle, Kinds
  <2>7. \A m, n1 \in Slots("first") :
          ~ Idle("first", m)' /\ ~ Idle("first", n1)' => m = n1
    BY <2>6 DEF Quiet
  <2> QED
    BY <1>0, <2>2, <2>3, <2>6, <2>7 DEF SettledInv, StaysSettled
<1>8. ASSUME NEW k \in Kinds, NEW n \in Slots(k), Statement(k, n)
      PROVE  SettledInv' /\ StaysSettled
  <2>1. NoneBegins
    BY <1>8, StatementBegins DEF PagesInv
  <2>2. UNCHANGED <<opened, shown, polling, dirty, told>>
    BY <1>8 DEF Statement
  <2>3. \A i \in Kinds : Quiet(i) => Quiet(i)'
    BY <2>1 DEF NoneBegins, Quiet, Idle
  <2>4. \A m \in Slots("first") : Idle("first", m) => Idle("first", m)'
    BY <2>1 DEF NoneBegins, Idle, Kinds
  <2> QED
    BY <1>0, <2>2, <2>3, <2>4 DEF SettledInv, StaysSettled, Kinds
<1>9. ASSUME NEW k \in Kinds, NEW n \in Slots(k), AnswerPage(k, n)
      PROVE  SettledInv' /\ StaysSettled
  <2>1. ~ Idle(k, n) /\ Done(k, n)
    BY <1>9 DEF AnswerPage, Idle, NoRequest
  <2>2. /\ k \in {"first", "live"} /\ opened /\ Quiet("first")'
        /\ k = "live" => ~ (shown[Watched].status \in Terminal /\ ~ dirty)
        /\ k = "first" => shown = Nothing
    BY <2>1, AnsweredOnMatchPage
  <2>3. dirty' /\ told' # "waiting" /\ UNCHANGED <<opened, polling>>
    BY <1>0, <1>9 DEF AnswerPage, Done
  <2>4. \A i \in Kinds : Quiet(i) => Quiet(i)'
    BY <2>1, DoneBegins DEF NoneBegins, Quiet, Idle, PagesInv
  <2>5. \A m, n1 \in Slots("first") :
          ~ Idle("first", m)' /\ ~ Idle("first", n1)' => m = n1
    BY <2>2 DEF Quiet
  <2>6. Nothing[Watched].status \notin Terminal
    BY PagesAssumption DEF Nothing, NoView, Terminal
  <2>7. StaysSettled
    BY <2>2, <2>6 DEF StaysSettled
  <2> QED
    BY <1>0, <2>2, <2>3, <2>4, <2>5, <2>7 DEF SettledInv, Kinds
<1>10. ASSUME NEW n \in Slots("job"), Arrive(n) \/ StillWaiting(n)
       PROVE  SettledInv' /\ StaysSettled
  <2>1. ~ Idle("job", n)
    BY <1>10 DEF Arrive, StillWaiting, Idle, NoRequest
  <2> QED
    BY <2>1 DEF SettledInv, Quiet
<1>11. ASSUME NEW k \in Kinds, NEW n \in Slots(k), Fails(k, n)
       PROVE  SettledInv' /\ StaysSettled
  <2>1. ~ Idle(k, n) /\ Done(k, n)
    BY <1>11 DEF Fails
  <2>2. /\ k \in {"first", "live"} /\ opened /\ Quiet("first")'
        /\ k = "live" => ~ (shown[Watched].status \in Terminal /\ ~ dirty)
        /\ k = "first" => shown = Nothing
    BY <2>1, AnsweredOnMatchPage
  <2>3. /\ UNCHANGED <<opened, polling, shown, dirty>>
        /\ told' # "waiting"
    BY <1>11, <2>2, <1>0 DEF Fails, Done, RestInv, PagesInv
  <2>4. \A i \in Kinds : Quiet(i) => Quiet(i)'
    BY <2>1, DoneBegins DEF NoneBegins, Quiet, Idle, PagesInv
  <2>5. \A m, n1 \in Slots("first") :
          ~ Idle("first", m)' /\ ~ Idle("first", n1)' => m = n1
    BY <2>2 DEF Quiet
  <2>6. Nothing[Watched].status \notin Terminal
    BY PagesAssumption DEF Nothing, NoView, Terminal
  <2>7. StaysSettled
    BY <2>2, <2>6 DEF StaysSettled
  <2> QED
    BY <1>0, <2>2, <2>3, <2>4, <2>5, <2>7 DEF SettledInv, Kinds
<1> QED
  BY <1>2, <1>3, <1>4, <1>5, <1>6, <1>7, <1>8, <1>9, <1>10, <1>11
     DEF PagesNext, Browser, Progress

(* Once the page of a match has stopped polling because the job was        *)
(* resolved, no late answer and no failure of one changes what it shows -  *)
(* neither the match nor an error in its place.                            *)
THEOREM NoLateAnswerIsShown == PagesSpec => SettledViewStays
<1>1. PagesInit => SettledInv
  <2> SUFFICES ASSUME PagesInit PROVE SettledInv
    OBVIOUS
  <2>1. \A k \in Kinds : Quiet(k)
    BY DEF PagesInit, NoRequests, Quiet, Idle
  <2>2. /\ Quiet("list") /\ Quiet("job") /\ Quiet("first") /\ Quiet("live")
        /\ polling = {} /\ shown = Nothing /\ told # "waiting"
    BY <2>1 DEF PagesInit, Kinds
  <2>3. Nothing[Watched].status \notin Terminal
    BY PagesAssumption DEF Nothing, NoView, Terminal
  <2> QED
    BY <2>2, <2>3 DEF SettledInv, Quiet
<1>2. PagesInv /\ SettledInv /\ [PagesNext]_pagesVars => SettledInv'
  <2>1. CASE UNCHANGED pagesVars
    BY <2>1 DEF SettledInv, pagesVars, pageVars, fixedVars, Quiet, Idle
  <2> QED
    BY <2>1, SettledStep
<1>3. PagesInv /\ SettledInv /\ [PagesNext]_pagesVars
        => [page = "match" /\ shown[Watched].status \in Terminal /\ ~ dirty
              => UNCHANGED <<shown, told>>]_pagesVars
  BY SettledStep DEF StaysSettled
<1> QED
  BY <1>1, <1>2, <1>3, PagesInvInit, PagesInvStep, PTL
     DEF PagesSpec, SettledViewStays
=============================================================================
