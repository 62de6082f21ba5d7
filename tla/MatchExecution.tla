--------------------------- MODULE MatchExecution ---------------------------
(***************************************************************************)
(* execute_match (api/match_execution.py): load two bots with their active *)
(* submissions, play them in two sandboxes (api/bot_sandbox.py), and       *)
(* settle the result - Elo ratings (api/ratings.py) and the submissions'   *)
(* records - in the commit of the worker that called it (worker/main.py).  *)
(*                                                                         *)
(* Executions of several workers run side by side, and the API activates   *)
(* new submissions meanwhile.  What a match writes is computed from rows   *)
(* it read earlier; row[e] is what its ORM objects have loaded, which a    *)
(* commit of a live move forgets.                                          *)
(***************************************************************************)
EXTENDS Integers, Sequences, FiniteSets, FiniteSetsExt

CONSTANTS
  Executions,     (* calls of execute_match                               *)
  Bots,
  Submissions,    (* primary keys of bot_submissions                      *)
  BotOf,          (* the bot of each submission                           *)
  FirstActive,    (* the active submission of each bot at first           *)
  Plays,          (* the two bots of each execution                       *)
  InitialRating,  (* DEFAULT_ELO_RATING                                   *)
  Faults          (* may the file system, Docker, the database or the     *)
                  (* worker fail?                                         *)

ASSUME SubmissionsAssumption ==
  /\ Submissions \subseteq Nat \ {0}
  /\ IsFiniteSet(Submissions)
  /\ BotOf \in [Submissions -> Bots]
  /\ FirstActive \in [Bots -> Submissions]
  /\ \A b \in Bots : BotOf[FirstActive[b]] = b

ASSUME PlaysAssumption ==
  /\ Plays \in [Executions -> Bots \X Bots]
  /\ \A e \in Executions : Plays[e][1] # Plays[e][2]

ASSUME RatingAssumption == InitialRating \in Nat /\ Faults \in BOOLEAN

VARIABLES
  active,      (* bots.active_submission_id                               *)
  record,      (* bot_submissions: rating, games_played, wins, ...        *)
  history,     (* the committed rows of matches, in commit order          *)
  at, slot,    (* each execution's place, and the bot it is busy with     *)
  sub, before, (* submissions and ratings captured when it loaded them    *)
  row,         (* what its submission objects have loaded, or Expired     *)
  box,         (* its sandboxes                                           *)
  played,      (* the submissions whose executables it put in them        *)
  winner,      (* 1 or 2, 0 for a draw                                    *)
  raising,     (* an exception is on its way out                          *)
  overlapped   (* submissions that were ever in two matches at a time     *)

data == <<active, record, history>>
vars == <<active, record, history, at, slot, sub, before, row, box, played,
          winner, raising, overlapped>>

Slots == {1, 2}
NoSub == 0
Expired == [rating |-> -1, games |-> 0, wins |-> 0, losses |-> 0, draws |-> 0]
NewRecord == [Expired EXCEPT !.rating = InitialRating]

(* A sandbox: the submission in its temporary directory, NoSub if there is *)
(* none, and whether its container exists.                                 *)
NoBox == [holds |-> NoSub, container |-> FALSE]

Ended == {"done", "raised", "conflict", "unclean", "down"}
InProgress(e) == at[e] \notin Ended

Init ==
  /\ active = FirstActive
  /\ record = [s \in Submissions |-> NewRecord]
  /\ history = <<>>
  /\ at = [e \in Executions |-> "load"]
  /\ slot = [e \in Executions |-> 1]
  /\ sub = [e \in Executions |-> [i \in Slots |-> NoSub]]
  /\ before = [e \in Executions |-> [i \in Slots |-> 0]]
  /\ row = [e \in Executions |-> [i \in Slots |-> Expired]]
  /\ box = [e \in Executions |-> [i \in Slots |-> NoBox]]
  /\ played = [e \in Executions |-> [i \in Slots |-> NoSub]]
  /\ winner = [e \in Executions |-> 0]
  /\ raising = [e \in Executions |-> FALSE]
  /\ overlapped = {}

(* The same step for the first bot, then for the second, then onwards.     *)
Advance(e, next) ==
  /\ slot' = [slot EXCEPT ![e] = 3 - @]
  /\ at' = [at EXCEPT ![e] = IF slot[e] = 1 THEN @ ELSE next]

Leave(e, place) ==
  /\ at' = [at EXCEPT ![e] = place]
  /\ slot' = [slot EXCEPT ![e] = 1]

(* The call is over, and its objects with it; what it left on the disk     *)
(* stays.                                                                  *)
Gone(e, place) ==
  /\ Leave(e, place)
  /\ before' = [before EXCEPT ![e] = [i \in Slots |-> 0]]
  /\ row' = [row EXCEPT ![e] = [i \in Slots |-> Expired]]
  /\ winner' = [winner EXCEPT ![e] = 0]
  /\ raising' = [raising EXCEPT ![e] = FALSE]

(* POST /bots/{id}/submission makes a newer submission the active one.     *)
Activate(b) ==
  /\ \E s \in Submissions :
       /\ BotOf[s] = b /\ s > active[b]
       /\ active' = [active EXCEPT ![b] = s]
  /\ UNCHANGED <<record, history, at, slot, sub, before, row, box, played,
                 winner, raising, overlapped>>

-----------------------------------------------------------------------------
(* Loading and sandboxes.                                                  *)

(* _load_bot_for_match, and the rating the match will start from.          *)
Load(e) ==
  LET s == active[Plays[e][slot[e]]] IN
  /\ at[e] = "load"
  /\ sub' = [sub EXCEPT ![e][slot[e]] = s]
  /\ before' = [before EXCEPT ![e][slot[e]] = record[s].rating]
  /\ row' = [row EXCEPT ![e][slot[e]] = record[s]]
  /\ overlapped' = overlapped \cup
       {t \in {s} : \E f \in Executions \ {e}, i \in Slots :
                      InProgress(f) /\ sub[f][i] = t}
  /\ Advance(e, "build")
  /\ UNCHANGED <<data, box, played, winner, raising>>

(* build_bot_sandbox: a temporary directory with the executable.           *)
Build(e) ==
  /\ at[e] = "build"
  /\ box' = [box EXCEPT ![e][slot[e]].holds = sub[e][slot[e]]]
  /\ played' = [played EXCEPT ![e][slot[e]] = sub[e][slot[e]]]
  /\ Advance(e, "play")
  /\ UNCHANGED <<data, sub, before, row, winner, raising, overlapped>>

(* It removes its own directory if a step fails (ignoring errors, and what *)
(* those leave is not followed here); the finally clause is left with the  *)
(* other one.                                                              *)
BuildFails(e) ==
  /\ Faults
  /\ at[e] = "build"
  /\ Leave(e, "clean")
  /\ raising' = [raising EXCEPT ![e] = TRUE]
  /\ UNCHANGED <<data, sub, before, row, box, played, winner, overlapped>>

(* The referee starts a bot: docker run, sooner or later.                  *)
StartContainer(e, i) ==
  /\ at[e] = "play"
  /\ ~ box[e][i].container
  /\ box' = [box EXCEPT ![e][i].container = TRUE]
  /\ UNCHANGED <<data, at, slot, sub, before, row, played, winner, raising,
                 overlapped>>

(* A live move is committed; every loaded object expires.                  *)
CommitLiveMove(e) ==
  /\ at[e] = "play"
  /\ \A i \in Slots : row[e][i] # Expired
  /\ row' = [row EXCEPT ![e] = [i \in Slots |-> Expired]]
  /\ UNCHANGED <<data, at, slot, sub, before, box, played, winner, raising,
                 overlapped>>

EndMatch(e, w) ==
  /\ at[e] = "play"
  /\ winner' = [winner EXCEPT ![e] = w]
  /\ Leave(e, "clean")
  /\ UNCHANGED <<data, sub, before, row, box, played, raising, overlapped>>

(* A bot cannot be started, or on_live_move raises.                        *)
PlayRaises(e) ==
  /\ Faults
  /\ at[e] = "play"
  /\ raising' = [raising EXCEPT ![e] = TRUE]
  /\ Leave(e, "clean")
  /\ UNCHANGED <<data, sub, before, row, box, played, winner, overlapped>>

AfterClean(e) == IF raising[e] THEN "raised" ELSE "reload"

(* Only the first sandbox is cleaned up when an exception is on its way.   *)
CleanUntilRaised(e) ==
  /\ at[e] = "clean"
  /\ box' = [box EXCEPT ![e][slot[e]] = NoBox]
  /\ IF raising[e] THEN Leave(e, "raised") ELSE Advance(e, "reload")
  /\ UNCHANGED <<data, sub, before, row, played, winner, raising, overlapped>>

(* cleanup_bot_sandbox: docker rm, whose failure is ignored, then rmtree.  *)
Clean(e) ==
  /\ at[e] = "clean"
  /\ \E removed \in {TRUE, ~ Faults} :
       box' = [box EXCEPT ![e][slot[e]] =
                 [holds |-> NoSub, container |-> @.container /\ ~ removed]]
  /\ Advance(e, AfterClean(e))
  /\ UNCHANGED <<data, sub, before, row, played, winner, raising, overlapped>>

(* rmtree raises: whatever the finally clause had left to do is left, and  *)
(* the result of the match is lost.                                        *)
CleanRaises(e) ==
  /\ Faults
  /\ at[e] = "clean"
  /\ box[e][slot[e]].holds # NoSub
  /\ \E removed \in BOOLEAN :
       box' = [box EXCEPT ![e][slot[e]].container = @ /\ ~ removed]
  /\ Gone(e, "unclean")
  /\ UNCHANGED <<data, sub, played, overlapped>>

-----------------------------------------------------------------------------
(* Settlement.                                                             *)

(* Elo with expectations in quarters of the K factor: even odds for equal  *)
(* ratings, three to one for the favourite.  A rating never drops below 0. *)
Expected(rating, opponent) ==
  IF rating = opponent THEN 2 ELSE IF rating > opponent THEN 3 ELSE 1
Score(e, i) == IF winner[e] = 0 THEN 2 ELSE IF winner[e] = i THEN 4 ELSE 0
RatingAfter(e, i) ==
  Max({0, before[e][i] + Score(e, i) - Expected(before[e][i], before[e][3 - i])})

CreditedActive(e, i) == active[Plays[e][i]]
Credited(e, i) == sub[e][i]

MatchRow(e) ==
  [execution |-> e,
   sub |-> [i \in Slots |-> Credited(e, i)],
   winner |-> winner[e],
   before |-> before[e],
   after |-> [i \in Slots |-> RatingAfter(e, i)]]

(* Reading the id of an expired submission loads its row.                  *)
Reload(e) ==
  /\ at[e] = "reload"
  /\ row' = [row EXCEPT ![e][slot[e]] =
       IF @ = Expired THEN record[sub[e][slot[e]]] ELSE @]
  /\ Advance(e, "update")
  /\ UNCHANGED <<data, sub, before, box, played, winner, raising, overlapped>>

(* apply_match_record_updates: each counter is the loaded one plus one.    *)
(* The flush writes only what differs from what was loaded.                *)
NewRowSwapped(e, i) ==
  [record[sub[e][i]] EXCEPT
     !.rating = IF row[e][i].rating = RatingAfter(e, i) THEN @
                ELSE RatingAfter(e, i),
     !.games  = row[e][i].games + 1,
     !.wins   = IF winner[e] = 3 - i THEN row[e][i].wins + 1 ELSE @,
     !.losses = IF winner[e] = i THEN row[e][i].losses + 1 ELSE @,
     !.draws  = IF winner[e] = 0 THEN row[e][i].draws + 1 ELSE @]

NewRow(e, i) ==
  [record[sub[e][i]] EXCEPT
     !.rating = IF row[e][i].rating = RatingAfter(e, i) THEN @
                ELSE RatingAfter(e, i),
     !.games  = row[e][i].games + 1,
     !.wins   = IF winner[e] = i THEN row[e][i].wins + 1 ELSE @,
     !.losses = IF winner[e] = 3 - i THEN row[e][i].losses + 1 ELSE @,
     !.draws  = IF winner[e] = 0 THEN row[e][i].draws + 1 ELSE @]

(* The check constraint of bot_submissions.                                *)
RecordAddsUp(r) == r.wins + r.losses + r.draws = r.games

(* A flush after each record: the rows are updated in the bots' order.     *)
SlotInTurn(e) == slot[e]

(* The flush updates the two rows in the order of their primary keys, and  *)
(* holds the row it has updated until the commit.                          *)
SlotToUpdate(e) ==
  CHOOSE i \in Slots : IF slot[e] = 1 THEN sub[e][i] <= sub[e][3 - i]
                       ELSE sub[e][i] >= sub[e][3 - i]
Locked(f) ==
  IF at[f] = "commit" THEN {sub[f][1], sub[f][2]}
  ELSE IF at[f] = "update" /\ slot[f] = 2
       THEN {sub[f][i] : i \in Slots} \ {sub[f][SlotToUpdate(f)]}
       ELSE {}

MayUpdate(e) ==
  /\ at[e] = "update"
  /\ \A f \in Executions \ {e} : sub[e][SlotToUpdate(e)] \notin Locked(f)

UpdateRow(e) ==
  /\ MayUpdate(e)
  /\ RecordAddsUp(NewRow(e, SlotToUpdate(e)))
  /\ Advance(e, "commit")
  /\ UNCHANGED <<data, sub, before, row, box, played, winner, raising,
                 overlapped>>

(* The constraint turns the update down, and the job fails.                *)
UpdateRejected(e) ==
  /\ MayUpdate(e)
  /\ ~ RecordAddsUp(NewRow(e, SlotToUpdate(e)))
  /\ Gone(e, "conflict")
  /\ UNCHANGED <<data, sub, box, played, overlapped>>

(* run_job commits the match, both records and the job.                    *)
Commit(e) ==
  /\ at[e] = "commit"
  /\ record' = [s \in Submissions |->
       IF s = sub[e][1] THEN NewRow(e, 1)
       ELSE IF s = sub[e][2] THEN NewRow(e, 2)
       ELSE record[s]]
  /\ history' = Append(history, MatchRow(e))
  /\ Gone(e, "done")
  /\ UNCHANGED <<active, sub, box, played, overlapped>>

(* A statement fails, or the bots cannot be loaded; nothing is stored.     *)
DatabaseFails(e) ==
  /\ Faults
  /\ at[e] \in {"load", "reload", "update", "commit"}
  /\ Gone(e, "raised")
  /\ UNCHANGED <<data, sub, box, played, overlapped>>

(* The worker is killed.                                                   *)
Crash(e) ==
  /\ Faults
  /\ InProgress(e)
  /\ Gone(e, "down")
  /\ UNCHANGED <<data, sub, box, played, overlapped>>

-----------------------------------------------------------------------------

Execute(e) ==
  \/ Load(e) \/ Build(e) \/ CommitLiveMove(e)
  \/ \E i \in Slots : StartContainer(e, i)
  \/ \E w \in {0} \cup Slots : EndMatch(e, w)
  \/ Clean(e) \/ Reload(e) \/ UpdateRow(e) \/ Commit(e)

Fail(e) ==
  \/ BuildFails(e) \/ PlayRaises(e) \/ CleanRaises(e) \/ UpdateRejected(e)
  \/ DatabaseFails(e) \/ Crash(e)

Next ==
  \/ \E e \in Executions : Execute(e) \/ Fail(e)
  \/ \E b \in Bots : Activate(b)

Spec == Init /\ [][Next]_vars

-----------------------------------------------------------------------------
(* Properties.                                                             *)

(* The rows of a submission's matches, those among them that it won, lost  *)
(* and drew.                                                               *)
MatchesOf(s) == {n \in DOMAIN history : \E i \in Slots : history[n].sub[i] = s}
Wins(s) ==
  {n \in MatchesOf(s) : \E i \in Slots : history[n].sub[i] = s /\ history[n].winner = i}
Losses(s) ==
  {n \in MatchesOf(s) : \E i \in Slots : history[n].sub[i] = s /\ history[n].winner = 3 - i}
Draws(s) == {n \in MatchesOf(s) : history[n].winner = 0}

(* The rating is the one its last match before row n has left it with.     *)
CarriesInto(s, rating, n) ==
  \/ rating = InitialRating /\ \A k \in MatchesOf(s) : k >= n
  \/ \E k \in MatchesOf(s), i \in Slots :
       /\ k < n /\ \A l \in MatchesOf(s) : l <= k \/ l >= n
       /\ history[k].sub[i] = s /\ rating = history[k].after[i]

(* The sum of its matches and the end of an unbroken chain of ratings.     *)
SumsUp(s) ==
  /\ record[s].games = Cardinality(MatchesOf(s))
  /\ record[s].wins = Cardinality(Wins(s))
  /\ record[s].losses = Cardinality(Losses(s))
  /\ record[s].draws = Cardinality(Draws(s))
  /\ CarriesInto(s, record[s].rating, Len(history) + 1)
  /\ \A n \in MatchesOf(s), i \in Slots :
       history[n].sub[i] = s => CarriesInto(s, history[n].before[i], n)

(* Whatever fails and whichever submission is activated meanwhile, what    *)
(* concurrent settlements do to each other stays with submissions that     *)
(* were in two matches at a time: the record of any other is its history,  *)
(* and the check constraint fails no match of two others.  And of those    *)
(* too no record counts a match that was not stored.                       *)
RecordIsHistory ==
  /\ \A s \in Submissions \ overlapped : SumsUp(s)
  /\ \A e \in Executions :
       at[e] = "conflict" => \E i \in Slots : sub[e][i] \in overlapped
  /\ \A s \in Submissions : record[s].games <= Cardinality(MatchesOf(s))

(* A stored match names, and so credits, the submissions whose executables *)
(* were played, of the bots that were to play - not what has become active *)
(* meanwhile.                                                              *)
CreditsWhoPlayed ==
  \A n \in DOMAIN history :
    LET m == history[n] IN
    \A i \in Slots : m.sub[i] = played[m.execution][i]
                     /\ BotOf[m.sub[i]] = Plays[m.execution][i]

(* However a match ends - also when the second sandbox cannot be built -   *)
(* neither temporary directory is left, unless removing one fails or the   *)
(* worker is killed.                                                       *)
NoDirectoryLeft ==
  \A e \in Executions, i \in Slots :
    at[e] \in {"done", "raised", "conflict"} => box[e][i].holds = NoSub

(* Settlements that update the same rows never wait for each other in a    *)
(* circle: as long as any has a row to update, one of them can go on.      *)
SettlementGoesOn ==
  (\E e \in Executions : at[e] = "update") =>
    \E e \in Executions : at[e] = "commit" \/ MayUpdate(e)

(* What "multiple workers can run safely" promises of settlement: every    *)
(* stored match counts.                                                    *)
EveryMatchCounted ==
  \A s \in Submissions : record[s].games = Cardinality(MatchesOf(s))

=============================================================================
