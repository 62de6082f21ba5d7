------------------------------- MODULE Pages --------------------------------
(***************************************************************************)
(* A browser that watches the queue: the page of a live match              *)
(* (MatchDetailPage), the featured games, and the home page with its list  *)
(* of active jobs and the job its user submitted (HomePage), on top of the *)
(* read endpoints of the API (serialize_live_match_job, list_match_jobs,   *)
(* get_match_job, select_featured_match_jobs).  The jobs are those of      *)
(* SharedJobs, which MatchQueue implements, or, where attempts never       *)
(* overlap, those of JobLifecycle: MatchQueue implements that one only     *)
(* while no two workers hold the same job.                                 *)
(*                                                                         *)
(* A request reads the database in several statements, each of which sees  *)
(* what is committed when it runs; its answer travels for as long as it    *)
(* likes, so answers arrive in any order.  A component re-renders when an  *)
(* answer sets its state and runs its effects after that: until then the   *)
(* intervals and the ignore flags of the previous effects are in force.    *)
(***************************************************************************)
EXTENDS SharedJobs, FiniteSets

CONSTANTS
  Watched,        (* the job whose page is open, or which the user submits  *)
  FeaturedLimit,  (* featured games shown at most                           *)
  MaxInFlight,    (* bound on the unanswered requests of each kind          *)
  MaxErrors       (* bound on requests that fail                            *)

ASSUME LifecycleAssumption ==
  Jobs \subseteq Nat /\ MaxAttempts \in Nat /\ MaxMoves \in Nat

ASSUME PagesAssumption ==
  /\ Watched \in Jobs
  /\ FeaturedLimit \in Nat
  /\ MaxInFlight \in [{"first", "live", "list", "job"} -> Nat \ {0}]
  /\ MaxErrors \in Nat

VARIABLES
  overlapping, (* may attempts the reaper gave up on still act? (fixed)     *)
  page,      (* which page the browser is on (fixed)                        *)
  opened,    (* the page is mounted                                         *)
  shown,     (* what it shows of each job                                   *)
  requests,  (* requests under way                                          *)
  polling,   (* intervals installed by the effects                          *)
  dirty,     (* the state was set and the effects have not run yet          *)
  told,      (* what the user knows of the job submitted or of the page     *)
  errors     (* requests that failed                                        *)

fixedVars == <<overlapping, page>>
pageVars == <<fixedVars, opened, shown, requests, polling, dirty, told, errors>>
pagesVars == <<lifecycleVars, pageVars>>

Active == {"queued", "running"}
Terminal == {"completed", "failed"}

(* "first" is the load of a freshly mounted page, "live" one of its polls. *)
Kinds == {"first", "live", "list", "job"}
Slots(k) == 1..MaxInFlight[k]

(* of: the attempts whose moves are in the view.                           *)
NoView == [status |-> "none", match |-> 0, of |-> {}]
Nothing == [j \in Jobs |-> NoView]

(* left: the statements not executed yet.                                  *)
NoRequest == [left |-> {"idle"}, got |-> Nothing]
NoRequests == [k \in Kinds |-> [n \in Slots(k) |-> NoRequest]]

Idle(k, n) == requests[k][n] = NoRequest

PagesInit ==
  /\ Init
  /\ overlapping \in BOOLEAN
  /\ page \in {"match", "featured", "home"}
  /\ opened = FALSE
  /\ shown = Nothing
  /\ requests = NoRequests
  /\ polling = {}
  /\ dirty = FALSE
  /\ told = "nothing"
  /\ errors = 0

-----------------------------------------------------------------------------
(* The API's side of a request.                                            *)

(* select_featured_match_jobs: running jobs first, the newest first.       *)
Featured == {j \in Jobs : status[j] \in {"running", "completed"}}
RanksBefore(i, j) ==
  \/ status[i] = "running" /\ status[j] = "completed"
  \/ status[i] = status[j] /\ i > j
FeaturedJobs ==
  {j \in Featured :
     Cardinality({i \in Featured : RanksBefore(i, j)}) < FeaturedLimit}

RowSelected(k, j) ==
  IF k = "job" \/ page = "match" THEN j = Watched /\ status[j] # "none"
  ELSE j \in FeaturedJobs

Row(j) == [status |-> status[j], match |-> match[j], of |-> {}]

(* The match's own moves where the row names a match, else the live moves; *)
(* the row is the one read before.                                         *)
MovesShown(v, j) ==
  IF v.match # 0 THEN {v.match}
  ELSE {liveMoves[j][n] : n \in 1..MaxMoves} \ {0}

(* The status as it is now beside a match_id read before.                  *)
FilledAndRefreshed(v, j) ==
  IF v = NoView THEN v
  ELSE [v EXCEPT !.of = MovesShown(v, j), !.status = status[j]]

(* serialize_live_match_job, once the collections are loaded.              *)
Filled(v, j) == IF v = NoView THEN v ELSE [v EXCEPT !.of = MovesShown(v, j)]

(* One SELECT of request n of kind k.                                      *)
ReadRows(k, n) ==
  /\ "rows" \in requests[k][n].left
  /\ requests' = [requests EXCEPT ![k][n] =
       [left |-> @.left \ {"rows"},
        got |-> [j \in Jobs |->
                   IF RowSelected(k, j) THEN Row(j) ELSE NoView]]]

ReadMoves(k, n) ==
  /\ "moves" \in requests[k][n].left /\ "rows" \notin requests[k][n].left
  /\ requests' = [requests EXCEPT ![k][n] =
       [left |-> @.left \ {"moves"},
        got |-> [j \in Jobs |-> Filled(@.got[j], j)]]]

(* list_match_jobs filters by one status; two requests make up the list.   *)
ReadList(k, n) ==
  \E s \in requests[k][n].left \cap Active :
    requests' = [requests EXCEPT ![k][n] =
      [left |-> @.left \ {s},
       got |-> [j \in Jobs |-> IF status[j] = s THEN Row(j) ELSE @.got[j]]]]

Statement(k, n) ==
  /\ ReadRows(k, n) \/ ReadMoves(k, n) \/ ReadList(k, n)
  /\ UNCHANGED <<lifecycleVars, fixedVars, opened, shown, polling, dirty, told, errors>>

-----------------------------------------------------------------------------
(* The browser.                                                            *)

StatementsOf(k) ==
  CASE k = "list" -> Active
    [] k = "job" -> {"rows"}
    [] OTHER -> {"rows", "moves"}

(* The first free slot takes the request.                                  *)
Send(k) == \E n \in Slots(k) :
  /\ Idle(k, n) /\ \A i \in 1..(n - 1) : ~ Idle(k, i)
  /\ requests' = [requests EXCEPT ![k][n] =
       [left |-> StatementsOf(k), got |-> Nothing]]

(* The featured games' polls are the function that loads them first.       *)
FirstRequest ==
  CASE page = "match" -> "first" [] page = "featured" -> "live"
    [] page = "home" -> "list"

OpenWithoutInterval ==
  /\ ~ opened
  /\ told # "arrived"
  /\ opened' = TRUE
  /\ Send(FirstRequest)
  /\ UNCHANGED <<lifecycleVars, fixedVars, shown, polling, dirty, told, errors>>

(* Mounting loads the page's data; only the featured games poll from then  *)
(* on whatever they show.                                                  *)
Open ==
  /\ ~ opened
  /\ told # "arrived"
  /\ opened' = TRUE
  /\ Send(FirstRequest)
  /\ polling' = IF page = "featured" THEN {"live"} ELSE {}
  /\ UNCHANGED <<lifecycleVars, fixedVars, shown, dirty, told, errors>>

(* An interval fires, whatever is still under way.                         *)
Tick(k) ==
  /\ k \in polling
  /\ Send(k)
  /\ UNCHANGED <<lifecycleVars, fixedVars, opened, shown, polling, dirty, told, errors>>

(* handleSubmit after the answer of POST /matches: the job is watched, and *)
(* stands in the list before any list names it.                            *)
Submit ==
  /\ page = "home" /\ opened /\ told = "nothing"
  /\ status[Watched] # "none"
  /\ told' = "waiting"
  /\ shown' = [shown EXCEPT ![Watched] = [NoView EXCEPT !.status = "queued"]]
  /\ dirty' = TRUE
  /\ UNCHANGED <<lifecycleVars, fixedVars, opened, requests, polling, errors>>

(* Choosing another game forgets the submitted job.                        *)
ChooseGame ==
  /\ told = "waiting"
  /\ told' = "left"
  /\ dirty' = TRUE
  /\ UNCHANGED <<lifecycleVars, fixedVars, opened, shown, requests, polling, errors>>

(* The cleanup of the previous effects leaves their requests current.      *)
EffectsWithoutIgnore ==
  /\ dirty
  /\ dirty' = FALSE
  /\ polling' =
       IF page = "match"
       THEN {k \in {"live"} : shown[Watched].status \in Active}
       ELSE {k \in {"list"} : \E j \in Jobs : shown[j].status \in Active}
            \cup {k \in {"job"} : told = "waiting"}
  /\ UNCHANGED <<lifecycleVars, fixedVars, opened, shown, requests, told, errors>>

(* A job that was seen running is not polled any more.                     *)
EffectsWhileQueued ==
  /\ dirty
  /\ dirty' = FALSE
  /\ polling' =
       IF page = "match"
       THEN {k \in {"live"} : shown[Watched].status = "queued"}
       ELSE {k \in {"list"} : \E j \in Jobs : shown[j].status = "queued"}
            \cup {k \in {"job"} : told = "waiting"}
  /\ requests' = [k \in Kinds |->
       IF k = "live" \/ (k = "job" /\ told # "waiting")
       THEN NoRequests[k] ELSE requests[k]]
  /\ UNCHANGED <<lifecycleVars, fixedVars, opened, shown, told, errors>>

(* Effects whose dependencies changed: the match page's poll is set up     *)
(* anew for every answer, and ignores the polls sent before, whose answers *)
(* are then as good as gone; the watched job's is torn down with the       *)
(* watching; the list polls while it shows an active job.                  *)
Effects ==
  /\ dirty
  /\ dirty' = FALSE
  /\ polling' =
       IF page = "match"
       THEN {k \in {"live"} : shown[Watched].status \in Active}
       ELSE {k \in {"list"} : \E j \in Jobs : shown[j].status \in Active}
            \cup {k \in {"job"} : told = "waiting"}
  /\ requests' = [k \in Kinds |->
       IF k = "live" \/ (k = "job" /\ told # "waiting")
       THEN NoRequests[k] ELSE requests[k]]
  /\ UNCHANGED <<lifecycleVars, fixedVars, opened, shown, told, errors>>

(* The request is over.                                                    *)
Done(k, n) ==
  /\ requests' = [requests EXCEPT ![k][n] = NoRequest]
  /\ UNCHANGED <<lifecycleVars, fixedVars, opened>>

(* The poll of the submitted job finds it completed: navigating to the     *)
(* match unmounts the page, its intervals and its requests.                *)
Arrive(n) ==
  LET r == requests["job"][n] IN
  /\ r.left = {}
  /\ r.got[Watched].status = "completed" /\ r.got[Watched].match # 0
  /\ told' = "arrived"
  /\ opened' = FALSE /\ shown' = Nothing /\ polling' = {} /\ dirty' = FALSE
  /\ requests' = NoRequests
  /\ UNCHANGED <<lifecycleVars, fixedVars, errors>>

(* A failed job is not told to its user.                                   *)
StillWaitingOnFailed(n) ==
  LET v == requests["job"][n].got[Watched] IN
  /\ requests["job"][n].left = {}
  /\ ~ (v.status = "completed" /\ v.match # 0)
  /\ told' = IF v.status = "completed" THEN "error" ELSE told
  /\ dirty' = (dirty \/ told' # told)
  /\ Done("job", n)
  /\ UNCHANGED <<shown, polling, errors>>

(* Or failed, or completed without a match, or still active.               *)
StillWaiting(n) ==
  LET v == requests["job"][n].got[Watched] IN
  /\ requests["job"][n].left = {}
  /\ ~ (v.status = "completed" /\ v.match # 0)
  /\ told' = IF v.status \in Terminal THEN "error" ELSE told
  /\ dirty' = (dirty \/ told' # told)
  /\ Done("job", n)
  /\ UNCHANGED <<shown, polling, errors>>

(* An answer that is shown.  It clears the error of an earlier poll.  The  *)
(* page of a job that does not exist gets 404.                             *)
AnswerPage(k, n) ==
  LET r == requests[k][n] IN
  /\ k # "job" /\ r.left = {}
  /\ shown' = r.got
  /\ dirty' = (page # "featured")
  /\ told' = IF page # "match" THEN told
             ELSE IF r.got = Nothing THEN "lost" ELSE "nothing"
  /\ Done(k, n)
  /\ UNCHANGED <<polling, errors>>

(* The request fails.  The page of a match has nothing to show if it is    *)
(* the first one; a poll's error is set beside the data, and rendered in   *)
(* its place until an answer clears it, but the effects depend on the data *)
(* alone and do not run.  The lists show nothing; the submitted job is     *)
(* watched no longer.                                                      *)
FailsAndForgets(k, n) ==
  /\ ~ Idle(k, n)
  /\ errors < MaxErrors
  /\ errors' = errors + 1
  /\ shown' = Nothing
  /\ dirty' = TRUE
  /\ told' = IF k = "first" /\ page = "match" THEN "lost"
             ELSE IF k = "job" \/ page = "match" THEN "error" ELSE told
  /\ Done(k, n)
  /\ UNCHANGED polling

Fails(k, n) ==
  /\ ~ Idle(k, n)
  /\ errors < MaxErrors
  /\ errors' = errors + 1
  /\ shown' = IF k \in {"list", "first"} \/ page = "featured"
              THEN Nothing ELSE shown
  /\ dirty' = (dirty \/ k \in {"list", "job"})
  /\ told' = IF k = "first" /\ page = "match" THEN "lost"
             ELSE IF k = "job" \/ page = "match" THEN "error" ELSE told
  /\ Done(k, n)
  /\ UNCHANGED polling

-----------------------------------------------------------------------------

(* What the API and the browser do for a request, unless it fails.         *)
Progress(k, n) ==
  \/ Statement(k, n)
  \/ AnswerPage(k, n)
  \/ k = "job" /\ (Arrive(n) \/ StillWaiting(n))

Browser ==
  \/ Open \/ Submit \/ ChooseGame \/ Effects
  \/ \E k \in Kinds :
       \/ Tick(k)
       \/ \E n \in Slots(k) : Progress(k, n) \/ Fails(k, n)

JobsNext == Next \/ (overlapping /\ Late)

PagesNext == Browser \/ (JobsNext /\ UNCHANGED pageVars)

PagesSpec == PagesInit /\ [][PagesNext]_pagesVars

(* Effects run, intervals fire, and of the requests of a kind some go on   *)
(* and are answered; a single one may be under way for ever.               *)
BrowserFairness ==
  /\ WF_pagesVars(Effects)
  /\ \A k \in Kinds :
       WF_pagesVars(Tick(k)) /\ WF_pagesVars(\E n \in Slots(k) : Progress(k, n))

(* A queued job is claimed and an attempt ends: what EveryJobResolves says *)
(* of the workers, as long as bots do not keep all of them waiting.        *)
JobFairness ==
  \A j \in Jobs :
    /\ WF_lifecycleVars(Start(j))
    /\ WF_lifecycleVars(Complete(j) \/ Fail(j) \/ GiveUp({j}))

FairPagesSpec == PagesSpec /\ JobFairness /\ BrowserFairness

-----------------------------------------------------------------------------
(* Properties.                                                             *)

(* The domains of the browser's state; requests that have begun are those  *)
(* of a page that is open.                                                 *)
Views == [status : {"none"} \cup Active \cup Terminal, match : Nat, of : SUBSET Nat]
PagesTypeOK ==
  /\ overlapping \in BOOLEAN
  /\ page \in {"match", "featured", "home"}
  /\ opened \in BOOLEAN /\ dirty \in BOOLEAN
  /\ shown \in [Jobs -> Views]
  /\ \A k \in Kinds : requests[k] \in [Slots(k) ->
       [left : SUBSET {"idle", "rows", "moves", "queued", "running"},
        got : [Jobs -> Views]]]
  /\ polling \subseteq Kinds
  /\ told \in {"nothing", "waiting", "left", "error", "lost", "arrived"}
  /\ errors \in 0..MaxErrors

(* What a page shows is true of the job, although rows and moves are read  *)
(* by separate statements while workers clear, record and complete: a job  *)
(* shown resolved is resolved, a completed one names a match that was      *)
(* stored, and beside a match stand the moves of that match.               *)
TrueOf(v, j) ==
  /\ v.status \in Terminal => status[j] \in Terminal
  /\ v.status = "completed" => v.match # 0
  /\ v.match # 0 => v.match \in matches[j] /\ v.of \subseteq {v.match}

(* Where attempts do not overlap, a job shown resolved has that outcome    *)
(* for ever, and live moves are shown of one attempt at most.  Where they  *)
(* do, a job shown as failed may be completed later, one shown as          *)
(* completed may name another match or be failed, and the live moves shown *)
(* may be those of several attempts.                                       *)
FinalFor(v, j) ==
  /\ v.status \in Terminal => status[j] = v.status /\ match[j] = v.match
  /\ \A a, b \in v.of : a = b

(* Both of all that is shown, and who is sent to the page of a match finds *)
(* one there.                                                              *)
ViewsAreTrue ==
  /\ \A j \in Jobs : TrueOf(shown[j], j)
  /\ ~ overlapping => \A j \in Jobs : FinalFor(shown[j], j)
  /\ told = "arrived" => status[Watched] \in Terminal /\ matches[Watched] # {}

(* Once the page of a match has stopped polling because the job was        *)
(* resolved, no late answer brings an older state back, and no late error  *)
(* takes the place of what is shown.                                       *)
SettledViewStays ==
  [][page = "match" /\ shown[Watched].status \in Terminal /\ ~ dirty
       => UNCHANGED <<shown, told>>]_pagesVars

(* The page of a match whose job was resolved ends up with an outcome,     *)
(* whatever polls overtake each other or fail - unless its first request   *)
(* failed: no poll is the last before that.  Which outcome is said by      *)
(* ViewsAreTrue.  It need not be what is rendered: a poll that fails after *)
(* the outcome was set and before the effects run leaves its error in      *)
(* front of it, and nothing clears that any more.                          *)
MatchPageSettles ==
  page = "match" =>
    <>[](opened /\ status[Watched] \in Terminal =>
           \/ shown[Watched].status \in Terminal
           \/ told = "lost" /\ shown = Nothing)

(* The featured games end up showing the rows as they are, although their  *)
(* polls have no ignore flag and an older answer may replace a newer one.  *)
FeaturedCatchesUp ==
  page = "featured" =>
    <>[](opened =>
           /\ \A j \in Jobs : shown[j] # NoView =>
                shown[j].status = status[j] /\ shown[j].match = match[j]
           /\ \A j \in Featured : shown[j] = NoView =>
                Cardinality({i \in Jobs : shown[i] # NoView}) = FeaturedLimit)

(* The user who submitted a match gets to it or is told of an error, as    *)
(* long as jobs end (JobFairness).                                         *)
SubmitterArrives == told = "waiting" ~> told # "waiting"

(* A resolved job does not stay in the list of active jobs, although the   *)
(* list is polled only while it shows an active one.                       *)
NoGhosts ==
  page = "home" =>
    <>[](\A j \in Jobs : shown[j].status \in Active => status[j] \in Active)
=============================================================================
