---------------------------- MODULE BotRegistry -----------------------------
(***************************************************************************)
(* The registry of bots and their submissions (api/main.py): create_bot,   *)
(* submit_bot_executable, and seed_default_bots, which every replica of    *)
(* the API runs before it serves.                                          *)
(*                                                                         *)
(* A request is one transaction (READ COMMITTED).  It reads, uploads its   *)
(* executable, inserts and commits; what it has inserted blocks whoever    *)
(* inserts the same key of a unique constraint until it commits or rolls   *)
(* back.  No bot is ever deleted, so a bot is known by its (game, name).   *)
(***************************************************************************)
EXTENDS Naturals, FiniteSets, Sequences

CONSTANTS
  Names,       (* pairs of a game and a name                              *)
  Users,
  System,      (* the owner of built-in bots, NULL in the database        *)
  Nobody,      (* the owner of what does not exist                        *)
  Creates,     (* requests POST /bots                                     *)
  Submits,     (* requests POST /bots/{id}/submission                     *)
  By,          (* the user of each request                                *)
  About,       (* the bot it is to create, or to get a new version        *)
  Scripts,     (* the sets of requests that clients may send              *)
  Replicas,    (* API processes                                           *)
  Specs,       (* DEFAULT_BOT_SPECS, in order                             *)
  Artifacts,   (* the built-in executables each replica is deployed with  *)
  FirstBots,   (* bots the migration left behind, without a submission    *)
  MaxBots,     (* get_max_bots_per_user()                                 *)
  MaxCrashes   (* bound on crashes of replicas, for model checking        *)

Requests == Creates \cup Submits
Processes == Requests \cup Replicas

Rows == [owner : Users \cup {System, Nobody}, latest : Nat, active : Nat]
NoBot == [owner |-> Nobody, latest |-> 0, active |-> 0]

ASSUME PartiesAssumption ==
  /\ IsFiniteSet(Names)
  /\ By \in [Requests -> Users]
  /\ About \in [Requests -> Names]
  /\ Scripts \subseteq SUBSET Requests
  /\ System \notin Users /\ Nobody \notin Users /\ System # Nobody
  /\ Creates \cap Submits = {}
  /\ Requests \cap Replicas = {}

ASSUME SpecsAssumption ==
  /\ Specs \in Seq(Names)
  /\ \A i, j \in DOMAIN Specs : Specs[i] = Specs[j] => i = j
  /\ Artifacts \in [Replicas -> SUBSET Names]

(* Legacy bots keep the version they had reached, but no submission.       *)
ASSUME FirstBotsAssumption ==
  /\ FirstBots \in [Names -> Rows]
  /\ \A n \in Names :
       /\ FirstBots[n].active = 0
       /\ FirstBots[n].owner = Nobody => FirstBots[n] = NoBot

(* They were created under the limit.                                      *)
ASSUME QuotaAssumption ==
  \A u \in Users : Cardinality({n \in Names : FirstBots[n].owner = u}) <= MaxBots

ASSUME LimitsAssumption == MaxBots \in Nat /\ MaxCrashes \in Nat

VARIABLES
  bots,        (* committed rows of bots; active is the version of the    *)
               (* active submission, 0 if there is none                   *)
  subs,        (* committed rows of bot_submissions                       *)
  pc,
  seen,        (* the rows of bots a transaction has loaded               *)
  newBots,     (* bots a process has inserted and not committed           *)
  newVersion,  (* the version it has inserted of each bot, 0 for none     *)
  spec,        (* the default bot a replica is seeding                    *)
  crashes

pending == <<newBots, newVersion>>
vars == <<bots, subs, pc, seen, newBots, newVersion, spec, crashes>>

Exists(n) == bots[n].owner # Nobody

NoRows == [n \in Names |-> NoBot]
NoVersion == [n \in Names |-> 0]

(* Requests that are not sent are like those rejected before they begin.   *)
Init ==
  /\ bots = FirstBots
  /\ subs = {}
  /\ \E sent \in Scripts :
       pc = [p \in Processes |-> IF p \in Replicas THEN "down"
                                 ELSE IF p \in sent THEN "start" ELSE "rejected"]
  /\ seen = [p \in Processes |-> NoRows]
  /\ newBots = [p \in Processes |-> {}]
  /\ newVersion = [p \in Processes |-> NoVersion]
  /\ spec = [p \in Processes |-> 1]
  /\ crashes = 0

(* Unique keys: (game_id, name) of bots, (bot_id, version) of submissions. *)
NameFree(p, n) == \A q \in Processes \ {p} : n \notin newBots[q]
VersionFree(p, n, v) == \A q \in Processes \ {p} : newVersion[q][n] # v
VersionNeverStored(n, v) == FALSE
VersionStored(n, v) == \E s \in subs : s.bot = n /\ s.version = v

GoTo(p, place) == pc' = [pc EXCEPT ![p] = place]

(* The transaction's end: its keys are free again, its objects gone.       *)
Released(p) ==
  /\ seen' = [seen EXCEPT ![p] = NoRows]
  /\ spec' = [spec EXCEPT ![p] = 1]
  /\ newBots' = [newBots EXCEPT ![p] = {}]
  /\ newVersion' = [newVersion EXCEPT ![p] = NoVersion]

RollBack(p, place) ==
  /\ GoTo(p, place)
  /\ Released(p)
  /\ UNCHANGED <<bots, subs>>

OwnerOf(p) == IF p \in Replicas THEN System ELSE By[p]

CommitAs(p, place) ==
  /\ bots' = [n \in Names |->
       [owner |-> IF n \in newBots[p] THEN OwnerOf(p) ELSE bots[n].owner,
        latest |-> IF newVersion[p][n] = 0 THEN bots[n].latest ELSE newVersion[p][n],
        active |-> IF newVersion[p][n] = 0 THEN bots[n].active ELSE newVersion[p][n]]]
  /\ subs' = subs \cup
       {[bot |-> n, version |-> newVersion[p][n], by |-> p] :
          n \in {m \in Names : newVersion[p][m] # 0}}
  /\ Released(p)
  /\ GoTo(p, place)
  /\ UNCHANGED crashes

-----------------------------------------------------------------------------
(* create_bot                                                              *)

BotsOf(u) == {n \in Names : bots[n].owner = u}
Creating(u) == {c \in Creates : By[c] = u /\ pc[c] \in {"find", "insert", "commit"}}

(* lock_user_limit_scope; the lock is held to the transaction's end.       *)
LimitUnlocked(u) == TRUE
LimitLockFree(u) == Creating(u) = {}

EnforceLimit(c) ==
  /\ pc[c] = "start"
  /\ LimitLockFree(By[c])
  /\ GoTo(c, IF Cardinality(BotsOf(By[c])) < MaxBots THEN "find" ELSE "rejected")
  /\ UNCHANGED <<bots, subs, seen, pending, spec, crashes>>

FindName(c) ==
  /\ pc[c] = "find"
  /\ GoTo(c, IF Exists(About[c]) THEN "rejected" ELSE "insert")
  /\ UNCHANGED <<bots, subs, seen, pending, spec, crashes>>

(* The bot and its version 1 are flushed.                                  *)
InsertBot(c) ==
  /\ pc[c] = "insert"
  /\ NameFree(c, About[c])
  /\ ~ Exists(About[c])
  /\ newBots' = [newBots EXCEPT ![c] = {About[c]}]
  /\ newVersion' = [newVersion EXCEPT ![c][About[c]] = 1]
  /\ GoTo(c, "commit")
  /\ UNCHANGED <<bots, subs, seen, spec, crashes>>

NameTaken(c) ==
  /\ pc[c] = "insert"
  /\ NameFree(c, About[c])
  /\ Exists(About[c])
  /\ RollBack(c, "rejected")
  /\ UNCHANGED crashes

-----------------------------------------------------------------------------
(* submit_bot_executable                                                   *)

LoadBot(s) ==
  /\ pc[s] = "start"
  /\ IF bots[About[s]].owner = By[s]
     THEN GoTo(s, "insert") /\ seen' = [seen EXCEPT ![s][About[s]] = bots[About[s]]]
     ELSE GoTo(s, "rejected") /\ UNCHANGED seen
  /\ UNCHANGED <<bots, subs, pending, spec, crashes>>

(* The version after the one that was loaded before the upload.            *)
NextOfActive(p, n) == seen[p][n].active + 1
NextVersion(p, n) == seen[p][n].latest + 1

InsertSubmission(s) ==
  LET v == NextVersion(s, About[s]) IN
  /\ pc[s] = "insert"
  /\ VersionFree(s, About[s], v)
  /\ ~ VersionStored(About[s], v)
  /\ newVersion' = [newVersion EXCEPT ![s][About[s]] = v]
  /\ GoTo(s, "commit")
  /\ UNCHANGED <<bots, subs, seen, newBots, spec, crashes>>

SubmissionConflictIgnored(s) ==
  LET v == NextVersion(s, About[s]) IN
  /\ pc[s] = "insert"
  /\ VersionFree(s, About[s], v)
  /\ VersionStored(About[s], v)
  /\ RollBack(s, "accepted")
  /\ UNCHANGED crashes

SubmissionConflict(s) ==
  LET v == NextVersion(s, About[s]) IN
  /\ pc[s] = "insert"
  /\ VersionFree(s, About[s], v)
  /\ VersionStored(About[s], v)
  /\ RollBack(s, "rejected")
  /\ UNCHANGED crashes

-----------------------------------------------------------------------------
(* Either request: commit, or leave on an invalid executable or a failing  *)
(* statement.  The rows are read once more after the commit; if that fails *)
(* (or the commit's own answer is lost) the client gets a 500.             *)

CommitAccepted(p) ==
  /\ pc[p] = "commit"
  /\ CommitAs(p, "accepted")

RefreshFails(p) ==
  /\ pc[p] = "commit"
  /\ CommitAs(p, "failed")

Abort(p) ==
  /\ pc[p] \in {"find", "insert", "commit"}
  /\ RollBack(p, IF pc[p] = "commit" THEN "failed" ELSE "rejected")
  /\ UNCHANGED crashes

-----------------------------------------------------------------------------
(* seed_default_bots                                                       *)

(* A replica starts and loads the default bots there are.                  *)
StartBlind(r) ==
  /\ pc[r] = "down"
  /\ GoTo(r, "bot")
  /\ UNCHANGED <<bots, subs, seen, pending, spec, crashes>>

Start(r) ==
  /\ pc[r] = "down"
  /\ seen' = [seen EXCEPT ![r] = bots]
  /\ GoTo(r, "bot")
  /\ UNCHANGED <<bots, subs, pending, spec, crashes>>

(* In the order of a set, which differs from process to process.           *)
SeedingInOwnOrder(r) ==
  Specs[IF Artifacts[r] = {} THEN Len(Specs) + 1 - spec[r] ELSE spec[r]]
Seeding(r) == Specs[spec[r]]
Missing(r) == seen[r][Seeding(r)].owner = Nobody
NeedsExecutableIfMissing(r) == Missing(r) /\ Seeding(r) \in Artifacts[r]
NeedsExecutable(r) ==
  seen[r][Seeding(r)].active = 0 /\ Seeding(r) \in Artifacts[r]

NextSpec(r) ==
  /\ spec' = [spec EXCEPT ![r] = @ + 1]
  /\ GoTo(r, "bot")

SeedBot(r) ==
  /\ pc[r] = "bot" /\ spec[r] <= Len(Specs)
  /\ IF Missing(r)
     THEN /\ NameFree(r, Seeding(r)) /\ ~ Exists(Seeding(r))
          /\ newBots' = [newBots EXCEPT ![r] = @ \cup {Seeding(r)}]
     ELSE UNCHANGED newBots
  /\ GoTo(r, "executable")
  /\ UNCHANGED <<bots, subs, seen, newVersion, spec, crashes>>

SeedSubmission(r) ==
  LET v == NextVersion(r, Seeding(r)) IN
  /\ pc[r] = "executable"
  /\ NeedsExecutable(r)
  /\ VersionFree(r, Seeding(r), v)
  /\ ~ VersionStored(Seeding(r), v)
  /\ newVersion' = [newVersion EXCEPT ![r][Seeding(r)] = v]
  /\ NextSpec(r)
  /\ UNCHANGED <<bots, subs, seen, newBots, crashes>>

SeedNothing(r) ==
  /\ pc[r] = "executable"
  /\ ~ NeedsExecutable(r)
  /\ NextSpec(r)
  /\ UNCHANGED <<bots, subs, seen, pending, crashes>>

SeedCommit(r) ==
  /\ pc[r] = "bot" /\ spec[r] > Len(Specs)
  /\ CommitAs(r, "up")

(* Another process was faster; the start fails and the container restarts. *)
SeedConflict(r) ==
  /\ \/ /\ pc[r] = "bot" /\ spec[r] <= Len(Specs) /\ Missing(r)
        /\ NameFree(r, Seeding(r)) /\ Exists(Seeding(r))
     \/ /\ pc[r] = "executable" /\ NeedsExecutable(r)
        /\ VersionFree(r, Seeding(r), NextVersion(r, Seeding(r)))
        /\ VersionStored(Seeding(r), NextVersion(r, Seeding(r)))
  /\ RollBack(r, "down")
  /\ UNCHANGED crashes

CrashReplica(r) ==
  /\ pc[r] # "down"
  /\ crashes < MaxCrashes
  /\ crashes' = crashes + 1
  /\ RollBack(r, "down")

-----------------------------------------------------------------------------

CreateStep(c) == EnforceLimit(c) \/ FindName(c) \/ InsertBot(c) \/ NameTaken(c)
SubmitStep(s) == LoadBot(s) \/ InsertSubmission(s) \/ SubmissionConflict(s)
SeedStep(r) ==
  Start(r) \/ SeedBot(r) \/ SeedSubmission(r) \/ SeedNothing(r) \/ SeedCommit(r)
  \/ SeedConflict(r)

RequestStep ==
  \/ \E c \in Creates : CreateStep(c)
  \/ \E s \in Submits : SubmitStep(s)
  \/ \E p \in Requests : CommitAccepted(p)

Answered == {"accepted", "rejected", "failed"}

(* Every request is answered and every replica serves.                     *)
Settled ==
  /\ \A p \in Requests : pc[p] \in Answered
  /\ \A r \in Replicas : pc[r] = "up"
  /\ UNCHANGED vars

Next ==
  \/ RequestStep
  \/ \E p \in Requests : Abort(p) \/ RefreshFails(p)
  \/ \E r \in Replicas : SeedStep(r) \/ CrashReplica(r)
  \/ Settled

Spec == Init /\ [][Next]_vars

(* The API's threads go on and its containers are restarted.  A request    *)
(* has a few steps only, and a start fails only on what another process    *)
(* has committed, so it is enough that somebody goes on while anybody can. *)
FairSpec == Spec /\ WF_vars(RequestStep \/ \E r \in Replicas : SeedStep(r))

-----------------------------------------------------------------------------
(* Properties.                                                             *)

Submissions == [bot : Names, version : Nat \ {0}, by : Processes]

(* The domain of every variable; only a transaction in progress holds keys,*)
(* and a replica looks for an executable only for a bot of the list.       *)
TypeOK ==
  /\ bots \in [Names -> Rows]
  /\ subs \subseteq Submissions
  /\ pc \in [Processes -> {"start", "find", "insert", "commit", "down", "bot",
                           "executable", "up"} \cup Answered]
  /\ seen \in [Processes -> [Names -> Rows]]
  /\ newBots \in [Processes -> SUBSET Names]
  /\ newVersion \in [Processes -> [Names -> Nat]]
  /\ spec \in [Processes -> 1..Len(Specs) + 1]
  /\ crashes \in 0..MaxCrashes
  /\ \A p \in Processes :
       newBots[p] # {} \/ newVersion[p] # NoVersion =>
         pc[p] \in {"commit", "bot", "executable"}
  /\ \A r \in Replicas : pc[r] = "executable" => spec[r] <= Len(Specs)

(* The stored versions of a bot follow its legacy version without a gap or *)
(* a repetition up to latest_submission_version, and the active one is the *)
(* last of them - although next_version is computed from a row loaded      *)
(* before the upload was read, and several uploads and seeds compete.      *)
VersionsChain ==
  /\ \A n \in Names :
       /\ {s.version : s \in {t \in subs : t.bot = n}}
            = FirstBots[n].latest + 1 .. bots[n].latest
       /\ bots[n].active =
            IF bots[n].latest = FirstBots[n].latest THEN 0 ELSE bots[n].latest
  /\ \A s, t \in subs : s.bot = t.bot /\ s.version = t.version => s = t

(* 201 means stored under the user's bot; a rejection, that nothing was.   *)
(* (A 500 leaves it open.)                                                 *)
AnswersAreTrue ==
  \A p \in Requests :
    /\ pc[p] = "accepted" =>
         /\ \E s \in subs : s.by = p /\ s.bot = About[p]
         /\ bots[About[p]].owner = By[p]
    /\ pc[p] \notin {"accepted", "failed"} => \A s \in subs : s.by # p

(* A user's bots never pass the limit.                                     *)
QuotaRespected == \A u \in Users : Cardinality(BotsOf(u)) <= MaxBots

(* A bot keeps its owner, and its active submission is only replaced by a  *)
(* newer one, so an upload that was slow never takes a newer one's place.  *)
ActiveOnlyGrows ==
  [][\A n \in Names :
       /\ Exists(n) => bots'[n].owner = bots[n].owner
       /\ bots'[n] # bots[n] /\ Exists(n) =>
            bots'[n].active > bots[n].active /\ bots'[n].latest > bots[n].latest]_vars

(* A process waits for its user's advisory lock or for a unique key that   *)
(* another transaction has inserted.  Replicas keep the keys of the bots   *)
(* they have seeded while they wait for those of the next, and still, with *)
(* requests for the same names in between, some process always can go on.  *)
Busy(p) == pc[p] \notin Answered \cup {"up"}
Waits(p) ==
  \/ p \in Creates /\ pc[p] = "start" /\ ~ LimitLockFree(By[p])
  \/ p \in Creates /\ pc[p] = "insert" /\ ~ NameFree(p, About[p])
  \/ /\ p \in Submits /\ pc[p] = "insert"
     /\ ~ VersionFree(p, About[p], NextVersion(p, About[p]))
  \/ /\ p \in Replicas /\ pc[p] = "bot" /\ spec[p] <= Len(Specs)
     /\ Missing(p) /\ ~ NameFree(p, Seeding(p))
  \/ /\ p \in Replicas /\ pc[p] = "executable" /\ NeedsExecutable(p)
     /\ ~ VersionFree(p, Seeding(p), NextVersion(p, Seeding(p)))
SomeoneGoesOn ==
  (\E p \in Processes : Busy(p)) => \E p \in Processes : Busy(p) /\ ~ Waits(p)

(* A replica that serves has its default bots, with an executable if it    *)
(* was deployed with one.                                                  *)
ServesDefaultBots ==
  \A r \in Replicas : pc[r] = "up" =>
    \A i \in DOMAIN Specs :
      /\ Exists(Specs[i])
      /\ Specs[i] \in Artifacts[r] => bots[Specs[i]].active # 0

(* Replicas that start together get in each other's way, but each of them  *)
(* finally serves, and every request is answered.                          *)
EveryoneSettles ==
  <>[](\A p \in Processes : pc[p] \in Answered \cup {"up"})

=============================================================================
