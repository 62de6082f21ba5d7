# AhinArena in TLA+

AhinArena is an arena for bots that play Tic-Tac-Toe and Connect Four. Users
upload executables through a FastAPI service, anyone signed in may ask for a
match between two bots, worker processes play the matches in Docker sandboxes,
and a React frontend follows them. This directory holds TLA+ modules for the
parts in which something can go wrong between two steps, the TLC runs that check
them, and proofs of the most important results.

Paths below are relative to the repository (`src/`). `PROJECT.json` gives, for
every definition that models code, the lines it stands for.

## 1. The system

| Component | State | Operations | Hard because |
| --- | --- | --- | --- |
| Match job queue (`api/main.py` `create_match`, `worker/main.py`) | `match_jobs`, `match_job_moves`, one ORM session per worker | `POST /matches` under the user's locks, claim, live moves, complete, fail, reap | several workers and API processes, a reaper that only looks at `started_at`, late commits, crashes, failing statements |
| Match execution and settlement (`api/match_execution.py`, `api/ratings.py`) | `bot_submissions` records and ratings, `matches`, `moves`, what the session has loaded | `execute_match`, Elo, record updates | values read long before they are written, no version check, a check constraint that can fail |
| Bot sandbox (`api/bot_sandbox.py`) | a temporary directory and a container per bot | `build_bot_sandbox`, `cleanup_bot_sandbox` | one step of several fails |
| Referee (`engine/referee.py`, `engine/runner.py`) | two subprocesses, their stdout queues, the game | `run_match`, `request_move`, `close` | processes outside its control, late and early lines, timeouts, kills that take too long |
| Games (`engine/tictactoe/game.py`, `engine/connectfour/game.py`) | board, current player, moves | `apply_move`, `winner`, `is_draw`, `legal_moves` | win detection near edges, checks that look at part of the board |
| Live view (`api/main.py` `serialize_live_match_job`, `live_moves_from_completed_match`, `select_featured_match_jobs`; `frontend/.../matchReplay.js`) | none of its own | reads a job, then its moves; rebuilds boards from stored moves | markers are recomputed from the move's index; several selects, between which workers clear, record and complete |
| Job wakeup (`create_match`'s NOTIFY, `PostgresJobNotifier`, `PollingJobNotifier`) | a LISTEN connection per worker | NOTIFY, wait, polling | a NOTIFY is its own transaction after the commit, a claim skips locked rows, several notifications are read at once |
| Bot registry (`create_bot`, `submit_bot_executable`, `seed_default_bots`) | `bots`, `bot_submissions` | create, new version, description, seed | version read before the upload, replicas seeding at once, quota |
| Accounts (`register` ... `logout`, `api/auth.py`) | users, auth tokens, sessions | register, verify, resend, reset, login, logout | keys checked before they are inserted, tokens checked and used in two statements, an e-mail sent before the commit, resends that overlap |
| Authentication rate limit (`require_auth_rate_limit`) | `auth_rate_limit_events` | purge, lock two buckets, count, insert | concurrent requests at the limit, windows computed before the locks are waited for, events purged for actions with other windows, two locks per request |
| Frontend pages (`MatchDetailPage.jsx`, `HomePage.jsx`) | what they show, intervals, ignore flags, requests under way | load, poll, submit, choose a game, navigate | answers that overtake each other, effects that are set up anew for every answer, requests that fail |
| Executable validation (`read_bot_executable`, `validate_bot_executable`) | a flag and two loop counters | size limit, ELF header, program headers, dynamic tables | sizes and offsets come from the file; early exits of nested loops |
| Everything else | - | other read endpoints, the frontend's session, configuration, logging, e-mail, migrations, scripts, deployment | no state of its own |

How they meet: `POST /matches` inserts a job and notifies; a worker's loop
(reaper, claim, wait) takes the oldest queued job with `FOR UPDATE SKIP LOCKED`
and calls `run_job`, which deletes old live moves, calls `execute_match` and
completes the job in the transaction that stores the match. `execute_match`
builds two sandboxes and hands the commands to a referee; the referee calls back
for every accepted move, and the callback commits a live move - which, in
SQLAlchemy, expires every object the session has loaded. The API's read
endpoints and the frontend see only committed rows, but the rows of one answer
are read by several statements, each with a snapshot of its own, and a page puts
together several answers.

What makes each part correct:

- queue: no job is lost, none is attempted too often, a resolved job stays
  resolved, a match a job names exists, a user's limit holds, and one job is one
  match;
- settlement: a submission's record is the sum of its matches, its rating the
  end of an unbroken chain of them, and a match credits what was played;
- sandbox and referee: nothing is left behind, the result is the game's, every
  match ends;
- registry: versions of a bot form a chain whose last link is active, an answer
  tells what was stored, a user's limit of bots holds, and every replica gets its
  built-in bots;
- games: the winner has a line, and the board shown is the board played;
- accounts: no two share an email or a username, and until an account is verified
  the newest link it was mailed works;
- wakeup: when all workers sleep and nothing is on its way to them, no announced
  job is queued, and an announced job is claimed without waiting for a poll;
- pages: what is shown was true of the job, a settled page stays as it is, an outcome
  shown is the job's for ever unless late attempts change the row, and a page that
  polls catches up;
- validation: exactly the well formed executables that load nothing are accepted;
- rate limit: no window of any bucket holds more events than its limit, and an
  admitted attempt counts for as long as a window looks back to it.

`PROJECT.json` lists the hazards line by line, with the properties that cover
them.

## 2. Modules

| Module | Models | State and actions |
| --- | --- | --- |
| `JobLifecycle` | the promise of `docs/queue-and-workers.md`: queued, running, completed or failed, at most one match, a bounded number of attempts | the abstract specification of one row per job |
| `SharedJobs` | what is left of that promise when a worker goes on with a job the reaper gave up on | EXTENDS `JobLifecycle`; adds what a late attempt may do to the row (`Late`) |
| `MatchQueue` | `create_match`, `worker/main.py`, the columns of `match_jobs` | one action per transaction, or per statement where another process may act in between; `pc[w]` is the worker's place in its loop, `seen[w]` what its ORM object has loaded, `attempt[w]` the attempt it claimed |
| `MCMatchQueue` | instances | one job, its requester, two workers |
| `Wakeup` | the end of `create_match`, `create_job_notifier` and the two notifiers, `run_loop`'s wait | EXTENDS `MatchQueue`; `announced` per job, `listens`, `pending` and `asleep` per worker |
| `MCWakeup` | an instance | two jobs, one requester, two workers |
| `MatchQueueProofs` | theorems about `MatchQueue` and `Wakeup` | EXTENDS `Wakeup` |
| `Pages` | `serialize_live_match_job`, `get_match_job`, `list_match_jobs`, `select_featured_match_jobs`; the effects and handlers of `MatchDetailPage`, the featured games and `HomePage` | EXTENDS `SharedJobs`; `overlapping` says whether late attempts act; `requests` with the statements each has left, `shown`, `polling`, `dirty` until the effects have run, `told` |
| `MCPages` | an instance | two jobs; leaves out what the open page does not depend on |
| `PagesProofs` | theorems about `Pages` | - |
| `GameRules` | what `engine/referee.py` (`GameRules` protocol) assumes of a game | the abstract specification of a game: turns alternate, a decision ends it |
| `Referee` | `engine/referee.py` with two bots as environment processes | EXTENDS `GameRules`; `pc` is the referee's place, `habits`, `proc`, `unread`, `asked`, `written` are the bots |
| `MCReferee` | instances | all habits, or blank answers |
| `RefereeProofs` | theorems about `Referee` | - |
| `TicTacToe`, `ConnectFour` | the two games, and the replayed board of the API | `grid`, `current`, `replay`; each instantiates `GameRules` |
| `Games` | the two games under one `game_id` (`_run_match_for_game`) | EXTENDS `ConnectFour`, instantiates `TicTacToe` |
| `Executable` | `read_bot_executable`, `validate_bot_executable` | `file`; `step`, `index`, `item` the place in the loops, `dynamic` the flag, `verdict` |
| `MCAlgorithms` | the games and the validation in one run | EXTENDS `Games` and `Executable`; a behaviour plays a game or validates a file |
| `AlgorithmsProofs` | theorems about the games and the validation | EXTENDS `Games` and `Executable` |
| `MatchExecution` | `execute_match` from loading the bots to the commit of `run_job`, the two sandboxes, new submissions | several executions side by side; `row[e]` is what the session of `e` has loaded, `Expired` after a commit |
| `MCMatchExecution` | instances | two bots, one with two submissions, shared by two executions in opposite order |
| `MatchExecutionProofs` | theorems about `MatchExecution` | - |
| `BotRegistry` | `create_bot`, `submit_bot_executable`, `seed_default_bots` at the start of every replica, the unique constraints of `api/models/bot.py` | `bots`, `subs` are committed rows; `seen[p]` what a transaction has loaded, `newBots[p]` and `newVersion[p]` the keys it has inserted, on which others wait |
| `MCBotRegistry` | an instance | one user, a migrated bot, two names that are also built-in bots' |
| `BotRegistryProofs` | theorems about `BotRegistry` | - |
| `RateLimit` | `require_auth_rate_limit`, `lock_postgresql_advisory_xact` | `events` are committed rows, `gate[r]` the place of a request, `took[r]` the time its windows end, `began[r]` the time its transaction began, `locked[r]` and `deleted[r]` what it holds |
| `Accounts` | `register_user`, `resend_verification_email`, `verify_email`, `request_password_reset`, `confirm_password_reset`, `login_user`, `logout_user`, `get_current_user`, the mail | EXTENDS `RateLimit`; `users`, `password`, `tokens`, `sessions` are committed rows, `outbox` the mail, `pc[r]`, `user[r]`, `due[r]`, `replaced[r]` what a handler has loaded and changed |
| `MCAccounts` | an instance | ten scripts of requests about a verified and an unverified user and three who register |
| `AccountsProofs` | theorems about `RateLimit` and `Accounts` | EXTENDS `Accounts` |
| `DataLemmas` | what the proofs need about numbers, finite sets and sequences | induction over a finite set, the least and the largest of a set |

Composition: `Referee` is built on `GameRules`, and both games are shown to
implement it (`ImplementsGameRules`), so the referee is checked once for any
game. `MatchQueue` plays a match in the single step `RecordLiveMove*;
CompleteJob`; what happens inside it is `MatchExecution`, whose `PlayRaises`,
`CleanRaises`, `UpdateRejected` and `DatabaseFails` are `RunJobRaises` of the
queue and whose `Commit` is `CompleteJob`. `Wakeup` adds a wakeup channel to the
queue, and each of its behaviours is one of the queue's (`WakeupRunsTheQueue`,
proved), so the queue's theorems hold with it. `Pages` watches
jobs that follow `SharedJobs` (`overlapping`), which `MatchQueue` implements whatever
its workers do (`QueueImplementsShared`, proved), or `JobLifecycle` (not
`overlapping`), which it implements only while no two workers hold a job
(`QueueImplementsLifecycle`, under `Exclusive`).
`MatchExecution` plays in turn in one step (`EndMatch`) what `Referee` does.
Every behaviour of `Accounts` is one of `RateLimit` (`LimitsRequests`, proved), so
the limiter's theorems hold with the handlers behind it.

Modelling decisions a reader of the code may ask about:

- *Transactions.* PostgreSQL under READ COMMITTED. A claim locks its row in one step
  and commits in another (`LockJob`, `holds`); meanwhile another claim skips the row
  and who would write it waits (`RowFree`). The short locks of other transactions are
  `MayBeLocked`: a claim or a reaper may or may not meet them. The advisory and
  user-row locks of `create_match` make the count and the insert one critical section
  per user (`LimitLockFree`, `admitted`), during which workers go on.
- *The ORM.* A flush writes only columns that differ from what was loaded. In
  `MatchQueue` `seen[w]` decides which columns a late completion writes. In
  `MatchExecution` `NewRow` starts from the row in the database and overlays the
  columns computed from the loaded row; the flush updates two rows in primary
  key order and keeps their locks until the commit.
- *Time.* `started_at` is `recent` or `stale`; `Age` makes it stale. With
  `SlowMatches = FALSE` it ages only when no worker attempts the job, which is
  what the stall timeout is meant to guarantee.
- *The reaper's due time* is not kept: a pass of the loop runs it (`Reap`) or not
  (`SkipReap`).
- *Bots* are processes that write, exit, or fall silent whenever they like. What
  those of one match may be like is chosen at its start (`habits`: whether they
  answer once per request, write blank lines, close their output and go on, can be
  killed in time), so that a property can say which habit it depends on. A line
  carries its number, so that a late answer can be told from a timely one.
- *The runners* (`engine/runner.py`, `engine/*/runner.py`) keep no state: they
  build the referee, with a default command for a missing one, and call X and O p1
  and p2, which are the winners 1 and 2 of `MatchExecution`.
- *Notifications* are counted per connection. `wait` takes the first of what has
  arrived together, and whether the others are seen later is left open
  (`WakeByNotify`). A worker listens before its first claim, or, when the
  connection fails, polls until it is restarted.
- *A request of the browser* executes one SELECT at a time and its answer arrives
  at any time after the last. A component re-renders and runs its effects after
  the answer that changed its state (`dirty`); until then the old intervals fire
  and the old ignore flags hold. A request whose flag is cleared has no effect any
  more and is dropped.
- *An error of the match page* is kept beside its data and rendered instead of them
  (`told = "error"`, `shown` as before) until an answer clears it. `told = "lost"` is
  the page whose first request failed or found no job.
- *Late attempts* in `SharedJobs` are any attempt a claim has opened, at any time.
  That is more than the workers do - no page can tell - and makes the environment of
  `Pages` independent of how the queue tells attempts apart.
- *The list of active jobs* is put together from a request per status, which
  count as one here (`ReadList` in any order).
- *An uploaded file* is its size, the values of its header and, per program
  header, a type and a table. The chunks it is read in do not matter: one byte
  more than the limit is asked for (`UploadError`).
- *Elo.* Expectations are integers (two, three or one quarter-steps of K) with
  the signs and the symmetry of the formula and its clamp at zero. No property
  depends on the size of a change.
- *Unique constraints.* An insert of a key that another open transaction has
  inserted waits for its end (`NameFree`, `VersionFree`); after that it succeeds
  or raises `IntegrityError`, according to what was committed. The keys of
  `bots` and of `bot_submissions` are the only thing that orders two uploads.
- *A 500* (`"failed"`) may come after the commit, since both handlers read their
  rows once more (`RefreshFails`); a client cannot tell.
- *Built-in executables* are part of a replica's deployment (`Artifacts`) and
  valid if they are there; with an invalid one the service never starts.
- *The clocks* of the API and of PostgreSQL agree. `created_at` of a rate-limit
  event is the time its transaction began (`began`), the window is computed from
  the time the request took before (`took`), and the order of neither is the
  order in which the locks are granted.
- *The window* is about stored rows. A request that waited long for its locks may
  find that another one has purged an event at the far end of the longest window
  which it would still have counted; `WindowRespected` is about what any
  interval holds at one moment.
- *Buckets* are constants: an email and a username of one account are two account
  buckets of `login`, as in the code, and every account bucket differs from every
  bucket of an address.
- *An UPDATE* sees what was committed when it starts, then waits for rows that
  another transaction has changed and checks them again (`StartUpdate`,
  `ReplaceToken`).
- *Mail* goes out within the transaction that stores the token. A failing send may
  have delivered (`MailFails`), and its transaction is rolled back.
- *Two confirmations* with one token at the same time both succeed and the later
  password stays: the token is read and marked in two statements
  (`ResolveToken`, `UseToken`). No document promises otherwise.
- *A statement that fails* and a process that dies are one action (`Fail`,
  `Drop`): the transaction is rolled back. A response that is lost after the commit
  changes nothing in the database.
- *Connect Four's board* is ROWS by COLUMNS, 6 by 7 in the code.

Definitions that precede another one and differ in one place (`ClaimUncounted`,
`CleanUntilRaised`, ...) are used nowhere: they are plausible mistakes, and each
property is known to notice one of them.

## 3. Runs

| Run | Instance | Shows |
| --- | --- | --- |
| `SharedQueue` | one job, two workers, three attempts, one move, two crashes; slow matches, failing statements, hanging bots | with two workers on one job nothing is reopened or lost, attempts are counted, and the job is resolved |
| `Wakeup` | two jobs of one user with a limit of one, two workers, two attempts, two moves, one crash, no slow match; the NOTIFY of one job may be lost, one worker may fail to listen | no wakeup is lost and an announced job is claimed without polling; the queue implements `JobLifecycle`; a worker attempts only the running attempt, live moves are those of one attempt, the limit holds |
| `TwoMatchesPerJob` | one job, two workers, slow matches | *violated*: two attempts store two matches |
| `CompletedWithError` | one job, two workers, slow matches | *violated*: a completed job keeps the reaper's message |
| `Referee` | bots of all sixteen combinations of habits, faults of the caller, five to six moves, queues of two lines | a returned result is the game's; answers fit requests if bots answer once; both processes end if they can be killed; every match ends if bots write no blank line and do not close their output |
| `RefereeHangs` | bots that answer once but may write an empty line | *violated*: the referee waits for stderr for ever |
| `Algorithms` | Tic-Tac-Toe in full, Connect Four 4 by 4; some thousand files of up to ten bytes with headers and items of two | winners, replay, `GameRules`; what is accepted is well formed and loads nothing |
| `MatchExecution` | two executions sharing both bots in opposite order, three submissions, every fault | records and ratings are exact for submissions never in two matches at once; nothing is counted twice, miscredited or left behind; of the executions that wait for each other's rows one can go on |
| `BotRegistry` | one user with a migrated bot (version 1, no executable) at a limit of two bots; three of two uploads for it and two creates, each under a built-in bot's name; two replicas that seed two built-in bots, of which only the second has the executables; one crash | versions are consecutive, answers are true, the limit holds, slow uploads overwrite nothing, whoever holds what others wait for somebody can go on, and everybody gets through |
| `Accounts` | ten scripts of two or three requests each, in any order and interleaved statement by statement, with and without mail; two attempts per bucket, one login; windows of one and two units on a clock of three | one account per name, the newest link works, windows hold, admitted attempts are counted, and every request is answered |
| `Pages` | one of the three pages; two jobs competing for one featured game, or one with two attempts, overlapping or not; up to two polls under way, one failing request | views are true; what a settled page shows stays, and stays right unless attempts overlap; each page settles |
| `LostUpdate` | the settlement without faults | *violated*: two stored matches, one counted |

Why the bounds are enough. A race on a row needs two workers; a third adds no kind of
step, since the reaper of one and the late commit of the other are already free to
interleave. Three attempts let the reaper requeue twice, so that a worker can be two
attempts behind, and two crashes use up the attempts of a job that nobody finishes.
In `Wakeup` two moves make a prefix of live moves differ from all of them, one crash
with two attempts leaves a job to be requeued, two jobs of one user compete for a
limit of one and give a worker a second notification while it plays, and of the two
workers one may be deaf; the limit of several users is what `QuotaKept` proves. A
queue of two unread lines is one early line and one late line, and six moves with
five at least let both bots win, draw and be stopped. In `Pages` two polls can
overtake each other, the watched job has a second attempt whose live moves replace
those of the first, and a second job pushes the first out of the featured games
(the home page has one job). `MCPages` drops from each page what it does not depend on
(`Relevant`): the home page reads no moves and is checked over jobs that are resolved
once, since who is told or dropped there is decided by the first outcome read; the
match page reads no other job; the featured games are watched over first attempts.
Where attempts overlap, the live moves mix before a page is opened only: nothing is
claimed of them there. An ELF header, a program header and a table's item are two
bytes long, so that files that end before, at and after each of them are few;
`OnlyStaticAccepted` (section 4) is about
any sizes, those of the code included. Four by four is the smallest board on which
all four directions have a winning line and on which a line can miss the edge by one.
Two settlements are the least that can overwrite each other, and the third submission
is the one activated in between. In the registry two uploads, two creates and two
starts are the least that compete for a version, for the limit and for a name; two
built-in bots are the least of which each of two replicas can hold one and wait for the
other. Uploads and creates are about different bots, so `Scripts` sends only three of
the four requests at a time. In
`Accounts` a script brings together the requests that meet in one row, key or bucket:
two registrations of one email and two of one username, two resends, a resend and the
use of the link it replaces or of its own, a reset with its confirmation and the
login after it, a login with its logout and a visit, two logins of which the limit
lets through one, a login and a resend (a purge that looks back further than the own
window). A third request of a kind would find a row in no state that the second
cannot. The clock passes the longest window and every lifetime. Each execution ends
after one match, so `RecordIsHistory` sees chains of up to two.

Deadlock checking is on in `Wakeup`, `TwoMatchesPerJob`, `CompletedWithError`, the
referee's runs (a match that is over stutters in `Stopped`), in `BotRegistry`
(`Settled`: everything is answered and every replica serves) and in `Accounts`
(`Quiet`: everything is answered and the clock has run out). It is off where the
system really may stop: games and validations end (`Algorithms`), executions end
(`MatchExecution`, `LostUpdate`; that they do not stop while one waits for a row is
`SettlementGoesOn`), all workers may hang (`SharedQueue`), and a page
whose jobs are resolved and which no longer polls is quiet (`Pages`).

Fairness. `MatchQueue`: each worker that is not hung takes its next step (a process
scheduled by the operating system, restarted by `restart: unless-stopped`), time
passes (`Age`), and the reaper runs again and again if it can (strong fairness of
`Reap`, since `run_loop` runs it whenever a poll interval has passed between two
passes). Nothing is assumed of `POST /matches`, crashes or bots. `Wakeup`: workers
take their steps, go to sleep, are restarted, and a notification that has arrived
ends a wait; the poll interval never has to end and the reaper never has to run, so
`ClaimedWithoutPolling` is about notifications alone. `Pages`: effects run after a
render, intervals fire, and of the requests of a kind some go on (a single one may be
under way for ever, and none is required of a kind that is not asked for); a queued
job is started and a running one ends or is given up, which is what
`EveryJobResolves` says of the workers as long as bots do not keep all of them
waiting; late attempts are never required to do anything. `Referee`: the referee's own thread goes on
and its deadlines pass; nothing is assumed of the bots. `BotRegistry`: some request
or start goes on while one can (`WF` of all their steps together), which is what
threads and restarted containers give; a start that lost a race begins again, and it
can lose only to what was committed, so the weaker condition is enough. `Accounts`:
some request takes its next statement while one can (`WF` of `PassGates \/ Handles`),
for the same reason; failures and the clock are not required to come, and waiting for
a lock is being disabled, so a circle of waits would be a counterexample. Rollbacks
for an invalid executable or a failing statement, and crashes, are never required.

### Findings

The four runs that fail on purpose state what the documentation says:

- `docs/queue-and-workers.md` calls several workers safe because claims lock
  rows. The reaper, however, requeues a running job by age alone, so a slow
  attempt is repeated while it still plays, and both store a match
  (`TwoMatchesPerJob`); and two matches of one submission, each claimed
  properly, lose one of two record updates (`LostUpdate`).
- It says `error_message` is NULL for completed jobs; `CompletedWithError` shows
  one that is not.
- `docs/tictactoe-engine-referee.md` lists what a bot may do wrong and that the
  opponent then wins; a bot that writes an empty line without exiting blocks the
  match instead (`RefereeHangs`). Nothing else a bot may do blocks a match, except
  to close its output and run on, which has the same cause (`SpeakersMatchEnds`
  holds).

Two more things the models show, of which no document says otherwise, so that no run
fails on them:

- A page shows what the row says, and where two workers hold a job the row can change
  after it was resolved: a page that has settled on `failed` goes on showing it
  although a late attempt completes the job, and one that shows a match may name
  another one than the row does now. `ViewsAreTrue` says what holds all the same, and
  with `~ overlapping` that none of this happens while attempts do not overlap.
- `MatchDetailPage` keeps the error of a failed poll beside its data and renders the
  error alone. If a poll that was overtaken fails after the answer with the outcome
  was set and before the effects of that answer run, the effects then end the polling
  and the error page stays for good, over a match that is there. `MatchPageSettles`
  with `told # "error"` added is violated by this; as it stands it says that the
  outcome is in the page's data. Once the effects have run, no error can come any
  more (`SettledViewStays`).

## 4. Proofs

`MatchQueueProofs` proves about `MatchQueue`, for all sets of jobs, users and
workers and all bounds, from the named assumptions of that module only:

1. `TypeCorrect`. Besides domains it says that a worker names a job exactly from its
   claim to the end of `run_once`.
2. `OutcomesOnRecord`, `AttemptsStayOnRecord`, both from one inductive invariant
   `RowInv`. What they state is not inductive alone: a late commit writes only the
   columns that differ from those loaded, so what a worker has loaded must be tied to
   the row (`SeenTerminal`), an attempt that is held must be at most the counter
   (`HeldAttempt`), and a row that does not exist must have no attempts
   (`Requested`).
3. `TerminalStays`: the action property, from `RowInv`.
4. `OwnerCurrent`, `SingleMatch`, `QueueImplementsLifecycle`: under `Exclusive`
   (attempts never outlast the stall timeout, or there is only one worker) and
   without failing statements after a completion. The inductive invariant
   `OwnerInv` says that a row that looks stalled is attempted by nobody
   (`NoneLooksStalled`), that the owner of a running attempt is unique, and that
   matches belong to completed rows (`MatchesBelong`). The refinement follows
   step by step: each action is a step of `JobLifecycle` or leaves its variables
   alone. `TwoMatchesPerJob` shows that `Exclusive` cannot be dropped.
   `QueueImplementsShared` needs no assumption: it follows from `RowInv`, since the
   attempts workers hold were all opened by a claim and one that still plays has
   stored no match (`SharedStep`).
5. `LiveMovesAreOneAttempt`: under the same assumptions the live moves of a job are
   those of one attempt, from the first on and without a gap: an attempt deletes
   what earlier ones left before it records its first move, and no other is at work.
6. `CompletedClean`: under `Exclusive` and without failing statements, what the
   documentation says of `error_message` is true; `CompletedWithError` shows that
   without `Exclusive` it is not.
7. `QuotaKept`: the limit, for any number of concurrent requests. `QuotaInv`
   counts a user's active jobs and the request that has passed the count but not
   yet inserted; the cardinality lemmas of `FiniteSetTheorems` carry it.

The same module, about `Wakeup`, for all jobs and workers and whatever announcements
are lost:

1. `WakeupRunsTheQueue`: a step of `Wakeup` is one of `MatchQueue` or leaves its
   variables alone. The theorems about `MatchQueue` follow, among them the
   refinement (`WakeupImplementsLifecycle`, under `Exclusive`).
2. `WakeupTypeCorrect`, `NoLostWakeup`. `IdleMeansEmpty` is inductive with the type
   invariant, because of what that says beyond domains: a row is locked only by a
   worker that is claiming, so the last worker that goes to wait has met no locked row
   and would have found a queued one; only jobs that exist are
   announced; and notifications wait only where somebody listens.

`BotRegistryProofs` proves every safety property of `BotRegistry`, for all names,
users, requests, replicas, built-in bots and limits:

1. `TypeCorrect`: domains; keys are held only within a transaction.
2. `VersionsChained` and `ActiveGrows` from the inductive invariant `RegInv`,
   which ties together the three places a version lives in. `KeysHeld`: a version
   that is inserted but not committed is the one after the committed latest, its
   bot exists or is inserted by the same process, and no other process holds one.
   `LoadedRows`: a loaded row lies between the migrated watermark and the committed
   row. From both, `NextIsFree`: whenever the unique key lets an insert through,
   the version computed from a possibly old row is the right one. The chain
   alone is not inductive, because it says nothing of what is about to be
   committed.
3. `BotQuotaKept` from `QuotaInv`: at most one create of a user is between its
   count and its commit, and it found room.
4. `AnswersTrue` from `AnswerInv`: a request that is about to commit has inserted
   the version it is about, under a bot that is its user's.
5. `DefaultBotsServed` from `SeedInv`: behind a replica's place in the list every
   bot is stored or inserted, with an executable if there is one.
6. `RegistryGoesOn`: nobody waits in a circle. `Waits` is the guard of a step that a
   lock or a key of another transaction disables. `OrderInv` says that a replica
   holds nothing but what lies behind its place in the list (`HeldBehind`) and that
   requests hold keys only when all they have left is to commit. A replica that waits
   is therefore behind the one it waits for (`WaitsForOneAhead`), and the one
   furthest in the list waits for nobody. The order is what matters: with replicas
   that seed in orders of their own (`SeedingInOwnOrder`) the run fails.

It assumes that the migrated bots respect the limit (`QuotaAssumption`) and that no
name is listed twice among the built-in bots.

`AccountsProofs` proves the windows of `RateLimit`, for all buckets, limits, windows and
numbers of requests, without a bound on the clock:

1. `AttemptsStayCounted` from `TimeInv`: a request's transaction begins no earlier
   than the time it took, neither lies in the future, and what it deletes is
   older than the longest window.
2. `WindowKept` from `WindowInv`. The count is about the past of `took`, while the
   event is dated later, so the limit is not inductive alone. `LocksExclusive`: at
   most one request of a bucket is between count and insert. `RoomLeft`: for the
   one that is, what it counted is still below the limit, since nobody else can
   insert there. An interval that its event falls into ends after its
   transaction began, so what it counted includes all that is stored in it, and
   `Record` keeps `WindowBound`; the cardinality lemmas carry the rest.

It goes on to prove every safety property of `Accounts`, for all users, requests, names
and scripts:

1. `LimitsHold`, `FailedAttemptsCounted`: from the theorems of the limiter, since a
   step of a handler leaves its variables alone.
2. `AccountsTypeCorrect`: domains; what a handler holds, it holds within its
   transaction.
3. `AccountsUnique` from `UniqueInv`: what a register has inserted and not
   committed differs from every stored user and from what others insert, which
   the flush's wait for the unique keys provides; and only users that exist, or
   the one being inserted, are loaded or own a token.
4. `LinksWork` from `LinkInv`. A used token of an unverified user must have a newer
   one. That follows from what a resend holds: the tokens it marks belong to its
   user (`ReplacedOwned`), were stored and hence mailed before its own
   (`MailedLast`), and its own is not stored before its commit (`Fresh`); who
   uses a token verifies its owner (`TargetOwned`).
5. `RequestsGoOn`: nobody waits in a circle, although the purge waits for rows
   another purge deletes, the locks of two buckets are taken one by one, and the
   handlers wait for keys and token rows. Who has inserted a key or marked a row has
   only its mail and its commit left. The bucket of the account is locked before that of
   the address (`IsNext`), so an address is locked by nobody who still waits for a
   lock; hence who has its account can have its address, too, and if nobody has any,
   the first is free. `SentInv` says that whoever holds
   something was sent and, behind the limiter, admitted, so that it counts among those
   that may go on. No run checks `SomeoneGoesOn` of `Accounts`: `EveryoneAnswered` fails
   on a circle of waits as well.

`PagesProofs`, for every number of jobs, of requests under way and of errors, and for
jobs whose attempts overlap or not:

1. `ViewsAlwaysTrue`, `PagesTypeCorrect` from `PagesInv`. What is shown was read
   before, so the same is said of every request under way (`RequestsInv`), and it
   stays true because of what no step of the jobs changes (`OutcomeStays`, from
   `JobStep` and `LateStep`): a resolved job stays resolved and a stored match stays
   stored, and where attempts do not overlap the outcome stays what it is. A view put
   together from two reads is true because it is the match named by the first read
   whose moves the second one finds; only next to a row without a match are live
   moves read, which are of one attempt where attempts do not overlap (`MovesInv`).
2. `NoLateAnswerIsShown` from `SettledInv`: on the page of a match no other kind of
   request exists, and after the effects ran for a resolved job there are no polls
   that could still be answered or fail.

`RefereeProofs`, for every game that keeps `GameRules`, all habits and queues of any
length:

1. `RefereeTypeCorrect` and `ResultsMatch` from `Types` and `ResultInv`: which result
   is pending at which place, and that moves and calls of `on_move` agree except
   between the two.
2. `NoBotOutlives` from `ClosingInv`: bots that can be killed are closed one by one.
3. `AnswersFit` from `AnswerInv`: for bots that answer once, what was asked and what was
   written differ by at most one, only for the bot that is awaited, and then an
   unread line carries the number of the last request (`Fits`).

`MatchExecutionProofs` proves every safety property of `MatchExecution`, for any
executions, bots, submissions and faults, from one inductive invariant `Inv`
(`MatchExecutionInvariant`):

1. `RecordsAreHistories`. A record is exact only where nobody overwrites it, so the
   invariant follows a submission from its loading on: `SoleUser` says that one that
   was never in two matches at a time is held by one execution at most, `UpToDate`
   that what this one has loaded is still the row, whether or not commits have
   expired and reloaded it, and `Loaded` that the update reads loaded rows. Then what
   `NewRow` writes is the old record with one match more, `Sums` is kept
   (`CommitOfOwn`, `CommitOfOthers`: what the new match adds to the matches of each
   submission), and a chain of ratings ends in its rating (`ChainGoesOn`,
   `ChainEndsInCommit`). For the other submissions `NotAhead` remains: a counter that
   lost updates is still at most the number of stored matches.
   `SeparateMatchesCount` says that every match counts as long as none overlap, which
   `LostUpdate` shows to be needed.
2. `MatchesCreditWhoPlayed` from `LoadedInOrder`, `Played` and `Stored`: the sandboxes
   hold what was loaded, of the bots that were to play, and it stays what it is until
   the match is stored.
3. `DirectoriesAreRemoved` from `Directories`: which directories there may be at each
   place, whichever of the two sandboxes fails, and whether in building or cleaning up.
4. `SettlementsGoOn`: rows are updated in the order of their keys, so who waits for a
   row waits for an execution that holds a smaller one and waits for a larger one; the
   one that waits for the largest waits for nobody (`TwoRows`, `LargestOfFinite`).

`AlgorithmsProofs`, about `Games` and `Executable`:

1. `ReplayIsTrue`, `WinnerIsRight`, `GamesImplementRules` for Tic-Tac-Toe and for Connect
   Four on a board of any size, from `GamesInv` (`SmallInv`, `LargeInv`). The replayed
   board is the played one because the marks are balanced: the index of a move then
   has the parity of the player whose turn it is (`TurnByParity`), and in Connect Four
   because nothing hangs above an empty cell (`Gravity`), so that the replay finds
   the same row. That both players never have a line holds because nothing is played
   after the first. `SmallWinner` and `LargeWinner` say what the scans find: the first
   complete line, and with it a line of the player it names (`Found`,
   `LargeFound`). For the refinement of `GameRules` a line has three cells, or four,
   all different (`SmallLineLength`, `LargeLineLength`), so nobody wins before that
   many moves, and a full board is one on which all cells are taken.
2. `OnlyStaticAccepted`, for every file, limit and size of the ELF structures. The
   invariant ties the loops to what they stand for: `FlagIsExact` says that the flag is
   set exactly if a header before `index`, or an item before `item`, needs a loader;
   `LoopInv` that all of them fit into the file and that no item before `item` ends the
   table, so that a table that is left at its end or at `DT_NULL` has been read as far
   as it counts.

`DataLemmas` holds what these proofs need about data. A theorem of induction that takes
the induction hypothesis as an operator cannot be used here, so induction is stated
about sets: every set of naturals has a least element (`LeastNatural`, from the
well-foundedness of inclusion among finite sets), hence a set that contains 0 and is
closed under successor contains all of them (`SetInduction`), hence a finite set of
numbers has a largest one.

Type invariants of these modules are theorems, which hold for all constants; the
runs do not repeat them.

Every safety invariant, action property and refinement that a passing run checks is
the statement of a theorem. Only model-checked is liveness (`EveryJobResolves`,
`ClaimedWithoutPolling`, `SpeakersMatchEnds`, `EveryoneSettles`, `EveryoneAnswered`,
`MatchPageSettles`, `FeaturedCatchesUp`, `SubmitterArrives`, `NoGhosts`): fairness and
`ENABLED` are beyond the prover. Of two of them the safety half is proved, that
somebody can always go on (`RegistryGoesOn`, `RequestsGoOn`); that `Waits` is indeed
when a step is disabled is read off the guards. The violations of the four failing
runs are counterexamples and need no proof; two theorems (`SeparateMatchesCount`,
`CompletedClean`) and the assumption `Exclusive` say under which conditions what they
refute is true.

## 5. Not modelled

- Read endpoints other than those of match jobs (bots, matches, leaderboard): one
  query each over rows that other modules describe. Schemas and request validation:
  layout of data.
- The frontend's session (`auth.jsx`) makes one request when it mounts and one per
  login or logout, which are in `Accounts`; routing, the replay cursor, the list of
  bots to choose from: layout, or one request whose answer is shown.
- Configuration, logging, e-mail delivery, migrations, scripts, deployment: I/O
  and one-off steps. The worker's restart policy is an external action.
- `sanitize_executable_filename`: formatting.
- Directories left by a `build_bot_sandbox` that fails and whose own removal
  fails too (`ignore_errors=True`).
- A bot whose process starts and whose reader thread then cannot be started
  (`engine/referee.py:34`): the exception would leave the process behind.
- SQLite, which the tests use and for which the locks do not exist.
- `update_bot` (`PATCH /bots/{id}`): it writes the description alone.
- `PATCH /auth/me`, which writes the description alone, and
  `validate_password_reset_token`, which only reads.
- Collisions of `hashtextextended`, which would let two buckets share a lock.
- A built-in executable that `validate_bot_executable` refuses.
- Browsers with several pages open: each has its own state and only reads.

## 6. What could follow

- The matches of a job's attempts as executions of `MatchExecution`: a module in which
  `CompleteJob` is its `Commit`, so that `OneMatchPerJob` and `RecordIsHistory` meet.
- The referee's `ResultsMatch` with the two games in place of `GameRules`: what follows
  from `GamesImplementRules` is so far an argument, not a theorem.
- `update_bot` together with uploads, once it writes more than the description.
