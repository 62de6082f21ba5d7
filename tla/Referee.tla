------------------------------ MODULE Referee -------------------------------
(***************************************************************************)
(* One match: the referee, its two bot subprocesses and the lines they     *)
(* write (engine/referee.py).                                              *)
(*                                                                         *)
(* A bot is a process the referee does not control: it may write a line at *)
(* any moment, exit, or close its output while it goes on running.  What   *)
(* it wrote waits in the queue its reader thread fills; the referee takes  *)
(* one line per request.  A line remembers its number among the bot's      *)
(* lines: a bot that answers every request with one line answers the       *)
(* request of that number.                                                 *)
(*                                                                         *)
(* The game is any game with the rules of GameRules.                       *)
(***************************************************************************)
EXTENDS GameRules, Sequences

CONSTANTS
  MaxQueue,     (* bound on unread lines of a bot, for model checking     *)
  Behaviours,   (* what the bots of a match may be like, a set of habits  *)
  Faults        (* may Popen or the caller's on_move raise?               *)

(* polite: bots write at most one line for every request; blankLines: they *)
(* may write empty ones; closeOutput: they may close stdout and go on      *)
(* running; killable: killed, they end within PROCESS_EXIT_TIMEOUT.        *)
Habits == [polite : BOOLEAN, blankLines : BOOLEAN, closeOutput : BOOLEAN,
           killable : BOOLEAN]

ASSUME QueueAssumption == MaxQueue \in Nat \ {0}

ASSUME BehaviourAssumption == Behaviours \subseteq Habits /\ Faults \in BOOLEAN

VARIABLES
  habits,   (* what the bots of this match are like                     *)
  pc,       (* the referee's place in __init__, run_match, request_move *)
  recorded, (* calls of on_move that returned                           *)
  result,   (* what run_match is about to return                        *)
  raising,  (* an exception is on its way out of run_match              *)
  proc,     (* the bots' processes                                      *)
  unread,   (* lines in each bot's stdout queue                         *)
  asked,    (* requests written to each bot                             *)
  written,  (* lines each bot has written                               *)
  stale     (* a move was taken from a line written for another request *)

botVars == <<proc, unread, asked, written>>
vars == <<habits, pc, moves, outcome, recorded, result, raising, proc, unread,
          asked, written, stale>>

LineKinds == {"json", "garbage", "blank", "eof"}
Line(kind, p) == [kind |-> kind, number |-> written[p] + 1]

NoResult == [winner |-> "none", reason |-> "none"]

Forfeit(reason) == [winner |-> Other(Turn), reason |-> reason]

Init ==
  /\ habits \in Behaviours
  /\ pc = "startX"
  /\ GameInit
  /\ recorded = 0
  /\ result = NoResult
  /\ raising = FALSE
  /\ proc = [p \in Players |-> "none"]
  /\ unread = [p \in Players |-> <<>>]
  /\ asked = [p \in Players |-> 0]
  /\ written = [p \in Players |-> 0]
  /\ stale = FALSE

-----------------------------------------------------------------------------
(* The bots.                                                               *)

WriteLine(p, kind) ==
  /\ proc[p] = "up"
  /\ Len(unread[p]) < MaxQueue
  /\ habits.polite => written[p] < asked[p]
  /\ kind = "blank" => habits.blankLines
  /\ unread' = [unread EXCEPT ![p] = Append(@, Line(kind, p))]
  /\ written' = [written EXCEPT ![p] = @ + 1]
  /\ UNCHANGED <<habits, pc, gameVars, recorded, result, raising, proc,
                 asked, stale>>

Exit(p) ==
  /\ proc[p] \in {"up", "mute"}
  /\ proc' = [proc EXCEPT ![p] = "gone"]
  /\ unread' = [unread EXCEPT ![p] =
       IF proc[p] = "up" THEN Append(@, Line("eof", p)) ELSE @]
  /\ UNCHANGED <<habits, pc, gameVars, recorded, result, raising, asked,
                 written, stale>>

(* The bot closes its output and goes on running.                          *)
CloseOutput(p) ==
  /\ habits.closeOutput
  /\ proc[p] = "up"
  /\ proc' = [proc EXCEPT ![p] = "mute"]
  /\ unread' = [unread EXCEPT ![p] = Append(@, Line("eof", p))]
  /\ UNCHANGED <<habits, pc, gameVars, recorded, result, raising, asked,
                 written, stale>>

-----------------------------------------------------------------------------
(* Starting the two bots.                                                  *)

Start(p, from, to) ==
  /\ pc = from
  /\ pc' = to
  /\ proc' = [proc EXCEPT ![p] = "up"]
  /\ UNCHANGED <<habits, gameVars, recorded, result, raising, unread, asked,
                 written, stale>>

StartBot == Start("X", "startX", "startO") \/ Start("O", "startO", "turn")

(* Popen raises: the bots already started are closed, each on its own, and *)
(* the exception is raised again.  (That Popen succeeds and its reader     *)
(* thread then cannot be started, is not modelled.)                        *)
StartFails ==
  /\ Faults
  /\ pc \in {"startX", "startO"}
  /\ pc' = "raised"
  /\ raising' = TRUE
  /\ \E closed \in SUBSET {p \in Players : proc[p] \in {"up", "mute"}} :
       /\ habits.killable =>
            \A p \in Players : proc[p] \in {"up", "mute"} => p \in closed
       /\ proc' = [p \in Players |-> IF p \in closed THEN "gone" ELSE proc[p]]
  /\ UNCHANGED <<habits, gameVars, recorded, result, unread, asked, written,
                 stale>>

-----------------------------------------------------------------------------
(* A turn.                                                                 *)

Ask ==
  /\ pc = "turn"
  /\ outcome = "open"
  /\ proc[Turn] \in {"up", "mute"}
  /\ asked' = [asked EXCEPT ![Turn] = @ + 1]
  /\ pc' = "wait"
  /\ UNCHANGED <<habits, gameVars, recorded, result, raising, proc, unread,
                 written, stale>>

(* Writing to a process that is gone raises BrokenPipeError.               *)
AskFails ==
  /\ pc = "turn"
  /\ outcome = "open"
  /\ proc[Turn] = "gone"
  /\ result' = Forfeit("bot_error")
  /\ pc' = "closeX"
  /\ UNCHANGED <<habits, gameVars, recorded, raising, botVars, stale>>

TakeLine(kinds) ==
  /\ pc = "wait"
  /\ unread[Turn] # <<>>
  /\ Head(unread[Turn]).kind \in kinds
  /\ unread' = [unread EXCEPT ![Turn] = Tail(@)]
  /\ UNCHANGED <<proc, asked, written>>

AcceptMove ==
  /\ TakeLine({"json"})
  /\ Play
  /\ stale' = (stale \/ Head(unread[Turn]).number # asked[Turn])
  /\ pc' = "record"
  /\ UNCHANGED <<habits, recorded, result, raising>>

(* parse_move or apply_move turns the answer down.                         *)
RejectMove ==
  /\ TakeLine({"json"})
  /\ result' = Forfeit("invalid_move")
  /\ pc' = "closeX"
  /\ UNCHANGED <<habits, gameVars, recorded, raising, stale>>

NotJson ==
  /\ TakeLine({"garbage"})
  /\ result' = Forfeit("bot_error")
  /\ pc' = "closeX"
  /\ UNCHANGED <<habits, gameVars, recorded, raising, stale>>

(* An empty line is taken for the end of the output: the referee reads     *)
(* stderr.                                                                 *)
NoAnswer ==
  /\ TakeLine({"blank", "eof"})
  /\ pc' = "stderr"
  /\ UNCHANGED <<habits, gameVars, recorded, result, raising, stale>>

(* stderr.read(MAX_BOT_STDERR_CHARS) returns when the process is gone; it  *)
(* has no timeout while the process lives.                                 *)
StderrRead ==
  /\ pc = "stderr"
  /\ proc[Turn] = "gone"
  /\ result' = Forfeit("bot_error")
  /\ pc' = "closeX"
  /\ UNCHANGED <<habits, gameVars, recorded, raising, botVars, stale>>

(* A bot still running fills the buffer, or closes stderr.                 *)
StderrFilled ==
  /\ pc = "stderr"
  /\ proc[Turn] \in {"up", "mute"}
  /\ result' = Forfeit("bot_error")
  /\ pc' = "closeX"
  /\ UNCHANGED <<habits, gameVars, recorded, raising, botVars, stale>>

(* The deadline is only looked at when the bot has ended.                  *)
TimeOutIfGone ==
  /\ pc = "wait"
  /\ unread[Turn] = <<>>
  /\ proc[Turn] = "gone"
  /\ result' = Forfeit("timeout")
  /\ pc' = "closeX"
  /\ UNCHANGED <<habits, gameVars, recorded, raising, botVars, stale>>

(* The request is sent again after a timeout.                              *)
AskAgain ==
  /\ pc = "wait"
  /\ unread[Turn] = <<>>
  /\ pc' = "turn"
  /\ UNCHANGED <<habits, gameVars, recorded, result, raising, botVars,
                 stale>>

(* The deadline passes with nothing in the queue: the bot is killed.  If   *)
(* it does not end in time, the exception of wait replaces the timeout.    *)
TimeOut ==
  /\ pc = "wait"
  /\ unread[Turn] = <<>>
  /\ \/ /\ proc' = [proc EXCEPT ![Turn] = "gone"]
        /\ result' = Forfeit("timeout")
     \/ /\ ~ habits.killable /\ proc[Turn] # "gone"
        /\ result' = Forfeit("bot_error")
        /\ UNCHANGED proc
  /\ pc' = "closeX"
  /\ UNCHANGED <<habits, gameVars, recorded, raising, unread, asked,
                 written, stale>>

Record ==
  /\ pc = "record"
  /\ recorded' = recorded + 1
  /\ pc' = "turn"
  /\ UNCHANGED <<habits, gameVars, result, raising, botVars, stale>>

RecordRaises ==
  /\ Faults
  /\ pc = "record"
  /\ raising' = TRUE
  /\ pc' = "closeX"
  /\ UNCHANGED <<habits, gameVars, recorded, result, botVars, stale>>

(* The winner is taken from the turn, which has already switched.          *)
GameOverByTurn ==
  /\ pc = "turn"
  /\ outcome # "open"
  /\ result' = IF outcome = "draw" THEN [winner |-> "none", reason |-> "draw"]
               ELSE [winner |-> Turn, reason |-> "win"]
  /\ pc' = "closeX"
  /\ UNCHANGED <<habits, gameVars, recorded, raising, botVars, stale>>

GameOver ==
  /\ pc = "turn"
  /\ outcome # "open"
  /\ result' = IF outcome = "draw" THEN [winner |-> "none", reason |-> "draw"]
               ELSE [winner |-> outcome, reason |-> "win"]
  /\ pc' = "closeX"
  /\ UNCHANGED <<habits, gameVars, recorded, raising, botVars, stale>>

-----------------------------------------------------------------------------
(* The finally clause of run_match: close both bots, in order.             *)

CloseTo(to) == IF to = "end" THEN IF raising THEN "raised" ELSE "done" ELSE to

Close(p, from, to) ==
  /\ pc = from
  /\ proc' = [proc EXCEPT ![p] = "gone"]
  /\ pc' = CloseTo(to)
  /\ UNCHANGED <<habits, gameVars, recorded, result, raising, unread, asked,
                 written, stale>>

CloseFirstOnly == Close("X", "closeX", "end")
CloseBot == Close("X", "closeX", "closeO") \/ Close("O", "closeO", "end")

(* Neither terminate nor kill ends the process in time: TimeoutExpired     *)
(* leaves the finally clause, and the result is lost.                      *)
CloseRaises(p, from) ==
  /\ ~ habits.killable
  /\ pc = from
  /\ proc[p] # "gone"
  /\ raising' = TRUE
  /\ pc' = "raised"
  /\ UNCHANGED <<habits, gameVars, recorded, result, botVars, stale>>

CloseFails == CloseRaises("X", "closeX") \/ CloseRaises("O", "closeO")

-----------------------------------------------------------------------------

Ended == pc \in {"done", "raised"}

(* The match is over; run_match has returned or raised.                    *)
Stopped == Ended /\ UNCHANGED vars

RefereeStep ==
  \/ StartBot \/ Ask \/ AskFails \/ AcceptMove \/ RejectMove \/ NotJson
  \/ NoAnswer \/ StderrRead \/ TimeOut \/ Record \/ GameOver \/ CloseBot

Next ==
  \/ RefereeStep
  \/ StartFails \/ StderrFilled \/ RecordRaises \/ CloseFails
  \/ \E p \in Players, kind \in LineKinds \ {"eof"} : WriteLine(p, kind)
  \/ \E p \in Players : Exit(p) \/ CloseOutput(p)
  \/ Stopped

Spec == Init /\ [][Next]_vars

(* The referee's thread goes on and its deadlines pass; nothing is assumed *)
(* of the bots.                                                            *)
FairSpec == Spec /\ WF_vars(RefereeStep)

-----------------------------------------------------------------------------
(* Properties.                                                             *)

(* The domain of every variable.                                           *)
TypeOK ==
  /\ habits \in Behaviours
  /\ pc \in {"startX", "startO", "turn", "wait", "stderr", "record",
             "closeX", "closeO", "done", "raised"}
  /\ moves \in 0..MaxMoves
  /\ outcome \in {"open", "draw"} \cup Players
  /\ recorded \in 0..MaxMoves
  /\ result \in [winner : {"none"} \cup Players,
                 reason : {"none", "win", "draw", "invalid_move", "bot_error",
                           "timeout"}]
  /\ raising \in BOOLEAN
  /\ proc \in [Players -> {"none", "up", "mute", "gone"}]
  /\ unread \in [Players -> Seq([kind : LineKinds, number : Nat])]
  /\ asked \in [Players -> Nat]
  /\ written \in [Players -> Nat]
  /\ stale \in BOOLEAN

(* A returned result agrees with the game: a win or a draw is what the     *)
(* final position decided, any other reason ends an undecided game in      *)
(* favour of the player who was not to move; and every accepted move was   *)
(* reported to on_move before the result is returned, so that the stored   *)
(* moves lead to the stored result.                                        *)
ResultMatchesGame ==
  pc = "done" =>
    /\ recorded = moves
    /\ CASE result.reason = "win"  -> result.winner = outcome /\ outcome = Other(Turn)
         [] result.reason = "draw" -> result.winner = "none" /\ outcome = "draw"
         [] OTHER -> outcome = "open" /\ result.winner = Other(Turn)

(* Between two bots that answer each request once, every accepted move     *)
(* answers the request the referee is waiting on - also when an answer is  *)
(* late.                                                                   *)
AnswersFitRequests == habits.polite => ~ stale

(* "The referee terminates both bot processes": no process that can be     *)
(* killed outlives the match, whatever raised on the way out.              *)
BothTerminated ==
  habits.killable /\ Ended => \A p \in Players : proc[p] \in {"none", "gone"}

(* "crashes, and timeouts are bot failures": whatever the bots do, the     *)
(* match ends.                                                             *)
MatchEnds == <>Ended

(* It does unless a bot that goes on running leaves the referee reading    *)
(* its stderr.                                                             *)
SpeakersMatchEnds ==
  ~ (habits.blankLines \/ habits.closeOutput) => MatchEnds

=============================================================================
