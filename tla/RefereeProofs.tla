---------------------------- MODULE RefereeProofs ---------------------------
(* Proofs about Referee, for every game that keeps GameRules, whatever the *)
(* bots are like, and however many lines they leave unread.                *)
EXTENDS Referee, TLAPS

Lines == [kind : LineKinds, number : Nat]
Outcomes == {"open", "draw"} \cup Players
Results == [winner : {"none"} \cup Players,
            reason : {"none", "win", "draw", "invalid_move", "bot_error",
                      "timeout"}]

(* The domains, but for the bound of moves and recorded, which are bounded *)
(* by the game.                                                            *)
Types ==
  /\ habits \in Habits
  /\ pc \in {"startX", "startO", "turn", "wait", "stderr", "record",
             "closeX", "closeO", "done", "raised"}
  /\ moves \in Nat /\ recorded \in Nat
  /\ outcome \in Outcomes
  /\ result \in Results
  /\ raising \in BOOLEAN /\ stale \in BOOLEAN
  /\ proc \in [Players -> {"none", "up", "mute", "gone"}]
  /\ unread \in [Players -> Seq(Lines)]
  /\ asked \in [Players -> Nat]
  /\ written \in [Players -> Nat]

LEMMA TurnAlternates ==
  ASSUME moves \in Nat
  PROVE  /\ Turn \in Players
         /\ moves' = moves + 1 => Turn' = Other(Turn)
  BY DEF Turn, Other, Players

LEMMA PlayMoves ==
  ASSUME Types, Play
  PROVE  /\ moves' = moves + 1 /\ moves' \in Nat
         /\ outcome' \in {"open", "draw", Turn}
         /\ outcome' = "open" => moves' < MaxMoves
         /\ outcome = "open" /\ moves < MaxMoves => moves' <= MaxMoves
  BY MovesAssumption DEF Types, Play, Decisions

LEMMA BotsTyped ==
  ASSUME Types, NEW p \in Players
  PROVE  /\ \A kind \in LineKinds : Line(kind, p) \in Lines
         /\ \A l \in Lines : Append(unread[p], l) \in Seq(Lines)
         /\ unread[p] # <<>> => /\ Tail(unread[p]) \in Seq(Lines)
                                /\ Head(unread[p]) \in Lines
         /\ asked[p] \in Nat /\ written[p] \in Nat
<1>1. unread[p] \in Seq(Lines) /\ asked[p] \in Nat /\ written[p] \in Nat
  BY DEF Types
<1>2. \A kind \in LineKinds : Line(kind, p) \in Lines
  BY <1>1 DEF Line, Lines
<1>3. \A l \in Lines : Append(unread[p], l) \in Seq(Lines)
  BY <1>1
<1>4. unread[p] # <<>> => /\ Tail(unread[p]) \in Seq(Lines)
                          /\ Head(unread[p]) \in Lines
  BY <1>1
<1> QED
  BY <1>1, <1>2, <1>3, <1>4

LEMMA ForfeitTyped ==
  ASSUME Types, NEW reason \in {"invalid_move", "bot_error", "timeout"}
  PROVE  Forfeit(reason) \in Results
  BY TurnAlternates DEF Types, Forfeit, Results, Other, Players

(* The steps of a turn that end the match at once.                         *)
Forfeits ==
  AskFails \/ RejectMove \/ NotJson \/ StderrRead \/ StderrFilled \/ TimeOut

LEMMA ForfeitStep ==
  ASSUME Types, Forfeits
  PROVE  /\ result' \in {Forfeit(r) : r \in {"invalid_move", "bot_error", "timeout"}}
         /\ pc' = "closeX" /\ pc \in {"turn", "wait", "stderr"}
         /\ pc = "turn" => outcome = "open"
         /\ UNCHANGED <<habits, moves, outcome, recorded, raising, stale>>
         /\ UNCHANGED <<asked, written>>
         /\ proc' \in [Players -> {"none", "up", "mute", "gone"}]
         /\ unread' \in [Players -> Seq(Lines)]
<1> USE TurnAlternates DEF Types, gameVars, botVars
<1>1. CASE AskFails
  BY <1>1 DEF AskFails
<1>2. CASE RejectMove
  BY <1>2, BotsTyped DEF RejectMove, TakeLine
<1>3. CASE NotJson
  BY <1>3, BotsTyped DEF NotJson, TakeLine
<1>4. CASE StderrRead
  BY <1>4 DEF StderrRead
<1>5. CASE StderrFilled
  BY <1>5 DEF StderrFilled
<1>6. CASE TimeOut
  BY <1>6 DEF TimeOut
<1> QED
  BY <1>1, <1>2, <1>3, <1>4, <1>5, <1>6 DEF Forfeits

LEMMA TypesStep ==
  ASSUME Types, [Next]_vars
  PROVE  Types'
<1> USE DEF Types, gameVars, botVars
<1>0. Turn \in Players /\ "X" \in Players /\ "O" \in Players
  BY TurnAlternates DEF Players
<1>1. CASE StartBot
  BY <1>1 DEF StartBot, Start
<1>2. CASE Ask
  BY <1>0, <1>2 DEF Ask
<1>3. CASE Forfeits
  BY <1>3, ForfeitStep, ForfeitTyped
<1>4. CASE AcceptMove
  <2>1. /\ moves' \in Nat /\ outcome' \in Outcomes
    BY <1>0, <1>4, PlayMoves DEF AcceptMove, Outcomes
  <2>2. unread' \in [Players -> Seq(Lines)] /\ UNCHANGED <<proc, asked, written>>
    BY <1>0, <1>4, BotsTyped DEF AcceptMove, TakeLine
  <2>3. stale' \in BOOLEAN /\ pc' = "record"
        /\ UNCHANGED <<habits, recorded, result, raising>>
    BY <1>4 DEF AcceptMove
  <2> QED
    BY <2>1, <2>2, <2>3
<1>5. CASE NoAnswer
  BY <1>0, <1>5, BotsTyped DEF NoAnswer, TakeLine
<1>6. CASE Record
  BY <1>6 DEF Record
<1>7. CASE GameOver
  BY <1>7 DEF GameOver, Outcomes, Results
<1>8. CASE CloseBot
  BY <1>0, <1>8 DEF CloseBot, Close, CloseTo
<1>9. CASE StartFails
  BY <1>9 DEF StartFails
<1>10. CASE RecordRaises
  BY <1>10 DEF RecordRaises
<1>11. CASE CloseFails
  BY <1>11 DEF CloseFails, CloseRaises
<1>12. ASSUME NEW p \in Players, NEW kind \in LineKinds, WriteLine(p, kind)
       PROVE  Types'
  BY <1>12, BotsTyped DEF WriteLine
<1>13. ASSUME NEW p \in Players, Exit(p) \/ CloseOutput(p)
       PROVE  Types'
  <2>1. Append(unread[p], Line("eof", p)) \in Seq(Lines)
    BY BotsTyped DEF LineKinds
  <2>2. CASE Exit(p)
    BY <2>1, <2>2 DEF Exit
  <2>3. CASE CloseOutput(p)
    BY <2>1, <2>3 DEF CloseOutput
  <2> QED
    BY <1>13, <2>2, <2>3
<1>14. CASE UNCHANGED vars
  BY <1>14 DEF vars
<1> QED
  BY <1>1, <1>2, <1>3, <1>4, <1>5, <1>6, <1>7, <1>8, <1>9, <1>10, <1>11,
     <1>12, <1>13, <1>14 DEF Next, RefereeStep, Forfeits, Stopped

LEMMA TypesInit == Init => Types
<1> SUFFICES ASSUME Init PROVE Types
  OBVIOUS
<1>1. unread \in [Players -> Seq(Lines)]
  BY DEF Init
<1>2. habits \in Habits /\ result \in Results /\ outcome \in Outcomes
  BY BehaviourAssumption DEF Init, GameInit, NoResult, Results, Outcomes
<1> QED
  BY <1>1, <1>2 DEF Init, GameInit, Types

-----------------------------------------------------------------------------
(* The result.  It is decided at one place and returned at another, after  *)
(* both bots were closed: what holds in between is that nothing but an     *)
(* exception can come from there, and that the turn has passed to the      *)
(* loser of a finished game.                                               *)
Decided ==
  /\ recorded = moves
  /\ CASE result.reason = "win"  -> result.winner = outcome /\ outcome = Other(Turn)
       [] result.reason = "draw" -> result.winner = "none" /\ outcome = "draw"
       [] OTHER -> outcome = "open" /\ result.winner = Other(Turn)

ResultInv ==
  /\ outcome = "open" => moves < MaxMoves
  /\ moves <= MaxMoves
  /\ outcome \in Players => outcome = Other(Turn)
  /\ recorded <= moves
  /\ pc \in {"startX", "startO", "turn", "wait", "stderr"} => recorded = moves
  /\ pc \in {"startX", "startO", "wait", "stderr"} => outcome = "open"
  /\ pc = "record" => recorded + 1 = moves
  /\ pc \in {"startX", "startO", "turn", "wait", "stderr", "record", "done"} =>
       ~ raising
  /\ pc \in {"closeX", "closeO", "done"} /\ ~ raising => Decided

LEMMA ResultInit == Init => ResultInv
  BY MovesAssumption DEF Init, GameInit, ResultInv, Players

LEMMA ResultStep ==
  ASSUME Types, ResultInv, [Next]_vars
  PROVE  ResultInv'
<1>0. ASSUME UNCHANGED <<moves, outcome, recorded, result, raising>>,
             \/ pc' = pc
             \/ pc = "startX" /\ pc' = "startO"
             \/ pc = "startO" /\ pc' = "turn"
             \/ pc = "turn" /\ pc' = "wait" /\ outcome = "open"
             \/ pc = "wait" /\ pc' = "stderr"
             \/ pc = "closeX" /\ pc' = "closeO"
             \/ pc = "closeO" /\ pc' = CloseTo("end")
      PROVE  ResultInv'
  BY <1>0 DEF ResultInv, Decided, CloseTo, Turn
<1>1. CASE StartBot
  BY <1>0, <1>1 DEF StartBot, Start, gameVars
<1>2. CASE Ask
  BY <1>0, <1>2 DEF Ask, gameVars
<1>3. CASE Forfeits
  <2>1. PICK r \in {"invalid_move", "bot_error", "timeout"} : result' = Forfeit(r)
    BY <1>3, ForfeitStep
  <2>2. /\ pc' = "closeX" /\ pc \in {"turn", "wait", "stderr"}
        /\ pc = "turn" => outcome = "open"
        /\ UNCHANGED <<moves, outcome, recorded, raising>>
    BY <1>3, ForfeitStep
  <2>3. outcome = "open" /\ recorded = moves /\ Turn' = Turn
    BY <2>2 DEF ResultInv, Turn
  <2>4. result'.reason \notin {"win", "draw"} /\ result'.winner = Other(Turn)
    BY <2>1 DEF Forfeit
  <2>5. Decided'
    BY <2>2, <2>3, <2>4 DEF Decided
  <2> QED
    BY <2>2, <2>3, <2>5 DEF ResultInv, Players
<1>4. CASE AcceptMove
  <2>1. /\ moves' = moves + 1 /\ moves' \in Nat /\ outcome = "open"
        /\ outcome' \in {"open", "draw", Turn}
        /\ outcome' = "open" => moves' < MaxMoves
        /\ moves' <= MaxMoves
    BY <1>4, PlayMoves DEF AcceptMove, Play, ResultInv
  <2>2. Turn \in Players /\ Turn' = Other(Turn) /\ Other(Other(Turn)) = Turn
    BY <2>1, TurnAlternates DEF Types, Other, Players
  <2>3. outcome' \in Players => outcome' = Other(Turn')
    BY <2>1, <2>2 DEF Players
  <2>4. pc = "wait" /\ pc' = "record" /\ recorded' = recorded /\ raising' = raising
    BY <1>4 DEF AcceptMove, TakeLine
  <2>5. recorded' + 1 = moves' /\ recorded' <= moves' /\ ~ raising'
    BY <2>1, <2>4 DEF ResultInv, Types
  <2>6. outcome' \in Players => outcome' = Other(Turn)'
    BY <2>3 DEF Other
  <2> QED
    BY <2>1, <2>4, <2>5, <2>6 DEF ResultInv
<1>5. CASE NoAnswer
  BY <1>0, <1>5 DEF NoAnswer, TakeLine, gameVars
<1>6. CASE Record
  <2>1. /\ pc = "record" /\ pc' = "turn" /\ recorded' = recorded + 1
        /\ UNCHANGED <<moves, outcome, raising>>
    BY <1>6 DEF Record, gameVars
  <2> QED
    BY <2>1 DEF ResultInv, Turn, Types
<1>7. CASE GameOver
  <2>1. /\ pc = "turn" /\ pc' = "closeX" /\ outcome # "open"
        /\ UNCHANGED <<moves, outcome, recorded, raising>>
        /\ result' = IF outcome = "draw" THEN [winner |-> "none", reason |-> "draw"]
                     ELSE [winner |-> outcome, reason |-> "win"]
    BY <1>7 DEF GameOver, gameVars
  <2>2. outcome = "draw" \/ outcome = Other(Turn)
    BY <2>1 DEF ResultInv, Types, Outcomes
  <2>3. Turn' = Turn /\ recorded = moves
    BY <2>1 DEF Turn, ResultInv
  <2>4. CASE outcome = "draw"
    <3>1. result'.reason = "draw" /\ result'.winner = "none"
      BY <2>1, <2>4
    <3>2. Decided'
      BY <2>1, <2>3, <2>4, <3>1 DEF Decided
    <3> QED
      BY <2>1, <2>3, <3>2 DEF ResultInv
  <2>5. CASE outcome # "draw"
    <3>1. result'.reason = "win" /\ result'.winner = outcome
      BY <2>1, <2>5
    <3>2. Decided'
      BY <2>1, <2>2, <2>3, <2>5, <3>1 DEF Decided
    <3> QED
      BY <2>1, <2>3, <3>2 DEF ResultInv
  <2> QED
    BY <2>4, <2>5
<1>8. CASE CloseBot
  BY <1>0, <1>8 DEF CloseBot, Close, CloseTo, gameVars
<1>9. CASE StartFails
  <2>1. /\ pc' = "raised" /\ raising' /\ UNCHANGED <<moves, outcome, recorded>>
    BY <1>9 DEF StartFails, gameVars
  <2> QED
    BY <2>1 DEF ResultInv, Turn
<1>10. CASE RecordRaises
  <2>1. /\ pc' = "closeX" /\ raising' /\ UNCHANGED <<moves, outcome, recorded>>
    BY <1>10 DEF RecordRaises, gameVars
  <2> QED
    BY <2>1 DEF ResultInv, Turn
<1>11. CASE CloseFails
  <2>1. /\ pc' = "raised" /\ raising' /\ UNCHANGED <<moves, outcome, recorded>>
    BY <1>11 DEF CloseFails, CloseRaises, gameVars
  <2> QED
    BY <2>1 DEF ResultInv, Turn
<1>12. ASSUME NEW p \in Players, NEW kind \in LineKinds, WriteLine(p, kind)
       PROVE  ResultInv'
  BY <1>0, <1>12 DEF WriteLine, gameVars
<1>13. ASSUME NEW p \in Players, Exit(p) \/ CloseOutput(p)
       PROVE  ResultInv'
  BY <1>0, <1>13 DEF Exit, CloseOutput, gameVars
<1>14. CASE UNCHANGED vars
  BY <1>0, <1>14 DEF vars
<1> QED
  BY <1>1, <1>2, <1>3, <1>4, <1>5, <1>6, <1>7, <1>8, <1>9, <1>10, <1>11,
     <1>12, <1>13, <1>14 DEF Next, RefereeStep, Forfeits, Stopped

(* What run_match returns agrees with the game and with the moves that     *)
(* on_move recorded, for every game that keeps GameRules.                  *)
THEOREM ResultsMatch == Spec => []ResultMatchesGame
<1>1. ResultInv => ResultMatchesGame
  BY DEF ResultInv, Decided, ResultMatchesGame
<1> QED
  BY <1>1, TypesInit, TypesStep, ResultInit, ResultStep, PTL DEF Spec

(* The referee's state keeps its type.                                     *)
THEOREM RefereeTypeCorrect == Spec => []TypeOK
<1>1. Init => habits \in Behaviours
  BY DEF Init
<1>2. Types /\ habits \in Behaviours /\ [Next]_vars => (habits \in Behaviours)'
  <2> SUFFICES ASSUME habits \in Behaviours, [Next]_vars PROVE habits' = habits
    OBVIOUS
  <2> QED
    BY DEF Next, RefereeStep, StartBot, Start, Ask, AskFails, AcceptMove,
       RejectMove, NotJson, NoAnswer, StderrRead, StderrFilled, TimeOut, Record,
       GameOver, CloseBot, Close, StartFails, RecordRaises, CloseFails,
       CloseRaises, WriteLine, Exit, CloseOutput, Stopped, vars
<1>3. Types /\ ResultInv /\ habits \in Behaviours => TypeOK
  <2> SUFFICES ASSUME Types, ResultInv, habits \in Behaviours PROVE TypeOK
    OBVIOUS
  <2>1. moves \in 0..MaxMoves /\ recorded \in 0..MaxMoves
    BY MovesAssumption DEF Types, ResultInv
  <2> QED
    BY <2>1 DEF Types, TypeOK, Outcomes, Results, Lines
<1> QED
  BY <1>1, <1>2, <1>3, TypesInit, TypesStep, ResultInit, ResultStep, PTL DEF Spec

-----------------------------------------------------------------------------
(* The bots that can be killed are gone when run_match is left: the finally *)
(* clause closes one after the other, and a bot that was closed never runs *)
(* again.                                                                  *)
Closed(p) == proc[p] \in {"none", "gone"}

ClosingInv ==
  habits.killable =>
    /\ pc = "closeO" => Closed("X")
    /\ Ended => Closed("X") /\ Closed("O")

(* What most steps do to the processes.                                    *)
LEMMA ClosedKept ==
  ASSUME ClosingInv, habits' = habits,
         \A p \in Players : proc'[p] = proc[p] \/ proc'[p] = "gone",
         \/ pc' = pc
         \/ pc' \in {"turn", "wait", "stderr", "record", "closeX"}
  PROVE  ClosingInv'
  BY DEF ClosingInv, Closed, Ended, Players

LEMMA ClosingStep ==
  ASSUME Types, ClosingInv, [Next]_vars
  PROVE  ClosingInv'
<1> USE DEF gameVars, botVars
<1>0. Turn \in Players
  BY TurnAlternates DEF Types
<1>1. CASE StartBot
  BY <1>1 DEF StartBot, Start, ClosingInv, Ended
<1>2. CASE Ask \/ NoAnswer \/ Record \/ GameOver \/ RecordRaises \/ AcceptMove
  <2>1. UNCHANGED <<habits, proc>>
    BY <1>2 DEF Ask, NoAnswer, Record, GameOver, RecordRaises, AcceptMove, TakeLine
  <2>2. pc' \in {"turn", "wait", "stderr", "record", "closeX"}
    BY <1>2 DEF Ask, NoAnswer, Record, GameOver, RecordRaises, AcceptMove
  <2> QED
    BY <2>1, <2>2, ClosedKept
<1>3. CASE Forfeits
  <2>1. pc' = "closeX" /\ habits' = habits
    BY <1>3, ForfeitStep
  <2>2. \A p \in Players : proc'[p] = proc[p] \/ proc'[p] = "gone"
    <3>1. CASE TimeOut
      BY <3>1, <1>0 DEF TimeOut, Types
    <3>2. CASE ~ TimeOut
      BY <1>3, <3>2 DEF Forfeits, AskFails, RejectMove, NotJson, StderrRead,
         StderrFilled, TakeLine
    <3> QED
      BY <3>1, <3>2
  <2> QED
    BY <2>1, <2>2, ClosedKept
<1>4. CASE Close("X", "closeX", "closeO")
  <2>1. /\ pc' = "closeO" /\ proc' = [proc EXCEPT !["X"] = "gone"]
        /\ habits' = habits
    BY <1>4 DEF Close, CloseTo
  <2> QED
    BY <2>1 DEF ClosingInv, Closed, Ended, Types, Players
<1>5. CASE Close("O", "closeO", "end")
  <2>1. /\ pc = "closeO" /\ proc' = [proc EXCEPT !["O"] = "gone"]
        /\ habits' = habits
    BY <1>5 DEF Close
  <2>2. pc' # "closeO"
    BY <1>5 DEF Close, CloseTo
  <2> QED
    BY <2>1, <2>2 DEF ClosingInv, Closed, Ended, Types, Players
<1>6. CASE StartFails
  <2>1. /\ habits' = habits /\ pc' = "raised"
        /\ \E closed \in SUBSET {p \in Players : proc[p] \in {"up", "mute"}} :
             /\ habits.killable =>
                  \A p \in Players : proc[p] \in {"up", "mute"} => p \in closed
             /\ proc' = [p \in Players |-> IF p \in closed THEN "gone" ELSE proc[p]]
    BY <1>6 DEF StartFails
  <2>2. habits.killable => \A p \in Players : proc'[p] \in {"none", "gone"}
    BY <2>1 DEF Types
  <2> QED
    BY <2>1, <2>2 DEF ClosingInv, Closed, Players
<1>7. CASE CloseFails
  BY <1>7 DEF CloseFails, CloseRaises, ClosingInv
<1>8. ASSUME NEW p \in Players, NEW kind \in LineKinds, WriteLine(p, kind)
      PROVE  ClosingInv'
  BY <1>8, ClosedKept DEF WriteLine
<1>9. ASSUME NEW p \in Players, Exit(p)
      PROVE  ClosingInv'
  <2>1. /\ UNCHANGED <<habits, pc>> /\ proc' = [proc EXCEPT ![p] = "gone"]
    BY <1>9 DEF Exit
  <2> QED
    BY <2>1, ClosedKept DEF Types
<1>10. ASSUME NEW p \in Players, CloseOutput(p)
       PROVE  ClosingInv'
  <2>1. /\ UNCHANGED <<habits, pc>> /\ proc' = [proc EXCEPT ![p] = "mute"]
        /\ proc[p] = "up"
    BY <1>10 DEF CloseOutput
  <2>2. proc'[p] = "mute" /\ \A q \in Players \ {p} : proc'[q] = proc[q]
    BY <2>1 DEF Types
  <2>3. \A q \in {"X", "O"} : Closed(q) => proc'[q] = proc[q]
    BY <2>1, <2>2 DEF Closed, Players
  <2> QED
    BY <2>1, <2>3 DEF ClosingInv, Closed, Ended
<1>11. CASE UNCHANGED vars
  BY <1>11 DEF vars, ClosingInv, Closed, Ended
<1> QED
  BY <1>1, <1>2, <1>3, <1>4, <1>5, <1>6, <1>7, <1>8, <1>9, <1>10, <1>11
     DEF Next, RefereeStep, Forfeits, CloseBot, Stopped

(* No bot that can be killed outlives its match, whatever raised.          *)
THEOREM NoBotOutlives == Spec => []BothTerminated
<1>1. Init => ClosingInv
  BY DEF Init, ClosingInv, Ended
<1>2. ClosingInv => BothTerminated
  BY DEF ClosingInv, Closed, BothTerminated, Players
<1> QED
  BY <1>1, <1>2, TypesInit, TypesStep, ClosingStep, PTL DEF Spec

-----------------------------------------------------------------------------
(* Answers.  When the referee is not waiting for p, every line p owes has  *)
(* been taken; while it waits, at most the line it waits for is there.     *)
(* The end of the output is no line.                                       *)
RealAt(p, i) == unread[p][i].kind # "eof"
Awaited(p) == pc = "wait" /\ p = Turn
Asking == pc \in {"startX", "startO", "turn", "wait", "record"}

Fits(p) ==
  /\ IF Awaited(p) THEN asked[p] \in {written[p], written[p] + 1}
     ELSE asked[p] = written[p]
  /\ \A i \in 1..Len(unread[p]) : RealAt(p, i) =>
       /\ Awaited(p) /\ written[p] = asked[p]
       /\ unread[p][i].number = asked[p]
       /\ \A k \in 1..Len(unread[p]) : RealAt(p, k) => k = i

AnswerInv ==
  habits.polite => ~ stale /\ (Asking => \A p \in Players : Fits(p))

LEMMA Appended ==
  ASSUME NEW q \in Seq(Lines), NEW l \in Lines
  PROVE  /\ Len(Append(q, l)) = Len(q) + 1 /\ Len(q) \in Nat
         /\ \A i \in 1..Len(q) : Append(q, l)[i] = q[i]
         /\ Append(q, l)[Len(q) + 1] = l
  OBVIOUS

LEMMA Dropped ==
  ASSUME NEW q \in Seq(Lines), q # <<>>
  PROVE  /\ Len(Tail(q)) = Len(q) - 1 /\ Len(q) \in Nat \ {0}
         /\ \A i \in 1..Len(Tail(q)) : Tail(q)[i] = q[i + 1]
         /\ Head(q) = q[1]
  OBVIOUS

(* The end of p's output: it leaves what p owes as it is.                  *)
LEMMA EofFits ==
  ASSUME Types, NEW p \in Players,
         UNCHANGED <<habits, pc, moves, asked, written, stale>>,
         unread' = [unread EXCEPT ![p] = Append(@, Line("eof", p))],
         AnswerInv
  PROVE  AnswerInv'
<1> SUFFICES ASSUME habits.polite, Asking PROVE (\A r \in Players : Fits(r))'
  BY DEF AnswerInv, Asking
<1> DEFINE l == Line("eof", p)
           q == unread[p]
<1>1. q \in Seq(Lines) /\ l \in Lines /\ l.kind = "eof"
  BY BotsTyped DEF Types, LineKinds, Line
<1>2. unread'[p] = Append(q, l)
      /\ \A r \in Players \ {p} : unread'[r] = unread[r]
  BY DEF Types
<1>3. /\ Len(unread'[p]) = Len(q) + 1 /\ Len(q) \in Nat
      /\ \A i \in 1..Len(q) : unread'[p][i] = q[i]
      /\ unread'[p][Len(q) + 1].kind = "eof"
  BY <1>1, <1>2, Appended
<1>4. \A r \in Players : Awaited(r)' <=> Awaited(r)
  BY DEF Awaited, Turn
<1>5. \A r \in Players : Fits(r)
  BY DEF AnswerInv
<1>6. \A i \in 1..Len(unread'[p]) : RealAt(p, i)' =>
        i \in 1..Len(q) /\ RealAt(p, i) /\ unread'[p][i] = q[i]
  BY <1>3 DEF RealAt
<1>7. Fits(p)'
  BY <1>4, <1>5, <1>6 DEF Fits
<1>8. ASSUME NEW r \in Players \ {p} PROVE Fits(r)'
  BY <1>2, <1>4, <1>5 DEF Fits, RealAt
<1> QED
  BY <1>7, <1>8

(* A line: p was asked and had not answered.                               *)
LEMMA WriteFits ==
  ASSUME Types, NEW p \in Players, NEW kind \in LineKinds, WriteLine(p, kind),
         AnswerInv
  PROVE  AnswerInv'
<1>0. UNCHANGED <<habits, pc, moves, asked, stale>>
  BY DEF WriteLine, gameVars
<1> SUFFICES ASSUME habits.polite, Asking PROVE (\A r \in Players : Fits(r))'
  BY <1>0 DEF AnswerInv, Asking
<1> DEFINE l == Line(kind, p)
           q == unread[p]
<1>1. /\ q \in Seq(Lines) /\ l \in Lines /\ l.number = written[p] + 1
      /\ asked[p] \in Nat /\ written[p] \in Nat
  BY BotsTyped DEF Types, Line
<1>2. /\ unread'[p] = Append(q, l) /\ written'[p] = written[p] + 1
      /\ \A r \in Players \ {p} : unread'[r] = unread[r] /\ written'[r] = written[r]
      /\ written[p] < asked[p]
  BY DEF WriteLine, Types
<1>3. /\ Len(unread'[p]) = Len(q) + 1 /\ Len(q) \in Nat
      /\ \A i \in 1..Len(q) : unread'[p][i] = q[i]
      /\ unread'[p][Len(q) + 1] = l
  BY <1>1, <1>2, Appended
<1>4. \A r \in Players : Awaited(r)' <=> Awaited(r)
  BY <1>0 DEF Awaited, Turn
<1>5. \A r \in Players : Fits(r)
  BY DEF AnswerInv
<1>6. /\ Awaited(p) /\ asked[p] = written[p] + 1
      /\ \A i \in 1..Len(q) : ~ RealAt(p, i)
  BY <1>1, <1>2, <1>5 DEF Fits
<1>7. \A i \in 1..Len(unread'[p]) : RealAt(p, i)' =>
        i = Len(q) + 1 /\ unread'[p][i].number = asked[p]
  BY <1>1, <1>3, <1>6 DEF RealAt
<1>8. Fits(p)'
  BY <1>0, <1>1, <1>2, <1>4, <1>6, <1>7 DEF Fits
<1>9. ASSUME NEW r \in Players \ {p} PROVE Fits(r)'
  BY <1>0, <1>2, <1>4, <1>5 DEF Fits, RealAt
<1> QED
  BY <1>8, <1>9

(* The move that is played is of the line the referee waited for.          *)
LEMMA AcceptFits ==
  ASSUME Types, AcceptMove, AnswerInv
  PROVE  AnswerInv'
<1>0. /\ habits' = habits /\ pc = "wait" /\ pc' = "record"
      /\ UNCHANGED <<asked, written>>
  BY DEF AcceptMove, TakeLine
<1> SUFFICES ASSUME habits.polite PROVE ~ stale' /\ (\A r \in Players : Fits(r))'
  BY <1>0 DEF AnswerInv
<1> DEFINE q == unread[Turn]
<1>1. Turn \in Players
  BY TurnAlternates DEF Types
<1>2. q \in Seq(Lines) /\ q # <<>> /\ Head(q).kind = "json"
  BY <1>1 DEF Types, AcceptMove, TakeLine
<1>3. /\ unread'[Turn] = Tail(q)
      /\ \A r \in Players \ {Turn} : unread'[r] = unread[r]
  BY <1>1 DEF Types, AcceptMove, TakeLine
<1>4. /\ Len(unread'[Turn]) = Len(q) - 1 /\ Len(q) \in Nat \ {0}
      /\ \A i \in 1..Len(unread'[Turn]) : unread'[Turn][i] = q[i + 1]
      /\ Head(q) = q[1]
  BY <1>2, <1>3, Dropped
<1>5. Awaited(Turn) /\ (\A r \in Players : Fits(r)) /\ ~ stale
  BY <1>0 DEF AnswerInv, Awaited, Asking
<1>6. RealAt(Turn, 1) /\ 1 \in 1..Len(q)
  BY <1>2, <1>4 DEF RealAt
<1>7. /\ q[1].number = asked[Turn] /\ written[Turn] = asked[Turn]
      /\ \A k \in 1..Len(q) : RealAt(Turn, k) => k = 1
  BY <1>1, <1>5, <1>6 DEF Fits
<1>8. ~ stale'
  BY <1>4, <1>5, <1>7 DEF AcceptMove
<1>9. \A r \in Players : ~ Awaited(r)'
  BY <1>0 DEF Awaited
<1>10. \A i \in 1..Len(unread'[Turn]) : unread'[Turn][i].kind = "eof"
  <2> SUFFICES ASSUME NEW i \in 1..Len(unread'[Turn])
               PROVE  unread'[Turn][i].kind = "eof"
    OBVIOUS
  <2>1. i + 1 \in 1..Len(q) /\ i + 1 # 1
    BY <1>4
  <2>2. ~ RealAt(Turn, i + 1)
    BY <2>1, <1>7
  <2> QED
    BY <2>2, <1>4 DEF RealAt
<1>11. ASSUME NEW r \in Players PROVE Fits(r)'
  <2>1. CASE r = Turn
    BY <2>1, <1>0, <1>7, <1>9, <1>10 DEF Fits, RealAt
  <2>2. CASE r # Turn
    <3>1. ~ Awaited(r) /\ Fits(r)
      BY <2>2, <1>5 DEF Awaited
    <3>2. \A i \in 1..Len(unread[r]) : ~ RealAt(r, i)
      BY <3>1 DEF Fits
    <3>3. unread'[r] = unread[r]
      BY <2>2, <1>3
    <3>4. asked[r] = written[r]
      BY <3>1 DEF Fits
    <3> QED
      BY <3>2, <3>3, <3>4, <1>0, <1>9 DEF Fits, RealAt
  <2> QED
    BY <2>1, <2>2
<1> QED
  BY <1>8, <1>11

LEMMA AnswerStep ==
  ASSUME Types, AnswerInv, [Next]_vars
  PROVE  AnswerInv'
<1> USE DEF gameVars, botVars
<1>0. ASSUME UNCHANGED <<habits, stale>>, ~ Asking'
      PROVE  AnswerInv'
  BY <1>0 DEF AnswerInv
<1>1. ASSUME UNCHANGED <<habits, moves, unread, asked, written, stale>>,
             (pc # "wait" /\ pc' # "wait" /\ Asking) \/ pc' = pc
      PROVE  AnswerInv'
  <2>1. (Asking' => Asking) /\ \A p \in Players : Awaited(p)' <=> Awaited(p)
    BY <1>1 DEF Asking, Awaited, Turn
  <2> QED
    BY <1>1, <2>1 DEF AnswerInv, Fits, RealAt
<1>2. CASE StartBot \/ Record
  <2>1. UNCHANGED <<habits, moves, unread, asked, written, stale>>
    BY <1>2 DEF StartBot, Start, Record
  <2>2. pc # "wait" /\ pc' # "wait" /\ Asking
    BY <1>2 DEF StartBot, Start, Record, Asking
  <2> QED
    BY <1>1, <2>1, <2>2
<1>3. CASE Ask
  <2>1. /\ pc = "turn" /\ pc' = "wait" /\ asked' = [asked EXCEPT ![Turn] = @ + 1]
        /\ UNCHANGED <<habits, moves, unread, written, stale>>
    BY <1>3 DEF Ask
  <2>2. Turn' = Turn /\ Turn \in Players
    BY <2>1, TurnAlternates DEF Turn, Types
  <2>3. \A p \in Players : ~ Awaited(p) /\ (Awaited(p)' <=> p = Turn)
    BY <2>1, <2>2 DEF Awaited
  <2>4. ASSUME habits.polite, NEW p \in Players PROVE Fits(p)'
    <3>1. Fits(p) /\ ~ Awaited(p)
      BY <2>1, <2>3, <2>4 DEF AnswerInv, Asking
    <3>2. asked[p] = written[p] /\ \A i \in 1..Len(unread[p]) : ~ RealAt(p, i)
      BY <3>1 DEF Fits
    <3>3. asked'[p] = IF p = Turn THEN asked[p] + 1 ELSE asked[p]
      BY <2>1 DEF Types
    <3>4. \A i \in 1..Len(unread'[p]) : ~ RealAt(p, i)'
      BY <2>1, <3>2 DEF RealAt
    <3>5. written'[p] = written[p]
      BY <2>1
    <3> QED
      BY <2>3, <3>2, <3>3, <3>4, <3>5 DEF Fits
  <2> QED
    BY <2>1, <2>4 DEF AnswerInv
<1>4. CASE AcceptMove
  BY <1>4, AcceptFits
<1>5. CASE Forfeits
  <2>1. pc' = "closeX" /\ UNCHANGED <<habits, stale>>
    BY <1>5, ForfeitStep
  <2> QED
    BY <1>0, <2>1 DEF Asking
<1>6. CASE NoAnswer \/ GameOver \/ StartFails \/ RecordRaises
  BY <1>0, <1>6 DEF NoAnswer, GameOver, StartFails, RecordRaises, Asking
<1>7. CASE CloseBot \/ CloseFails
  BY <1>0, <1>7 DEF CloseBot, Close, CloseTo, CloseFails, CloseRaises, Asking
<1>8. ASSUME NEW p \in Players, NEW kind \in LineKinds, WriteLine(p, kind)
      PROVE  AnswerInv'
  BY <1>8, WriteFits
<1>9. ASSUME NEW p \in Players, Exit(p) \/ CloseOutput(p)
      PROVE  AnswerInv'
  <2>1. UNCHANGED <<habits, pc, moves, asked, written, stale>>
    BY <1>9 DEF Exit, CloseOutput
  <2>2. CASE unread' = [unread EXCEPT ![p] = Append(@, Line("eof", p))]
    BY <2>1, <2>2, EofFits
  <2>3. CASE unread' = unread
    BY <1>1, <2>1, <2>3
  <2>4. \/ unread' = [unread EXCEPT ![p] = Append(@, Line("eof", p))]
        \/ unread' = unread
    BY <1>9 DEF Exit, CloseOutput, Types
  <2> QED
    BY <2>2, <2>3, <2>4
<1>10. CASE UNCHANGED vars
  BY <1>1, <1>10 DEF vars
<1> QED
  BY <1>2, <1>3, <1>4, <1>5, <1>6, <1>7, <1>8, <1>9, <1>10
     DEF Next, RefereeStep, Forfeits, Stopped

(* Between bots that answer each request at most once, no move is taken    *)
(* from a line written for another request.                                *)
THEOREM AnswersFit == Spec => []AnswersFitRequests
<1>1. Init => AnswerInv
  <2> SUFFICES ASSUME Init PROVE AnswerInv
    OBVIOUS
  <2>1. \A p \in Players : Len(unread[p]) = 0 /\ asked[p] = 0 /\ written[p] = 0
    BY DEF Init
  <2>2. \A p \in Players : Fits(p)
    BY <2>1 DEF Fits, Awaited, Init
  <2> QED
    BY <2>2 DEF AnswerInv, Init
<1>2. AnswerInv => AnswersFitRequests
  BY DEF AnswerInv, AnswersFitRequests
<1> QED
  BY <1>1, <1>2, TypesInit, TypesStep, AnswerStep, PTL DEF Spec
=============================================================================
