------------------------------ MODULE MCPages -------------------------------
(* A small instance of Pages for TLC.  What a page does not depend on is   *)
(* left out while it is open.  The home page reads no moves and names      *)
(* active jobs, of which a second attempt looks like the first and each is *)
(* resolved once.  Two jobs compete for the one featured game, neither of  *)
(* them with moves or a requeued attempt, which the page of a match has    *)
(* for the first job.  Where attempts overlap nothing is said of live      *)
(* moves: they mix before a page is opened.                                *)
EXTENDS Pages

TwoJobs == {1, 2}
InFlight == [first |-> 1, live |-> 2, list |-> 2, job |-> 1]

Requeued(j) == status[j] = "running" /\ status'[j] = "queued"
OutcomeKept(j) ==
  status[j] \in Terminal => status'[j] = status[j] /\ match'[j] = match[j]

Relevant ==
  /\ page = "match" \/ UNCHANGED liveMoves
  /\ page = "match" \/ \A j \in Jobs : ~ Requeued(j)
  /\ page = "featured" \/ status'[2] = "none"
  /\ page # "home" \/ \A j \in Jobs : OutcomeKept(j)
  /\ overlapping /\ opened' =>
       \A j \in Jobs, n \in 1..MaxMoves : liveMoves'[j][n] = 0

MCPagesSpec ==
  /\ PagesInit /\ (page = "home" => ~ overlapping)
  /\ [][PagesNext /\ Relevant]_pagesVars
  /\ JobFairness /\ BrowserFairness
=============================================================================
