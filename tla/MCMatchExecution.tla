-------------------------- MODULE MCMatchExecution --------------------------
(* Small instances of MatchExecution for TLC: bot b1 has two submissions,  *)
(* and the first two executions share it.                                  *)
EXTENDS MatchExecution

CONSTANTS b1, b2, e1, e2

OwnerBots == [s \in Submissions |-> IF s = 2 THEN b2 ELSE b1]
OldestActive == [b \in Bots |-> IF b = b2 THEN 2 ELSE 1]
BothOrders == [e \in Executions |-> IF e = e2 THEN <<b2, b1>> ELSE <<b1, b2>>]
=============================================================================
