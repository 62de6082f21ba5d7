--------------------------- MODULE MCBotRegistry ----------------------------
(* A small instance of BotRegistry for TLC: one user, whose bot "mine"     *)
(* lost its source in the migration, uploads two executables for it and    *)
(* creates two bots under the names of the two built-in bots, which both   *)
(* replicas seed; three of the four requests are sent.  Only the second     *)
(* replica is deployed with executables.                                   *)
EXTENDS BotRegistry

CONSTANTS mine, random, other, u1, c1, c2, s1, s2, r1, r2

AllOfOne == [p \in Requests |-> u1]
Contested ==
  [p \in Requests |-> IF p \in {s1, s2} THEN mine
                      ELSE IF p = c1 THEN random ELSE other]
ThreeEach == {{c1, c2, s1}, {c1, s1, s2}, {c2, s1, s2}}
TwoSpecs == <<random, other>>
BothForSecond == [r \in Replicas |-> IF r = r2 THEN {random, other} ELSE {}]
MigratedBot ==
  [n \in Names |-> IF n = mine THEN [owner |-> u1, latest |-> 1, active |-> 0]
                   ELSE NoBot]
=============================================================================
