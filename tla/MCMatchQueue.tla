---------------------------- MODULE MCMatchQueue ----------------------------
(* Small instances of MatchQueue for TLC: one job of one user.             *)
EXTENDS MatchQueue

CONSTANTS u1, w1, w2

OneJob == {1}
RequestedByOne == [j \in Jobs |-> u1]
=============================================================================
