------------------------------ MODULE MCWakeup ------------------------------
(* Small instances of Wakeup for TLC. *)
EXTENDS Wakeup

CONSTANTS u1, w1, w2

TwoJobs == {1, 2}
RequestedByOne == [j \in Jobs |-> u1]
=============================================================================
