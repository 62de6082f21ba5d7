----------------------------- MODULE MCReferee ------------------------------
(* Small instances of Referee for TLC. *)
EXTENDS Referee

AnyHabits == Habits

(* Answer once, but with an empty line if they like.                       *)
BlankAnswers ==
  {[polite |-> TRUE, blankLines |-> TRUE, closeOutput |-> FALSE, killable |-> TRUE]}
=============================================================================
