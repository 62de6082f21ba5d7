---------------------------- MODULE MCAlgorithms ----------------------------
(* The sequential algorithms of the arena in one run: a game is played, or *)
(* an upload is validated.  Sizes are those of an ELF file scaled down.    *)
EXTENDS Games, Executable

Table(place, length, first, second, third) ==
  [type |-> "dynamic", offset |-> place, size |-> length,
   tag |-> [k \in 0..2 |-> <<first, second, third>>[k + 1]]]
Plain(kind) == [type |-> kind, offset |-> 0, size |-> 0, tag |-> <<>>]
ItemTags == {"null", "needed", "other"}

(* Two headers of two bytes each; tables before, at and past the end.      *)
SomeSegments ==
  {Plain("interp"), Plain("other")}
    \cup {Table(p, l, a, b, c) :
            p \in {2, 5, 7}, l \in {0, 1, 3, 5},
            a \in ItemTags, b \in ItemTags, c \in {"needed", "other"}}
SecondSegments ==
  {Plain("interp"), Plain("other"), Table(5, 3, "other", "needed", "other"),
   Table(2, 5, "needed", "other", "null")}

Upload(size, offset, entrySize, count, first, second) ==
  [size |-> size, magic |-> TRUE, identified |-> TRUE, machine |-> "x86-64",
   kind |-> "executable", offset |-> offset, entrySize |-> entrySize,
   count |-> count, segment |-> [n \in 0..1 |-> <<first, second>>[n + 1]]]
Sample == Upload(8, 1, 2, 2, Plain("other"), Table(5, 3, "other", "needed", "null"))

SomeFiles ==
  {Upload(size, 1, 2, count, first, second) :
     size \in {7, 8}, count \in 0..2,
     first \in SomeSegments, second \in SecondSegments}
  \cup {Upload(size, offset, entrySize, 2, Plain("other"), Plain("other")) :
          size \in 0..10, offset \in {1, 4, 9}, entrySize \in 1..3}
  \cup {Sample, [Sample EXCEPT !.magic = FALSE], [Sample EXCEPT !.identified = FALSE],
        [Sample EXCEPT !.machine = "other"], [Sample EXCEPT !.kind = "other"]}

AlgorithmsInit == GamesInit /\ ValidationInit

PlayGame ==
  /\ file = Sample /\ step = "header"
  /\ RunMatchForGame
  /\ UNCHANGED validationVars

ValidateUpload ==
  /\ GamesInit /\ game_id = "tictactoe"
  /\ Validate
  /\ UNCHANGED gamesVars

AlgorithmsNext == PlayGame \/ ValidateUpload

AlgorithmsSpec ==
  AlgorithmsInit /\ [][AlgorithmsNext]_<<gamesVars, validationVars>>
=============================================================================
