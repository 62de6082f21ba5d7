SPECIFICATION FairSpec
CONSTANTS
  MaxMoves = 4
  MinMoves = 3
  MaxQueue = 2
  Behaviours <- BlankAnswers
  Faults = FALSE
PROPERTIES
  MatchEnds
