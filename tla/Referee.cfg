SPECIFICATION FairSpec
CONSTANTS
  MaxMoves = 6
  MinMoves = 5
  MaxQueue = 2
  Behaviours <- AnyHabits
  Faults = TRUE
INVARIANTS
  ResultMatchesGame
  AnswersFitRequests
  BothTerminated
PROPERTIES
  SpeakersMatchEnds
