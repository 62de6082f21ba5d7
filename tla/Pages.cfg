SPECIFICATION MCPagesSpec
CONSTANTS
  Jobs <- TwoJobs
  MaxAttempts = 2
  MaxMoves = 1
  Watched = 1
  FeaturedLimit = 1
  MaxInFlight <- InFlight
  MaxErrors = 1
INVARIANTS
  ViewsAreTrue
PROPERTIES
  SettledViewStays
  MatchPageSettles
  FeaturedCatchesUp
  SubmitterArrives
  NoGhosts
CHECK_DEADLOCK FALSE
