SPECIFICATION FairSpec
CONSTANTS
  u1 = u1
  w1 = w1
  w2 = w2
  Jobs <- OneJob
  Users = {u1}
  Requester <- RequestedByOne
  Workers = {w1, w2}
  MaxAttempts = 3
  MaxActive = 1
  MaxMoves = 1
  MaxCrashes = 2
  SlowMatches = TRUE
  DbFaults = TRUE
  BotsHang = TRUE
INVARIANTS
  OutcomeOnRecord
  AttemptsOnRecord
PROPERTIES
  TerminalNeverReopened
  EveryJobResolves
CHECK_DEADLOCK FALSE
