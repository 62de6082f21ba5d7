SPECIFICATION Spec
CONSTANTS
  u1 = u1
  w1 = w1
  w2 = w2
  Jobs <- OneJob
  Users = {u1}
  Requester <- RequestedByOne
  Workers = {w1, w2}
  MaxAttempts = 3
  MaxActive = 1
  MaxMoves = 1
  MaxCrashes = 0
  SlowMatches = TRUE
  DbFaults = FALSE
  BotsHang = FALSE
INVARIANTS
  CompletedHasNoError
