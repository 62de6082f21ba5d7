SPECIFICATION FairWakeupSpec
CONSTANTS
  u1 = u1
  w1 = w1
  w2 = w2
  Jobs <- TwoJobs
  Users = {u1}
  Requester <- RequestedByOne
  Workers = {w1, w2}
  MaxAttempts = 2
  MaxActive = 1
  MaxMoves = 2
  MaxCrashes = 1
  SlowMatches = FALSE
  DbFaults = FALSE
  BotsHang = FALSE
  ApiFaults = {2}
  ListenFaults = {w2}
INVARIANTS
  IdleMeansEmpty
  QuotaRespected
  OwnerIsCurrent
  LiveMovesCoherent
PROPERTIES
  ClaimedWithoutPolling
  ImplementsLifecycle
