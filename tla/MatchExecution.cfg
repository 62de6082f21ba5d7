SPECIFICATION Spec
CONSTANTS
  b1 = b1
  b2 = b2
  e1 = e1
  e2 = e2
  Executions = {e1, e2}
  Bots = {b1, b2}
  Submissions = {1, 2, 3}
  BotOf <- OwnerBots
  FirstActive <- OldestActive
  Plays <- BothOrders
  InitialRating = 2
  Faults = TRUE
INVARIANTS
  RecordIsHistory
  CreditsWhoPlayed
  NoDirectoryLeft
  SettlementGoesOn
CHECK_DEADLOCK FALSE
