SPECIFICATION FairSpec
CONSTANTS
  Registers = {"carl", "carla", "dora"}
  Resends = {"resend1", "resend2"}
  Resets = {"reset"}
  Logins = {"login1", "login2", "login3", "login4"}
  Limited = {"carl", "carla", "dora", "resend1", "resend2", "reset",
             "login1", "login2", "login3", "login4"}
  Verifies = {"verify", "verifyResent"}
  Confirms = {"confirm"}
  Logouts = {"logout"}
  Visits = {"visit"}
  FirstUsers = {"ann", "bob"}
  FirstVerified = {"ann"}
  Nobody = "nobody"
  Email <- EmailOf
  Username <- NameOf
  About <- Subject
  Password <- Presented
  Scripts <- ClientScripts
  VerificationTTL = 2
  ResetTTL = 1
  SessionTTL = 2
  Keys <- Buckets
  AccountKey <- AccountOf
  AddressKey <- AddressOf
  Limit <- Limits
  Window <- Windows
  LongestWindow = 2
  MaxTime = 3
INVARIANTS
  WindowRespected
  AttemptsCounted
  OneAccountPerName
  NewestLinkWorks
PROPERTIES
  EveryoneAnswered
