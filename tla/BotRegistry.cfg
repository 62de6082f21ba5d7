SPECIFICATION FairSpec
CONSTANTS
  mine = mine
  random = random
  other = other
  u1 = u1
  c1 = c1
  c2 = c2
  s1 = s1
  s2 = s2
  r1 = r1
  r2 = r2
  System = system
  Nobody = nobody
  Names = {mine, random, other}
  Users = {u1}
  Creates = {c1, c2}
  Submits = {s1, s2}
  By <- AllOfOne
  About <- Contested
  Scripts <- ThreeEach
  Replicas = {r1, r2}
  Specs <- TwoSpecs
  Artifacts <- BothForSecond
  FirstBots <- MigratedBot
  MaxBots = 2
  MaxCrashes = 1
INVARIANTS
  VersionsChain
  AnswersAreTrue
  QuotaRespected
  ServesDefaultBots
  SomeoneGoesOn
PROPERTIES
  ActiveOnlyGrows
  EveryoneSettles
