SPECIFICATION FairSpec
CONSTANTS
  Sessions = {s1, s2}
  MaxSets = 1
  MaxJobs = 1
  MaxRounds = 1
  MaxClicks = 3
  MaxFailures = 1
  NoSession = NoSession
  RunSession = s1
  Gated = FALSE
  MaxFlying = 2
PROPERTY
  ShownJobSettles
CHECK_DEADLOCK FALSE
