SPECIFICATION Spec
CONSTANTS
  Sessions = {s1, s2}
  MaxSets = 2
  MaxJobs = 2
  MaxRounds = 2
  MaxClicks = 4
  MaxFailures = 1
  NoSession = NoSession
  RunSession = s1
  Gated = TRUE
  MaxFlying = 2
INVARIANTS
  TypeOK
  KeepsPolling
  GateMatchesJob
CONSTRAINT MCBound
CHECK_DEADLOCK FALSE
