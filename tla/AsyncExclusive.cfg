SPECIFICATION Spec
CONSTANTS
  Runs = {r1}
  Jobs = {j1, j2, j3}
  Crons = {c1, c2}
  Clients = {u1}
  People = {d1}
  Owners = {c1, c2}
  OwnerOf <- MCOwnName
  NoOwner = NoOwner
  NoJob = NoJob
  NoRun = NoRun
  Backend = "sqlite"
  MaxRounds = 2
  MaxAttempts = 1
  MaxFaults = 1
  ManualResume = FALSE
  Cancels = FALSE
  Prompt = TRUE
SYMMETRY MCSymmetry
INVARIANTS
  TypeOK
  NoDoubleResume
  OneJobPerRound
  SessionAgrees
PROPERTY
  ImplementsRunLifecycle
CHECK_DEADLOCK FALSE
