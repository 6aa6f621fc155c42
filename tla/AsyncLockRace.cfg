SPECIFICATION Spec
CONSTANTS
  Runs = {r1}
  Jobs = {j1, j2}
  Crons = {c1, c2}
  Clients = {u1}
  People = {}
  Owners = {c1, c2}
  OwnerOf <- MCOwnName
  NoOwner = NoOwner
  NoJob = NoJob
  NoRun = NoRun
  Backend = "postgres"
  MaxRounds = 2
  MaxAttempts = 1
  MaxFaults = 0
  ManualResume = FALSE
  Cancels = FALSE
  Prompt = TRUE
INVARIANT
  NoDoubleResume
CHECK_DEADLOCK FALSE
