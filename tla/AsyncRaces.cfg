SPECIFICATION FairSpec
CONSTANTS
  Runs = {r1}
  Jobs = {j1}
  Crons = {c1}
  Clients = {u1}
  People = {}
  Owners = {c1}
  OwnerOf <- MCOwnName
  NoOwner = NoOwner
  NoJob = NoJob
  NoRun = NoRun
  Backend = "postgres"
  MaxRounds = 1
  MaxAttempts = 1
  MaxFaults = 2
  ManualResume = TRUE
  Cancels = TRUE
  Prompt = TRUE
INVARIANTS
  GreenBeforePassed
  PendingWhileWaiting
PROPERTY
  WaitingRunFinishes
CHECK_DEADLOCK FALSE
