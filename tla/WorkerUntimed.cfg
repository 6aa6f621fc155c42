SPECIFICATION FairSpec
CONSTANTS
  Jobs = {j1}
  Executors = {e1, e2}
  WorkerIds = {w1}
  WorkerOf <- MCSharedId
  NoWorker = NoWorker
  NoJob = NoJob
  Priority <- MCPriority
  Backend = "postgres"
  MaxAttempts = 2
  Commands = 1
  Lease = 1
  Interval = 1
  Threshold = 1
  Timely = FALSE
INVARIANT
  ExecutionsBounded
PROPERTIES
  TerminalIsFinal
  ImplementsLifecycle
  EveryJobFinishes
CHECK_DEADLOCK FALSE
