SPECIFICATION Spec
CONSTANTS
  Jobs = {j1}
  Executors = {e1, e2}
  WorkerIds = {e1, e2}
  WorkerOf <- MCOwnId
  NoWorker = NoWorker
  NoJob = NoJob
  Priority <- MCPriority
  Backend = "postgres"
  MaxAttempts = 2
  Commands = 2
  Lease = 4
  Interval = 2
  Threshold = 2
  Timely = TRUE
SYMMETRY MCSymmetry
INVARIANTS
  TypeOK
  NoDoubleExecution
  HealthyVerdictIsCurrent
CHECK_DEADLOCK FALSE
