SPECIFICATION FairSpec
CONSTANTS
  Modes <- MCModes
  MaxRounds = 2
  Timeout = 2
  MaxAttempts = 1
  MaxDecisions = 2
INVARIANTS
  TypeOK
  GreenBeforePassed
  GreenIsFromTheWorker
  SessionAgrees
PROPERTIES
  RequestEnds
  ImplementsRunLifecycle
CHECK_DEADLOCK FALSE
