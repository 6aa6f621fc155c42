SPECIFICATION Spec
CONSTANTS
  Requests = {r1}
  f1 = f1
  f2 = f2
  f3 = f3
  Files = {f1, f2, f3}
  ActionOf <- MCActionOf
  Shapes <- MCOneFile
  Unsafe = {}
  Configs <- MCLive
  WorkerStrict = TRUE
  Versions = {v1}
  First = v1
  Absent = Absent
  NoHash = NoHash
  Workers = {w1, w2}
  Stamps = {t1}
  MaxNames = 2
  MaxArtifacts = 2
  MaxSets = 1
  MaxJobs = 1
  MaxDecisions = 1
  MaxMoves = 0
  MCExtra = 4
CONSTRAINT MCBound
INVARIANT ExactPatchWasTested
CHECK_DEADLOCK FALSE
