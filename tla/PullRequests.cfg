SPECIFICATION Spec
CONSTANTS
  Requests = {r1, r2}
  f1 = f1
  f2 = f2
  f3 = f3
  Files = {f1, f2, f3}
  ActionOf <- MCActionOf
  Shapes <- MCShapes
  Unsafe = {2}
  Configs <- MCAll
  WorkerStrict = FALSE
  Versions = {v1, v2}
  First = v1
  Absent = Absent
  NoHash = NoHash
  Workers = {w1, w2}
  Stamps = {t1}
  MaxNames = 2
  MaxArtifacts = 2
  MaxSets = 2
  MaxJobs = 1
  MaxDecisions = 1
  MaxMoves = 1
  MCExtra = 2
CONSTRAINT MCBound
SYMMETRY MCSymmetry
INVARIANTS
  TypeOK
  DiffIsThePatch
  OneWriterPerBranch
  LedgerIsTrue
PROPERTY
  ImplementsReviewedChange
CHECK_DEADLOCK FALSE
