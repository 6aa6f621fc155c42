SPECIFICATION FairSpec
CONSTANTS
  MaxClaims = 2
  MaxCommands = 2
  f1 = f1
  f2 = f2
  f3 = f3
  v1 = v1
  v2 = v2
  Files = {f1, f2, f3}
  ActionOf <- MCActionOf
  Settings <- MCSettings
  Clones <- MCClones
  Absent = Absent
  Patched = Patched
  NoHash = NoHash
  Alone = TRUE
INVARIANTS
  TypeOK
  GreenMeansTested
  NoChildOutlivesJob
  CheckedMeansUnmoved
PROPERTY
  ExecutionEnds
CHECK_DEADLOCK FALSE
