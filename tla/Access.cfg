SPECIFICATION DeploymentSpec
CONSTANTS
  root = root
  dev = dev
  new = new
  k1 = k1
  k2 = k2
  k3 = k3
  c1 = c1
  c2 = c2
  c3 = c3
  c4 = c4
  Requests <- MCRequests
  OnlyRun <- MCOnlyRun
  Users <- MCUsers
  Keys <- MCKeys
  RoleOf <- MCRoleOf
  InitialUsers <- MCInitialUsers
  KeyOf <- MCKeyOf
  Overrides <- MCOverrides
  Identifiers <- MCIdentifiers
  LegacyAllowed = TRUE
  Ops = {"run", "disable", "enable", "create_key", "revoke_key", "login", "set_password", "create_user"}
  NoUser = NoUser
  LegacyKey = LegacyKey
  Limit = 2
  Window = 3
  Delay = 1
  MaxTime = 3
  Configs <- MCConfigs
  LiveConfigs <- MCLiveConfigs
SYMMETRY MCSymmetry
CONSTRAINT MCBound
INVARIANTS
  TypeOK
  NoServiceAfterRevocation
  AuditIsTrue
  NeverOverLimit
  ReadyMeansUsable
  DryRunIsSafe
CHECK_DEADLOCK FALSE
