------------------------- MODULE Deployment_proofs --------------------------
(***************************************************************************)
(* What holds of a deployment and its requests for any set of              *)
(* configurations, users, keys, requests and operations.                   *)
(*                                                                         *)
(* The requests of Access make only steps of the limiter, so that its      *)
(* promise carries over.  The invariant of the requests says what has been *)
(* seen of a call's key and user once the call is past each read.          *)
(***************************************************************************)
EXTENDS Deployment, RateLimiter_proofs

-----------------------------------------------------------------------------
(* The gates.                                                              *)

\* Which checks fail, one by one.
LEMMA WhatFails ==
  ASSUME NEW c \in Configurations
  PROVE  /\ c.prod /\ c.db # "postgres" => "db_provider" \in Failing(c)
         /\ (c.prod \/ c.db = "postgres") /\ ~c.supabase => "supabase_env" \in Failing(c)
         /\ ~c.pings => "db_ping" \in Failing(c)
         /\ c.pings /\ ~c.tables => "schema_tables" \in Failing(c)
         /\ c.pings /\ ~c.columns => "schema_columns" \in Failing(c)
         /\ c.prod /\ WorkerConfigFails(c) => "worker_config" \in Failing(c)
         /\ c.prod /\ runnerMode(c) = "inline" /\ ~c.inline => "test_runner_mode" \in Failing(c)
         /\ c.prod /\ runnerMode(c) = "worker_async" /\ ~c.cronKey => "cron_resume" \in Failing(c)
         /\ c.pr /\ ~c.dryRun /\ ~c.github => "github_pr" \in Failing(c)
         /\ c.prod /\ c.limiter = "upstash" /\ ~c.upstash => "rate_limit" \in Failing(c)
<1> DEFINE Fails(id) == <<id, "fail">> \in checks(c)
<1>1. ASSUME NEW id, Fails(id) PROVE id \in Failing(c)
  BY <1>1 DEF Failing
<1>2. /\ c.prod /\ c.db # "postgres" => Fails("db_provider")
      /\ (c.prod \/ c.db = "postgres") /\ ~c.supabase => Fails("supabase_env")
  BY DEF checks, settingChecks, Verdict
<1>3. /\ ~c.pings => Fails("db_ping")
      /\ c.pings /\ ~c.tables => Fails("schema_tables")
      /\ c.pings /\ ~c.columns => Fails("schema_columns")
  BY DEF checks, probeChecks, Verdict
<1>4. c.prod /\ WorkerConfigFails(c) => Fails("worker_config")
  BY DEF checks, workerChecks, Verdict
<1>5. /\ c.prod /\ runnerMode(c) = "inline" /\ ~c.inline => Fails("test_runner_mode")
      /\ c.prod /\ runnerMode(c) = "worker_async" /\ ~c.cronKey => Fails("cron_resume")
  BY DEF checks, runnerChecks, Verdict
<1>6. c.pr /\ ~c.dryRun /\ ~c.github => Fails("github_pr")
  BY DEF checks, serviceChecks, Verdict
<1>7. c.prod /\ c.limiter = "upstash" /\ ~c.upstash => Fails("rate_limit")
  BY DEF checks, operationChecks, Verdict
<1> HIDE DEF Fails
<1> QED  BY <1>1, <1>2, <1>3, <1>4, <1>5, <1>6, <1>7

\* A report without a blocking failure means that every part starts.
LEMMA ReadyIsUsable ==
  ASSUME config \in Configurations
  PROVE  ReadyMeansUsable
<1> SUFFICES ASSUME config.prod, Failing(config) = {}, ~SetApart
             PROVE  /\ StoreOpens(config) /\ LimiterOpens(config) /\ RunStarts(config)
                    /\ WorkerStarts(config) /\ WorkspacePrepared(config)
                    /\ runnerMode(config) = "worker_async" => CronOpens(config)
                    /\ OpensLive(config) => LiveConfigured(config)
  BY DEF ReadyMeansUsable, hasBlockingFailure
<1>1. config.limiter # "invalid" /\ ~config.inline  BY DEF SetApart
<1>2. StoreOpens(config)  BY WhatFails DEF StoreOpens, Configurations
<1>3. LimiterOpens(config)  BY <1>1, WhatFails DEF LimiterOpens
<1>4. config.provider = "database" /\ repoCloneConfigured(config)
  BY WhatFails DEF WorkerConfigFails
<1>5. runnerMode(config) # "inline"  BY <1>1, WhatFails
<1>6. RunStarts(config) /\ WorkerStarts(config) /\ WorkspacePrepared(config)
  BY <1>1, <1>4, <1>5 DEF RunStarts, WorkerStarts, QueueOpens, WorkspacePrepared
<1>7. runnerMode(config) = "worker_async" => CronOpens(config)
  BY WhatFails DEF CronOpens
<1>8. OpensLive(config) => LiveConfigured(config)
  BY WhatFails DEF OpensLive, LiveConfigured
<1> QED  BY <1>2, <1>3, <1>6, <1>7, <1>8

\* What the dry run drops of the readiness report it asks for itself.
LEMMA SafeIsDry ==
  ASSUME config \in Configurations
  PROVE  DryRunIsSafe
<1> SUFFICES ASSUME dry_run_safe(config), config.db # "invalid"
             PROVE  /\ ~OpensLive(config) /\ ~RunsInline(config)
                    /\ StoreOpens(config) /\ RunStarts(config) /\ WorkerStarts(config)
                    /\ config.prod => CronOpens(config)
  BY DEF DryRunIsSafe
<1>1. /\ Failing(config) \ READINESS_OVERRIDDEN = {}
      /\ runnerMode(config) = "worker_async" /\ config.provider = "database"
      /\ ~config.inline /\ config.dryRun /\ (config.prod => config.cronKey)
  BY DEF dry_run_safe, dryRunBlockers
<1>2. \A id \in {"supabase_env", "db_ping", "schema_tables", "schema_columns"} :
        id \notin Failing(config)
  BY <1>1 DEF READINESS_OVERRIDDEN
<1>3. StoreOpens(config)  BY <1>2, WhatFails DEF StoreOpens, Configurations
<1> QED
  BY <1>1, <1>3 DEF OpensLive, RunsInline, RunStarts, WorkerStarts, QueueOpens, CronOpens

\* The configuration never changes.
LEMMA ConfigIsRead == DeploymentSpec => [](config \in Configurations)
<1>1. DeploymentInit => config \in Configurations
  BY ConfigsAssumption DEF DeploymentInit
<1>2. config \in Configurations /\ [DeploymentNext]_<<vars, deploymentVars>>
        => (config \in Configurations)'
  BY DEF DeploymentNext, GoLive, ServeRequests, deploymentVars
<1> QED  BY <1>1, <1>2, PTL DEF DeploymentSpec

\* Whatever the configuration, what the readiness report lets pass in production
\* no other gate of the code refuses (but for the two settings set apart).
THEOREM GatesAgree == DeploymentSpec => []ReadyMeansUsable
BY ConfigIsRead, ReadyIsUsable, PTL

\* Whatever the configuration, a dry run called safe opens no live pull request
\* and spawns nothing in a request, and what it needs starts.
THEOREM DryRunsAreDry == DeploymentSpec => []DryRunIsSafe
BY ConfigIsRead, SafeIsDry, PTL

-----------------------------------------------------------------------------
(* The requests.                                                           *)

\* Where a call is once its key, and its user, have been found good.
PastKey  == {"user", "overrides", "ask", "hit", "permit", "create", "target", "change",
             "audit", "done"}
PastUser == PastKey \ {"user"}

CallOK(c) ==
  LET r == calls[c] IN
  /\ r.op = "login" => r.cred = LegacyKey
  /\ r.pc = "legacy" => r.cred = LegacyKey
  /\ r.pc = "key" => r.cred \in Keys
  /\ r.pc \in {"user", "overrides"} => r.user \in Users
  /\ r.pc \notin Ended /\ r.op # "run" => r.target \in Users
  /\ r.pc \in {"create", "target", "change", "audit"} => r.op # "run"
  /\ r.pc \in {"login", "mint"} => r.op = "login"
  /\ r.pc \notin Ended /\ r.op = "revoke_key" => r.key \in Keys
  /\ r.pc \in {"change", "mint"} => users[r.target].status # "absent"
  /\ r.pc = "change" /\ r.op = "revoke_key" => keys[r.key].status # "none"
  /\ r.pc = "audit" => c \in changed
  /\ r.cred \in Keys =>
       /\ r.pc \in PastKey => "key" \in seen[c]
       /\ r.pc \in PastUser => "user" \in seen[c]
       /\ r.pc = "user" => keys[r.cred].status # "none" /\ keys[r.cred].user = r.user

UserRows == [status : {"absent", "active", "disabled"}, password : BOOLEAN]
KeyRows  == [status : {"none", "active", "revoked"}, user : Users \cup {NoUser},
             expiring : BOOLEAN, expired : BOOLEAN]

RowsOK ==
  /\ users \in [Users -> UserRows] /\ keys \in [Keys -> KeyRows]
  /\ \A k \in Keys : keys[k].status # "none" =>
       keys[k].user \in Users /\ users[keys[k].user].status # "absent"
  /\ \A k \in Keys : keys[k].status = "none" => keys[k].user = NoUser

CallsOK ==
  /\ calls \in [Calls -> CallRow]
  /\ seen \in [Calls -> SUBSET {"key", "user"}]
  /\ \A c \in Calls : CallOK(c)

AccessInv == RowsOK /\ CallsOK /\ AuditIsTrue

\* Rows are never deleted and a key never changes hands.
Grows ==
  /\ \A u \in Users : users[u].status # "absent" => users'[u].status # "absent"
  /\ \A k \in Keys : keys[k].status # "none" =>
       keys'[k].status # "none" /\ keys'[k].user = keys[k].user
  /\ changed \subseteq changed'

\* What Watch remembers.
LEMMA Watched ==
  ASSUME CallsOK, Watch
  PROVE  /\ seen' \in [Calls -> SUBSET {"key", "user"}]
         /\ \A c \in Calls :
              /\ seen[c] \subseteq seen'[c]
              /\ calls'[c].pc \notin Ended /\ calls'[c].cred \in Keys
                 /\ keys'[calls'[c].cred].status = "active" /\ ~keys'[calls'[c].cred].expired
                 => "key" \in seen'[c]
              /\ calls'[c].pc \notin Ended /\ calls'[c].cred \in Keys
                 /\ keys'[calls'[c].cred].user \in Users
                 /\ users'[keys'[calls'[c].cred].user].status = "active"
                 => "user" \in seen'[c]
BY DEF CallsOK, Watch

\* A call that does not move stays as it should be while rows grow.
LEMMA Still ==
  ASSUME RowsOK, CallsOK, Grows, Watch, NEW d \in Calls, calls'[d] = calls[d]
  PROVE  CallOK(d)'
<1>1. CallOK(d) /\ calls[d] \in CallRow /\ seen[d] \subseteq seen'[d]
  BY Watched DEF CallsOK
<1> QED  BY <1>1 DEF CallOK, Grows, CallRow, Credentials, Ended

\* One call moves, within its type and as it should.
Moves(c) ==
  /\ \E r \in CallRow : calls' = [calls EXCEPT ![c] = r]
  /\ CallOK(c)'

LEMMA MoveKeeps ==
  ASSUME RowsOK, CallsOK, Grows, Watch, NEW c \in Calls, Moves(c)
  PROVE  CallsOK'
<1>1. PICK r \in CallRow : calls' = [calls EXCEPT ![c] = r]  BY DEF Moves
<1>2. calls' \in [Calls -> CallRow]  BY <1>1 DEF CallsOK
<1>3. ASSUME NEW d \in Calls PROVE CallOK(d)'
  <2>1. CASE d = c  BY <2>1 DEF Moves
  <2>2. CASE d # c
    <3>1. calls'[d] = calls[d]  BY <1>1, <2>2 DEF CallsOK
    <3> QED  BY <3>1, Still
  <2> QED  BY <2>1, <2>2
<1> QED  BY <1>2, <1>3, Watched DEF CallsOK

\* A step that leaves the rows, the audit log and the changes alone.
Idles == UNCHANGED <<rows, audit, changed>>

LEMMA IdleKeeps ==
  ASSUME AccessInv, Idles, Watch, NEW c \in Calls, Moves(c)
  PROVE  AccessInv'
<1>1. Grows /\ RowsOK' /\ AuditIsTrue'
  BY DEF AccessInv, Idles, rows, Grows, RowsOK, AuditIsTrue
<1> QED  BY <1>1, MoveKeeps DEF AccessInv

LEMMA RanksAreRoles == DOMAIN Rank = {"owner", "admin", "developer", "reviewer", "viewer"}
BY DEF Rank

\* What a call may do without a row changing.
LEMMA FinishMoves ==
  ASSUME CallsOK, Watch, NEW c \in Calls, NEW s \in {"refused", "failed", "done"}, Finish(c, s),
         s = "done" => calls[c].pc \in {"permit", "audit"}
  PROVE  Moves(c)
<1> DEFINE r == [Idle EXCEPT !.pc = s, !.op = calls[c].op, !.cred = calls[c].cred]
<1>1. calls[c] \in CallRow /\ CallOK(c)  BY DEF CallsOK
<1>2. /\ r.pc = s /\ r.op = calls[c].op /\ r.cred = calls[c].cred
      /\ calls[c].op \in Ops \cup {"run"} /\ calls[c].cred \in Credentials
  BY <1>1 DEF CallRow, Idle
<1>6. ASSUME NEW op \in Ops \cup {"run"}, NEW cred \in Credentials
      PROVE  [Idle EXCEPT !.pc = s, !.op = op, !.cred = cred] \in CallRow
  BY RanksAreRoles DEF CallRow, Idle
<1>7. r \in CallRow  BY <1>2, <1>6
<1>3. calls' = [calls EXCEPT ![c] = r] /\ calls'[c] = r  BY DEF Finish, CallsOK
<1>4. seen[c] \subseteq seen'[c]  BY Watched
<1> HIDE DEF r
<1>5. CallOK(c)'
  BY <1>1, <1>2, <1>3, <1>4 DEF CallOK, Ended, PastKey, PastUser
<1> QED  BY <1>3, <1>5, <1>7 DEF Moves

LEMMA TurnAwayMoves ==
  ASSUME CallsOK, Watch, NEW c \in Calls, TurnAway(c)
  PROVE  Idles /\ Moves(c)
BY FinishMoves DEF TurnAway, Idles

\* The pc changes, and what else is said of the call stays true.
LEMMA GotoMoves ==
  ASSUME CallsOK, NEW c \in Calls,
         NEW s \in {"hit", "login", "permit", "create", "target", "change", "audit", "mint",
                    "overrides"},
         Goto(c, s)
  PROVE  /\ \E r \in CallRow : calls' = [calls EXCEPT ![c] = r]
         /\ calls'[c] = [calls[c] EXCEPT !.pc = s] /\ calls[c] \in CallRow
<1> DEFINE r == [calls[c] EXCEPT !.pc = s]
<1>1. calls[c] \in CallRow  BY DEF CallsOK
<1>2. calls' = [calls EXCEPT ![c] = r] /\ calls'[c] = r
  BY DEF Goto, CallsOK
<1>3. r \in CallRow  BY <1>1 DEF CallRow
<1> HIDE DEF r
<1>4. \E q \in CallRow : calls' = [calls EXCEPT ![c] = q]  BY <1>2, <1>3
<1> QED  BY <1>1, <1>2, <1>4 DEF r

LEMMA BeginMoves ==
  ASSUME AccessInv, Watch, NEW c \in Calls, Begins(c)
  PROVE  Idles /\ Moves(c)
<1>1. PICK op \in Ops \cup {"run"} : \E cred \in CredentialsFor(op), key \in KeysNamed(op),
        target \in Targets(op) : Begin(c, op, cred, key, target)
  BY DEF Begins, OpsOf
<1>2. PICK cred \in CredentialsFor(op), key \in KeysNamed(op), target \in Targets(op) :
        Begin(c, op, cred, key, target)
  BY <1>1
<1> DEFINE pc == CASE op = "login" -> "ask" [] cred = LegacyKey -> "legacy" [] OTHER -> "key"
           r == [Idle EXCEPT !.pc = pc, !.op = op, !.cred = cred, !.key = key, !.target = target]
<1>3. Idles /\ calls' = [calls EXCEPT ![c] = r]
  BY <1>2 DEF Begin, Idles
<1>4. /\ cred \in Credentials /\ key \in Keys \cup {LegacyKey} /\ target \in Users \cup {NoUser}
      /\ op = "login" => cred = LegacyKey
      /\ op = "revoke_key" => key \in Keys
      /\ op # "run" => target \in Users
  BY DEF CredentialsFor, KeysNamed, Targets, Credentials
<1>5. pc \in {"ask", "legacy", "key"} /\ (pc = "ask" => op = "login")
      /\ (pc = "legacy" => cred = LegacyKey) /\ (pc = "key" => cred \in Keys)
  BY <1>4 DEF Credentials
<1>6. /\ r \in CallRow /\ r.pc = pc /\ r.op = op /\ r.cred = cred /\ r.key = key
      /\ r.target = target
  BY <1>4, <1>5, RanksAreRoles DEF CallRow, Idle
<1>7. calls'[c] = r  BY <1>3 DEF AccessInv, CallsOK
<1> HIDE DEF r, pc
<1>8. CallOK(c)'
  BY <1>4, <1>5, <1>6, <1>7, AccessAssumption DEF CallOK, Ended, PastKey, PastUser
<1> QED  BY <1>3, <1>6, <1>8 DEF Moves

LEMMA ReadKeyMoves ==
  ASSUME AccessInv, Watch, NEW c \in Calls, ReadKey(c)
  PROVE  Idles /\ Moves(c)
<1> DEFINE k == calls[c].cred  r == [calls[c] EXCEPT !.pc = "user", !.user = keys[k].user]
<1>1. CASE TurnAway(c)  BY <1>1, TurnAwayMoves DEF AccessInv
<1>2. CASE KeyIsGood(k) /\ calls' = [calls EXCEPT ![c] = r] /\ Idles /\ At(c, "key")
  <2>1. calls[c] \in CallRow /\ CallOK(c) /\ calls[c].pc = "key" /\ keys' = keys
    BY <1>2 DEF AccessInv, CallsOK, At, Idles, rows
  <2>2. calls'[c] = r  BY <1>2 DEF AccessInv, CallsOK
  <2>3. CASE k \in Keys
    <3>1. keys[k].status = "active" /\ ~keys[k].expired /\ keys[k].user \in Users
      BY <1>2, <2>3 DEF KeyIsGood, AccessInv, RowsOK
    <3>2. r \in CallRow  BY <2>1, <3>1 DEF CallRow
    <3>3. "key" \in seen'[c]
      BY <2>1, <2>2, <2>3, <3>1, Watched DEF AccessInv, Ended, CallRow
    <3>4. CallOK(c)'
      BY <2>1, <2>2, <2>3, <3>1, <3>3 DEF CallOK, CallRow, Ended, PastKey, PastUser
    <3> QED  BY <1>2, <3>2, <3>4 DEF Moves
  <2>4. CASE k \notin Keys
    <3> QED  BY <1>2, <2>1, <2>4 DEF KeyIsGood, CallRow, Credentials, CallOK
  <2> QED  BY <2>3, <2>4
<1> QED  BY <1>1, <1>2 DEF ReadKey, Idles

LEMMA ReadUserMoves ==
  ASSUME AccessInv, Watch, NEW c \in Calls, ReadUser(c)
  PROVE  Idles /\ Moves(c)
<1>1. CASE TurnAway(c)  BY <1>1, TurnAwayMoves DEF AccessInv
<1>2. CASE UserIsGood(calls[c].user) /\ Goto(c, "overrides") /\ Idles /\ At(c, "user")
  <2>1. calls[c] \in CallRow /\ CallOK(c) /\ calls[c].pc = "user" /\ keys' = keys /\ users' = users
    BY <1>2 DEF AccessInv, CallsOK, At, Idles, rows
  <2>2. /\ \E r \in CallRow : calls' = [calls EXCEPT ![c] = r]
        /\ calls'[c] = [calls[c] EXCEPT !.pc = "overrides"]
    BY <1>2, GotoMoves DEF AccessInv
  <2>3. calls[c].cred \in Keys => "user" \in seen'[c]
    BY <1>2, <2>1, <2>2, Watched DEF AccessInv, CallOK, CallRow, Ended, UserIsGood
  <2>4. seen[c] \subseteq seen'[c]  BY Watched DEF AccessInv
  <2>5. CallOK(c)'
    BY <2>1, <2>2, <2>3, <2>4 DEF CallOK, CallRow, Ended, PastKey, PastUser
  <2> QED  BY <1>2, <2>2, <2>5 DEF Moves
<1> QED  BY <1>1, <1>2 DEF ReadUser, Idles

LEMMA PermissionsTyped ==
  ASSUME NEW u \in Users
  PROVE  effectivePermissions(u) \in SUBSET ALL_PERMISSIONS /\ RoleOf[u] \in DOMAIN Rank
<1>1. ROLE_PERMISSIONS[RoleOf[u]] \subseteq ALL_PERMISSIONS /\ RoleOf[u] \in DOMAIN Rank
  BY AccessAssumption, RanksAreRoles DEF ROLE_PERMISSIONS, ALL_PERMISSIONS
<1> QED  BY <1>1 DEF effectivePermissions, Overridden

\* ReadOverrides and CheckLegacy: the call knows its caller's role and permissions.
LEMMA AuthenticatedMoves ==
  ASSUME AccessInv, Watch, NEW c \in Calls, NEW role \in DOMAIN Rank,
         NEW ps \in SUBSET ALL_PERMISSIONS, calls[c].pc \in {"overrides", "legacy"},
         calls' = [calls EXCEPT ![c].pc = AfterAuth(calls[c].op), ![c].role = role,
                                ![c].permissions = ps],
         Idles
  PROVE  Moves(c)
<1> DEFINE r == [calls[c] EXCEPT !.pc = AfterAuth(calls[c].op), !.role = role,
                                 !.permissions = ps]
<1>1. calls[c] \in CallRow /\ CallOK(c) /\ seen[c] \subseteq seen'[c]
  BY Watched DEF AccessInv, CallsOK
<1>2. calls' = [calls EXCEPT ![c] = r] /\ calls'[c] = r
  BY DEF AccessInv, CallsOK
<1>3. AfterAuth(calls[c].op) \in {"ask", "permit"}  BY DEF AfterAuth
<1>4. /\ r \in CallRow /\ r.pc \in {"ask", "permit"} /\ r.op = calls[c].op
      /\ r.cred = calls[c].cred /\ r.target = calls[c].target /\ r.key = calls[c].key
  BY <1>1, <1>3 DEF CallRow
<1> HIDE DEF r
<1>5. CallOK(c)'
  BY <1>1, <1>2, <1>4, AccessAssumption DEF CallOK, Ended, PastKey, PastUser
<1> QED  BY <1>2, <1>4, <1>5 DEF Moves

LEMMA ReadOverridesMoves ==
  ASSUME AccessInv, Watch, NEW c \in Calls, ReadOverrides(c)
  PROVE  Idles /\ Moves(c)
<1>1. calls[c].pc = "overrides" /\ calls[c].user \in Users
  BY DEF ReadOverrides, At, AccessInv, CallsOK, CallOK
<1> QED  BY <1>1, PermissionsTyped, AuthenticatedMoves DEF ReadOverrides, Idles

LEMMA CheckLegacyMoves ==
  ASSUME AccessInv, Watch, NEW c \in Calls, CheckLegacy(c)
  PROVE  Idles /\ Moves(c)
<1>1. CASE TurnAway(c)  BY <1>1, TurnAwayMoves DEF AccessInv
<1>2. CASE ~TurnAway(c)
  <2>1. "owner" \in DOMAIN Rank  BY RanksAreRoles
  <2> QED  BY <1>2, <2>1, AuthenticatedMoves DEF CheckLegacy, Idles, At
<1> QED  BY <1>1, <1>2

\* The steps that only move the call on.
LEMMA GoesOn ==
  ASSUME AccessInv, Watch, NEW c \in Calls, Idles,
         NEW s \in {"hit", "login", "permit", "create", "target", "change", "mint"},
         Goto(c, s), calls[c].pc \in {"ask", "hit", "permit", "target", "login"},
         s \in {"login", "mint"} => calls[c].op = "login",
         s \in {"create", "target"} => calls[c].op # "run",
         s = "change" => calls[c].pc = "target",
         s \in {"change", "mint"} => users[calls[c].target].status # "absent",
         s = "change" /\ calls[c].op = "revoke_key" => keys[calls[c].key].status # "none"
  PROVE  Moves(c)
<1>1. calls[c] \in CallRow /\ CallOK(c) /\ seen[c] \subseteq seen'[c]
  BY Watched DEF AccessInv, CallsOK
<1>2. /\ \E r \in CallRow : calls' = [calls EXCEPT ![c] = r]
      /\ calls'[c] = [calls[c] EXCEPT !.pc = s]
  BY GotoMoves DEF AccessInv
<1>3. users' = users /\ keys' = keys  BY DEF Idles, rows
<1>4. CASE calls[c].cred \in Keys
  <2>1. calls[c].pc # "login"  BY <1>1, <1>4, AccessAssumption DEF CallOK
  <2> QED
    BY <1>1, <1>2, <1>3, <1>4, <2>1, AccessAssumption
    DEF Moves, CallOK, CallRow, Ended, PastKey, PastUser
<1>5. CASE calls[c].cred \notin Keys
  BY <1>1, <1>2, <1>3, <1>5 DEF Moves, CallOK, CallRow, Ended, PastKey, PastUser
<1> QED  BY <1>4, <1>5

LEMMA LimitMoves ==
  ASSUME AccessInv, Watch, NEW c \in Calls, AskLimit(c) \/ AnswerLimit(c)
  PROVE  Idles /\ Moves(c)
<1>1. CallsOK  BY DEF AccessInv
<1>2. CASE AskLimit(c)
  BY <1>2, GoesOn DEF AskLimit, Idles, At
<1>3. CASE AnswerLimit(c)
  <2>1. Idles /\ calls[c].pc = "hit"  BY <1>3 DEF AnswerLimit, Idles, At
  <2>2. CASE Finish(c, "refused")  BY <1>1, <2>1, <2>2, FinishMoves
  <2>3. CASE Goto(c, "login") /\ calls[c].op = "login"  BY <2>1, <2>3, GoesOn
  <2>4. CASE Goto(c, "permit")  BY <2>1, <2>4, GoesOn
  <2> QED  BY <1>3, <2>2, <2>3, <2>4 DEF AnswerLimit, AfterLimit
<1> QED  BY <1>2, <1>3

LEMMA CheckPermissionMoves ==
  ASSUME AccessInv, Watch, NEW c \in Calls, CheckPermission(c)
  PROVE  Idles /\ Moves(c)
<1>1. CallsOK /\ calls[c].pc = "permit"  BY DEF AccessInv, CheckPermission, At
<1>2. CASE TurnAway(c)  BY <1>1, <1>2, TurnAwayMoves
<1>3. CASE ~TurnAway(c)
  <2>1. Idles  BY <1>3 DEF CheckPermission, Idles
  <2>2. CASE Finish(c, "done")  BY <1>1, <2>1, <2>2, FinishMoves
  <2>3. CASE calls[c].op # "run" /\ (Goto(c, "create") \/ Goto(c, "target"))
    BY <1>1, <2>1, <2>3, GoesOn
  <2> QED  BY <1>3, <2>2, <2>3 DEF CheckPermission
<1> QED  BY <1>2, <1>3

LEMMA ReadMoves ==
  ASSUME AccessInv, Watch, NEW c \in Calls, ReadTarget(c) \/ ReadLogin(c)
  PROVE  Idles /\ Moves(c)
<1>1. CASE TurnAway(c)  BY <1>1, TurnAwayMoves DEF AccessInv
<1>2. CASE ~TurnAway(c) /\ ReadTarget(c)
  <2>1. /\ calls[c].pc = "target" /\ Exists(c) /\ MayAct(c) /\ Goto(c, "change") /\ Idles
    BY <1>2 DEF ReadTarget, At, Idles
  <2>2. calls[c].op = "revoke_key" => keys[calls[c].key].status # "none"
    <3>1. calls[c].target \in Users /\ (calls[c].op = "revoke_key" => calls[c].key \in Keys)
      BY <2>1 DEF AccessInv, CallsOK, CallOK, Ended
    <3> QED  BY <2>1, <3>1, AccessAssumption DEF MayAct, AccessInv, RowsOK
  <2> QED  BY <2>1, <2>2, GoesOn DEF Exists
<1>3. CASE ~TurnAway(c) /\ ReadLogin(c)
  <2>1. calls[c].op = "login" /\ calls[c].pc = "login"
    BY <1>3 DEF ReadLogin, At, AccessInv, CallsOK, CallOK
  <2> QED  BY <1>3, <2>1, GoesOn DEF ReadLogin, UserIsGood, Idles
<1> QED  BY <1>1, <1>2, <1>3

LEMMA CrashMoves ==
  ASSUME AccessInv, Watch, NEW c \in Calls, Crash(c)
  PROVE  Idles /\ Moves(c)
BY FinishMoves DEF AccessInv, Crash, Idles

-----------------------------------------------------------------------------
(* The steps that change a row.                                            *)

\* A call moves to a state in which nothing but its change is claimed.
LEMMA AuditMoves ==
  ASSUME CallsOK, Watch, NEW c \in Calls, Goto(c, "audit"), c \in changed',
         calls[c].pc \in {"create", "change", "mint"}
  PROVE  Moves(c)
<1>1. calls[c] \in CallRow /\ CallOK(c) /\ seen[c] \subseteq seen'[c]
  BY Watched DEF CallsOK
<1>2. /\ \E r \in CallRow : calls' = [calls EXCEPT ![c] = r]
      /\ calls'[c] = [calls[c] EXCEPT !.pc = "audit"]
  BY GotoMoves
<1>3. calls[c].op # "run" /\ (calls[c].cred \in Keys => calls[c].pc # "mint")
  BY <1>1, AccessAssumption DEF CallOK
<1>4. CallOK(c)'
  BY <1>1, <1>2, <1>3 DEF CallOK, CallRow, Ended, PastKey, PastUser
<1> QED  BY <1>2, <1>4 DEF Moves

LEMMA KeyMade ==
  ASSUME RowsOK, NEW u \in Users, users[u].status # "absent", NEW expiring \in BOOLEAN,
         createApiKey(u, expiring), users' = users, changed \subseteq changed'
  PROVE  RowsOK' /\ Grows
<1>1. PICK k \in Keys : keys[k].status = "none" /\ keys' = [keys EXCEPT ![k] = KeyRow(u, expiring)]
  BY DEF createApiKey
<1>2. KeyRow(u, expiring) \in KeyRows /\ KeyRow(u, expiring).status = "active"
      /\ KeyRow(u, expiring).user = u
  BY DEF KeyRow, KeyRows
<1> QED  BY <1>1, <1>2 DEF RowsOK, Grows

LEMMA UserChanged ==
  ASSUME RowsOK, NEW u \in Users, NEW r \in UserRows, r.status # "absent",
         users' = [users EXCEPT ![u] = r], keys' = keys, changed \subseteq changed'
  PROVE  RowsOK' /\ Grows
BY DEF RowsOK, Grows

LEMMA KeyChanged ==
  ASSUME RowsOK, NEW k \in Keys, NEW r \in KeyRows, keys[k].status # "none",
         r.status # "none", r.user = keys[k].user,
         users' = users, keys' = [keys EXCEPT ![k] = r], changed \subseteq changed'
  PROVE  RowsOK' /\ Grows
BY DEF RowsOK, Grows

LEMMA ApplyGrows ==
  ASSUME RowsOK, CallsOK, NEW c \in Calls, calls[c].pc = "change", Apply(c),
         changed \subseteq changed'
  PROVE  RowsOK' /\ Grows
<1> DEFINE t == calls[c].target  k == calls[c].key
<1>1. t \in Users /\ users[t].status # "absent" /\ users[t] \in UserRows
  BY DEF CallsOK, CallOK, Ended, RowsOK
<1>2. CASE calls[c].op = "create_key" /\ createApiKey(t, FALSE) /\ UNCHANGED users
  BY <1>1, <1>2, KeyMade
<1>3. CASE calls[c].op = "revoke_key" /\ keys' = [keys EXCEPT ![k].status = "revoked"]
           /\ UNCHANGED users
  <2>1. k \in Keys /\ keys[k].status # "none" /\ keys[k] \in KeyRows
    BY <1>3 DEF CallsOK, CallOK, Ended, RowsOK
  <2>2. /\ [keys[k] EXCEPT !.status = "revoked"] \in KeyRows
        /\ [keys[k] EXCEPT !.status = "revoked"].status = "revoked"
        /\ [keys[k] EXCEPT !.status = "revoked"].user = keys[k].user
        /\ keys' = [keys EXCEPT ![k] = [keys[k] EXCEPT !.status = "revoked"]]
    BY <1>3, <2>1 DEF KeyRows, RowsOK
  <2> QED  BY <1>3, <2>1, <2>2, KeyChanged
<1>4. ASSUME NEW st \in {"active", "disabled"}, users' = [users EXCEPT ![t].status = st],
             UNCHANGED keys
      PROVE  RowsOK' /\ Grows
  <2>1. /\ [users[t] EXCEPT !.status = st] \in UserRows
        /\ [users[t] EXCEPT !.status = st].status # "absent"
        /\ users' = [users EXCEPT ![t] = [users[t] EXCEPT !.status = st]]
    BY <1>1, <1>4 DEF UserRows, RowsOK
  <2> QED  BY <1>1, <1>4, <2>1, UserChanged
<1>5. CASE users' = [users EXCEPT ![t].password = TRUE] /\ UNCHANGED keys
  <2>1. /\ [users[t] EXCEPT !.password = TRUE] \in UserRows
        /\ [users[t] EXCEPT !.password = TRUE].status # "absent"
        /\ users' = [users EXCEPT ![t] = [users[t] EXCEPT !.password = TRUE]]
    BY <1>1, <1>5 DEF UserRows, RowsOK
  <2> QED  BY <1>1, <1>5, <2>1, UserChanged
<1> QED  BY <1>2, <1>3, <1>4, <1>5 DEF Apply

\* What is to be shown of a step that changes a row.
LEMMA RowStepKeeps ==
  ASSUME AccessInv, Watch, NEW c \in Calls, RowsOK', Grows, Moves(c),
         audit' = audit \/ (calls[c].pc = "audit" /\ audit' \subseteq audit \cup {<<calls[c].op, c>>})
  PROVE  AccessInv'
<1>1. CallsOK'  BY MoveKeeps DEF AccessInv
<1>2. AuditIsTrue'
  <2>1. calls[c].pc = "audit" => c \in changed  BY DEF AccessInv, CallsOK, CallOK
  <2> QED  BY <2>1 DEF AccessInv, AuditIsTrue, Grows
<1> QED  BY <1>1, <1>2 DEF AccessInv

LEMMA CreateUserKeeps ==
  ASSUME AccessInv, Watch, NEW c \in Calls, CreateUser(c)
  PROVE  AccessInv'
<1> DEFINE u == calls[c].target
<1>1. CASE TurnAway(c)  BY <1>1, TurnAwayMoves, IdleKeeps DEF AccessInv
<1>2. CASE ~TurnAway(c)
  <2>1. /\ users' = [users EXCEPT ![u].status = "active"] /\ keys' = keys /\ audit' = audit
        /\ changed' = changed \cup {c} /\ Goto(c, "audit") /\ calls[c].pc = "create"
    BY <1>2 DEF CreateUser, At
  <2>2. u \in Users /\ users[u] \in UserRows
    BY <2>1 DEF AccessInv, CallsOK, CallOK, Ended, RowsOK
  <2>3. /\ [users[u] EXCEPT !.status = "active"] \in UserRows
        /\ [users[u] EXCEPT !.status = "active"].status # "absent"
        /\ users' = [users EXCEPT ![u] = [users[u] EXCEPT !.status = "active"]]
    BY <2>1, <2>2 DEF UserRows, AccessInv, RowsOK
  <2>4. RowsOK' /\ Grows  BY <2>1, <2>2, <2>3, UserChanged DEF AccessInv
  <2>5. Moves(c)  BY <2>1, AuditMoves DEF AccessInv
  <2> QED  BY <2>1, <2>4, <2>5, RowStepKeeps
<1> QED  BY <1>1, <1>2

LEMMA ChangeKeeps ==
  ASSUME AccessInv, Watch, NEW c \in Calls, Change(c)
  PROVE  AccessInv'
<1>1. calls[c].pc = "change" /\ audit' = audit  BY DEF Change, At, AuditsLater
<1>2. CASE Apply(c) /\ changed' = changed \cup {c} /\ Goto(c, "audit")
  <2>1. RowsOK' /\ Grows  BY <1>1, <1>2, ApplyGrows DEF AccessInv
  <2>2. Moves(c)  BY <1>1, <1>2, AuditMoves DEF AccessInv
  <2> QED  BY <1>1, <2>1, <2>2, RowStepKeeps
<1>3. CASE UNCHANGED <<rows, changed>> /\ Finish(c, "failed")
  BY <1>1, <1>3, FinishMoves, IdleKeeps DEF AccessInv, Idles
<1> QED  BY <1>2, <1>3 DEF Change

LEMMA RecordChangeKeeps ==
  ASSUME AccessInv, Watch, NEW c \in Calls, RecordChange(c)
  PROVE  AccessInv'
<1>1. /\ calls[c].pc = "audit" /\ UNCHANGED <<rows, changed>>
      /\ audit' \subseteq audit \cup {<<calls[c].op, c>>} /\ Finish(c, "done")
  BY DEF RecordChange, At, recordAudit
<1>2. RowsOK' /\ Grows  BY <1>1 DEF AccessInv, RowsOK, Grows, rows
<1>3. Moves(c)  BY <1>1, FinishMoves DEF AccessInv
<1> QED  BY <1>1, <1>2, <1>3, RowStepKeeps

LEMMA MintKeeps ==
  ASSUME AccessInv, Watch, NEW c \in Calls, Mint(c)
  PROVE  AccessInv'
<1>1. /\ calls[c].pc = "mint" /\ createApiKey(calls[c].target, TRUE) /\ users' = users
      /\ changed' = changed \cup {c} /\ Goto(c, "audit") /\ audit' = audit
  BY DEF Mint, At
<1>2. calls[c].target \in Users /\ users[calls[c].target].status # "absent"
  BY <1>1 DEF AccessInv, CallsOK, CallOK, Ended
<1>3. RowsOK' /\ Grows  BY <1>1, <1>2, KeyMade DEF AccessInv
<1>4. Moves(c)  BY <1>1, AuditMoves DEF AccessInv
<1> QED  BY <1>1, <1>3, <1>4, RowStepKeeps

\* Without a call moving: a key expires, or time passes.
LEMMA ExpireKeeps ==
  ASSUME AccessInv, Watch, NEW k \in Keys, Expire(k)
  PROVE  AccessInv'
<1>1. /\ keys' = [keys EXCEPT ![k].expired = TRUE]
      /\ users' = users /\ audit' = audit /\ calls' = calls /\ changed' = changed
  BY DEF Expire
<1>2. keys'[k] = [keys[k] EXCEPT !.expired = TRUE] /\ keys[k] \in KeyRows
      /\ [keys[k] EXCEPT !.expired = TRUE] \in KeyRows
  BY <1>1 DEF AccessInv, RowsOK, KeyRows
<1>3. RowsOK' /\ Grows  BY <1>1, <1>2 DEF AccessInv, RowsOK, Grows, KeyRows
<1>4. CallsOK'
  BY <1>1, <1>3, Still, Watched DEF AccessInv, CallsOK
<1> QED  BY <1>1, <1>3, <1>4 DEF AccessInv, AuditIsTrue

LEMMA PassKeeps ==
  ASSUME AccessInv, Watch, Pass
  PROVE  AccessInv'
<1>1. UNCHANGED <<rows, audit, calls, changed>>  BY DEF Pass
<1>2. RowsOK' /\ Grows /\ AuditIsTrue'
  BY <1>1 DEF AccessInv, RowsOK, Grows, rows, AuditIsTrue
<1>3. CallsOK'  BY <1>1, <1>2, Still, Watched DEF AccessInv, CallsOK
<1> QED  BY <1>2, <1>3 DEF AccessInv

-----------------------------------------------------------------------------
(* The theorems.                                                           *)

LEMMA AccessInit == DeploymentInit => AccessInv
<1> SUFFICES ASSUME Init PROVE AccessInv  BY DEF DeploymentInit
<1>1. /\ users = [u \in Users |-> [status |-> IF u \in InitialUsers THEN "active" ELSE "absent",
                                   password |-> u \in InitialUsers]]
      /\ keys = [k \in Keys |-> IF \E u \in InitialUsers : KeyOf[u] = k
                                THEN KeyRow(CHOOSE u \in InitialUsers : KeyOf[u] = k, FALSE)
                                ELSE NoKeyRow]
      /\ audit = {} /\ calls = [c \in Calls |-> Idle] /\ seen = [c \in Calls |-> {}]
  BY DEF Init
<1>2. users \in [Users -> UserRows]  BY <1>1 DEF UserRows
<1>3. ASSUME NEW k \in Keys
      PROVE  /\ keys[k] \in KeyRows
             /\ keys[k].status # "none" =>
                  keys[k].user \in Users /\ users[keys[k].user].status # "absent"
             /\ keys[k].status = "none" => keys[k].user = NoUser
  <2>1. CASE \E u \in InitialUsers : KeyOf[u] = k
    <3>1. PICK u \in InitialUsers : keys[k] = KeyRow(u, FALSE)
      BY <1>1, <2>1
    <3>2. u \in Users  BY AccessAssumption
    <3>3. /\ keys[k] \in KeyRows /\ keys[k].user = u
          /\ keys[k].status = "active"
      BY <3>1, <3>2 DEF KeyRow, KeyRows
    <3>4. users[u].status = "active"
      BY <1>1, <3>1, <3>2
    <3> QED  BY <3>2, <3>3, <3>4
  <2>2. CASE ~ \E u \in InitialUsers : KeyOf[u] = k
    BY <1>1, <2>2 DEF NoKeyRow, KeyRows
  <2> QED  BY <2>1, <2>2
<1>4. RowsOK
  <2>1. keys = [k \in Keys |-> keys[k]]  BY <1>1
  <2> QED  BY <1>2, <1>3, <2>1 DEF RowsOK
<1>5. Idle \in CallRow
  BY RanksAreRoles DEF Idle, CallRow, Credentials
<1>6. CallsOK
  BY <1>1, <1>5 DEF CallsOK, CallOK, Idle, Ended, PastKey, PastUser
<1> QED  BY <1>1, <1>4, <1>6 DEF AccessInv, AuditIsTrue

LEMMA AccessStep ==
  AccessInv /\ [DeploymentNext]_<<vars, deploymentVars>> => AccessInv'
<1> SUFFICES ASSUME AccessInv, [DeploymentNext]_<<vars, deploymentVars>> PROVE AccessInv'
  OBVIOUS
<1>1. CASE UNCHANGED vars
  BY <1>1 DEF vars, rows, AccessInv, RowsOK, CallsOK, CallOK, AuditIsTrue
<1>2. ASSUME Watch, NEW c \in Calls, Begins(c) \/ Step(c) PROVE AccessInv'
  <2>1. CASE Begins(c)  BY <1>2, <2>1, BeginMoves, IdleKeeps
  <2>2. CASE ReadKey(c) \/ ReadUser(c) \/ ReadOverrides(c) \/ CheckLegacy(c)
    BY <1>2, <2>2, ReadKeyMoves, ReadUserMoves, ReadOverridesMoves, CheckLegacyMoves, IdleKeeps
  <2>3. CASE AskLimit(c) \/ AnswerLimit(c) \/ CheckPermission(c)
    BY <1>2, <2>3, LimitMoves, CheckPermissionMoves, IdleKeeps
  <2>4. CASE ReadTarget(c) \/ ReadLogin(c) \/ Crash(c)
    BY <1>2, <2>4, ReadMoves, CrashMoves, IdleKeeps
  <2>5. CASE CreateUser(c) \/ Change(c) \/ RecordChange(c) \/ Mint(c)
    BY <1>2, <2>5, CreateUserKeeps, ChangeKeeps, RecordChangeKeeps, MintKeeps
  <2> QED  BY <1>2, <2>1, <2>2, <2>3, <2>4, <2>5 DEF Step
<1>3. ASSUME Watch, NEW k \in Keys, Expire(k) PROVE AccessInv'
  BY <1>3, ExpireKeeps
<1>4. CASE Watch /\ Pass  BY <1>4, PassKeeps
<1> QED
  BY <1>1, <1>2, <1>3, <1>4 DEF DeploymentNext, GoLive, ServeRequests, Next

\* Rows, calls and what they claim keep their types; every key belongs to a user.
LEMMA AccessInvariant == DeploymentSpec => []AccessInv
BY AccessInit, AccessStep, PTL DEF DeploymentSpec

\* Whatever a request does, the limiter makes a step of its own or none.
LEMMA LimiterSteps ==
  AccessInv /\ [DeploymentNext]_<<vars, deploymentVars>> => [LimiterNext]_limiterVars
<1> SUFFICES ASSUME AccessInv, [DeploymentNext]_<<vars, deploymentVars>>, ~ UNCHANGED limiterVars
             PROVE  LimiterNext
  OBVIOUS
<1>1. CASE Pass  BY <1>1 DEF Pass, LimiterNext
<1>2. ASSUME NEW c \in Calls, Begins(c) \/ Step(c) PROVE LimiterNext
  <2>1. AskLimit(c) \/ AnswerLimit(c)
    BY <1>2 DEF Begins, Begin, Step, ReadKey, ReadUser, ReadOverrides, CheckLegacy,
       CheckPermission, CreateUser, ReadTarget, Change, RecordChange, ReadLogin, Mint, Crash,
       TurnAway
  <2>2. CASE AskLimit(c)
    <3>1. Identifier(c) \in Identifiers
      BY AccessAssumption DEF AccessInv, CallsOK, CallRow, Credentials, Identifier
    <3> QED  BY <2>2, <3>1 DEF AskLimit, LimiterNext, Calls
  <2>3. CASE AnswerLimit(c)  BY <2>3 DEF AnswerLimit, LimiterNext
  <2> QED  BY <2>1, <2>2, <2>3
<1>3. ASSUME NEW k \in Keys, Expire(k) PROVE FALSE  BY <1>3 DEF Expire
<1>4. ~ UNCHANGED vars  BY DEF vars
<1> QED
  BY <1>1, <1>2, <1>3, <1>4 DEF DeploymentNext, GoLive, ServeRequests, Next

\* The limiter inside the guard keeps what the limiter alone promises.
THEOREM ImplementsLimiter == DeploymentSpec => LimiterSpec
<1>1. DeploymentInit => LimiterInit  BY DEF DeploymentInit, Init
<1> QED  BY <1>1, AccessInvariant, LimiterSteps, PTL DEF DeploymentSpec, LimiterSpec

\* The requests of a deployment are limited, whatever becomes of them later.
THEOREM DeploymentLimits == DeploymentSpec => []NeverOverLimit
BY ImplementsLimiter, Limits, PTL

\* The rows, the requests and the limiter keep their types; every key that
\* exists belongs to a user that exists.
THEOREM DeploymentTypeCorrect == DeploymentSpec => []TypeOK
<1>1. AccessInv /\ LimiterTypeOK => TypeOK
  BY AccessAssumption DEF AccessInv, RowsOK, CallsOK, UserRows, KeyRows, TypeOK
<1> QED  BY <1>1, AccessInvariant, ImplementsLimiter, LimiterTypeCorrect, PTL

\* No audit row reports a change that was not written.
THEOREM AuditTells == DeploymentSpec => []AuditIsTrue
<1>1. AccessInv => AuditIsTrue  BY DEF AccessInv
<1> QED  BY <1>1, AccessInvariant, PTL

\* A request served with a key found the key in force, and its user active, at
\* moments after it came in, although it reads the two rows one after the other.
THEOREM RevocationHolds == DeploymentSpec => []NoServiceAfterRevocation
<1>1. AccessInv => NoServiceAfterRevocation
  <2> SUFFICES ASSUME AccessInv, NEW c \in Calls, Served(c), calls[c].cred \in Keys
               PROVE  seen[c] = {"key", "user"}
    BY DEF NoServiceAfterRevocation
  <2>1. CallOK(c) /\ seen[c] \in SUBSET {"key", "user"}  BY DEF AccessInv, CallsOK
  <2> QED  BY <2>1 DEF Served, CallOK, PastKey, PastUser
<1> QED  BY <1>1, AccessInvariant, PTL

=============================================================================
