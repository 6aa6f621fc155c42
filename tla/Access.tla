------------------------------- MODULE Access -------------------------------
(***************************************************************************)
(* Requests of users and their keys: guardRequest (authentication, rate    *)
(* limit, permission) before the handlers of the user routes, and the      *)
(* login.  Every read of a row and every write is a step of its own, so a  *)
(* key may be revoked or a user disabled between the reads of a request.   *)
(*                                                                         *)
(* Each call makes one request.  The rate limiter is RateLimiter, whose    *)
(* requests are the calls.                                                 *)
(***************************************************************************)
EXTENDS RateLimiter

CONSTANTS
  Users, Keys,     \* ids ever used
  RoleOf,          \* the role of a user, which no operation changes
  InitialUsers,    \* users that exist at first, with a key each
  KeyOf,           \* the key such a user has at first
  Overrides,       \* rows of ai_user_permissions_override: <<user, permission, effect>>
  LegacyAllowed,   \* AI_ORCHESTRATOR_ALLOW_LEGACY_ADMIN_KEY
  Ops,             \* the operations called
  OnlyRun,         \* requests that are nothing but runs
  NoUser, LegacyKey

ASSUME AccessAssumption ==
  /\ Keys \cup {LegacyKey, "ip"} \subseteq Identifiers
  /\ InitialUsers \subseteq Users /\ KeyOf \in [InitialUsers -> Keys]
  /\ RoleOf \in [Users -> {"owner", "admin", "developer", "reviewer", "viewer"}]
  /\ LegacyKey \notin Keys /\ NoUser \notin Users
  /\ OnlyRun \subseteq Requests

VARIABLES
  users,     \* ai_users: status, and whether a password is set
  keys,      \* ai_api_keys: status, user_id, whether it expires, has expired
  audit,     \* ai_audit_logs: <<event, call>>
  calls,     \* the requests
  changed,   \* history: calls whose change was written
  seen       \* history: what was in force since the call began

rows == <<users, keys>>
vars == <<limiterVars, rows, audit, calls, changed, seen>>

Calls == Requests
Credentials == Keys \cup {LegacyKey}

Rank == [owner |-> 100, admin |-> 80, developer |-> 50, reviewer |-> 30, viewer |-> 10]

ALL_PERMISSIONS == {"run", "users:manage", "apikey:manage"}
ROLE_PERMISSIONS ==
  [owner |-> ALL_PERMISSIONS, admin |-> ALL_PERMISSIONS, developer |-> {"run"},
   reviewer |-> {}, viewer |-> {}]

\* Base permissions and explicit allows, minus explicit denies.
Overridden(u, effect) == {p \in ALL_PERMISSIONS : <<u, p, effect>> \in Overrides}
effectivePermissions(u) ==
  (ROLE_PERMISSIONS[RoleOf[u]] \cup Overridden(u, "allow")) \ Overridden(u, "deny")

NoKeyRow == [status |-> "none", user |-> NoUser, expiring |-> FALSE, expired |-> FALSE]
KeyRow(u, expiring) == [status |-> "active", user |-> u, expiring |-> expiring, expired |-> FALSE]

Idle == [pc |-> "idle", op |-> "run", cred |-> LegacyKey, key |-> LegacyKey,
         target |-> NoUser, user |-> NoUser, role |-> "viewer", permissions |-> {}]

Init ==
  /\ LimiterInit
  /\ users = [u \in Users |-> [status |-> IF u \in InitialUsers THEN "active" ELSE "absent",
                               password |-> u \in InitialUsers]]
  /\ keys = [k \in Keys |-> IF \E u \in InitialUsers : KeyOf[u] = k
                            THEN KeyRow(CHOOSE u \in InitialUsers : KeyOf[u] = k, FALSE)
                            ELSE NoKeyRow]
  /\ audit = {} /\ changed = {}
  /\ calls = [c \in Calls |-> Idle]
  /\ seen = [c \in Calls |-> {}]

Goto(c, s) == calls' = [calls EXCEPT ![c].pc = s]
At(c, s) == calls[c].pc = s

\* The answer: of the request, only who made which remains.
Finish(c, s) ==
  calls' = [calls EXCEPT ![c] = [Idle EXCEPT !.pc = s, !.op = calls[c].op, !.cred = calls[c].cred]]

TurnAway(c) == Finish(c, "refused") /\ UNCHANGED <<limiterVars, rows, audit, changed>>

\* recordAudit never throws: the row is written or it is lost.
recordAudit(c, event) == audit' \in {audit, audit \cup {<<event, c>>}}

-----------------------------------------------------------------------------
(* A request comes in.                                                     *)

Begin(c, op, cred, key, target) ==
  /\ At(c, "idle")
  /\ calls' = [calls EXCEPT ![c] = [Idle EXCEPT
       !.pc = CASE op = "login" -> "ask" [] cred = LegacyKey -> "legacy" [] OTHER -> "key",
       !.op = op, !.cred = cred, !.key = key, !.target = target]]
  /\ UNCHANGED <<limiterVars, rows, audit, changed>>

Limited == {"run", "login"}
AfterAuth(op) == IF op \in Limited THEN "ask" ELSE "permit"

KeyIsGood(k) == keys[k].status = "active" /\ ~keys[k].expired
UserIsGoodIfKnown(u) == users[u].status # "absent"
UserIsGood(u) == users[u].status = "active"

ReadKey(c) ==
  LET k == calls[c].cred IN
  /\ At(c, "key")
  /\ \/ /\ KeyIsGood(k)
        /\ calls' = [calls EXCEPT ![c].pc = "user", ![c].user = keys[k].user]
        /\ UNCHANGED <<limiterVars, rows, audit, changed>>
     \/ ~KeyIsGood(k) /\ TurnAway(c)

ReadUser(c) ==
  /\ At(c, "user")
  /\ \/ UserIsGood(calls[c].user) /\ Goto(c, "overrides")
        /\ UNCHANGED <<limiterVars, rows, audit, changed>>
     \/ ~UserIsGood(calls[c].user) /\ TurnAway(c)

ReadOverrides(c) ==
  LET u == calls[c].user IN
  /\ At(c, "overrides")
  /\ calls' = [calls EXCEPT ![c].pc = AfterAuth(calls[c].op), ![c].role = RoleOf[u],
                            ![c].permissions = effectivePermissions(u)]
  /\ UNCHANGED <<limiterVars, rows, audit, changed>>

CheckLegacy(c) ==
  /\ At(c, "legacy")
  /\ \/ /\ LegacyAllowed
        /\ calls' = [calls EXCEPT ![c].pc = AfterAuth(calls[c].op), ![c].role = "owner",
                                  ![c].permissions = ALL_PERMISSIONS]
        /\ UNCHANGED <<limiterVars, rows, audit, changed>>
     \/ TurnAway(c)   \* not allowed, or the wrong key

\* The fingerprint of the key, or the address a login comes from.
Identifier(c) == IF calls[c].op = "login" THEN "ip" ELSE calls[c].cred

AfterLimit(c) == IF calls[c].op = "login" THEN "login" ELSE "permit"

AskLimit(c) ==
  /\ At(c, "ask") /\ Ask(c, Identifier(c)) /\ Goto(c, "hit")
  /\ UNCHANGED <<rows, audit, changed>>

AnswerLimit(c) ==
  /\ At(c, "hit")
  /\ \E h \in flying :
       /\ h.by = c
       /\ \/ Admit(h) /\ Goto(c, AfterLimit(c))
          \/ Refuse(h) /\ Finish(c, "refused")
          \* An unreachable store refuses a run and does not block a login.
          \/ FailStore(h) /\ IF calls[c].op = "login" THEN Goto(c, "login") ELSE Finish(c, "refused")
  /\ UNCHANGED <<rows, audit, changed>>

Required(op) == IF op = "run" THEN {"run"}
                ELSE IF op = "set_password" THEN {} ELSE {"users:manage"}

CheckPermission(c) ==
  /\ At(c, "permit")
  /\ \/ /\ Required(calls[c].op) \subseteq calls[c].permissions
        /\ CASE calls[c].op = "run" -> Finish(c, "done")
             [] calls[c].op = "create_user" -> Goto(c, "create")
             [] OTHER -> Goto(c, "target")
        /\ UNCHANGED <<limiterVars, rows, audit, changed>>
     \/ ~(Required(calls[c].op) \subseteq calls[c].permissions) /\ TurnAway(c)

-----------------------------------------------------------------------------
(* The handlers behind the guard.                                          *)

canManageUser(c, role) ==
  /\ "users:manage" \in calls[c].permissions
  /\ Rank[calls[c].role] >= Rank[role] /\ calls[c].role # "viewer"

\* createUser, unless the role is above the caller's.
CreateUser(c) ==
  LET u == calls[c].target IN
  /\ At(c, "create")
  /\ \/ /\ canManageUser(c, RoleOf[u]) /\ users[u].status = "absent"
        /\ users' = [users EXCEPT ![u].status = "active"]
        /\ changed' = changed \cup {c}
        /\ Goto(c, "audit")
        /\ UNCHANGED <<limiterVars, keys, audit>>
     \/ ~canManageUser(c, RoleOf[u]) /\ TurnAway(c)

MayAct(c) ==
  LET op == calls[c].op  t == calls[c].target IN
  IF op = "set_password"
  THEN t = calls[c].user \/ calls[c].role \in {"owner", "admin"}
  ELSE /\ canManageUser(c, RoleOf[t])
       /\ op \in {"create_key", "revoke_key"} => "apikey:manage" \in calls[c].permissions
       /\ op = "revoke_key" => keys[calls[c].key].user = t

ExistsUnchecked(c) == TRUE
Exists(c) == users[calls[c].target].status # "absent"

\* The target is read and the caller's right to act on it checked.
ReadTarget(c) ==
  /\ At(c, "target")
  /\ \/ /\ Exists(c) /\ MayAct(c)
        /\ Goto(c, "change")
        /\ UNCHANGED <<limiterVars, rows, audit, changed>>
     \/ ~(Exists(c) /\ MayAct(c)) /\ TurnAway(c)

\* A fresh key: its prefix and hash are those of no other.
createApiKey(u, expiring) ==
  \E k \in Keys : keys[k].status = "none" /\ keys' = [keys EXCEPT ![k] = KeyRow(u, expiring)]

Apply(c) ==
  LET op == calls[c].op  t == calls[c].target IN
  \/ op = "disable" /\ users' = [users EXCEPT ![t].status = "disabled"] /\ UNCHANGED keys
  \/ op = "enable" /\ users' = [users EXCEPT ![t].status = "active"] /\ UNCHANGED keys
  \/ op = "set_password" /\ users' = [users EXCEPT ![t].password = TRUE] /\ UNCHANGED keys
  \/ op = "create_key" /\ createApiKey(t, FALSE) /\ UNCHANGED users
  \/ op = "revoke_key" /\ keys' = [keys EXCEPT ![calls[c].key].status = "revoked"] /\ UNCHANGED users

AuditsFirst(c) == recordAudit(c, calls[c].op)
AuditsLater(c) == UNCHANGED audit

Change(c) ==
  /\ At(c, "change")
  /\ \/ Apply(c) /\ changed' = changed \cup {c} /\ Goto(c, "audit")
     \/ UNCHANGED <<rows, changed>> /\ Finish(c, "failed")   \* the write throws
  /\ AuditsLater(c)
  /\ UNCHANGED limiterVars

RecordChange(c) ==
  /\ At(c, "audit")
  /\ recordAudit(c, calls[c].op)
  /\ Finish(c, "done")
  /\ UNCHANGED <<limiterVars, rows, changed>>

\* loginWithPassword reads the user, then mints a key; the user may have been
\* disabled in between.
ReadLogin(c) ==
  /\ At(c, "login")
  /\ \/ /\ UserIsGood(calls[c].target) /\ users[calls[c].target].password
        /\ Goto(c, "mint")
        /\ UNCHANGED <<limiterVars, rows, audit, changed>>
     \/ TurnAway(c)   \* the password is wrong, or the user is

Mint(c) ==
  /\ At(c, "mint")
  /\ createApiKey(calls[c].target, TRUE)
  /\ changed' = changed \cup {c}
  /\ Goto(c, "audit")
  /\ UNCHANGED <<limiterVars, users, audit>>

\* The process ends, or the platform ends the request.
Ended == {"idle", "refused", "done", "failed"}
Crash(c) ==
  /\ calls[c].pc \notin Ended \cup {"hit"}
  /\ Finish(c, "failed")
  /\ UNCHANGED <<limiterVars, rows, audit, changed>>

\* A key of a login lives thirty days.
Expire(k) ==
  /\ keys[k].expiring /\ ~keys[k].expired
  /\ keys' = [keys EXCEPT ![k].expired = TRUE]
  /\ UNCHANGED <<limiterVars, users, audit, calls, changed>>

\* What the rows say of the call's key and user, once it has begun.
Watch ==
  seen' = [c \in Calls |->
    IF calls'[c].pc \in Ended THEN seen[c]
    ELSE seen[c]
      \cup (IF calls'[c].cred \in Keys
              /\ keys'[calls'[c].cred].status = "active" /\ ~keys'[calls'[c].cred].expired
            THEN {"key"} ELSE {})
      \cup (IF calls'[c].cred \in Keys /\ keys'[calls'[c].cred].user \in Users
              /\ users'[keys'[calls'[c].cred].user].status = "active"
            THEN {"user"} ELSE {})]

Step(c) ==
  \/ ReadKey(c) \/ ReadUser(c) \/ ReadOverrides(c) \/ CheckLegacy(c)
  \/ AskLimit(c) \/ AnswerLimit(c) \/ CheckPermission(c)
  \/ CreateUser(c) \/ ReadTarget(c) \/ Change(c) \/ RecordChange(c)
  \/ ReadLogin(c) \/ Mint(c) \/ Crash(c)

OpsOf(c) == IF c \in OnlyRun THEN {"run"} ELSE Ops

\* The parameters an operation has.
Targets(op) == IF op = "run" THEN {NoUser} ELSE Users
KeysNamed(op) == IF op = "revoke_key" THEN Keys ELSE {LegacyKey}
CredentialsFor(op) == IF op = "login" THEN {LegacyKey} ELSE Credentials

Begins(c) ==
  \E op \in OpsOf(c) : \E cred \in CredentialsFor(op), key \in KeysNamed(op), target \in Targets(op) :
    Begin(c, op, cred, key, target)

Pass == Tick /\ UNCHANGED <<rows, audit, calls, changed>>

Next ==
  /\ \/ \E c \in Calls : Begins(c) \/ Step(c)
     \/ \E k \in Keys : Expire(k)
     \/ Pass
  /\ Watch

Spec == Init /\ [][Next]_vars

-----------------------------------------------------------------------------

CallRow ==
  [pc : {"idle", "key", "user", "overrides", "legacy", "ask", "hit", "permit", "create",
         "target", "change", "audit", "login", "mint", "done", "refused", "failed"},
   op : Ops \cup {"run"}, cred : Credentials, key : Keys \cup {LegacyKey},
   target : Users \cup {NoUser}, user : Users \cup {NoUser}, role : DOMAIN Rank,
   permissions : SUBSET ALL_PERMISSIONS]

\* Every key that exists belongs to a user that exists (ai_api_keys.user_id).
TypeOK ==
  /\ LimiterTypeOK
  /\ users \in [Users -> [status : {"absent", "active", "disabled"}, password : BOOLEAN]]
  /\ keys \in [Keys -> [status : {"none", "active", "revoked"}, user : Users \cup {NoUser},
                        expiring : BOOLEAN, expired : BOOLEAN]]
  /\ calls \in [Calls -> CallRow]
  /\ \A k \in Keys : keys[k].status # "none" =>
       keys[k].user # NoUser /\ users[keys[k].user].status # "absent"

\* The call is past the guard, or was.
Served(c) == calls[c].op # "login" /\ calls[c].pc \in {"create", "target", "change", "audit", "done"}

(***************************************************************************)
(* A request that passes the guard with an API key had, at some moment     *)
(* after it came in, a key in force and, at some moment, an active user:   *)
(* what begins after a revocation or a disabling is never served           *)
(* (auth/context.ts, three reads of two rows).                             *)
(***************************************************************************)
NoServiceAfterRevocation ==
  \A c \in Calls : Served(c) /\ calls[c].cred \in Keys => seen[c] = {"key", "user"}

(***************************************************************************)
(* The audit log never reports a change that was not written, whatever     *)
(* write fails and wherever a request ends (users/[id]/actions/route.ts,   *)
(* login-service.ts).  A change without its row is possible.               *)
(***************************************************************************)
ChangeEvents == Ops \ {"run"}
AuditIsTrue == \A e \in ChangeEvents, c \in Calls : <<e, c>> \in audit => c \in changed

=============================================================================
