------------------------------ MODULE MCAccess ------------------------------
(***************************************************************************)
(* Instances of Deployment for TLC, with the configurations the gates are   *)
(* judged on.                                                              *)
(***************************************************************************)
EXTENDS Deployment, TLC

CONSTANTS root, dev, new, k1, k2, k3, c1, c2, c3, c4

MCInitialUsers == {root, dev}
MCUsers == {root, dev, new}
MCKeys == {k1, k2, k3}
MCRoleOf == root :> "admin" @@ dev :> "developer" @@ new :> "owner"
MCKeyOf == root :> k1 @@ dev :> k2

\* A developer who may manage keys and, whatever else is said, not users.
MCOverrides == {<<dev, "users:manage", "allow">>, <<dev, "users:manage", "deny">>,
                <<dev, "apikey:manage", "allow">>}

MCIdentifiers == Credentials \cup {"ip"}
MCRequests == {c1, c2, c3, c4}
MCOnlyRun == {c3, c4}
MCSymmetry == Permutations({c1, c2}) \cup Permutations(MCOnlyRun)

\* When time passes, a command of a pipeline fails or more than two requests are
\* made, all are runs with the legacy key, the third begins after the first two,
\* no two are between other steps than the limiter's, and none ends without having
\* asked the limiter or in a crash after it, which is nothing to the limiter.
Begun == {c \in Calls : calls[c].pc # "idle"}
Broke == broken # {} \/ \E i \in Identifiers : expires[i] > now + Window
MCBound ==
  /\ Begun \subseteq {c1, c2} \/ {c1, c2} \subseteq Begun
  /\ now > 0 \/ Broke \/ Cardinality(Begun) > 2 =>
       /\ \A c \in Begun : calls[c].op = "run" /\ calls[c].cred = LegacyKey
       /\ Cardinality({c \in Begun : calls[c].pc \notin Ended \cup {"hit"}}) <= 1
       /\ \A c \in Begun : calls[c].pc # "failed" /\ (calls[c].pc \in Ended => c \in asked)
  /\ Cardinality(broken) <= 1

\* A deployment that is ready, its variants that matter most, and those that
\* differ from one of them in two settings.
Ready ==
  [prod |-> TRUE, db |-> "postgres", supabase |-> TRUE, pings |-> TRUE, tables |-> TRUE,
   columns |-> TRUE, auditReads |-> TRUE, owner |-> TRUE, apiKey |-> TRUE,
   claimVerified |-> TRUE, leaseVerified |-> TRUE, several |-> FALSE, provider |-> "database",
   cloneUrl |-> TRUE, github |-> FALSE, beatsLate |-> FALSE, mode |-> "unset", inline |-> FALSE,
   cronKey |-> TRUE, cronSecret |-> "same", queryKey |-> FALSE, modelKeys |-> TRUE,
   pr |-> TRUE, dryRun |-> TRUE, legacy |-> TRUE, limiter |-> "upstash", upstash |-> TRUE,
   smoked |-> TRUE, leaked |-> FALSE]

Choices(f) ==
  CASE f = "db" -> {"sqlite", "postgres", "invalid"}
    [] f = "provider" -> {"database", "local", "invalid"}
    [] f = "mode" -> {"unset", "inline", "worker_wait", "worker_async"}
    [] f = "cronSecret" -> {"unset", "same", "other"}
    [] f = "limiter" -> {"memory", "upstash", "invalid"}
    [] OTHER -> BOOLEAN

Edited(C) == UNION {{[c EXCEPT ![f] = v] : c \in C, v \in Choices(f)} : f \in DOMAIN Ready}
Variants == {[Ready EXCEPT !.prod = p, !.mode = m] : p \in BOOLEAN, m \in Choices("mode")}
MCConfigs == Edited(Edited(Variants))
MCLiveConfigs == {Ready}

=============================================================================
