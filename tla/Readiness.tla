----------------------------- MODULE Readiness -----------------------------
(***************************************************************************)
(* The gates before going live: getProductionReadinessReport and           *)
(* getProductionDryRunStatus read a configuration (environment and bounded *)
(* probes of the database) and say whether a deployment may go on.  Other  *)
(* code refuses to run at all under some configurations; both are pure     *)
(* functions of the configuration, stated here side by side.               *)
(***************************************************************************)
EXTENDS FiniteSets

\* What an operator sets, and what the probes find.
Configurations ==
  [prod : BOOLEAN,                               \* NODE_ENV
   db : {"sqlite", "postgres", "invalid"}, supabase : BOOLEAN,
   pings : BOOLEAN, tables : BOOLEAN, columns : BOOLEAN, auditReads : BOOLEAN,
   owner : BOOLEAN, apiKey : BOOLEAN,            \* an active one among the users read
   claimVerified : BOOLEAN, leaseVerified : BOOLEAN, several : BOOLEAN,  \* WORKER_CONCURRENCY > 1
   provider : {"database", "local", "invalid"},
   cloneUrl : BOOLEAN, github : BOOLEAN,         \* token, owner and repository
   beatsLate : BOOLEAN,                          \* heartbeat interval >= lease
   mode : {"unset", "inline", "worker_wait", "worker_async"},
   inline : BOOLEAN,                             \* ALLOW_INLINE_COMMANDS
   cronKey : BOOLEAN, cronSecret : {"unset", "same", "other"}, queryKey : BOOLEAN,
   modelKeys : BOOLEAN, pr : BOOLEAN, dryRun : BOOLEAN, legacy : BOOLEAN,
   limiter : {"memory", "upstash", "invalid"}, upstash : BOOLEAN,
   smoked : BOOLEAN, leaked : BOOLEAN]           \* a NEXT_PUBLIC_ secret

-----------------------------------------------------------------------------
(* The report.                                                             *)

runnerMode(c) ==
  CASE c.mode # "unset" -> c.mode
    [] c.prod -> "worker_async"
    [] OTHER -> "inline"

repoCloneConfigured(c) == c.cloneUrl \/ c.github
verified(c) == c.claimVerified /\ c.leaseVerified

Verdict(skip, fail, warn) ==
  IF skip THEN "skip" ELSE IF fail THEN "fail" ELSE IF warn THEN "warn" ELSE "pass"

WorkerConfigFailsLax(c) == c.provider = "invalid" \/ ~repoCloneConfigured(c) \/ c.beatsLate
WorkerConfigFails(c) == c.provider # "database" \/ ~repoCloneConfigured(c) \/ c.beatsLate

\* The checks, each an id and a verdict.  Every one that can fail is critical or
\* high.
settingChecks(c) ==
  {<<"db_provider", Verdict(~c.prod, c.db # "postgres", FALSE)>>,
   <<"supabase_env", Verdict(~c.prod /\ c.db # "postgres", ~c.supabase, FALSE)>>}

probeChecks(c) ==
  {<<"db_ping", Verdict(FALSE, ~c.pings, FALSE)>>,
   <<"schema_tables", Verdict(~c.pings, ~c.tables, FALSE)>>,
   <<"schema_columns", Verdict(~c.pings, ~c.columns, FALSE)>>}

workerChecks(c) ==
  {<<"worker_verification", Verdict(~c.prod, ~verified(c) /\ c.several, ~verified(c))>>,
   <<"worker_config", Verdict(~c.prod, WorkerConfigFails(c), FALSE)>>}

runnerChecks(c) ==
  {<<"test_runner_mode",
     Verdict(~c.prod, runnerMode(c) = "inline" /\ ~c.inline, runnerMode(c) # "worker_async")>>,
   <<"cron_resume",
     Verdict(~c.prod \/ runnerMode(c) # "worker_async", ~c.cronKey, c.cronSecret = "other")>>,
   <<"cron_query_key", Verdict(FALSE, FALSE, c.queryKey)>>}

serviceChecks(c) ==
  {<<"model_keys", Verdict(~c.prod, ~c.modelKeys, FALSE)>>,
   <<"github_pr", Verdict(~c.pr, ~c.dryRun /\ ~c.github, c.dryRun)>>}

accessChecks(c) ==
  {<<"rbac_owner", Verdict(~c.prod \/ ~c.pings, ~c.owner, FALSE)>>,
   <<"rbac_api_key", Verdict(~c.prod \/ ~c.pings, ~c.apiKey, FALSE)>>,
   <<"legacy_admin_key", Verdict(FALSE, FALSE, c.prod /\ c.legacy)>>}

operationChecks(c) ==
  {<<"rate_limit", Verdict(~c.prod, c.limiter = "upstash" /\ ~c.upstash, c.limiter # "upstash")>>,
   <<"audit_log", Verdict(~c.pings, ~c.auditReads, FALSE)>>,
   <<"smoke_flags", Verdict(~c.prod, FALSE, ~c.smoked \/ ~verified(c))>>,
   <<"unsafe_public_secrets", Verdict(FALSE, c.leaked, FALSE)>>}

checks(c) ==
  settingChecks(c) \cup probeChecks(c) \cup workerChecks(c) \cup runnerChecks(c)
    \cup serviceChecks(c) \cup accessChecks(c) \cup operationChecks(c)

Failing(c) == {check[1] : check \in {k \in checks(c) : k[2] = "fail"}}

\* readiness answers 503.
hasBlockingFailure(c) == Failing(c) # {}

\* What the dry run judges by itself, in whatever environment.
OverriddenToo == {"worker_config", "supabase_env", "github_pr", "cron_resume"}
READINESS_OVERRIDDEN ==
  {"worker_config", "test_runner_mode", "github_pr", "cron_resume", "cron_query_key"}

dryRunBlockers(c) ==
  \/ Failing(c) \ READINESS_OVERRIDDEN # {}
  \/ runnerMode(c) # "worker_async"
  \/ c.provider # "database"
  \/ c.inline
  \/ ~c.dryRun
  \/ c.prod /\ ~c.cronKey

dry_run_safe(c) == ~dryRunBlockers(c)

-----------------------------------------------------------------------------
(* What runs under a configuration.                                        *)

\* getRepository and createSupabaseGateway do not throw, and the rows are there.
StoreOpens(c) ==
  /\ c.db # "invalid" /\ (c.db = "postgres" => c.supabase)
  /\ c.pings /\ c.tables /\ c.columns

\* getRateLimitStore does not throw.
LimiterOpens(c) == c.limiter # "invalid" /\ (c.limiter = "upstash" => c.upstash)

\* assertTestRunnerModeAllowed and getJobQueue do not throw.
QueueOpens(c) == c.provider = "database" \/ (c.provider = "local" /\ ~c.prod)
RunStarts(c) ==
  IF runnerMode(c) = "inline" THEN ~c.prod \/ c.inline ELSE QueueOpens(c)

\* assertWorkerConfig and prepareWorkspace do not throw.
WorkerStarts(c) == QueueOpens(c) /\ (c.prod => ~c.inline)
WorkspacePrepared(c) == repoCloneConfigured(c) \/ ~c.prod

\* The cron route is closed without a key.
CronOpens(c) == c.cronKey

\* createPullRequest in live mode gets past its configuration gates.
OpensLive(c) == c.pr /\ ~c.dryRun
LiveConfigured(c) == c.github

\* TEST_RUNNER spawns its commands in the request.
RunsInline(c) == runnerMode(c) = "inline" /\ RunStarts(c)

=============================================================================
