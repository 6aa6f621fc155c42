----------------------------- MODULE Deployment -----------------------------
(***************************************************************************)
(* A deployment from its configuration to its requests: the readiness      *)
(* report is read, the deployment goes live when nothing in it blocks      *)
(* (npm run readiness is the step before a deploy), and then the requests  *)
(* of Access are served.  A process reads its environment once, so what is *)
(* said of the configuration is said before the deployment is live.        *)
(***************************************************************************)
EXTENDS Access, Readiness

CONSTANTS
  Configs,      \* the configurations looked at
  LiveConfigs   \* those of them whose requests are looked at

ASSUME ConfigsAssumption ==
  /\ Configs \subseteq Configurations
  /\ LiveConfigs \subseteq Configs /\ \A c \in LiveConfigs : c.legacy = LegacyAllowed

VARIABLES config, live

deploymentVars == <<config, live>>

DeploymentInit == Init /\ config \in Configs /\ live = FALSE

GoLive ==
  /\ ~live /\ ~hasBlockingFailure(config) /\ config \in LiveConfigs
  /\ live' = TRUE
  /\ UNCHANGED <<vars, config>>

ServeRequests == live /\ Next /\ UNCHANGED deploymentVars

DeploymentNext == GoLive \/ ServeRequests

DeploymentSpec == DeploymentInit /\ [][DeploymentNext]_<<vars, deploymentVars>>

-----------------------------------------------------------------------------

(***************************************************************************)
(* In production, a report without a blocking failure means that every     *)
(* part starts: no gate elsewhere in the code refuses the configuration.   *)
(* Two configurations the report does not fail are set apart: a limiter    *)
(* provider no one knows, on which every limited request throws, and       *)
(* inline commands allowed, on which the worker refuses to start           *)
(* (production-readiness.ts, against job-queue.ts, factory.ts,             *)
(* redis-rate-limit.ts, workspace.ts and cron-auth.ts).                    *)
(***************************************************************************)
SetApart == config.limiter = "invalid" \/ config.inline
ReadyMeansUsable ==
  ~live /\ config.prod /\ ~hasBlockingFailure(config) /\ ~SetApart =>
    /\ StoreOpens(config) /\ LimiterOpens(config) /\ RunStarts(config)
    /\ WorkerStarts(config) /\ WorkspacePrepared(config)
    /\ runnerMode(config) = "worker_async" => CronOpens(config)
    /\ OpensLive(config) => LiveConfigured(config)

(***************************************************************************)
(* A deployment called safe for a dry run opens no live pull request and   *)
(* spawns nothing in a request, in any environment; its store opens, its   *)
(* worker starts and, in production, finished runs are resumed             *)
(* (production-dry-run.ts).  With an unknown database the gate itself      *)
(* throws.  That the worker can fetch the repository is not part of it:    *)
(* that check is among the overridden ones.                                *)
(***************************************************************************)
DryRunIsSafe ==
  ~live /\ dry_run_safe(config) /\ config.db # "invalid" =>
    /\ ~OpensLive(config) /\ ~RunsInline(config)
    /\ StoreOpens(config) /\ RunStarts(config) /\ WorkerStarts(config)
    /\ config.prod => CronOpens(config)

=============================================================================
