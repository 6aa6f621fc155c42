# TLA+ models of the AI Orchestrator

The program (`src/`) turns a user's request into a reviewed patch: models write a
specification, a plan and a patch, a sandbox worker runs the tests, a reviewer and a
judge decide, and a person may turn the result into a pull request. This directory
models what keeps state and runs concurrently: the worker job queue and its workers,
what a worker does to its workspace, the two kinds of orchestration, the pull request
flow, access with its limiter, keys and audit log, the gates before going live, and the
console page. Paths below are relative to `src/lib/ai-orchestrator/` unless they start
with `src/`.

## 1. Inventory

| Component | State | Operations | Talks to | Module |
| --- | --- | --- | --- | --- |
| Worker job queue (`worker/job-queue.ts`, `db/*repository.ts`, migrations 008/009) | rows of `ai_worker_jobs`: status, lease, attempts | create, claim, renew, update status, cancel | whoever runs or awaits tests | `WorkerJobs` |
| Job execution (`worker/job-service.ts`, `sandbox-runner.ts`, `heartbeat.ts`) | per claim: verdict, abort signal, heartbeat counters | process a claimed job, heartbeat tick | queue, workspace, commands | `WorkerJobs`, `Sandbox` |
| Command runner (`worker/command-runner.ts`) | one child process | run with timeout and abort | job execution | `Sandbox` |
| Patch application (`worker/patch-applier.ts`, `workspace.ts`, `patch/*`) | the workspace directory | prepare, clone, apply file by file, clean up | job execution | `Sandbox` |
| Worker process (`src/scripts/ai-orchestrator-worker.ts`) | poll loop | drain, auto-resume | queue, resume scheduler | partly: `WorkerJobs`, `AsyncRuns` |
| Async orchestrator (`async-orchestrator.ts`) | rows of `ai_orchestration_runs`, session status | start, resume, finalize | models, queue, sessions | `AsyncRuns` |
| Resume scheduler (`orchestration-resume-scheduler.ts`) | resume lock columns | scan, lock, resume, release | runs, jobs | `AsyncRuns` |
| Cancellation (`service.ts`) | none of its own | cancel job, cancel run | runs, jobs | `AsyncRuns` |
| Sync orchestrator, worker_wait (`orchestrator.ts`, `test-runner*.ts`) | session and rounds of one request | run, bounded wait for a job | models, queue, sessions | `SyncRounds` |
| Sessions and approval (`service.ts`) | status, approval, rounds | create, approve, reject | pull request flow | `SyncRounds`, `AsyncRuns`, `PullRequests` |
| Pull request flow (`github/*`) | patch sets, pull request rows; branches on GitHub | validate, gates in order, branch, commits, pull request | sessions, jobs, GitHub | `PullRequests` |
| Rate limiter (`security/*rate-limit.ts`) | hits per identifier | admit | guard, login | `RateLimiter` |
| Request guard, identity (`security/guard.ts`, `auth/*`) | users, keys, overrides | authenticate, limit, authorise; manage users and keys; login | every route | `Access` |
| Audit log (`audit.ts`) | rows | record, never fails | routes | `Access` |
| Health, readiness, dry run (`production-*.ts`, `health.ts`) | none: environment and probes | report, gate | a deployment | `Readiness`, `Deployment` |
| Console page (`src/app/ai-orchestrator/page.tsx`) | what is shown, timers, calls in flight | user's clicks, polls, answers | all routes | `Console` |
| Settings and model adapters, content safety, smoke scripts | nothing others act on | | | not modelled, section 8 |

What makes them hard, and what correct means there:

* **Queue and execution.** Workers die, renewals fail or are answered late, a lease runs
  out under its holder, several executors share one worker id, the final write comes
  after a check made earlier. One executor at a time, a bounded number of starts,
  finished stays finished, every job ends.
* **Sandbox.** Timeout, abort and exit race; a crashed execution leaves a patched
  directory under the name the next claim uses. Green is about this execution's own
  clone, no child outlives its job, "hash checked" means the file had not moved.
* **Async runs.** Cron ticks, worker auto-resume, open pages and cancel requests work on
  one row, and every update is a read-merge-write of the whole row. One resume at a
  time, no pass without green tests, one job per round, session and run agree, a
  waiting run is decided.
* **Sync runs.** A bounded wait gives up while the job runs on; a person decides in
  between from a copy of the row. A session that says passed had green tests.
* **Pull requests.** Gates are checked one after the other against rows that change,
  the base branch moves under the flow, calls race for one branch name, GitHub calls
  fail halfway. Validated, tested and agreed to before opened; the diff is the patch;
  the ledger is true.
* **Access.** Three reads of two rows, hits that land out of order, two writes where one
  is the audit row. Nothing is served after a revocation, never over the limit, no
  audit row for what did not happen.
* **Going live.** Some eighty settings, judged by a report and, separately, by the code
  that refuses to run. What the report passes, runs.
* **Console.** One-shot timers, answers in any order. What is shown and not over is
  polled; the button for a live pull request goes by the right job.

`PROJECT.json` lists each hazard at its line with the properties that cover it.

## 2. How the modules fit together

```
JobLifecycle <-implements- WorkerJobs         RunLifecycle <-implements- AsyncRuns
     |                                             ^-------implements--- SyncRounds
     +--- is the worker of AsyncRuns and SyncRounds
ReviewedChange <-implements- PullRequests     Sandbox   (inside one execution of a job)
RateLimiter <-implements- Deployment = Readiness ; Access (which extends RateLimiter)
Console   (its server is what the routes of the others answer)
```

`JobLifecycle`, `RunLifecycle` and `ReviewedChange` are the abstract specifications: what
the queue promises to those who wait for tests, what a run promises to those who watch it,
what the flow promises to the owners of the repository. The detailed modules are shown to
implement them; `AsyncRuns` and `SyncRounds` then take the *actions* of `JobLifecycle` as
the steps of their jobs, so that what they rely on is what `WorkerJobs` was shown to do.
`Deployment` puts the report, the decision to go live and the requests in one behaviour.

`MC*` modules are the instances for TLC, `*_proofs` modules hold the theorems. The code's
definitions and lines are in `map` of `PROJECT.json`. Each module has, next to some
definitions, a variant with a plausible bug; only `mutants` refers to those.

## 3. Modules, state and actions

### WorkerJobs

`status`, `owner`, `lease`, `attempts`, `created` are the columns of a job;
`enqueued` orders `created_at`; `claims` is a history variable. An executor is one
`pollAndRunOnce` in flight. Its `pc` names the await it is at, `holds` its job,
`verdict` what it will write, `seen` the `attempts` value it read for the merge,
`hb`/`beat`/`fails`/`reason` its heartbeat. `ticket` is history: which claim of the
job it works for.

Time is what is left on timers: `lease[j]` is `lease_expires_at` minus now, with -1
for a lease that is past or null (the code treats both alike), `beat[e]` the time
to the next heartbeat. `Tick` lets one unit pass.

| Action | Code |
| --- | --- |
| `Enqueue` | `createWorkerJob` |
| `Claim`, `FailExhausted` | `claimNextWorkerJob`, RPC `claim_ai_worker_job` (008); `GivenUp` is where the backends differ |
| `CancelRead`, `CancelWrite` | `cancelWorkerJob`, a check and a write |
| `BadPayload` | the `catch` around `parseJobPayload` |
| `StartHeartbeat` ... `SandboxFails` | `runSandboxJob`, with the points where it looks for a cancellation |
| `Seal`, `CheckOwner` | fail closed, owner guard |
| `MergeRead`, `WriteStatus` | `updateWorkerJobStatus` |
| `RenewOk`, `RenewNull`, `Classify`, `RenewError`, `RenewUnlogged`, `ClassifyUnlogged` | one path each through `Heartbeat.tick` and the queue calls it makes, the log line being one of them |
| `Crash` | death of the process, or a rejected queue call outside every `catch` |

`Timely = TRUE` says that timers fire on time and that the bookkeeping around a
claim or a verdict takes less than a unit (`Urgent`); with `FALSE` anything may be
delayed for ever.

### Sandbox

`ex[e]` is one execution of the job: where `runSandboxJob` is, the verdict it will return,
commands begun (`n`), files still to apply (`todo`), the one whose hash was just compared (`fits`), `applied` and `base_hash_checked`, and
the flags of the command that runs. `ws` is the directory named after the job, with the
executions that wrote to it (`by`), `child[e]` the child process, `found` and `clean` are
history. `job` and `cancelled` are the row and the configuration.

| Action | Code |
| --- | --- |
| `Prepare`, `Clone`, `PrepareFails` | `prepareWorkspace` |
| `ReadPatch`, `CheckFile`, `ApplyFile`, `ApplyStops`, `Applied` | `applyPatchSet`: the awaited `checkBaseHash` and the write after it are two steps |
| `Finished`, `StopsBetween`, `NextIsBlocked`, `NextCommand`, `Settled` | the command loop of `runSandboxJob` |
| `NotSpawned`, `Spawn`, `TimerFires`, `Close` | `runWorkerCommand` |
| `Abort` | the heartbeat's abort signal |
| `Throws`, `Ending` | its `catch` and `finally` |
| `Claim`, `Crash`, `OrphanEnds`, `Cancel` | the queue, the death of a worker, a child that survives it, the user |

### AsyncRuns

`row[r]` holds the columns of a run that its updates merge (status, round, pending
job); `owner` and `fresh` are the lock and whether it has expired; `session` is the
session's status, `decision[d]` an approval or rejection in flight with the status it read.
The session's approval column is left out: nothing of an asynchronous run reads it. A process is a cron tick or a client request; `pc` names the
await it is at, `copy` the row it read for an update, `task` which update that
is, `round` and `report` what the resume works with (`report` is the job whose
green result the judge sees, or the job about to be linked), `outcome` the status
it writes to the session. `origin`, `greens` and `overruled` (a person wrote the session last)
are history.

| Action | Code |
| --- | --- |
| `Scan`, `NextInBatch` | `findResumableOrchestrations`, the loop of `resumeDueOrchestrations` |
| `LockAtomic` | the conditional `UPDATE` of SQLite |
| `LockRead`, `LockWrite`, `LockCheck` | the optimistic claim of Postgres |
| `Release`, `LockExpires` | `releaseOrchestrationResumeLock`, the TTL |
| `Start`, `RequestResume`, `RequestCancel` | the requests of users |
| `ReadRun`, `ReadJob`, `Judge` | `resume` |
| `BlockedPatch`, `EnqueueTest` | `implementAndEnqueue` |
| `Finish` | `finalize` |
| `SessionRead`, `SessionWrite` | `updateSession` |
| `ReadSession`, `SetApproval` | `setApproval`, at any moment of the run |
| `UpdateRead`, `UpdateWrite` | `updateOrchestrationRun`; `Merged` says which columns each call sets |
| `Fault` | the `catch` and `finally` of the cron: `last_error` is one more merge of the row |
| `Crash` | death, a tick that rejects outside its `try`, a failing request |
| `CancelJob`, `CancelRead`, `CancelWrite` | `cancelOrchestration`, `cancelOrchestrationRun` |
| `WorkerStep` | the worker plane, `JobLifecycle` |

What the models answer is a choice: any verdict, any safety result.

### SyncRounds

One `run()` outside worker_async. `pc` is the await it is at, `round`, `outcome`,
`report` its locals, `waited` the time since `defaultWaitForTerminal` began, `copy` the
row `updateSession` read; `person` is an approval or rejection in flight with the
status it read and the row it merges into. `job`, `claims` are those of `JobLifecycle`.

| Action | Code |
| --- | --- |
| `Begin` | `assertTestRunnerModeAllowed`, session, specification, plan |
| `NextRound`, `SaveRound` | the head of the loop, `updateSession` of `rounds` |
| `Implement` | implementer, safety scan and its two ends |
| `TestInline` | `runTestSuite` |
| `Enqueue`, `Poll`, `Wake` | `runOrchestratorTestJob`, `defaultWaitForTerminal` |
| `Review`, `Judge`, `OutOfRounds`, `SaveVerdict` | reviewer, verdict with its guard, the end |
| `Rejects` | any call that throws, or the platform ending the request |
| `Decide`, `MergeRead`, `SetApproval` | `setApproval`, `updateSession` |
| `WorkerStep` | `JobLifecycle` |

### PullRequests

The session's row, the orchestration that still proposes artifacts (`run`, `latest`),
the person (`approver`), patch sets with their files (`sets`), the validate and test-job
requests (`validator`, `tester`), `jobs` with the executions of them in hand (`execution`) and
the cancels in flight (`cancelling`), and on GitHub the base branch, the session's
branches and pull requests (`base`, `branches`, `opened`); `rows` is `ai_pull_requests`.
`req[r]` is one call of the route: the session row it read, the artifact text, the patch
set, the branch name it tries, the base commit, the file in hand with the blob it saw, and
the status it will write back with `base_sha`. `agreed`, `greenInline` and `greens` (the
passed verdicts ever written, with what they tested) are history. A file's content is a version of the base or the artifact that wrote it.

| Action | Code |
| --- | --- |
| `RunReads`, `RunWrites`, `Propose` | the orchestration's session writes and artifacts |
| `Decide`, `SetApproval` | `setApproval` |
| `ValidateReads`, `ValidateStores`, `ValidateAdds`, `ValidateDies` | `validateSessionPatchArtifact`, `validateAndStorePatch` |
| `TestReads`, `TestEnqueues` | `createTestJobForSession` |
| `JobStarts`, `JobApplies`, `JobEnds`, `JobLost`, `JobGivenUp` | the workers, reduced to what the gates look at: two may hold one job, and the verdict that is written last stands |
| `CancelReads`, `CancelWrites` | `cancelWorkerJob`, which marks the job by id after it read it as unfinished |
| `Open`, `ReadText`, `ReadSet`, `Store`, `StoreFile`, `Stored`, `Reuse` | the route, and the head of `createPullRequestForSession` |
| `DryRun`, `Recheck`, `InlineTests`, `SandboxGate`, `Leave` | its gates |
| `ReadBase`, `Probe`, `CreateBranch` | `createSessionBranch` |
| `CopySet`, `SaveSet`, `MarkApplied` | `updatePatchSet`, a read and a write of the row |
| `Fetch`, `Put` | `applyPatchFiles` against GitHub's contents API |
| `OpenPullRequest`, `Record`, `Fails` | the pull request, its row, the `catch` |
| `Commit` | somebody else, on the base branch |

### RateLimiter, Access, Readiness, Deployment

`RateLimiter`: a request reads the clock (`Ask`), its hit lands later (`Admit`, `Refuse`) or
never does (`FailStore`, which may still have been counted); `expires` is the expiry of the
Redis key. Each landing takes a set of commands that fail inside an answered pipeline, of which
the store sees nothing but a missing number; `broken` notes whom that let in. With `Delay = 0` this is the memory store. `Access`: `users` and `keys` are
rows, `calls` the requests with what they read so far, `seen` history of what held of key
and user since a call began. `ReadKey`, `ReadUser`, `ReadOverrides`, `CheckLegacy` are
`resolveAuthContext`, `AskLimit`, `AnswerLimit`, `CheckPermission` the rest of `guardRequest`,
`CreateUser`, `ReadTarget`, `Change`, `RecordChange` the user routes, `ReadLogin`, `Mint`
the login. `Readiness` has no state: the report, the dry run gate, and what the rest of the
code refuses, all as functions of a configuration. `Deployment` reads the report, goes
live when nothing blocks, and then is `Access`.

### Console

`detail`, `asyncRun`, `jobView`, `latest`, `key`, `me`, `health` are the page's state, `runTimer`,
`jobTimer` its one-shot timers, `autoResumed` the ref that stops a second resume. A call in
flight is a record in `calls`: asked, answered from the server's rows of one moment
(`Serve`), delivered at a later one (`Deliver`) or failed (`Fail`). Setting state runs the
effects that depend on it in the same step (`setAsyncRun`, `setJobView`, `setDetail`).
`health` is null until `CheckHealth` is answered and again after `Logout`; `Gated` is what the
server would answer. `ReplaceVerdict` is a worker or cancel that writes late over a verdict.
`quietRun`, `quietJob` (the last poll failed) and `green` (jobs once written as passed) are
history.

## 4. Runs

| Run | Instance | What it shows |
| --- | --- | --- |
| `worker_exclusion` | Postgres, 1 job, 2 workers with own ids, 2 attempts, `Lease` 4 = `Threshold` 2 × `Interval` 2, timely | two workers never run one job at once, whatever calls fail, and a worker whose heartbeat never complained writes the verdict of the latest claim |
| `worker_untimed` | 1 job, 2 executors under one id, 2 attempts, no timing assumption | at most `max_attempts` starts, finished stays finished, the life cycle the orchestrators rely on, every job ends |
| `async_exclusive` | SQLite, 2 crons, 1 client, 3 jobs, 2 rounds, 1 fault, 1 decision of a person | resumes of a run never overlap, and then a retried resume neither repeats a round's test nor leaves session and run in disagreement, unless a person wrote the session last |
| `async_races` | Postgres, 1 cron, 1 client that resumes by hand and cancels, 2 faults | with no lock between them: no pass without a green test, no run that waits for nothing, a waiting run is decided |
| `sync_rounds` | 2 rounds, timeout 2, 2 decisions of a person, five settings of the runner | green tests before a pass, reports that come from the worker, session and run agree, the request ends |
| `pull_requests` | 2 calls, 2 artifacts, 2 patch sets, 1 job, 2 workers that may both execute it, 1 decision, 1 commit on the base, four settings of the gates | the diff is the patch, one writer per branch, a true ledger, and the order validated, tested, agreed, opened |
| `sandbox` | 2 claims, 2 commands, a file of each kind, six jobs, two clones | green is about the whole list in this execution's own clone, no orphans, checked hashes, every execution ends |
| `access` | 2 requests with any credential and 2 runs, 3 users, 3 keys, limit 2 in a window of 3, delay 1 | nothing served after a revocation, a true audit log, never over the limit, and the gates before going live agree |
| `console` | 2 sessions, 2 sets, 2 jobs, 4 clicks, 2 calls in flight, 1 failure, health asked for | what is shown and not over is polled, the live button goes by the right job once the page knows the deployment |
| `async_lock_race` | Postgres, 2 crons, no fault | *violation*: two ticks that both read a free lock both resume the run |
| `pull_untested` | 1 call, 2 artifacts, 1 set | *violation*: the patch that is opened is not the one the passed job tested |
| `console_polling` | 1 failure | *violation*: after one failed poll a running job is shown as running for ever |

The bounds. A race in this code is between two actors, so each run has two of what races:
two executors, two ticks, two calls, two requests, a tick and a client. A second attempt,
round, claim or artifact is what is needed for a retry, another round, a directory left
behind or a patch that is no longer the latest; in `async_exclusive` a third job exists so
that a round tested twice would show. In `worker_exclusion` the lease is the smallest that
`Threshold * Interval <= Lease` allows and the interval the smallest in which something
can happen between two beats. In `access`, `Window` 3 with
`Delay` 1 makes the span of `NeverOverLimit` two units, so that hits with different stamps are
counted together; with `Limit` 2 and four requests a hit that lands late can prune by its
own stamp between two others (both a bound over the full window and one without the
requests whose own pipeline failed are refuted on this instance). Failures are bounded in `async_*` (`MaxFaults`) and
`console` (`MaxFailures`), and unbounded in `worker_*`, `sandbox`, `sync_rounds`
and `pull_requests`; in `access` any pipeline may be lost, and one request be let in by a
command that failed.

Three runs have a state constraint. In `pull_requests`, `MCBound` charges each behaviour
for what it does beyond one call for one modified file under the default settings with a job
one worker executes (another call, set, artifact, job, decision or setting, a cancel, a second
execution or a green verdict taken back costs two, a commit or another kind of file one) and
stops at `MCExtra` = 2, so that each of these extras meets the whole flow and two cheap ones
meet each other. In `access`, time passes, commands fail and a third request comes only where
all requests are runs under one key, which is where they matter: to the limiter. In `console`,
health and replaced verdicts come without an asynchronous run; they reach only the button.
The combinations left out are covered by the proofs of section 6.
`access` judges readiness on a deployment that is ready, its variants in mode and
environment, and everything two settings away from one of those; the requests run in the
deployment that is ready. `Deployment_proofs` covers every configuration.

`SYMMETRY` is used only in runs without liveness. Every run says `CHECK_DEADLOCK FALSE`,
because every one of these systems may come to rest: all jobs finished, all runs decided,
the request answered, the clicks used up.

## 5. Fairness

* `worker_untimed`: each step of a poll and of a heartbeat is taken in the end (Node runs
  its callbacks, an awaited query is answered or rejects; the worker process is restarted
  and polls again), and time passes. Nothing is said of cancels, failures or crashes.
* `async_races`: the cron route is called again and again (`src/vercel.json`,
  `src/README.md:572`), a tick that does not crash runs to its end, locks run
  out, and jobs end, the last being `EveryJobFinishes` of `WorkerJobs`. Clients owe nothing.
* `sync_rounds`: the request goes on, which includes its clock. Of the worker nothing is
  assumed: the bounded wait is there for that.
* `sandbox`: an execution goes on when it can, timers fire, and a child dies of the signal
  it was sent. The last is an assumption on the commands: the code sends no `SIGKILL` after
  its `SIGTERM`. A child that was sent nothing may run for ever, until its timer.
* `console_polling`: the page polls when its timer says so, the worker goes on, and an
  answer that is due again and again arrives once (`SF`). It is the counterexample's
  fairness: the job is over, the network works, and still the page never asks again.

Nothing is ever assumed of users.

## 6. Proofs

Each `*_proofs` module proves its theorems for every value of the constants, from the
module's named `ASSUME`s, which TLC evaluates in the runs.

**`WorkerJobs_proofs`** rests on no timing assumption. Its `Inv` has the type invariant
and what ties the parts of an executor together: an executor away from idle holds a job it
has a ticket for (`Holding`), its heartbeat runs only while the sandbox does or is past its
renewal (`HeartbeatShape`), what a fresh claim starts with (`FreshStart`), that a verdict
exists once the sandbox is left (`Progress`), and that a cancel handler saw an existing row
(`Requested`). `Accounting` adds that on a queued or running row `attempts` equals the
number of claims: without it a stale write of `attempts` could reopen a job. From these
follow the types, the bound on starts, that finished is final, and the refinement of
`JobLifecycle`.

The last part of the module adds time. `Exclusive` says that as long as an executor
executes, its job's lease is worth at least the beats it may still miss plus the time to
the next one (`Covered`), hence cannot be claimed, hence is not shared (`Unshared`). It is
inductive only under `Timely` and `LeaseCoversHeartbeat`, the hypotheses of its theorems.

**`AsyncRuns_proofs`**, first part: neither the lock nor a bound on processes is needed.
`RunsOK`: every row is linked to a job of its own exactly while it waits, and a passed row
or session has a green job. `ProcOK`: the same for what a process carries across its
awaits; the part that matters is that a *stale copy* satisfies what a row satisfies
(`RowOK`). `Created`: only existing jobs belong to a run, so that enqueueing one takes
nothing from another run. It is inductive because no step takes a green job away from a run
(`Steady`), so facts about copies stay true even though the copies go out of date;
`MergedSound` then shows that merging any patch into any copy gives a sound row.

Second part: what the lock buys. `OneByOne` says that nobody resumes by hand and that
either a single cron ticks without overlap (`OneCron`: on either backend, with no bound on
how long a resume takes), or a lock is one conditional `UPDATE` (SQLite) and a resume ends
before its lock expires. Two crons on Postgres do exclude nothing (`async_lock_race`). That
crons have names of their own is not needed. `Orderly` is inductive then: of several crons,
one in a resume holds a fresh lock in its name (`CronOK`); the run of a cron is no longer
`running`, a client works on one that still is (`ClientOK`), so nobody shares a run
(`OnePerRun`); hence a process'
round is its row's or the next, untested one (`RoundOK`), what it is about to write agrees
with what it wrote to the session, and its copy with the row (`WordOK`). It gives
`NoDoubleResume`, `OneJobPerRound` and `SessionAgrees` with cancels and decisions of people
allowed (a person who was the last to write the session has the last word on it), and without
cancels the refinement of `RunLifecycle`. (With cancels that refinement is false: see
section 7.) Under no assumption at all, `QueueAsPromised` says that the orchestrator, its
cancels included, treats jobs only as `JobLifecycle` allows. As `WorkerJobs` implements that
module, what is proved of runs over abstract jobs holds over the real queue.

**`SyncRounds_proofs`**: `RequestOK` ties the report and the outcome in hand to the greens
of the round, `PassedOK` says in whose hands a passed status may be (a person may have read
one and write it back), `UndecidedOK` that without decisions only the request writes the
session, `WorkOK` that rounds leave their jobs behind.

**`Sandbox_proofs`**: `ExecOK` speaks of one execution, its child and what it replaced, and
needs nothing of the others, which is why types and orphans are proved for executions that
overlap in one directory. That green means tested and hashes were checked needs `Alone`: then
`AloneInv` says that the directory holds what this execution cloned and applied, and
`StillFits` that a file is, until its write, what it was when its hash was compared. Where
executions overlap the second is false: the comparison is awaited, and the directory may be
made anew or written by another before the file is replaced.

**`RateLimiter_proofs`, `Deployment_proofs`**: an admitted hit leaves the store only when
its window is over by the clock (`Remembered`); a hit lands within `Delay` of its stamp, so
it finds every hit admitted in its span, whose number is counted with the theorems on
finite sets. A command that fails inside an answered pipeline may let its own request in
(`broken`) but takes no hit of another away, so the bound is `Limit` and those requests. The guard's deployment implements the limiter. The invariant of access says
what a call knew and when (`seen`), and that what it has yet to write to the audit log has
been done. Readiness has no steps: its theorems follow from what each failing check means
(`WhatFails`), for every configuration.

**`PullRequests_proofs`**: `Inv` has what holds of patch sets, jobs, opened pull requests,
the ledger and branch owners, and `CallFine` for each call, by the place it is at. The idea
is `Grow`: what a call relies on (a stored set, a green verdict once written for it, an
agreement once given, a branch of its own) stays what it was, so it is enough to show that
each step adds to it, and `CallStays` carries the other calls along. The verdict itself does
not stay: a cancel or a late worker may replace it, before the set is opened or after, so
what the gate read is kept in the history `greens`. The refinement of `ReviewedChange` maps each
patch set to its stage; a step moves one set by one stage or none. `GateEvidence` says
what is left of the README's promise about the sandbox gate, which `pull_untested` refutes:
a green verdict was written for the very patch set, by an execution that applied some of its
stored files and, in strict mode, compared the hash of each it replaced. `GateFit` is its
invariant. That the set is of the artifact published is not so (`pull_untested`), nor that
all files were tested: TLC finds a job that applied and passed a set of which the validate
request had stored one of two files.

**`Console_proofs`**: the hard part is that answers come late. `ServerOK` says what the
server's rows keep, and `Seen` what any old copy of a job's row still says of it: it names
its row, and if it was passed, the row was passed once (`green`), whatever has been written over it. `CallOK` says of each call in flight
what its answer can be. From these `RunPageOK` and `JobPageOK` follow of what the page
shows, whatever order the answers land in, and `PollsRun` and `PollsJob` that as long as it
shows something unfinished whose last poll did not fail, a timer is set or a call that
reads it is in flight. They give `TypeOK`,
`KeepsPolling` and `GateMatchesJob`. No bound of the instance is used but that each is a
number.

Every invariant and action property of the passing runs, and every refinement, is thereby
the statement of a theorem, some under the assumptions named above. Only model-checked is
liveness: `EveryJobFinishes`, `WaitingRunFinishes`, `RequestEnds`, `ExecutionEnds`, out of
the prover's reach like `ENABLED`. No module uses a `RECURSIVE` operator.

## 7. What the runs and the modelling found

Three properties that the repository states are refuted by runs (`findings` in
`PROJECT.json`): the resume lock on Postgres admits two winners; a pull request may carry a
patch no job tested; one failed poll ends the polling of a job.

Others were seen while modelling. The models contain them, and the properties above are
stated so that they hold nevertheless:

*Queue and sandbox.* A worker that lost its job may still write its status, since owner
check and write are two calls (`worker/job-service.ts:377`, `382`); a cancelled job may end
as passed or failed for the same reason. With a lease longer than one heartbeat interval and
shorter than threshold × interval, which the settings allow, exclusion does not hold. After a
crash, the next claim uses the directory of the first execution while its children may
still run, and so it does when the first has only lost its lease (`Alone = FALSE`): then a
file may change between the check of its hash and the write. There is no `SIGKILL` after `SIGTERM`, and `git clone` has no
timeout.

*Async runs.* A rejection during a run is overwritten by the verdict that comes after it, and
a verdict by an approval that writes back the status it read before. A resume that outlives the lock's TTL shares its run; a cancel reads, checks
and writes, and so overwrites a verdict that came in between; a start that fails before its
job is linked leaves the run `running` for ever; finished jobs are looked for among the
oldest waiting runs of a batch, so runs that never finish starve the others.

*Sync runs.* A late verdict after a wait that gave up is never read; a rejected call leaves
its session `running`; inline mode without execution counts as green; an approval
writes back the session it read, whatever the rounds have become.

*Pull requests.* A passed verdict can be taken back by a cancel that read the job before, or
replaced by another execution of it, after a gate has read it. A test job requested while a set's files are still being stored applies
and tests those that are there, and opens the gate for all of them. A rejected session whose status is passed can still be opened; a failed
row may stand for a pull request that exists, and a retry opens a second one; two calls for
one set both pass the gates; a stale status comes back with `base_sha`; the base
commit is not compared again once the set was tested.

*Access.* The dry run drops the worker's part of a report and calls safe a deployment that
readiness refuses (`production-dry-run.ts:51`). Readiness passes a deployment with inline
commands allowed whose worker refuses to start (`worker/job-queue.ts:63`), and only warns
of a limiter provider with which every limited request throws; `ReadyMeansUsable` sets these
two apart (`SetApart`). When a command of an Upstash pipeline fails
inside an answer of status 200, the missing count is read as zero and the request let in
(`security/redis-rate-limit.ts:97`), while the guard fails closed on any other status.
Refused hits are recorded, so a client that retries after
`retryAfter` may be refused again; hits that land out of order can exceed the limit in a
full window, hence the span of `NeverOverLimit` is `Window - Delay`; the memory store is one
per process. Login goes on when the limiter's store fails while the guard refuses, and
mints a key for a user disabled in between. A change may lack its audit row.

*Console.* A late answer overwrites what was selected since, also after a logout. The page
knows whether pull requests are live and tests run in workers only once its health was asked
for by hand, and forgets it at logout; until then its button is enabled without any job, and
only the server refuses (`page.tsx:1117`, `1217`).

## 8. Not modelled

* Safety scan, redaction, path rules and unified diff parsing: functions on texts. The
  models take their verdict as a choice (`Unsafe`, blocked commands, blocked patches).
* Settings, model adapters, prompts, cost and usage figures: no state that others act on;
  a model's answer is any answer.
* Smoke scripts, migrations, pages other than the console: tools and layout. HTTP routes
  are modelled where they do more than parse and call (`Access`, `PullRequests`).
* The worker's main loop beyond drain and auto-resume: signals, sleep, logging.
* Cryptography and sessions of the browser: a key is valid or it is not.
* Output capping, process trees, the file system below a file's content.

Abstractions that matter: the SQLite claim of a job is one step, as for the single writer
the README of the repository describes; a renewal is answered or fails before the next
beat; the scheduler's batch is larger than the set of runs; a batch of GitHub calls on one
file is a read and a write; a request's body is parsed before it starts.
