------------------------------ MODULE Console ------------------------------
(***************************************************************************)
(* The page of the orchestrator: what it shows of a run, a session and a   *)
(* test job, the timers that poll them, and the calls it has in flight.    *)
(* A call is answered from the server's rows of one moment and delivered   *)
(* at a later one; by then the page may show something else.  Delivering   *)
(* an answer sets state and runs the effects that depend on it, in one     *)
(* step of the browser.  Two equal calls in flight count as one.           *)
(***************************************************************************)
EXTENDS Integers, FiniteSets

CONSTANTS
  Sessions,     \* sessions of the list
  MaxSets,      \* bound on validated patch sets of a session
  MaxJobs,      \* bound on test jobs
  MaxRounds,    \* max_rounds of a run
  MaxClicks,    \* bound on what the user does
  MaxFailures,  \* bound on calls that fail
  MaxFlying,    \* bound on calls in flight when one more is asked for
  RunSession,   \* the session of the run, running as long as it does
  Gated,        \* the deployment opens live pull requests and tests in workers
  NoSession

ASSUME ConsoleAssumption ==
  /\ {MaxSets, MaxJobs, MaxClicks, MaxFailures, MaxFlying} \subseteq Nat
  /\ MaxRounds \in Nat \ {0} /\ Gated \in BOOLEAN

Ids == 1 .. MaxJobs

VARIABLES
  \* the server
  sets,       \* patch sets of each session: how many, which of them validated
  jobs,       \* test jobs
  green,      \* history: the jobs that were passed at some time
  run,        \* the asynchronous run: status, round, status of its job
  \* the page
  key,        \* an API key is present
  me,         \* the identity is known: the page is shown, not the login
  detail,     \* the session shown
  asyncRun,   \* the run shown
  autoResumed,
  jobView,    \* the test job shown
  latest,     \* latestValidatedPatchSetId: session and number, 0 for none
  health,     \* what the page knows of Gated: asked for by hand, null at first
  runTimer, jobTimer,
  calls,      \* calls in flight
  clicks, failures,
  quietRun, quietJob  \* history: the last poll of the run, of the job, failed

jobRows == <<jobs, green>>
server == <<sets, jobRows, run>>
identity == <<key, me, health>>
runPage == <<asyncRun, autoResumed, runTimer, quietRun>>
jobPage == <<jobView, jobTimer, quietJob>>
page == <<identity, detail, runPage, jobPage, latest>>
vars == <<server, page, calls, clicks, failures>>

TERMINAL_JOB == {"passed", "failed", "cancelled"}
TERMINAL_ORCH == {"passed", "failed", "cancelled"}
JobStatuses == {"none", "queued"} \cup TERMINAL_JOB
RunStatuses == {"none", "waiting_for_worker"} \cup TERMINAL_ORCH

NoJob == [id |-> 0, session |-> NoSession, set |-> 0, status |-> "none"]
NoRun == [status |-> "none", round |-> 0, job |-> "none"]
NoSet == [session |-> NoSession, set |-> 0]
NoDetail == [session |-> NoSession, running |-> FALSE]

\* What an answer may carry.
Nothing == [detail |-> NoDetail, run |-> NoRun, job |-> NoJob, latest |-> NoSet]

CallWith(auth, kind, s, j) ==
  [kind |-> kind, session |-> s, job |-> j, auth |-> auth, answered |-> FALSE, body |-> Nothing]
Call(kind, s, j) == CallWith(key, kind, s, j)

Init ==
  /\ sets = [s \in Sessions |-> [made |-> 0, validated |-> {}]]
  /\ jobs = [j \in Ids |-> NoJob]
  /\ run = NoRun /\ green = {}
  /\ key = TRUE /\ me = FALSE /\ health = "null"   \* the key of an earlier visit
  /\ detail = NoDetail /\ latest = NoSet
  /\ asyncRun = NoRun /\ autoResumed = FALSE /\ runTimer = FALSE /\ quietRun = FALSE
  /\ jobView = NoJob /\ jobTimer = FALSE /\ quietJob = FALSE
  /\ calls = {Call("me", NoSession, 0)} /\ clicks = 0 /\ failures = 0

-----------------------------------------------------------------------------
(* Setting state, with the effects that follow.                            *)

Replace(old, new) == calls' = (calls \ old) \cup new

\* The effect on asyncRun resumes by itself, once, when the job is over;
\* otherwise it arms the timer of the next poll, unless the run is over.
AutoResumes(r, resumed) ==
  r.status = "waiting_for_worker" /\ r.job \in TERMINAL_JOB /\ ~resumed
RunActive(r) == r.status \notin TERMINAL_ORCH \cup {"none"}
ArmsOnChange(r) == RunActive(r) /\ r # asyncRun
Arms(r) == RunActive(r)

setAsyncRunWith(auth, r, resumed, old, new) ==
  LET resuming == RunActive(r) /\ AutoResumes(r, resumed) IN
  /\ asyncRun' = r
  /\ autoResumed' = (resumed \/ resuming)
  /\ runTimer' = (Arms(r) /\ ~resuming)
  /\ quietRun' = FALSE
  /\ Replace(old, new \cup (IF resuming THEN {CallWith(auth, "resume", NoSession, 0)} ELSE {}))
setAsyncRun(r, resumed, old, new) == setAsyncRunWith(key, r, resumed, old, new)

JobActive(j) == j.status \notin TERMINAL_JOB \cup {"none"}

ArmsAlways(j) == j # NoJob
ArmsJob(j) == JobActive(j)

setJobView(j) ==
  /\ jobView' = j
  /\ jobTimer' = ArmsJob(j)
  /\ quietJob' = FALSE

\* Switching sessions resets what belongs to the session before.
setDetail(d) ==
  /\ detail' = d
  /\ IF d.session = detail.session THEN UNCHANGED <<jobPage, latest>>
     ELSE setJobView(NoJob) /\ latest' = NoSet

\* refreshGhState follows every change of the session shown.
GhCall(d) == IF d = NoDetail THEN {} ELSE {Call("gh", d.session, 0)}

-----------------------------------------------------------------------------
(* What the user does.                                                     *)

Click ==
  /\ clicks < MaxClicks /\ Cardinality(calls) < MaxFlying
  /\ clicks' = clicks + 1
  /\ UNCHANGED <<server, failures>>

Ask(c) == Replace({}, {c}) /\ UNCHANGED page

\* The login stores a key; the effect on the key loads the identity.  Both
\* polls start anew, for their functions depend on the key.
Login ==
  /\ Click /\ ~me /\ ~key
  /\ key' = TRUE
  /\ setAsyncRunWith(TRUE, asyncRun, autoResumed, {}, {CallWith(TRUE, "me", NoSession, 0)})
  /\ setJobView(jobView)
  /\ UNCHANGED <<me, health, detail, latest>>

Logout ==
  /\ Click /\ me
  /\ key' = FALSE /\ me' = FALSE /\ health' = "null"
  /\ detail' = NoDetail
  /\ setJobView(IF detail = NoDetail THEN jobView ELSE NoJob)
  /\ latest' = IF detail = NoDetail THEN latest ELSE NoSet
  /\ setAsyncRun(NoRun, autoResumed, {}, {})

\* The run button is disabled while its call is in flight.
StartRun ==
  /\ Click /\ me /\ key /\ run = NoRun
  /\ \A c \in calls : c.kind # "run"
  /\ Ask(Call("run", NoSession, 0))

OpenSession(s) == Click /\ me /\ Ask(Call("open", s, 0))

\* approve or reject
Decide == Click /\ me /\ detail # NoDetail /\ Ask(Call("decide", detail.session, 0))

ResumeRun == Click /\ me /\ RunActive(asyncRun) /\ Ask(Call("resume", NoSession, 0))
CancelRun == Click /\ me /\ RunActive(asyncRun) /\ Ask(Call("cancel_run", NoSession, 0))

prLoading == \E c \in calls : c.kind \in {"validate", "create_pr"}
jobBusy == \E c \in calls : c.kind \in {"test", "cancel_job"}

ValidatePatch ==
  Click /\ me /\ detail # NoDetail /\ ~prLoading /\ Ask(Call("validate", detail.session, 0))

RunSandboxTests ==
  /\ Click /\ me /\ detail # NoDetail /\ ~jobBusy /\ latest.set # 0
  /\ Ask(Call("test", detail.session, 0))

\* What was known is forgotten until the answer comes.
CheckHealth ==
  /\ me /\ key /\ Cardinality(calls) < MaxFlying
  /\ health' = "null"
  /\ Replace({}, {Call("health", NoSession, 0)})
  /\ UNCHANGED <<server, key, me, detail, runPage, jobPage, latest, clicks, failures>>

CancelJob == Click /\ me /\ JobActive(jobView) /\ ~jobBusy /\ Ask(Call("cancel_job", NoSession, jobView.id))

jobMatchesPatchNot == TRUE
jobMatchesPatch ==
  /\ jobView # NoJob /\ latest.set # 0
  /\ jobView.session = latest.session /\ jobView.set = latest.set

\* liveMode and workerProvider are what health says, and nothing while it is null.
createPrBlockedByWorker == health = "gated" /\ ~(jobView.status = "passed" /\ jobMatchesPatch)

CreatePr ==
  /\ Click /\ me /\ detail # NoDetail /\ ~prLoading /\ ~createPrBlockedByWorker
  /\ Ask(Call("create_pr", detail.session, 0))

-----------------------------------------------------------------------------
(* Timers.                                                                 *)

PollRun ==
  /\ runTimer
  /\ runTimer' = FALSE /\ autoResumed' = FALSE
  /\ Replace({}, {Call("poll", NoSession, 0)})
  /\ UNCHANGED <<server, identity, detail, asyncRun, quietRun, jobPage, latest, clicks, failures>>

PollJob ==
  /\ jobTimer
  /\ jobTimer' = FALSE
  /\ Replace({}, {Call("job", NoSession, jobView.id)})
  /\ UNCHANGED <<server, identity, detail, runPage, jobView, quietJob, latest, clicks, failures>>

\* Every four seconds while the session shown is running.
RefreshSession ==
  /\ detail.running /\ Cardinality(calls) < MaxFlying
  /\ Ask(Call("refresh", detail.session, 0))
  /\ UNCHANGED <<server, clicks, failures>>

-----------------------------------------------------------------------------
(* The server answers a call, changing its rows if the call asks for it.   *)

latestValidated(s) ==
  IF sets[s].validated = {} THEN NoSet
  ELSE [session |-> s, set |-> CHOOSE n \in sets[s].validated : \A m \in sets[s].validated : m <= n]

Answer(c, body) ==
  /\ ~c.answered /\ c.auth
  /\ Replace({c}, {[c EXCEPT !.answered = TRUE, !.body = body]})
  /\ UNCHANGED <<page, clicks, failures>>

Read(c) ==
  /\ \/ c.kind \in {"me", "health"} /\ Answer(c, Nothing)
     \/ c.kind = "poll" /\ Answer(c, [Nothing EXCEPT !.run = run])
     \/ c.kind = "job" /\ Answer(c, [Nothing EXCEPT !.job = jobs[c.job]])
     \/ c.kind = "gh" /\ Answer(c, [Nothing EXCEPT !.latest = latestValidated(c.session)])
     \/ /\ c.kind \in {"open", "refresh", "decide"}
        /\ Answer(c, [Nothing EXCEPT !.detail =
             [session |-> c.session, running |-> c.session = RunSession /\ RunActive(run)]])
  /\ UNCHANGED server

\* worker_async starts a run; otherwise the answer is a finished session.
ServeRun(c) ==
  /\ c.kind = "run"
  /\ \/ /\ run = NoRun
        /\ run' = [status |-> "waiting_for_worker", round |-> 1, job |-> "queued"]
        /\ Answer(c, [Nothing EXCEPT !.run = run'])
     \/ /\ \E s \in Sessions : Answer(c, [Nothing EXCEPT !.detail = [session |-> s, running |-> FALSE]])
        /\ UNCHANGED run
  /\ UNCHANGED <<sets, jobRows>>

\* The run goes on, by this call or by the scheduled resume.
Advance ==
  /\ run.status = "waiting_for_worker" /\ run.job \in TERMINAL_JOB
  /\ \/ \E st \in {"passed", "failed"} : run' = [run EXCEPT !.status = st]
     \/ run.round < MaxRounds /\ run' = [run EXCEPT !.round = @ + 1, !.job = "queued"]

ServeResume(c) ==
  /\ c.kind = "resume"
  /\ Advance \/ UNCHANGED run
  /\ Answer(c, Nothing)
  /\ UNCHANGED <<sets, jobRows>>

ServeCancelRun(c) ==
  /\ c.kind = "cancel_run"
  /\ run' = IF RunActive(run) THEN [run EXCEPT !.status = "cancelled"] ELSE run
  /\ Answer(c, Nothing)
  /\ UNCHANGED <<sets, jobRows>>

\* A new set, unless the patch is rejected.
ServeValidate(c) ==
  /\ c.kind = "validate"
  /\ \/ UNCHANGED sets
     \/ /\ sets[c.session].made < MaxSets
        /\ sets' = [sets EXCEPT ![c.session] =
             [made |-> @.made + 1, validated |-> @.validated \cup {@.made + 1}]]
  /\ Answer(c, Nothing)
  /\ UNCHANGED <<jobRows, run>>

\* The latest validated set becomes a pull request, unless a gate refuses.
ServeCreatePr(c) ==
  /\ c.kind = "create_pr"
  /\ \/ UNCHANGED sets
     \/ sets' = [sets EXCEPT ![c.session].validated = @ \ {latestValidated(c.session).set}]
  /\ Answer(c, Nothing)
  /\ UNCHANGED <<jobRows, run>>

\* A job for the set that is the latest by now.
ServeTest(c) ==
  /\ c.kind = "test" /\ latestValidated(c.session) # NoSet
  /\ \E j \in Ids :
       /\ jobs[j] = NoJob /\ \A i \in Ids : i < j => jobs[i] # NoJob
       /\ jobs' = [jobs EXCEPT ![j] = [id |-> j, session |-> c.session, status |-> "queued",
                                       set |-> latestValidated(c.session).set]]
       /\ Answer(c, [Nothing EXCEPT !.job = jobs'[j]])
  /\ UNCHANGED <<sets, run, green>>

\* A verdict is written.
Settle(j, st) ==
  /\ jobs' = [jobs EXCEPT ![j].status = st]
  /\ green' = IF st = "passed" THEN green \cup {j} ELSE green

ServeCancelJob(c) ==
  /\ c.kind = "cancel_job"
  /\ IF JobActive(jobs[c.job]) THEN Settle(c.job, "cancelled") ELSE UNCHANGED jobRows
  /\ Answer(c, Nothing)
  /\ UNCHANGED <<sets, run>>

Serve(c) ==
  \/ Read(c) \/ ServeRun(c) \/ ServeResume(c) \/ ServeCancelRun(c) \/ ServeValidate(c)
  \/ ServeCreatePr(c) \/ ServeTest(c) \/ ServeCancelJob(c)

\* The worker ends a job.
FinishJob(j) ==
  /\ JobActive(jobs[j])
  /\ \E st \in {"passed", "failed"} : Settle(j, st)
  /\ UNCHANGED <<sets, run, page, calls, clicks, failures>>

\* A worker that is late, or a cancel that read the row before, replaces the verdict.
ReplaceVerdict(j) ==
  /\ jobs[j].status \in TERMINAL_JOB
  /\ \E st \in TERMINAL_JOB : Settle(j, st)
  /\ UNCHANGED <<sets, run, page, calls, clicks, failures>>

FinishRunJob ==
  /\ run.job = "queued"
  /\ run' = [run EXCEPT !.job = "passed"]
  /\ UNCHANGED <<sets, jobRows, page, calls, clicks, failures>>

CronResume == Advance /\ UNCHANGED <<sets, jobRows, page, calls, clicks, failures>>

-----------------------------------------------------------------------------
(* The page takes an answer.                                               *)

\* One disjunct per await of apiFetch.
Deliver(c) ==
  /\ c.answered
  /\ \/ /\ c.kind = "me"
        /\ me' = TRUE
        /\ Replace({c}, {}) /\ UNCHANGED <<key, health, detail, runPage, jobPage, latest>>
     \/ /\ c.kind = "health"
        /\ health' = IF Gated THEN "gated" ELSE "open"
        /\ Replace({c}, {}) /\ UNCHANGED <<key, me, detail, runPage, jobPage, latest>>
     \/ /\ c.kind = "run" /\ c.body.run # NoRun
        /\ setDetail(NoDetail)
        /\ setAsyncRun(c.body.run, FALSE, {c}, {})
        /\ UNCHANGED identity
     \/ /\ c.kind = "run" /\ c.body.run = NoRun
        /\ setDetail(c.body.detail)
        /\ setAsyncRun(NoRun, autoResumed, {c}, GhCall(c.body.detail))
        /\ UNCHANGED identity
     \/ /\ c.kind = "poll"
        /\ setAsyncRun(c.body.run, autoResumed, {c}, {})
        /\ UNCHANGED <<identity, detail, jobPage, latest>>
     \/ /\ c.kind \in {"resume", "cancel_run"}
        /\ Replace({c}, {Call("poll", NoSession, 0)}) /\ UNCHANGED page
     \/ /\ c.kind \in {"open", "refresh", "decide"}
        /\ setDetail(c.body.detail)
        /\ Replace({c}, GhCall(c.body.detail))
        /\ UNCHANGED <<identity, runPage>>
     \/ /\ c.kind = "gh"
        /\ latest' = c.body.latest
        /\ Replace({c}, {}) /\ UNCHANGED <<identity, detail, runPage, jobPage>>
     \/ /\ c.kind = "validate"
        /\ Replace({c}, {Call("gh", c.session, 0)}) /\ UNCHANGED page
     \/ /\ c.kind = "create_pr"
        /\ Replace({c}, {}) /\ UNCHANGED page
     \/ /\ c.kind = "test"
        /\ Replace({c}, {Call("job", NoSession, c.body.job.id)}) /\ UNCHANGED page
     \/ /\ c.kind = "cancel_job"
        /\ Replace({c}, {Call("job", NoSession, c.job)}) /\ UNCHANGED page
     \/ /\ c.kind = "job"
        /\ setJobView(c.body.job)
        /\ Replace({c}, {}) /\ UNCHANGED <<identity, detail, runPage, latest>>
  /\ UNCHANGED <<server, clicks, failures>>

\* The call fails or is refused; without a key it always does.  Nothing is
\* tried again; after a refused cancel or validation the rows are read.
Fail(c) ==
  /\ failures < MaxFailures \/ ~c.auth
  /\ failures' = IF c.auth THEN failures + 1 ELSE failures
  /\ me' = IF c.kind = "me" THEN FALSE ELSE me
  /\ quietRun' = (quietRun \/ c.kind \in {"poll", "resume", "cancel_run"})
  /\ quietJob' = (quietJob \/ c.kind \in {"job", "cancel_job"})
  /\ \/ Replace({c}, {})
     \/ c.kind = "cancel_run" /\ Replace({c}, {Call("poll", NoSession, 0)})
     \/ c.kind = "cancel_job" /\ Replace({c}, {Call("job", NoSession, c.job)})
     \/ c.kind = "validate" /\ Replace({c}, {Call("gh", c.session, 0)})
  /\ UNCHANGED <<server, key, health, detail, asyncRun, autoResumed, runTimer, jobView, jobTimer, latest, clicks>>

User ==
  \/ Login \/ Logout \/ CheckHealth \/ StartRun \/ Decide \/ ResumeRun \/ CancelRun
  \/ ValidatePatch \/ RunSandboxTests \/ CancelJob \/ CreatePr
  \/ \E s \in Sessions : OpenSession(s)

Worker == FinishRunJob \/ \E j \in Ids : FinishJob(j)

Next ==
  \/ User \/ PollRun \/ PollJob \/ RefreshSession \/ Worker \/ CronResume
  \/ \E j \in Ids : ReplaceVerdict(j)
  \/ \E c \in calls : Serve(c) \/ Deliver(c) \/ Fail(c)

Spec == Init /\ [][Next]_vars

\* Timers fire, reads of a job are answered and delivered, the worker works.
JobAnswers == \E c \in calls : c.kind = "job" /\ (Serve(c) \/ Deliver(c))
FairSpec == Spec /\ WF_vars(PollJob) /\ WF_vars(Worker) /\ SF_vars(JobAnswers)

-----------------------------------------------------------------------------

JobRows == [id : 0 .. MaxJobs, session : Sessions \cup {NoSession}, set : 0 .. MaxSets, status : JobStatuses]
RunRows == [status : RunStatuses, round : 0 .. MaxRounds, job : JobStatuses]

\* A timer runs only for what is shown and not over.
TypeOK ==
  /\ jobs \in [Ids -> JobRows] /\ green \subseteq Ids /\ run \in RunRows
  /\ detail \in [session : Sessions \cup {NoSession}, running : BOOLEAN]
  /\ asyncRun \in RunRows /\ jobView \in JobRows
  /\ latest \in [session : Sessions \cup {NoSession}, set : 0 .. MaxSets]
  /\ health \in {"null", "open", "gated"}
  /\ {key, me, autoResumed, runTimer, jobTimer, quietRun, quietJob} \subseteq BOOLEAN
  /\ runTimer => RunActive(asyncRun)
  /\ jobTimer => JobActive(jobView)

\* A call that ends by reading the row of the run, or of a job.
ReadsRun(c) == c.kind \in {"poll", "resume", "cancel_run"}
ReadsJob(c) == c.kind \in {"job", "cancel_job"}

(***************************************************************************)
(* What is shown and not over is polled: a timer is armed or a call is in  *)
(* flight that will arm it, unless the last such call failed, after which  *)
(* nothing polls any more (page.tsx, the effects on asyncRun and jobView). *)
(***************************************************************************)
KeepsPolling ==
  /\ RunActive(asyncRun) => runTimer \/ quietRun \/ \E c \in calls : ReadsRun(c)
  /\ JobActive(jobView) => jobTimer \/ quietJob \/ \E c \in calls : ReadsJob(c)

(***************************************************************************)
(* Once the page knows that pull requests are live and tests run in        *)
(* workers, its button is enabled only if a worker has passed a job for    *)
(* the very patch set the page knows as the latest validated one, in       *)
(* whatever order jobs, sets, verdicts and answers come.  Until health was *)
(* asked for, and after every logout, the button is enabled without any    *)
(* job: then only the server refuses (page.tsx, createPrBlockedByWorker).  *)
(***************************************************************************)
GateMatchesJob ==
  health = "gated" /\ ~createPrBlockedByWorker =>
    \E j \in green : jobs[j].session = latest.session /\ jobs[j].set = latest.set

\* A job that is shown is over at some time, or no longer shown
\* (page.tsx, "Poll a non-terminal job until it settles").
ShownJobSettles == JobActive(jobView) ~> ~JobActive(jobView)

=============================================================================
