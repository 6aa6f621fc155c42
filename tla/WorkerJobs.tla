----------------------------- MODULE WorkerJobs -----------------------------
(***************************************************************************)
(* The worker job queue of the execution plane: the rows of                *)
(* ai_worker_jobs, the operations the repositories offer on them, and the  *)
(* processes that use them.  An executor is one call of pollAndRunOnce in  *)
(* flight: a worker process runs CONCURRENCY of them, all under one worker *)
(* id.  A row's status and lease are shared; everything an executor keeps  *)
(* between two awaits (what it read, its abort signal, its heartbeat) is   *)
(* its own, so every await of the code is a step of its own here.          *)
(*                                                                         *)
(* Time is what is left on a timer.  lease[j] is lease_expires_at minus    *)
(* the present, and -1 stands for a lease that is past or null: the code   *)
(* never tells these two apart.  beat[e] is the time to the next heartbeat.*)
(***************************************************************************)
EXTENDS Integers

CONSTANTS
  Jobs,          \* job ids
  Executors,     \* concurrent calls of pollAndRunOnce
  WorkerIds,     \* values of AI_ORCHESTRATOR_WORKER_ID
  WorkerOf,      \* the worker id an executor claims under
  NoWorker,      \* lease_owner = null
  NoJob,         \* an executor that holds no job
  Priority,      \* priority column, lower runs first
  Backend,       \* "postgres" (RPC of migration 008) or "sqlite" (also the in-memory queue)
  MaxAttempts,   \* max_attempts column
  Commands,      \* number of commands of a job
  Lease,         \* lease duration
  Interval,      \* heartbeat interval
  Threshold,     \* consecutive failed renewals that abort the job
  Timely         \* TRUE: timers fire on time and bookkeeping takes no time

ASSUME JobsAssumption ==
  /\ NoJob \notin Jobs
  /\ Priority \in [Jobs -> Nat]
ASSUME WorkersAssumption ==
  /\ WorkerOf \in [Executors -> WorkerIds]
  /\ NoWorker \notin WorkerIds
ASSUME BackendAssumption == Backend \in {"postgres", "sqlite"}
ASSUME TimingAssumption ==
  /\ MaxAttempts \in Nat /\ Commands \in Nat
  /\ Lease \in Nat \ {0} /\ Interval \in Nat \ {0} /\ Threshold \in Nat \ {0}
  /\ Timely \in BOOLEAN

VARIABLES
  status, owner, lease, attempts, created,   \* columns of a job
  enqueued,                                  \* jobs created so far, orders created_at
  cancelling,                                \* jobs a cancel handler has read and will write
  claims,                                    \* history: how often each job was claimed
  pc, holds, ticket,                         \* executor: where it is, its job, which claim it is
  todo, verdict, seen,                       \* commands left, outcome, attempts column as read
  hb, beat, fails, reason                    \* heartbeat state and abort reason

jobVars   == <<status, owner, lease, attempts, created, enqueued, claims>>
heartVars == <<hb, beat, fails, reason>>
execVars  == <<pc, holds, ticket, todo, verdict, seen>>
vars      == <<jobVars, cancelling, execVars, heartVars>>

Terminal     == {"passed", "failed", "cancelled", "timed_out"}
JobStatus    == {"absent", "queued", "running"} \cup Terminal
LeaseReasons == {"lease_lost", "lease_renewal_failed"}
AbortReason  == {"external_cancel"} \cup LeaseReasons
InSandbox    == {"start", "prepare", "loop", "command"}
Finalizing   == {"stopped", "check", "merge", "write"}

Init ==
  /\ status = [j \in Jobs |-> "absent"]
  /\ owner = [j \in Jobs |-> NoWorker]
  /\ lease = [j \in Jobs |-> -1]
  /\ attempts = [j \in Jobs |-> 0]
  /\ created = [j \in Jobs |-> 0]
  /\ enqueued = 0
  /\ cancelling = {}
  /\ claims = [j \in Jobs |-> 0]
  /\ pc = [e \in Executors |-> "idle"]
  /\ holds = [e \in Executors |-> NoJob]
  /\ ticket = [e \in Executors |-> 0]
  /\ todo = [e \in Executors |-> 0]
  /\ verdict = [e \in Executors |-> "none"]
  /\ seen = [e \in Executors |-> 0]
  /\ hb = [e \in Executors |-> "off"]
  /\ beat = [e \in Executors |-> 0]
  /\ fails = [e \in Executors |-> 0]
  /\ reason = [e \in Executors |-> "none"]

-----------------------------------------------------------------------------
(* The queue.                                                              *)

\* createWorkerJob: a new queued row.
Enqueue(j) ==
  /\ status[j] = "absent"
  /\ status' = [status EXCEPT ![j] = "queued"]
  /\ created' = [created EXCEPT ![j] = enqueued]
  /\ enqueued' = enqueued + 1
  /\ UNCHANGED <<owner, lease, attempts, claims, cancelling, execVars, heartVars>>

\* Mutants of Claimable: a lease that runs out one unit early; the missing
\* parentheses of OR and AND; no reclaiming at all.
ClaimableEarly(j)    == status[j] = "queued" \/ (status[j] = "running" /\ lease[j] <= 0)
ClaimableAnyStale(j) == status[j] = "queued" \/ (status[j] # "absent" /\ lease[j] < 0)
ClaimableOnce(j)     == status[j] = "queued"

\* Rows the claim query selects.
Claimable(j) ==
  \/ status[j] = "queued"
  \/ status[j] = "running" /\ lease[j] < 0

\* Mutant of Eligible: the attempt limit off by one.
EligibleOnceMore == {j \in Jobs : Claimable(j) /\ attempts[j] <= MaxAttempts}

Eligible  == {j \in Jobs : Claimable(j) /\ attempts[j] < MaxAttempts}
Exhausted == {j \in Jobs : Claimable(j) /\ attempts[j] >= MaxAttempts}

\* ORDER BY priority ASC, created_at ASC.
Before(j, k) ==
  \/ Priority[j] < Priority[k]
  \/ Priority[j] = Priority[k] /\ created[j] < created[k]

\* The exhausted rows one claim marks failed.  The RPC fails all of them; the
\* other queues walk the rows in order and stop at the first they can claim.
GivenUp ==
  IF Backend = "postgres"
  THEN Exhausted
  ELSE {k \in Exhausted : \A j \in Eligible : Before(k, j)}

\* claimNextWorkerJob that finds a row.  Failing a row leaves its lease columns.
Claim(e) ==
  /\ pc[e] = "idle"
  /\ \E j \in Eligible :
       /\ \A k \in Eligible \ {j} : Before(j, k)
       /\ status' = [k \in Jobs |-> IF k = j THEN "running"
                                    ELSE IF k \in GivenUp THEN "failed"
                                    ELSE status[k]]
       /\ owner' = [owner EXCEPT ![j] = WorkerOf[e]]
       /\ lease' = [lease EXCEPT ![j] = Lease]
       /\ attempts' = [attempts EXCEPT ![j] = attempts[j] + 1]
       /\ claims' = [claims EXCEPT ![j] = claims[j] + 1]
       /\ pc' = [pc EXCEPT ![e] = "claimed"]
       /\ holds' = [holds EXCEPT ![e] = j]
       /\ ticket' = [ticket EXCEPT ![e] = claims[j] + 1]
  /\ UNCHANGED <<created, enqueued, cancelling, todo, verdict, seen, heartVars>>

\* claimNextWorkerJob that finds only exhausted rows and returns null.
FailExhausted(e) ==
  /\ pc[e] = "idle"
  /\ Eligible = {} /\ Exhausted # {}
  /\ status' = [k \in Jobs |-> IF k \in GivenUp THEN "failed" ELSE status[k]]
  /\ UNCHANGED <<owner, lease, attempts, created, enqueued, claims, cancelling,
                 execVars, heartVars>>

\* cancelWorkerJob reads the row and refuses a job that is not queued or running...
CancelRead(j) ==
  /\ status[j] \in {"queued", "running"}
  /\ cancelling' = cancelling \cup {j}
  /\ UNCHANGED <<jobVars, execVars, heartVars>>

\* ... and then writes the status whatever it has become, leaving the lease alone.
CancelWrite(j) ==
  /\ j \in cancelling
  /\ cancelling' = cancelling \ {j}
  /\ status' = [status EXCEPT ![j] = "cancelled"]
  /\ UNCHANGED <<owner, lease, attempts, created, enqueued, claims, execVars, heartVars>>

-----------------------------------------------------------------------------
(* processClaimedJob and runSandboxJob.                                    *)

\* The call returns (or dies) and the executor polls again with nothing kept.
GoIdle(e) ==
  /\ pc' = [pc EXCEPT ![e] = "idle"]
  /\ holds' = [holds EXCEPT ![e] = NoJob]
  /\ ticket' = [ticket EXCEPT ![e] = 0]
  /\ todo' = [todo EXCEPT ![e] = 0]
  /\ verdict' = [verdict EXCEPT ![e] = "none"]
  /\ seen' = [seen EXCEPT ![e] = 0]
  /\ hb' = [hb EXCEPT ![e] = "off"]
  /\ beat' = [beat EXCEPT ![e] = 0]
  /\ fails' = [fails EXCEPT ![e] = 0]
  /\ reason' = [reason EXCEPT ![e] = "none"]

\* The payload does not parse: straight to an unguarded setStatus(failed).
BadPayload(e) ==
  /\ pc[e] = "claimed"
  /\ pc' = [pc EXCEPT ![e] = "merge"]
  /\ verdict' = [verdict EXCEPT ![e] = "failed"]
  /\ UNCHANGED <<jobVars, cancelling, holds, ticket, todo, seen, heartVars>>

\* The payload parses: the heartbeat starts and the sandbox is entered.
StartHeartbeat(e) ==
  /\ pc[e] = "claimed"
  /\ pc' = [pc EXCEPT ![e] = "start"]
  /\ hb' = [hb EXCEPT ![e] = "armed"]
  /\ beat' = [beat EXCEPT ![e] = Interval]
  /\ UNCHANGED <<jobVars, cancelling, holds, ticket, todo, verdict, seen, fails, reason>>

\* cancelled(): the abort signal, or the row read afresh.
CancelSeen(e) == reason[e] # "none" \/ status[holds[e]] = "cancelled"

\* runSandboxJob returns v and the heartbeat timer is cleared; a tick that is
\* already past its renewal still completes.
LeaveSandbox(e, v) ==
  /\ pc' = [pc EXCEPT ![e] = "stopped"]
  /\ verdict' = [verdict EXCEPT ![e] = v]
  /\ hb' = [hb EXCEPT ![e] = IF hb[e] = "armed" THEN "off" ELSE hb[e]]
  /\ beat' = [beat EXCEPT ![e] = 0]
  /\ UNCHANGED <<jobVars, cancelling, holds, ticket, todo, seen, fails, reason>>

\* Move on inside the sandbox.
Proceed(e, to, left) ==
  /\ pc' = [pc EXCEPT ![e] = to]
  /\ todo' = [todo EXCEPT ![e] = left]
  /\ UNCHANGED <<jobVars, cancelling, holds, ticket, verdict, seen, heartVars>>

\* The cancellation check before anything is prepared.
StartCheck(e) ==
  /\ pc[e] = "start"
  /\ IF CancelSeen(e) THEN LeaveSandbox(e, "cancelled") ELSE Proceed(e, "prepare", 0)

\* Workspace prepared and the patch, if any, applied.
Prepare(e) ==
  /\ pc[e] = "prepare"
  /\ Proceed(e, "loop", Commands)

\* The check between commands, then the command starts.
NextCommand(e) ==
  /\ pc[e] = "loop" /\ todo[e] > 0
  /\ IF CancelSeen(e) THEN LeaveSandbox(e, "cancelled") ELSE Proceed(e, "command", todo[e])

\* A command ends: killed by the signal, by its own timeout, or with exit code 0.
CommandEnds(e) ==
  /\ pc[e] = "command"
  /\ IF reason[e] # "none"
     THEN LeaveSandbox(e, "cancelled")
     ELSE LeaveSandbox(e, "timed_out") \/ Proceed(e, "loop", todo[e] - 1)

\* All commands green.  Nothing looks at the signal or the row again.
AllGreen(e) ==
  /\ pc[e] = "loop" /\ todo[e] = 0
  /\ LeaveSandbox(e, "passed")

\* The workspace, the patch, a command or a call to the queue fails.
SandboxFails(e) ==
  /\ pc[e] \in InSandbox
  /\ LeaveSandbox(e, "failed")

\* Fail closed on a lease that was lost or could not be renewed.
Seal(e) ==
  /\ pc[e] = "stopped"
  /\ pc' = [pc EXCEPT ![e] = "check"]
  /\ verdict' = [verdict EXCEPT ![e] = IF reason[e] \in LeaseReasons THEN "failed" ELSE @]
  /\ UNCHANGED <<jobVars, cancelling, holds, ticket, todo, seen, heartVars>>

\* The owner guard: one read, only of lease_owner.  A failed read counts as lost.
CheckOwner(e) ==
  /\ pc[e] = "check"
  /\ \/ /\ owner[holds[e]] = WorkerOf[e]
        /\ pc' = [pc EXCEPT ![e] = "merge"]
        /\ UNCHANGED <<holds, ticket, todo, verdict, seen, heartVars>>
     \/ GoIdle(e)
  /\ UNCHANGED <<jobVars, cancelling>>

\* updateWorkerJobStatus reads the row for the columns its patch leaves out...
MergeRead(e) ==
  /\ pc[e] = "merge"
  /\ pc' = [pc EXCEPT ![e] = "write"]
  /\ seen' = [seen EXCEPT ![e] = attempts[holds[e]]]
  /\ UNCHANGED <<jobVars, cancelling, holds, ticket, todo, verdict, heartVars>>

\* ... and writes the whole row by id.
WriteStatus(e) ==
  /\ pc[e] = "write"
  /\ LET j == holds[e]
     IN  /\ status' = [status EXCEPT ![j] = verdict[e]]
         /\ owner' = [owner EXCEPT ![j] = NoWorker]
         /\ lease' = [lease EXCEPT ![j] = -1]
         /\ attempts' = [attempts EXCEPT ![j] = seen[e]]
  /\ GoIdle(e)
  /\ UNCHANGED <<created, enqueued, claims, cancelling>>

\* The worker process dies, or a queue call outside every catch rejects.
Crash(e) ==
  /\ pc[e] # "idle"
  /\ GoIdle(e)
  /\ UNCHANGED <<jobVars, cancelling>>

-----------------------------------------------------------------------------
(* Heartbeat.tick, once its timer has fired, and the passage of time.      *)

Due(e)        == hb[e] = "armed" /\ beat[e] = 0
Renewable(e)  == status[holds[e]] = "running" /\ owner[holds[e]] = WorkerOf[e]

\* renewWorkerJobLease succeeds; it asks for the owner, not for an unexpired lease.
RenewOk(e) ==
  /\ Due(e) /\ Renewable(e)
  /\ lease' = [lease EXCEPT ![holds[e]] = Lease]
  /\ fails' = [fails EXCEPT ![e] = 0]
  /\ beat' = [beat EXCEPT ![e] = Interval]
  /\ UNCHANGED <<status, owner, attempts, created, enqueued, claims, cancelling,
                 execVars, hb, reason>>

\* No row matches: the tick goes on to ask for the status.
RenewNull(e) ==
  /\ Due(e) /\ ~Renewable(e)
  /\ hb' = [hb EXCEPT ![e] = "classify"]
  /\ UNCHANGED <<jobVars, cancelling, execVars, beat, fails, reason>>

\* getStatus answers, or fails and counts as not cancelled; then the abort fires.
Classify(e) ==
  /\ hb[e] = "classify"
  /\ \E r \in {"external_cancel", "lease_lost"} :
       /\ r = "external_cancel" => status[holds[e]] = "cancelled"
       /\ reason' = [reason EXCEPT ![e] = r]
  /\ hb' = [hb EXCEPT ![e] = "off"]
  /\ beat' = [beat EXCEPT ![e] = 0]
  /\ UNCHANGED <<jobVars, cancelling, execVars, fails>>

\* Mutant of FailsClosed: one failed renewal too many.
FailsClosedLate(n) == n > Threshold

\* n consecutive failures abort the job.
FailsClosed(n) == n >= Threshold

\* The catch of tick: the n-th failure in a row.  The timer stays armed unless
\* the sandbox was left meanwhile.
Missed(e, n) ==
  /\ fails' = [fails EXCEPT ![e] = n]
  /\ IF FailsClosed(n)
     THEN /\ reason' = [reason EXCEPT ![e] = "lease_renewal_failed"]
          /\ hb' = [hb EXCEPT ![e] = "off"]
          /\ beat' = [beat EXCEPT ![e] = 0]
     ELSE /\ UNCHANGED reason
          /\ hb' = [hb EXCEPT ![e] = IF pc[e] \in InSandbox THEN "armed" ELSE "off"]
          /\ beat' = [beat EXCEPT ![e] = IF pc[e] \in InSandbox THEN Interval ELSE 0]
  /\ UNCHANGED <<status, owner, attempts, created, enqueued, claims, cancelling, execVars>>

\* The renewal rejects, whether or not it reached the row.
RenewError(e) ==
  /\ Due(e)
  /\ \/ UNCHANGED lease
     \/ Renewable(e) /\ lease' = [lease EXCEPT ![holds[e]] = Lease]
  /\ Missed(e, fails[e] + 1)

\* The renewal succeeds and resets the count, then its log line is refused.
RenewUnlogged(e) ==
  /\ Due(e) /\ Renewable(e)
  /\ lease' = [lease EXCEPT ![holds[e]] = Lease]
  /\ Missed(e, 1)

\* The lease is gone but the log line saying so is refused: one more failure, no abort.
ClassifyUnlogged(e) ==
  /\ hb[e] = "classify"
  /\ UNCHANGED lease
  /\ Missed(e, fails[e] + 1)

\* What a responsive event loop does before any time passes.
Urgent(e) ==
  \/ pc[e] = "claimed" \/ pc[e] \in Finalizing
  \/ hb[e] = "classify" \/ Due(e)

\* One unit of time.
Tick ==
  /\ Timely => \A e \in Executors : ~Urgent(e)
  /\ (\E j \in Jobs : lease[j] >= 0) \/ (\E e \in Executors : beat[e] > 0)
  /\ lease' = [j \in Jobs |-> IF lease[j] >= 0 THEN lease[j] - 1 ELSE lease[j]]
  /\ beat' = [e \in Executors |-> IF beat[e] > 0 THEN beat[e] - 1 ELSE beat[e]]
  /\ UNCHANGED <<status, owner, attempts, created, enqueued, claims, cancelling,
                 execVars, hb, fails, reason>>

-----------------------------------------------------------------------------
Sandbox(e) ==
  \/ StartCheck(e) \/ Prepare(e) \/ NextCommand(e) \/ CommandEnds(e) \/ AllGreen(e)
  \/ SandboxFails(e)

Finalize(e) == Seal(e) \/ CheckOwner(e) \/ MergeRead(e) \/ WriteStatus(e)

HeartbeatTick(e) ==
  \/ RenewOk(e) \/ RenewNull(e) \/ Classify(e)
  \/ RenewError(e) \/ RenewUnlogged(e) \/ ClassifyUnlogged(e)

\* The straight line of pollAndRunOnce.
Poll(e) ==
  \/ Claim(e) \/ FailExhausted(e) \/ BadPayload(e) \/ StartHeartbeat(e)
  \/ Sandbox(e) \/ Finalize(e)

Next ==
  \/ \E j \in Jobs : Enqueue(j) \/ CancelRead(j) \/ CancelWrite(j)
  \/ \E e \in Executors : Poll(e) \/ HeartbeatTick(e) \/ Crash(e)
  \/ Tick

Spec == Init /\ [][Next]_vars

\* Workers keep polling, commands are bounded by their own timeout, timers fire
\* and time passes.  Nothing is assumed of cancel requests, and crashes and
\* failing calls may recur for ever.
Fairness ==
  /\ \A e \in Executors : WF_vars(Poll(e)) /\ WF_vars(HeartbeatTick(e))
  /\ WF_vars(Tick)

FairSpec == Spec /\ Fairness

-----------------------------------------------------------------------------
TypeOK ==
  /\ status \in [Jobs -> JobStatus]
  /\ owner \in [Jobs -> WorkerIds \cup {NoWorker}]
  /\ lease \in [Jobs -> -1 .. Lease]
  /\ attempts \in [Jobs -> Nat]
  /\ created \in [Jobs -> Nat]
  /\ enqueued \in Nat
  /\ cancelling \subseteq Jobs
  /\ claims \in [Jobs -> Nat]
  /\ pc \in [Executors -> {"idle", "claimed"} \cup InSandbox \cup Finalizing]
  /\ holds \in [Executors -> Jobs \cup {NoJob}]
  /\ ticket \in [Executors -> Nat]
  /\ todo \in [Executors -> 0 .. Commands]
  /\ verdict \in [Executors -> {"none"} \cup Terminal]
  /\ seen \in [Executors -> Nat]
  /\ hb \in [Executors -> {"off", "armed", "classify"}]
  /\ beat \in [Executors -> 0 .. Interval]
  /\ fails \in [Executors -> 0 .. Threshold]
  /\ reason \in [Executors -> {"none"} \cup AbortReason]

\* A job is waiting to be run by somebody, or is being run.
Executing(e) == pc[e] \in InSandbox /\ reason[e] = "none"

\* The lease outlasts the renewals the heartbeat may miss.
LeaseCoversHeartbeat == Threshold * Interval <= Lease

\* No two executors run the commands of one job at the same time, not even when
\* renewals fail or are answered late: the holder has been told to stop before
\* its lease can be claimed (heartbeat.ts, "instead of risking duplicate execution").
NoDoubleExecution ==
  \A e, f \in Executors :
    e # f /\ Executing(e) /\ Executing(f) => holds[e] # holds[f]

\* An executor whose heartbeat never complained writes the verdict of the job's
\* latest claim, never that of a claim another executor has since replaced.
HealthyVerdictIsCurrent ==
  \A e \in Executors :
    pc[e] = "write" /\ reason[e] = "none" => ticket[e] = claims[holds[e]]

\* A job is started at most max_attempts times, whatever crashes, lost leases
\* and late writes (which put an old attempts value back) happen in between.
ExecutionsBounded == \A j \in Jobs : claims[j] <= MaxAttempts

\* A finished job is never queued or running again, although cancel and finalize
\* write statuses without looking at the one they replace.
TerminalIsFinal ==
  [][\A j \in Jobs : status[j] \in Terminal => status'[j] \in Terminal]_vars

\* Every queued job ends, even if the workers that hold it keep dying: its lease
\* runs out and its attempts are used up.
EveryJobFinishes == \A j \in Jobs : status[j] = "queued" ~> status[j] \in Terminal

\* The promise the rest of the system relies on, see JobLifecycle.
Lifecycle == INSTANCE JobLifecycle
ImplementsLifecycle == Lifecycle!Spec

=============================================================================
