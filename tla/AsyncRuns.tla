------------------------------ MODULE AsyncRuns ------------------------------
(***************************************************************************)
(* The resumable orchestration: the rows of ai_orchestration_runs and the  *)
(* processes that move them.  A client starts a run, which enqueues a test *)
(* job and waits; cron ticks (and worker auto-resume, which is the same    *)
(* code) take a lock and resume runs whose job is finished; clients may    *)
(* resume without the lock, or cancel; and people approve or reject the    *)
(* session, whatever its run is doing.                                     *)
(*                                                                         *)
(* Every update of a run or a session reads the row, merges its patch and  *)
(* writes the merged row by id, so each update is two steps here and the   *)
(* columns the patch leaves out come from the copy.  Of the workers it uses*)
(* what JobLifecycle promises and nothing else: that module's actions are  *)
(* the steps of the jobs here.                                             *)
(***************************************************************************)
EXTENDS Naturals

CONSTANTS
  Runs,          \* orchestration runs
  Jobs,          \* test jobs that can be enqueued
  Crons,         \* concurrent executions of resumeDueOrchestrations
  Clients,       \* concurrent requests of users
  People,        \* requests that approve or reject a session, one decision each
  Owners,        \* lock owner names, cron-<pid>
  OwnerOf,       \* the name a cron locks under
  NoOwner,       \* resume_lock_owner = null
  NoJob,         \* pending_worker_job_id = null
  NoRun,         \* a process that works on no run
  Backend,       \* "postgres" or "sqlite"
  MaxRounds,     \* max_rounds of a run
  MaxAttempts,   \* max_attempts of a job
  MaxFaults,     \* bound on failing calls and crashes
  ManualResume,  \* clients may call the resume route
  Cancels,       \* clients may call the cancel route
  Prompt         \* TRUE: a resume is over before its lock expires

ASSUME AsyncAssumption ==
  /\ NoJob \notin Jobs /\ NoRun \notin Runs
  /\ Crons \cap Clients = {}
  /\ OwnerOf \in [Crons -> Owners] /\ NoOwner \notin Owners
  /\ Backend \in {"postgres", "sqlite"}
  /\ MaxRounds \in Nat \ {0} /\ MaxAttempts \in Nat \ {0} /\ MaxFaults \in Nat
  /\ ManualResume \in BOOLEAN /\ Cancels \in BOOLEAN /\ Prompt \in BOOLEAN

VARIABLES
  row,           \* run -> status, round and pending job of its row
  owner, fresh,  \* run -> resume_lock_owner; the lock has not expired
  session,       \* run -> status of its session
  decision,      \* person -> the run decided on and the status of its session as read
  overruled,     \* history: run -> a person was the last to write its session
  job, claims,   \* job -> status and number of starts, see JobLifecycle
  origin,        \* history: job -> the run and round it was enqueued for
  greens,        \* history: jobs a report was built from while they were passed
  faults,        \* failing calls and crashes so far
  pc, on, todo,  \* process: where it is, the run it works on, the rest of the batch
  task, copy,    \* process: purpose of the row update, the row it read
  round, report, outcome  \* process: round and job of the resume, status for the session

rowVars  == <<row, owner, fresh, session, overruled, decision>>
jobVars  == <<job, claims, origin, greens>>
procVars == <<pc, on, todo, task, copy, round, report, outcome>>
vars     == <<rowVars, jobVars, faults, procVars>>

Procs     == Crons \cup Clients
InResume  == {"resume", "read_job", "session_read", "session_write", "read", "write",
              "verdict", "implement"}
Finished  == {"passed", "failed", "timed_out", "cancelled"}
Decided   == {"passed", "failed", "needs_revision", "cancelled"}
Verdicts  == {"passed", "failed", "needs_revision"}
Sessions  == {"running", "rejected"} \cup Verdicts
RunStatus == {"absent", "running", "waiting_for_worker"} \cup Decided
Rows      == [status : RunStatus, round : 1 .. MaxRounds, pending : Jobs \cup {NoJob}]
NewRow    == [status |-> "absent", round |-> 1, pending |-> NoJob]

Worker == INSTANCE JobLifecycle WITH status <- job

Init ==
  /\ row = [r \in Runs |-> NewRow]
  /\ owner = [r \in Runs |-> NoOwner]
  /\ fresh = [r \in Runs |-> FALSE]
  /\ session = [r \in Runs |-> "running"]
  /\ decision = [d \in People |-> [run |-> NoRun, status |-> "none"]]
  /\ overruled = [r \in Runs |-> FALSE]
  /\ Worker!Init
  /\ origin = [j \in Jobs |-> [run |-> NoRun, round |-> 1]]
  /\ greens = {}
  /\ faults = 0
  /\ pc = [p \in Procs |-> "idle"]
  /\ on = [p \in Procs |-> NoRun]
  /\ todo = [p \in Procs |-> {}]
  /\ task = [p \in Procs |-> "none"]
  /\ copy = [p \in Procs |-> NewRow]
  /\ round = [p \in Procs |-> 1]
  /\ report = [p \in Procs |-> NoJob]
  /\ outcome = [p \in Procs |-> "none"]

-----------------------------------------------------------------------------
(* The cron tick: scan, and one lock per run.                              *)

Waiting(r)   == row[r].status = "waiting_for_worker"
Resumable(r) == Waiting(r) /\ row[r].pending # NoJob /\ job[row[r].pending] \in Finished

\* Go to pc s and leave the rest of the process alone.
Goto(p, s) ==
  /\ pc' = [pc EXCEPT ![p] = s]
  /\ UNCHANGED <<on, todo, task, copy, round, report, outcome>>

\* Forget everything but the batch.
Reset(p, s, r, batch) ==
  /\ pc' = [pc EXCEPT ![p] = s]
  /\ on' = [on EXCEPT ![p] = r]
  /\ todo' = [todo EXCEPT ![p] = batch]
  /\ task' = [task EXCEPT ![p] = "none"]
  /\ copy' = [copy EXCEPT ![p] = NewRow]
  /\ round' = [round EXCEPT ![p] = 1]
  /\ report' = [report EXCEPT ![p] = NoJob]
  /\ outcome' = [outcome EXCEPT ![p] = "none"]

\* findResumableOrchestrations; the batch size is larger than the set of runs.
Scan(c) ==
  /\ pc[c] = "idle"
  /\ \E r \in Runs : Resumable(r)
  /\ Reset(c, "batch", NoRun, {r \in Runs : Resumable(r)})
  /\ UNCHANGED <<rowVars, jobVars, faults>>

NextInBatch(c) ==
  /\ pc[c] = "batch"
  /\ \/ todo[c] = {} /\ Reset(c, "idle", NoRun, {})
     \/ \E r \in todo[c] : Reset(c, "lock", r, todo[c] \ {r})
  /\ UNCHANGED <<rowVars, jobVars, faults>>

\* Mutants of LockIsFree: the expiry compared the wrong way round; no expiry.
LockIsFreeInverted(r) == owner[r] = NoOwner \/ fresh[r]
LockIsFreeForGood(r)  == owner[r] = NoOwner

LockIsFree(r) == owner[r] = NoOwner \/ ~fresh[r]

SetLock(r, o) ==
  /\ owner' = [owner EXCEPT ![r] = o]
  /\ fresh' = [fresh EXCEPT ![r] = TRUE]
  /\ UNCHANGED <<row, session, overruled, decision>>

\* SQLite: one conditional UPDATE.
LockAtomic(c) ==
  /\ Backend = "sqlite" /\ pc[c] = "lock"
  /\ IF Waiting(on[c]) /\ LockIsFree(on[c])
     THEN SetLock(on[c], OwnerOf[c]) /\ Goto(c, "resume")
     ELSE UNCHANGED rowVars /\ Goto(c, "batch")
  /\ UNCHANGED <<jobVars, faults>>

\* Postgres: read the row, ...
LockRead(c) ==
  /\ Backend = "postgres" /\ pc[c] = "lock"
  /\ Goto(c, IF Waiting(on[c]) /\ LockIsFree(on[c]) THEN "lock_write" ELSE "batch")
  /\ UNCHANGED <<rowVars, jobVars, faults>>

\* ... update it where it is still waiting, whoever holds the lock by now, ...
LockWrite(c) ==
  /\ pc[c] = "lock_write"
  /\ IF Waiting(on[c]) THEN SetLock(on[c], OwnerOf[c]) ELSE UNCHANGED rowVars
  /\ Goto(c, "lock_check")
  /\ UNCHANGED <<jobVars, faults>>

\* ... and read it again.
LockCheck(c) ==
  /\ pc[c] = "lock_check"
  /\ Goto(c, IF owner[on[c]] = OwnerOf[c] THEN "resume" ELSE "batch")
  /\ UNCHANGED <<rowVars, jobVars, faults>>

Release(c) ==
  /\ pc[c] = "release"
  /\ IF owner[on[c]] = OwnerOf[c]
     THEN /\ owner' = [owner EXCEPT ![on[c]] = NoOwner]
          /\ fresh' = [fresh EXCEPT ![on[c]] = FALSE]
     ELSE UNCHANGED <<owner, fresh>>
  /\ Reset(c, "batch", NoRun, todo[c])
  /\ UNCHANGED <<row, session, overruled, decision, jobVars, faults>>

\* A cron that works under its lock.
Locked(c) == pc[c] \in InResume \cup {"release"}

LockExpires(r) ==
  /\ fresh[r]
  /\ Prompt => \A c \in Crons : ~(Locked(c) /\ on[c] = r)
  /\ fresh' = [fresh EXCEPT ![r] = FALSE]
  /\ UNCHANGED <<row, owner, session, overruled, decision, jobVars, faults, procVars>>

-----------------------------------------------------------------------------
(* AsyncOrchestrator.                                                      *)

\* Start the read-merge-write of the run's row, or before it of the session's.
BeginUpdate(p, t) ==
  /\ pc' = [pc EXCEPT ![p] = IF t \in {"implement", "finish"} THEN "session_read" ELSE "read"]
  /\ task' = [task EXCEPT ![p] = t]

\* A model call follows.
BeginStep(p, s) ==
  /\ pc' = [pc EXCEPT ![p] = s]
  /\ task' = [task EXCEPT ![p] = "none"]

\* Back in the caller: a cron releases its lock, a request is answered.
Leave(p) == IF p \in Crons THEN Goto(p, "release") ELSE Reset(p, "idle", NoRun, {})

\* start: the session and its run, then the steps before the first implementation.
Start(p, r) ==
  /\ pc[p] = "idle"
  /\ row[r].status = "absent"
  /\ row' = [row EXCEPT ![r].status = "running"]
  /\ BeginUpdate(p, "implement")
  /\ on' = [on EXCEPT ![p] = r]
  /\ UNCHANGED <<owner, fresh, session, overruled, decision, jobVars, faults,
                 todo, copy, round, report, outcome>>

\* POST /orchestrations/[id]/resume: no lock.
RequestResume(p, r) ==
  /\ ManualResume
  /\ pc[p] = "idle" /\ row[r].status # "absent"
  /\ Reset(p, "resume", r, {})
  /\ UNCHANGED <<rowVars, jobVars, faults>>

\* resume reads the run and leaves it alone unless it waits for a job.
ReadRun(p) ==
  /\ pc[p] = "resume"
  /\ LET w == row[on[p]]
     IN  IF w.status = "waiting_for_worker" /\ w.pending # NoJob
         THEN /\ round' = [round EXCEPT ![p] = w.round]
              /\ report' = [report EXCEPT ![p] = w.pending]
              /\ pc' = [pc EXCEPT ![p] = "read_job"]
              /\ UNCHANGED <<on, todo, task, copy, outcome>>
         ELSE Leave(p)
  /\ UNCHANGED <<rowVars, jobVars, faults>>

\* ... then the job, and reports on it if it is finished.  A job that is not passed
\* leaves the process without a report that could let the judge pass.
ReadJob(p) ==
  /\ pc[p] = "read_job"
  /\ LET j == report[p]
     IN  IF job[j] \in Finished
         THEN /\ greens' = IF job[j] = "passed" THEN greens \cup {j} ELSE greens
              /\ report' = [report EXCEPT ![p] = IF job[j] = "passed" THEN j ELSE NoJob]
              /\ BeginUpdate(p, "review")
              /\ UNCHANGED <<on, todo, copy, round, outcome>>
         ELSE Leave(p) /\ UNCHANGED greens
  /\ UNCHANGED <<rowVars, job, claims, origin, faults>>

\* updateSession reads the session: an update of its rounds writes this status back.
SessionRead(p) ==
  /\ pc[p] = "session_read"
  /\ pc' = [pc EXCEPT ![p] = "session_write"]
  /\ outcome' = [outcome EXCEPT ![p] = IF task[p] = "finish" THEN @ ELSE session[on[p]]]
  /\ UNCHANGED <<rowVars, jobVars, faults, on, todo, task, copy, round, report>>

\* The session is written before the run.
SessionWrite(p) ==
  /\ pc[p] = "session_write"
  /\ session' = [session EXCEPT ![on[p]] = outcome[p]]
  /\ overruled' = [overruled EXCEPT ![on[p]] = FALSE]
  /\ Goto(p, "read")
  /\ UNCHANGED <<row, owner, fresh, decision, jobVars, faults>>

\* updateOrchestrationRun reads the row ...
UpdateRead(p) ==
  /\ pc[p] = "read"
  /\ copy' = [copy EXCEPT ![p] = row[on[p]]]
  /\ pc' = [pc EXCEPT ![p] = "write"]
  /\ UNCHANGED <<rowVars, jobVars, faults, on, todo, task, round, report, outcome>>

\* Mutants of Merged: the implement update forgets the round; finish the pending job.
MergedSameRound(p) ==
  CASE task[p] = "link" ->
         [status |-> "waiting_for_worker", round |-> round[p], pending |-> report[p]]
    [] task[p] = "finish" -> [copy[p] EXCEPT !.status = outcome[p], !.pending = NoJob]
    [] OTHER -> copy[p]
MergedKeepsJob(p) ==
  CASE task[p] = "implement" -> [copy[p] EXCEPT !.round = round[p]]
    [] task[p] = "link" ->
         [status |-> "waiting_for_worker", round |-> round[p], pending |-> report[p]]
    [] task[p] = "finish" -> [copy[p] EXCEPT !.status = outcome[p]]
    [] OTHER -> copy[p]

\* The columns each update sets, over the copy.
Merged(p) ==
  CASE task[p] = "implement" -> [copy[p] EXCEPT !.round = round[p]]
    [] task[p] = "link" ->
         [status |-> "waiting_for_worker", round |-> round[p], pending |-> report[p]]
    [] task[p] = "finish" -> [copy[p] EXCEPT !.status = outcome[p], !.pending = NoJob]
    [] OTHER -> copy[p]  \* current_step or last_error only

\* ... and writes it back; then come the model call or the caller.
UpdateWrite(p) ==
  /\ pc[p] = "write"
  /\ row' = [row EXCEPT ![on[p]] = Merged(p)]
  /\ \/ task[p] \in {"link", "finish", "fault"} /\ Leave(p)
     \/ /\ \/ task[p] = "review" /\ BeginUpdate(p, "judge")
           \/ task[p] = "judge" /\ BeginStep(p, "verdict")
           \/ task[p] = "implement" /\ BeginStep(p, "implement")
        /\ copy' = [copy EXCEPT ![p] = NewRow]
        /\ outcome' = [outcome EXCEPT ![p] = "none"]
        /\ UNCHANGED <<on, todo, round, report>>
  /\ UNCHANGED <<owner, fresh, session, overruled, decision, jobVars, faults>>

\* Mutant of MayPass: no fail-safe over the judge's verdict.
MayPassAnyway(p) == TRUE

\* The fail-safe: a pass of the judge stands only if the tests passed.
MayPass(p) == report[p] # NoJob

\* Mutant of Finish: the session is not written.
FinishRunOnly(p, v) ==
  /\ outcome' = [outcome EXCEPT ![p] = v]
  /\ pc' = [pc EXCEPT ![p] = "read"]
  /\ task' = [task EXCEPT ![p] = "finish"]
  /\ UNCHANGED <<on, todo, copy, round, report>>

\* finalize with status v.
Finish(p, v) ==
  /\ outcome' = [outcome EXCEPT ![p] = v]
  /\ BeginUpdate(p, "finish")
  /\ UNCHANGED <<on, todo, copy, round, report>>

\* Mutant of Another: one round too many.
AnotherTooMany(n) == n <= MaxRounds

Another(n) == n < MaxRounds

\* The judge's verdict: pass, fail, or another round if there is one left.
Judge(p) ==
  /\ pc[p] = "verdict"
  /\ \/ MayPass(p) /\ Finish(p, "passed")
     \/ Finish(p, "failed")
     \/ ~Another(round[p]) /\ Finish(p, "needs_revision")
     \/ /\ Another(round[p])
        /\ round' = [round EXCEPT ![p] = round[p] + 1]
        /\ BeginUpdate(p, "implement")
        /\ UNCHANGED <<on, todo, copy, report, outcome>>
  /\ UNCHANGED <<rowVars, jobVars, faults>>

\* The implementer's patch: stopped by the safety scan ...
BlockedPatch(p) ==
  /\ pc[p] = "implement"
  /\ Finish(p, "failed") \/ Finish(p, "needs_revision")
  /\ UNCHANGED <<rowVars, jobVars, faults>>

\* ... or sent to the sandbox as a new test job.
EnqueueTest(p) ==
  /\ pc[p] = "implement"
  /\ \E j \in Jobs :
       /\ Worker!Create(j)
       /\ origin' = [origin EXCEPT ![j] = [run |-> on[p], round |-> round[p]]]
       /\ report' = [report EXCEPT ![p] = j]
  /\ BeginUpdate(p, "link")
  /\ UNCHANGED <<rowVars, greens, faults, on, todo, copy, round, outcome>>

-----------------------------------------------------------------------------
(* Failures.                                                               *)

\* A model call or a query of a cron's resume rejects, and an update may have
\* reached the row all the same.  The cron records last_error in the row; the
\* failure of that, or of the release, is swallowed.
Fault(c) ==
  /\ faults < MaxFaults
  /\ faults' = faults + 1
  /\ \/ UNCHANGED row
     \/ pc[c] = "write" /\ row' = [row EXCEPT ![on[c]] = Merged(c)]
  /\ \/ /\ pc[c] \in InResume /\ task[c] # "fault"
        /\ BeginUpdate(c, "fault")
        /\ UNCHANGED <<on, todo, copy, round, report, outcome>>
     \/ pc[c] \in InResume /\ task[c] = "fault" /\ Goto(c, "release")
     \/ pc[c] = "release" /\ Reset(c, "batch", NoRun, todo[c])
  /\ UNCHANGED <<owner, fresh, session, overruled, decision, jobVars>>

\* The process dies, the tick rejects outside its try, or a request fails.
Crash(p) ==
  /\ faults < MaxFaults
  /\ faults' = faults + 1
  /\ pc[p] # "idle"
  /\ Reset(p, "idle", NoRun, {})
  /\ UNCHANGED <<rowVars, jobVars>>

-----------------------------------------------------------------------------
(* cancelOrchestration.                                                    *)

RequestCancel(p, r) ==
  /\ Cancels
  /\ pc[p] = "idle" /\ row[r].status # "absent"
  /\ pc' = [pc EXCEPT ![p] = "cancel_job"]
  /\ on' = [on EXCEPT ![p] = r]
  /\ report' = [report EXCEPT ![p] = row[r].pending]
  /\ UNCHANGED <<rowVars, jobVars, faults, todo, task, copy, round, outcome>>

\* The pending job, if there is one and it is unfinished; its failure is ignored.
\* cancelWorkerJob reads the job before it writes by id; the job may have a verdict by
\* then, and a cancel that lands on one is a Worker!Settle, which WorkerStep may take.
CancelJob(p) ==
  /\ pc[p] = "cancel_job"
  /\ \/ /\ report[p] \in Worker!Unfinished
        /\ job' = [job EXCEPT ![report[p]] = "cancelled"]
     \/ UNCHANGED job
  /\ Goto(p, "cancel_read")
  /\ UNCHANGED <<rowVars, claims, origin, greens, faults>>

\* cancelOrchestrationRun: read, refuse a decided run, ...
CancelRead(p) ==
  /\ pc[p] = "cancel_read"
  /\ IF row[on[p]].status \in Decided THEN Reset(p, "idle", NoRun, {}) ELSE Goto(p, "cancel_write")
  /\ UNCHANGED <<rowVars, jobVars, faults>>

\* ... and write whatever the status has become.
CancelWrite(p) ==
  /\ pc[p] = "cancel_write"
  /\ row' = [row EXCEPT ![on[p]].status = "cancelled", ![on[p]].pending = NoJob]
  /\ Reset(p, "idle", NoRun, {})
  /\ UNCHANGED <<owner, fresh, session, overruled, decision, jobVars, faults>>

-----------------------------------------------------------------------------
(* POST /sessions/[id]: setApproval, allowed whatever the run is doing.    *)

\* The session is read; updateSession reads it again, but for other columns, ...
ReadSession(d, r) ==
  /\ decision[d].run = NoRun /\ row[r].status # "absent"
  /\ decision' = [decision EXCEPT ![d] = [run |-> r, status |-> session[r]]]
  /\ UNCHANGED <<row, owner, fresh, session, overruled, jobVars, faults, procVars>>

\* ... and written by id: a rejection sets the status, an approval the one it read.
SetApproval(d) ==
  LET r == decision[d].run
  IN  /\ r # NoRun /\ decision[d].status # "none"
      /\ \E s \in {decision[d].status, "rejected"} : session' = [session EXCEPT ![r] = s]
      /\ overruled' = [overruled EXCEPT ![r] = TRUE]
      /\ decision' = [decision EXCEPT ![d].status = "none"]
      /\ UNCHANGED <<row, owner, fresh, jobVars, faults, procVars>>

-----------------------------------------------------------------------------
\* The worker plane, as far as the orchestrator can tell.
WorkerStep ==
  /\ Worker!Exhaust \/ \E j \in Jobs : Worker!Start(j) \/ Worker!Settle(j)
  /\ UNCHANGED <<rowVars, origin, greens, faults, procVars>>

Lock(c) == LockAtomic(c) \/ LockRead(c) \/ LockWrite(c) \/ LockCheck(c)

Tick(c) == Scan(c) \/ NextInBatch(c) \/ Lock(c) \/ Release(c)

Work(p) ==
  \/ ReadRun(p) \/ ReadJob(p) \/ UpdateRead(p) \/ UpdateWrite(p) \/ Judge(p)
  \/ SessionRead(p) \/ SessionWrite(p) \/ BlockedPatch(p) \/ EnqueueTest(p)

Cancel(p) == CancelJob(p) \/ CancelRead(p) \/ CancelWrite(p)

Next ==
  \/ \E c \in Crons : Tick(c) \/ Fault(c)
  \/ \E p \in Clients : Cancel(p) \/ \E r \in Runs :
        Start(p, r) \/ RequestResume(p, r) \/ RequestCancel(p, r)
  \/ \E p \in Procs : Work(p) \/ Crash(p)
  \/ \E d \in People : SetApproval(d) \/ \E r \in Runs : ReadSession(d, r)
  \/ \E r \in Runs : LockExpires(r)
  \/ WorkerStep

Spec == Init /\ [][Next]_vars

\* The scheduler keeps calling the cron route, whose ticks run to their end unless
\* they crash; locks run out; and jobs end (WorkerJobs, EveryJobFinishes).
JobEnds(j) == WorkerStep /\ job[j] \notin Finished /\ job'[j] \in Finished

Fairness ==
  /\ \A c \in Crons : WF_vars(Tick(c)) /\ WF_vars(Work(c))
  /\ \A r \in Runs : WF_vars(LockExpires(r))
  /\ \A j \in Jobs : WF_vars(JobEnds(j))

FairSpec == Spec /\ Fairness

-----------------------------------------------------------------------------
TypeOK ==
  /\ row \in [Runs -> Rows]
  /\ owner \in [Runs -> Owners \cup {NoOwner}]
  /\ fresh \in [Runs -> BOOLEAN]
  /\ session \in [Runs -> Sessions]
  /\ decision \in [People -> [run : Runs \cup {NoRun}, status : Sessions \cup {"none"}]]
  /\ overruled \in [Runs -> BOOLEAN]
  /\ job \in [Jobs -> {"absent", "queued", "running"} \cup Finished]
  /\ claims \in [Jobs -> Nat]
  /\ origin \in [Jobs -> [run : Runs \cup {NoRun}, round : 1 .. MaxRounds]]
  /\ greens \subseteq Jobs
  /\ faults \in 0 .. MaxFaults
  /\ pc \in [Procs -> {"idle", "batch", "lock", "lock_write", "lock_check", "release",
                       "cancel_job", "cancel_read", "cancel_write"} \cup InResume]
  /\ on \in [Procs -> Runs \cup {NoRun}]
  /\ todo \in [Procs -> SUBSET Runs]
  /\ task \in [Procs -> {"none", "review", "judge", "implement", "link", "finish", "fault"}]
  /\ copy \in [Procs -> Rows]
  /\ round \in [Procs -> 1 .. MaxRounds]
  /\ report \in [Procs -> Jobs \cup {NoJob}]
  /\ outcome \in [Procs -> Sessions \cup {"none"}]

\* "A red/unknown worker test can't let the judge pass": whoever races whom, a run
\* or its session is shown as passed only after some resume saw a green test job
\* of that very run.
GreenBeforePassed ==
  \A r \in Runs :
    row[r].status = "passed" \/ session[r] = "passed"
      => \E j \in greens : origin[j].run = r

\* A run waits exactly while it is linked to a job, and the job is one of its own:
\* no merge of a stale copy leaves a run the scan can never resume.
PendingWhileWaiting ==
  \A r \in Runs :
    /\ row[r].status = "waiting_for_worker" <=> row[r].pending # NoJob
    /\ row[r].pending # NoJob => origin[row[r].pending].run = r

\* No two processes are past the entry checks of one run at the same time.
Progressing(p) == pc[p] \in InResume \ {"resume"}

NoDoubleResume ==
  \A p, q \in Procs :
    p # q /\ Progressing(p) /\ Progressing(q) => on[p] # on[q]

\* One round is tested by one job, even if a resume fails half way and is retried.
OneJobPerRound ==
  \A i, j \in Jobs :
    i # j /\ origin[i].run # NoRun => origin[i] # origin[j]

\* The two rows a run is finished in agree once the run is decided, although they
\* are written one after the other, a retry may decide differently and rounds write
\* back the status they read; only a person who decided after the verdict was
\* written to the session can make them differ.
SessionAgrees ==
  \A r \in Runs :
    row[r].status \in Verdicts => session[r] = row[r].status \/ overruled[r]

\* "A scheduled cron closes that gap": a waiting run is decided with nobody watching.
WaitingRunFinishes ==
  \A r \in Runs : row[r].status = "waiting_for_worker" ~> row[r].status \in Decided

\* What the pages that watch a run rely on, see RunLifecycle.
Lifecycle == INSTANCE RunLifecycle WITH
  status <- [r \in Runs |-> row[r].status],
  round  <- [r \in Runs |-> row[r].round]
ImplementsRunLifecycle == Lifecycle!Spec

=============================================================================
