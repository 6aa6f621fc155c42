----------------------------- MODULE SyncRounds -----------------------------
(***************************************************************************)
(* One request to /run outside worker_async mode: plan, then rounds of     *)
(* patch, safety scan, tests, review and verdict, all inside the request.  *)
(* Tests run in the request (inline) or in a worker job the request waits  *)
(* for, for a bounded time.  Meanwhile a person may approve or reject the  *)
(* session.  The worker plane is JobLifecycle: a job may never be served,  *)
(* may answer after the wait was given up, or replace its verdict.         *)
(*                                                                         *)
(* Every update of the session is a read and a write of the whole row.     *)
(***************************************************************************)
EXTENDS Integers

CONSTANTS
  Modes,         \* settings: test runner mode, execution, production, override
  MaxRounds,     \* min(opts.maxRounds, MAX_ROUNDS)
  Timeout,       \* AI_ORCHESTRATOR_TEST_JOB_TIMEOUT_MS, in polls
  MaxAttempts,   \* max_attempts of a job
  MaxDecisions   \* bound on approvals and rejections

Jobs == 1 .. MaxRounds  \* the job of a round bears its number

ASSUME SyncAssumption ==
  /\ MaxRounds \in Nat \ {0} /\ Timeout \in Nat \ {0} /\ MaxAttempts \in Nat \ {0}
  /\ MaxDecisions \in Nat
  /\ \A m \in Modes : {m.worker, m.execute, m.production, m.override} \subseteq BOOLEAN

VARIABLES
  mode,          \* the settings in force
  session,       \* the row of ai_sessions: status, approval, rounds
  pc, round,     \* the request: where it is, the loop's counter
  outcome,       \* finalStatus
  report,        \* report.passed of this round
  waited,        \* time since the wait began
  copy,          \* the row updateSession read
  job, claims,   \* the worker plane, see JobLifecycle
  tested,        \* history: tests of some round were begun
  greens,        \* history: rounds whose own tests were reported green
  person,        \* a decision in flight
  decisions      \* decisions so far

runVars == <<pc, round, outcome, report, waited, copy, tested, greens>>
jobVars == <<job, claims>>
vars == <<mode, session, runVars, jobVars, person, decisions>>

Worker == INSTANCE JobLifecycle WITH status <- job

NewRow == [status |-> "running", approval |-> "pending", rounds |-> 0]
Nobody == [pc |-> "none", decision |-> "approved", status |-> "running", copy |-> NewRow]

Init ==
  /\ mode \in Modes
  /\ session = NewRow
  /\ pc = "begin" /\ round = 0 /\ outcome = "needs_revision"
  /\ report = FALSE /\ waited = 0 /\ copy = NewRow
  /\ tested = FALSE /\ greens = {}
  /\ Worker!Init
  /\ person = Nobody /\ decisions = 0

Goto(s) == pc' = s
Same == UNCHANGED <<mode, person, decisions>>

-----------------------------------------------------------------------------
(* The request.                                                            *)

\* Inline tests are refused in production unless they are allowed explicitly.
Blocked == ~mode.worker /\ mode.production /\ ~mode.override

\* Refused, or the session is created and specification, critique and plan made.
Begin ==
  /\ pc = "begin"
  /\ Goto(IF Blocked THEN "refused" ELSE "loop")
  /\ UNCHANGED <<session, round, outcome, report, waited, copy, tested, greens, jobVars>> /\ Same

MoreRoundsLate == round <= MaxRounds
MoreRounds == round < MaxRounds

\* updateSession, its read: for the next round, or for the verdict.
NextRound ==
  /\ pc = "loop" /\ MoreRounds
  /\ round' = round + 1
  /\ copy' = session
  /\ Goto("save_round")
  /\ UNCHANGED <<session, outcome, report, waited, tested, greens, jobVars>> /\ Same

OutOfRounds ==
  /\ pc = "loop" /\ ~MoreRounds
  /\ copy' = session
  /\ Goto("save_verdict")
  /\ UNCHANGED <<session, round, outcome, report, waited, tested, greens, jobVars>> /\ Same

RoundRowWithStatus == [copy EXCEPT !.rounds = round, !.status = outcome]
RoundRow == [copy EXCEPT !.rounds = round]

SaveRound ==
  /\ pc = "save_round"
  /\ session' = RoundRow
  /\ copy' = NewRow
  /\ Goto("implement")
  /\ UNCHANGED <<round, outcome, report, waited, tested, greens, jobVars>> /\ Same

\* The implementer's patch passes the safety scan, or ends the run: what no
\* approval overrides fails it.
Implement ==
  /\ pc = "implement"
  /\ \/ Goto("test") /\ UNCHANGED <<outcome, copy>>
     \/ /\ \E o \in {"failed", "needs_revision"} : outcome' = o
        /\ copy' = session
        /\ Goto("save_verdict")
  /\ UNCHANGED <<session, round, report, waited, tested, greens, jobVars>> /\ Same

Reported(green) ==
  /\ report' = green
  /\ greens' = IF green THEN greens \cup {round} ELSE greens
  /\ waited' = 0
  /\ Goto("review")

\* runTestSuite blocks the process; what is not executed counts as green.
TestInline ==
  /\ pc = "test" /\ ~mode.worker
  /\ \E green \in BOOLEAN : (mode.execute \/ green) /\ Reported(green)
  /\ tested' = TRUE
  /\ UNCHANGED <<session, round, outcome, copy, jobVars>> /\ Same

Enqueue ==
  /\ pc = "test" /\ mode.worker
  /\ Worker!Create(round)
  /\ Goto("poll")
  /\ tested' = TRUE
  /\ UNCHANGED <<session, round, outcome, report, waited, copy, greens>> /\ Same

\* One turn of defaultWaitForTerminal: the job has ended, time is up, or sleep.
TimeIsUpNever == FALSE
TimeIsUp == waited >= Timeout

IsGreenUnlessRed(status) == status # "failed"
IsGreen(status) == status = "passed"

Poll ==
  /\ pc = "poll"
  /\ \/ /\ job[round] \in Worker!Verdicts
        /\ Reported(IsGreen(job[round]))
     \/ /\ job[round] \notin Worker!Verdicts /\ TimeIsUp
        /\ Reported(FALSE)
     \/ /\ job[round] \notin Worker!Verdicts /\ ~TimeIsUp
        /\ Goto("sleep")
        /\ UNCHANGED <<report, greens, waited>>
  /\ UNCHANGED <<session, round, outcome, copy, tested, jobVars>> /\ Same

Wake ==
  /\ pc = "sleep"
  /\ \E t \in 0 .. Timeout : t > waited /\ waited' = t
  /\ Goto("poll")
  /\ UNCHANGED <<session, round, outcome, report, copy, tested, greens, jobVars>> /\ Same

\* Results and report are stored, then the reviewer is called.
Review ==
  /\ pc = "review"
  /\ Goto("judge")
  /\ UNCHANGED <<session, round, outcome, report, waited, copy, tested, greens, jobVars>> /\ Same

\* The judge's verdict; the guard does not let it pass red tests.
GuardedNot(v) == v
Guarded(v) == IF v = "pass" /\ ~report THEN "needs_revision" ELSE v

Judge ==
  /\ pc = "judge"
  /\ \E v \in {"pass", "fail", "needs_revision"} :
       IF Guarded(v) = "needs_revision"
       THEN outcome' = "needs_revision" /\ Goto("loop") /\ UNCHANGED copy
       ELSE /\ outcome' = IF Guarded(v) = "pass" THEN "passed" ELSE "failed"
            /\ copy' = session
            /\ Goto("save_verdict")
  /\ report' = FALSE
  /\ UNCHANGED <<session, round, waited, tested, greens, jobVars>> /\ Same

Verdict == [copy EXCEPT !.status = outcome, !.rounds = round]

SaveVerdict ==
  /\ pc = "save_verdict"
  /\ session' = Verdict
  /\ copy' = NewRow
  /\ Goto("done")
  /\ UNCHANGED <<round, outcome, report, waited, tested, greens, jobVars>> /\ Same

\* A model or database call that rejects ends the request, or the platform does:
\* nothing in it writes the session any more.
Rejects ==
  /\ pc \notin {"begin", "done", "refused", "rejected"}
  /\ Goto("rejected")
  /\ UNCHANGED <<session, round, outcome, report, waited, copy, tested, greens, jobVars>> /\ Same

-----------------------------------------------------------------------------
(* The person and the worker.                                              *)

\* setApproval reads the session, then updateSession reads it again ...
Decide(d) ==
  /\ person.pc = "none" /\ decisions < MaxDecisions /\ pc \notin {"begin", "refused"}
  /\ decisions' = decisions + 1
  /\ person' = [Nobody EXCEPT !.pc = "merge", !.decision = d,
                              !.status = IF d = "rejected" THEN "rejected" ELSE session.status]
  /\ UNCHANGED <<mode, session, runVars, jobVars>>

MergeRead ==
  /\ person.pc = "merge"
  /\ person' = [person EXCEPT !.pc = "write", !.copy = session]
  /\ UNCHANGED <<mode, session, runVars, jobVars, decisions>>

\* ... and writes the row, rounds included.
SetApproval ==
  /\ person.pc = "write"
  /\ session' = [person.copy EXCEPT !.status = person.status, !.approval = person.decision]
  /\ person' = Nobody
  /\ UNCHANGED <<mode, runVars, jobVars, decisions>>

WorkerStep ==
  /\ Worker!Exhaust \/ \E j \in Jobs : Worker!Start(j) \/ Worker!Settle(j)
  /\ UNCHANGED <<mode, session, runVars, person, decisions>>

Request == \/ Begin \/ NextRound \/ OutOfRounds \/ SaveRound \/ Implement \/ TestInline \/ Enqueue
           \/ Poll \/ Wake \/ Review \/ Judge \/ SaveVerdict

Next == \/ Request \/ Rejects \/ MergeRead \/ SetApproval \/ WorkerStep
        \/ \E d \in {"approved", "rejected"} : Decide(d)

Spec == Init /\ [][Next]_vars

\* Calls answer or reject and sleeps end.  Nothing is assumed of the worker.
FairSpec == Spec /\ WF_vars(Request)

-----------------------------------------------------------------------------
(* Properties.                                                             *)

Statuses == {"running", "passed", "failed", "needs_revision", "rejected"}
Rows == [status : Statuses, approval : {"pending", "approved", "rejected"}, rounds : 0 .. MaxRounds]
Pcs  == {"begin", "loop", "save_round", "implement", "test", "poll", "sleep", "review", "judge",
         "save_verdict", "done", "refused", "rejected"}

TypeOK ==
  /\ mode \in Modes /\ session \in Rows /\ copy \in Rows
  /\ pc \in Pcs /\ round \in 0 .. MaxRounds
  /\ outcome \in {"passed", "failed", "needs_revision"}
  /\ report \in BOOLEAN /\ waited \in 0 .. Timeout
  /\ tested \in BOOLEAN /\ greens \subseteq Jobs
  /\ job \in [Jobs -> {"absent", "queued", "running"} \cup Worker!Verdicts]
  /\ claims \in [Jobs -> 0 .. MaxAttempts]
  /\ person \in [pc : {"none", "merge", "write"}, decision : {"approved", "rejected"},
                 status : Statuses, copy : Rows]
  /\ decisions \in 0 .. MaxDecisions

\* A session that says passed had green tests in its last round: a judge that
\* passes red ones, a job that answers after its wait was given up and a person who
\* writes back a status read earlier change nothing of it.
GreenBeforePassed ==
  session.status = "passed" => round \in greens /\ outcome = "passed"

\* In worker mode a green report is that of a started job, and every round before
\* this one was tested by its own.
GreenIsFromTheWorker ==
  mode.worker =>
    /\ \A r \in greens : claims[r] > 0
    /\ \A r \in Jobs : r < round => job[r] # "absent"

\* Nobody having decided anything, the session ends with the verdict and the round
\* of the run, and says running as long as there is none.
SessionAgrees ==
  decisions = 0 =>
    IF pc = "done" THEN session.status = outcome /\ session.rounds = round
    ELSE session.status = "running"

\* The request ends although no worker may ever serve its job.
RequestEnds == (pc = "begin") ~> (pc \in {"done", "refused", "rejected"})

\* A request in rounds is a run: what RunLifecycle promises of the resumable runs
\* holds for those, too.
RunStatus ==
  CASE pc \in {"begin", "refused"} -> "absent"
    [] pc = "done" -> outcome
    [] tested /\ pc # "done" -> "waiting_for_worker"
    [] OTHER -> "running"

Lifecycle == INSTANCE RunLifecycle
               WITH Runs   <- {1},
                    status <- [r \in {1} |-> RunStatus],
                    round  <- [r \in {1} |-> IF round = 0 THEN 1 ELSE round]

ImplementsRunLifecycle == Lifecycle!Spec

=============================================================================
