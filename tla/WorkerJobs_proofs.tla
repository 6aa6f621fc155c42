------------------------- MODULE WorkerJobs_proofs -------------------------
(***************************************************************************)
(* Proofs about WorkerJobs for any number of jobs, executors, commands and *)
(* attempts.  The first layer of the inductive invariant, Inv, says which  *)
(* combinations of an executor's variables occur; Accounting relates the   *)
(* attempts of a row to its claims; Exclusive, at the end, is about time.  *)
(***************************************************************************)
EXTENDS WorkerJobs, TLAPS

\* An executor that is not idle holds a started job, under one of its claims.
Holding ==
  \A e \in Executors : pc[e] # "idle" =>
    /\ holds[e] \in Jobs
    /\ status[holds[e]] \notin {"absent", "queued"}
    /\ 0 < ticket[e] /\ ticket[e] <= claims[holds[e]]

\* A heartbeat that has not stopped belongs to a job nobody told to abort, and
\* has missed fewer renewals than the threshold.
HeartbeatShape ==
  \A e \in Executors :
    /\ hb[e] = "armed" => pc[e] \in InSandbox
    /\ hb[e] = "classify" => pc[e] \in InSandbox \cup Finalizing
    /\ hb[e] # "off" => reason[e] = "none" /\ fails[e] < Threshold
    /\ pc[e] \in InSandbox /\ reason[e] = "none" => hb[e] # "off"

\* Before the heartbeat starts there is nothing to remember of it.
FreshStart ==
  \A e \in Executors : pc[e] \in {"idle", "claimed"} =>
    hb[e] = "off" /\ fails[e] = 0 /\ reason[e] = "none"

\* The counters and verdicts the next step relies on.
Progress ==
  \A e \in Executors :
    /\ pc[e] = "command" => todo[e] > 0
    /\ pc[e] \in Finalizing => verdict[e] \in Terminal

\* A cancel request was accepted for a job that exists.
Requested == \A j \in cancelling : status[j] # "absent"

Inv == TypeOK /\ Holding /\ HeartbeatShape /\ FreshStart /\ Progress /\ Requested

LEMMA InitInv == Init => Inv
  BY JobsAssumption, WorkersAssumption, TimingAssumption
  DEF Init, Inv, TypeOK, Holding, HeartbeatShape, FreshStart, Progress, Requested,
      JobStatus, Terminal, InSandbox, Finalizing

-----------------------------------------------------------------------------
(* The helpers, under what their callers guarantee.                        *)

LEMMA GoIdleInv ==
  ASSUME Inv, NEW e \in Executors, GoIdle(e),
         status' \in [Jobs -> JobStatus], owner' \in [Jobs -> WorkerIds \cup {NoWorker}],
         lease' \in [Jobs -> -1 .. Lease], attempts' \in [Jobs -> Nat],
         \A k \in Jobs : status[k] \notin {"absent", "queued"}
                         => status'[k] \notin {"absent", "queued"},
         \A k \in Jobs : status[k] # "absent" => status'[k] # "absent",
         UNCHANGED <<created, enqueued, claims, cancelling>>
  PROVE  Inv'
<1>1. TypeOK'
  BY TimingAssumption DEF Inv, TypeOK, GoIdle
<1>2. Holding'
  BY DEF Inv, TypeOK, Holding, GoIdle
<1>3. HeartbeatShape' /\ FreshStart' /\ Progress'
  BY DEF Inv, TypeOK, HeartbeatShape, FreshStart, Progress, GoIdle, InSandbox, Finalizing
<1>4. Requested'
  BY DEF Inv, TypeOK, Requested
<1> QED  BY <1>1, <1>2, <1>3, <1>4 DEF Inv

LEMMA LeaveSandboxInv ==
  ASSUME Inv, NEW e \in Executors, pc[e] \in InSandbox, NEW v \in Terminal,
         LeaveSandbox(e, v)
  PROVE  Inv'
<1>1. TypeOK'
  BY TimingAssumption DEF Inv, TypeOK, LeaveSandbox, Finalizing, jobVars
<1>2. Holding' /\ Requested'
  BY DEF Inv, TypeOK, Holding, Requested, LeaveSandbox, InSandbox, jobVars
<1>3. HeartbeatShape' /\ FreshStart' /\ Progress'
  BY DEF Inv, TypeOK, HeartbeatShape, FreshStart, Progress, LeaveSandbox, InSandbox, Finalizing
<1> QED  BY <1>1, <1>2, <1>3 DEF Inv

LEMMA ProceedInv ==
  ASSUME Inv, NEW e \in Executors, pc[e] \in InSandbox,
         NEW to \in {"prepare", "loop", "command"}, NEW left \in 0 .. Commands,
         to = "command" => left > 0, Proceed(e, to, left)
  PROVE  Inv'
<1>1. TypeOK'
  BY DEF Inv, TypeOK, Proceed, InSandbox, jobVars, heartVars
<1>2. Holding' /\ Requested'
  BY DEF Inv, TypeOK, Holding, Requested, Proceed, InSandbox, jobVars
<1>3. HeartbeatShape' /\ FreshStart' /\ Progress'
  BY DEF Inv, TypeOK, HeartbeatShape, FreshStart, Progress, Proceed, InSandbox, Finalizing, heartVars
<1> QED  BY <1>1, <1>2, <1>3 DEF Inv

LEMMA MissedInv ==
  ASSUME Inv, NEW e \in Executors, hb[e] # "off", NEW n \in 0 .. fails[e] + 1,
         lease' \in [Jobs -> -1 .. Lease], Missed(e, n)
  PROVE  Inv'
<1>1. TypeOK'
  BY TimingAssumption
  DEF Inv, TypeOK, HeartbeatShape, Missed, FailsClosed, AbortReason, LeaseReasons, execVars
<1>2. Holding' /\ Requested'
  BY DEF Inv, TypeOK, Holding, Requested, Missed, execVars
<1>3. HeartbeatShape' /\ FreshStart' /\ Progress'
  BY TimingAssumption
  DEF Inv, TypeOK, HeartbeatShape, FreshStart, Progress, Missed, FailsClosed, InSandbox, Finalizing, execVars
<1> QED  BY <1>1, <1>2, <1>3 DEF Inv

-----------------------------------------------------------------------------
(* One lemma per action.                                                   *)

LEMMA ClaimInv == ASSUME Inv, NEW e \in Executors, Claim(e) PROVE Inv'
<1>1. PICK j \in Eligible :
        /\ status' = [k \in Jobs |-> IF k = j THEN "running"
                                     ELSE IF k \in GivenUp THEN "failed"
                                     ELSE status[k]]
        /\ owner' = [owner EXCEPT ![j] = WorkerOf[e]]
        /\ lease' = [lease EXCEPT ![j] = Lease]
        /\ attempts' = [attempts EXCEPT ![j] = attempts[j] + 1]
        /\ claims' = [claims EXCEPT ![j] = claims[j] + 1]
        /\ pc' = [pc EXCEPT ![e] = "claimed"]
        /\ holds' = [holds EXCEPT ![e] = j]
        /\ ticket' = [ticket EXCEPT ![e] = claims[j] + 1]
  BY DEF Claim
<1>2. j \in Jobs
  BY DEF Eligible
<1>3. TypeOK'
  <2>1. status' \in [Jobs -> JobStatus]
    BY <1>1 DEF Inv, TypeOK, JobStatus, Terminal
  <2>2. owner' \in [Jobs -> WorkerIds \cup {NoWorker}]
    BY <1>1, <1>2, WorkersAssumption DEF Inv, TypeOK
  <2>3. lease' \in [Jobs -> -1 .. Lease]
    BY <1>1, <1>2, TimingAssumption DEF Inv, TypeOK
  <2>4. attempts' \in [Jobs -> Nat] /\ claims' \in [Jobs -> Nat]
    BY <1>1, <1>2 DEF Inv, TypeOK
  <2>5. /\ pc' \in [Executors -> {"idle", "claimed"} \cup InSandbox \cup Finalizing]
        /\ holds' \in [Executors -> Jobs \cup {NoJob}]
        /\ ticket' \in [Executors -> Nat]
    BY <1>1, <1>2 DEF Inv, TypeOK
  <2> QED  BY <2>1, <2>2, <2>3, <2>4, <2>5 DEF Inv, TypeOK, Claim, heartVars
<1>4. \A k \in Jobs : status[k] \notin {"absent", "queued"} => status'[k] \notin {"absent", "queued"}
  BY <1>1, <1>2
<1>5. Holding'
  BY <1>1, <1>2, <1>4 DEF Inv, TypeOK, Holding
<1>6. HeartbeatShape' /\ FreshStart' /\ Progress'
  BY <1>1, <1>2
  DEF Inv, TypeOK, HeartbeatShape, FreshStart, Progress, Claim, heartVars, InSandbox, Finalizing
<1>7. Requested'
  BY <1>1, <1>2 DEF Inv, TypeOK, Requested, Claim
<1> QED  BY <1>3, <1>5, <1>6, <1>7 DEF Inv

LEMMA SandboxInv == ASSUME Inv, NEW e \in Executors, Sandbox(e) PROVE Inv'
<1>1. CASE StartCheck(e)
  BY <1>1, TimingAssumption, LeaveSandboxInv, ProceedInv DEF StartCheck, InSandbox, Terminal
<1>2. CASE Prepare(e)
  BY <1>2, TimingAssumption, ProceedInv DEF Prepare, InSandbox
<1>3. CASE NextCommand(e)
  <2>1. todo[e] \in 0 .. Commands /\ todo[e] > 0
    BY <1>3 DEF NextCommand, Inv, TypeOK
  <2> QED  BY <1>3, <2>1, LeaveSandboxInv, ProceedInv DEF NextCommand, InSandbox, Terminal
<1>4. CASE CommandEnds(e)
  <2>1. todo[e] - 1 \in 0 .. Commands
    BY <1>4, TimingAssumption DEF CommandEnds, Inv, TypeOK, Progress
  <2> QED  BY <1>4, <2>1, LeaveSandboxInv, ProceedInv DEF CommandEnds, InSandbox, Terminal
<1>5. CASE AllGreen(e)
  BY <1>5, LeaveSandboxInv DEF AllGreen, InSandbox, Terminal
<1>6. CASE SandboxFails(e)
  BY <1>6, LeaveSandboxInv DEF SandboxFails, Terminal
<1> QED  BY <1>1, <1>2, <1>3, <1>4, <1>5, <1>6 DEF Sandbox

LEMMA FinalizeInv == ASSUME Inv, NEW e \in Executors, Finalize(e) PROVE Inv'
<1>1. CASE Seal(e)
  BY <1>1
  DEF Seal, Inv, TypeOK, Holding, HeartbeatShape, FreshStart, Progress, Requested,
      Terminal, InSandbox, Finalizing, jobVars, heartVars
<1>2. CASE CheckOwner(e)
  <2>1. CASE GoIdle(e)
    BY <1>2, <2>1, GoIdleInv DEF CheckOwner, jobVars, Inv, TypeOK
  <2>2. CASE /\ pc' = [pc EXCEPT ![e] = "merge"]
             /\ UNCHANGED <<holds, ticket, todo, verdict, seen, heartVars>>
    BY <1>2, <2>2
    DEF CheckOwner, Inv, TypeOK, Holding, HeartbeatShape, FreshStart, Progress, Requested,
        InSandbox, Finalizing, jobVars, heartVars
  <2> QED  BY <1>2, <2>1, <2>2 DEF CheckOwner
<1>3. CASE MergeRead(e)
  BY <1>3
  DEF MergeRead, Inv, TypeOK, Holding, HeartbeatShape, FreshStart, Progress, Requested,
      InSandbox, Finalizing, jobVars, heartVars
<1>4. CASE WriteStatus(e)
  <2>1. holds[e] \in Jobs /\ verdict[e] \in Terminal
    BY <1>4 DEF WriteStatus, Inv, Holding, Progress, Finalizing
  <2>2. /\ status' \in [Jobs -> JobStatus]
        /\ owner' \in [Jobs -> WorkerIds \cup {NoWorker}]
        /\ lease' \in [Jobs -> -1 .. Lease]
        /\ attempts' \in [Jobs -> Nat]
    BY <1>4, <2>1, TimingAssumption DEF WriteStatus, Inv, TypeOK, JobStatus
  <2>3. \A k \in Jobs : status'[k] \in {status[k]} \cup Terminal
    BY <1>4, <2>1 DEF WriteStatus, Inv, TypeOK
  <2> QED  BY <1>4, <2>2, <2>3, GoIdleInv DEF WriteStatus, Terminal
<1> QED  BY <1>1, <1>2, <1>3, <1>4 DEF Finalize

LEMMA HeartbeatTickInv == ASSUME Inv, NEW e \in Executors, HeartbeatTick(e) PROVE Inv'
<1>1. \A j \in Jobs : [lease EXCEPT ![j] = Lease] \in [Jobs -> -1 .. Lease]
  BY TimingAssumption DEF Inv, TypeOK
<1>2. hb[e] # "off" => holds[e] \in Jobs /\ fails[e] \in Nat
  BY DEF Inv, TypeOK, Holding, HeartbeatShape, InSandbox, Finalizing
<1>3. CASE RenewOk(e)
  BY <1>3, TimingAssumption
  DEF RenewOk, Due, Inv, TypeOK, Holding, HeartbeatShape, FreshStart, Progress, Requested,
      InSandbox, Finalizing, execVars
<1>4. CASE RenewNull(e)
  BY <1>4
  DEF RenewNull, Due, Inv, TypeOK, Holding, HeartbeatShape, FreshStart, Progress, Requested,
      InSandbox, Finalizing, jobVars, execVars
<1>5. CASE Classify(e)
  BY <1>5, TimingAssumption
  DEF Classify, Inv, TypeOK, Holding, HeartbeatShape, FreshStart, Progress, Requested,
      AbortReason, LeaseReasons, InSandbox, Finalizing, jobVars, execVars
<1>6. CASE RenewError(e)
  BY <1>1, <1>2, <1>6, MissedInv DEF RenewError, Due, Inv, TypeOK
<1>7. CASE RenewUnlogged(e)
  BY <1>1, <1>2, <1>7, MissedInv DEF RenewUnlogged, Due
<1>8. CASE ClassifyUnlogged(e)
  <2>1. lease' \in [Jobs -> -1 .. Lease] /\ hb[e] # "off" /\ Missed(e, fails[e] + 1)
    BY <1>8 DEF ClassifyUnlogged, Inv, TypeOK
  <2>2. fails[e] + 1 \in 0 .. fails[e] + 1
    BY <1>2, <2>1
  <2> QED  BY <2>1, <2>2, MissedInv
<1> QED  BY <1>3, <1>4, <1>5, <1>6, <1>7, <1>8 DEF HeartbeatTick

LEMMA PollInv == ASSUME Inv, NEW e \in Executors, Poll(e) PROVE Inv'
<1>1. CASE FailExhausted(e)
  BY <1>1
  DEF FailExhausted, Inv, TypeOK, Holding, HeartbeatShape, FreshStart, Progress, Requested,
      JobStatus, Terminal, execVars, heartVars
<1>2. CASE BadPayload(e)
  BY <1>2
  DEF BadPayload, Inv, TypeOK, Holding, HeartbeatShape, FreshStart, Progress, Requested,
      Terminal, InSandbox, Finalizing, jobVars, heartVars
<1>3. CASE StartHeartbeat(e)
  BY <1>3, TimingAssumption
  DEF StartHeartbeat, Inv, TypeOK, Holding, HeartbeatShape, FreshStart, Progress, Requested,
      InSandbox, Finalizing, jobVars
<1> QED  BY <1>1, <1>2, <1>3, ClaimInv, SandboxInv, FinalizeInv DEF Poll

LEMMA QueueInv ==
  ASSUME Inv, NEW j \in Jobs, Enqueue(j) \/ CancelRead(j) \/ CancelWrite(j) PROVE Inv'
<1>1. CASE Enqueue(j)
  BY <1>1
  DEF Enqueue, Inv, TypeOK, Holding, HeartbeatShape, FreshStart, Progress, Requested,
      JobStatus, execVars, heartVars
<1>2. CASE CancelRead(j)
  BY <1>2
  DEF CancelRead, Inv, TypeOK, Holding, HeartbeatShape, FreshStart, Progress, Requested,
      jobVars, execVars, heartVars
<1>3. CASE CancelWrite(j)
  BY <1>3
  DEF CancelWrite, Inv, TypeOK, Holding, HeartbeatShape, FreshStart, Progress, Requested,
      JobStatus, Terminal, execVars, heartVars
<1> QED  BY <1>1, <1>2, <1>3

LEMMA TickInv == ASSUME Inv, Tick PROVE Inv'
  BY TimingAssumption
  DEF Tick, Inv, TypeOK, Holding, HeartbeatShape, FreshStart, Progress, Requested, execVars

LEMMA StepInv == Inv /\ [Next]_vars => Inv'
<1> SUFFICES ASSUME Inv, [Next]_vars PROVE Inv'
  OBVIOUS
<1>1. CASE UNCHANGED vars
  BY <1>1
  DEF Inv, TypeOK, Holding, HeartbeatShape, FreshStart, Progress, Requested,
      vars, jobVars, execVars, heartVars
<1>2. ASSUME NEW e \in Executors, Crash(e) PROVE Inv'
  BY <1>2, GoIdleInv DEF Crash, jobVars, Inv, TypeOK
<1> QED  BY <1>1, <1>2, QueueInv, PollInv, HeartbeatTickInv, TickInv DEF Next

\* Job rows and executors fit together through every crash, late writer and lost claim.
THEOREM Invariant == Spec => []Inv
  BY InitInv, StepInv, PTL DEF Spec

\* Every variable of the queue and of its executors keeps its type: leases and
\* timers stay in range and no executor finalizes without a verdict.
THEOREM TypeCorrect == Spec => []TypeOK
<1>1. Inv => TypeOK
  BY DEF Inv
<1> QED  BY <1>1, Invariant, PTL

-----------------------------------------------------------------------------
(* What the rest of the system sees: status and claims.  The attempts      *)
(* column counts the claims as long as the job is unfinished; afterwards   *)
(* a late write may put an old value back, which no claim reads any more.  *)

Accounting ==
  \A j \in Jobs :
    /\ status[j] = "absent" => attempts[j] = 0 /\ claims[j] = 0
    /\ status[j] \in {"queued", "running"} => attempts[j] = claims[j]
    /\ claims[j] <= MaxAttempts

\* Only five actions touch what Accounting speaks of.
LEMMA StepEffect ==
  ASSUME [Next]_vars
  PROVE  \/ UNCHANGED <<status, attempts, claims>>
         \/ \E j \in Jobs : Enqueue(j) \/ CancelWrite(j)
         \/ \E e \in Executors : Claim(e) \/ FailExhausted(e) \/ WriteStatus(e)
<1>1. ASSUME NEW e \in Executors, Sandbox(e) PROVE UNCHANGED <<status, attempts, claims>>
  BY <1>1
  DEF Sandbox, StartCheck, Prepare, NextCommand, CommandEnds, AllGreen, SandboxFails,
      LeaveSandbox, Proceed, jobVars
<1>2. ASSUME NEW e \in Executors, Seal(e) \/ CheckOwner(e) \/ MergeRead(e) \/ Crash(e)
      PROVE  UNCHANGED <<status, attempts, claims>>
  BY <1>2 DEF Seal, CheckOwner, MergeRead, Crash, jobVars
<1>3. ASSUME NEW e \in Executors, HeartbeatTick(e)
      PROVE  UNCHANGED <<status, attempts, claims>>
  BY <1>3
  DEF HeartbeatTick, RenewOk, RenewNull, Classify, RenewError, RenewUnlogged,
      ClassifyUnlogged, Missed, jobVars
<1>4. CASE UNCHANGED vars
  BY <1>4 DEF vars, jobVars
<1> QED
  BY <1>1, <1>2, <1>3, <1>4
  DEF Next, Poll, Finalize, BadPayload, StartHeartbeat, CancelRead, Tick, jobVars

\* What a claim does to the columns that matter.
LEMMA ClaimEffect ==
  ASSUME Inv, NEW e \in Executors, Claim(e)
  PROVE  \E j \in Eligible :
           /\ j \in Jobs /\ j \notin GivenUp
           /\ status' = [k \in Jobs |-> IF k = j THEN "running"
                                        ELSE IF k \in GivenUp THEN "failed"
                                        ELSE status[k]]
           /\ attempts' = [attempts EXCEPT ![j] = attempts[j] + 1]
           /\ claims' = [claims EXCEPT ![j] = claims[j] + 1]
<1>1. Eligible \subseteq Jobs /\ \A j \in Eligible : j \notin GivenUp
  BY TimingAssumption DEF Eligible, Exhausted, GivenUp, Inv, TypeOK
<1> QED  BY <1>1 DEF Claim

LEMMA AccountingStep == Inv /\ Accounting /\ [Next]_vars => Accounting'
<1> SUFFICES ASSUME Inv, Accounting, [Next]_vars PROVE Accounting'
  OBVIOUS
<1>1. CASE UNCHANGED <<status, attempts, claims>>
  BY <1>1 DEF Accounting
<1>2. ASSUME NEW j \in Jobs, Enqueue(j) PROVE Accounting'
  BY <1>2 DEF Enqueue, Accounting, Inv, TypeOK
<1>3. ASSUME NEW j \in Jobs, CancelWrite(j) PROVE Accounting'
  BY <1>3 DEF CancelWrite, Accounting, Inv, TypeOK
<1>4. ASSUME NEW e \in Executors, Claim(e) PROVE Accounting'
  <2>1. PICK j \in Eligible :
           /\ j \in Jobs /\ j \notin GivenUp
           /\ status' = [k \in Jobs |-> IF k = j THEN "running"
                                        ELSE IF k \in GivenUp THEN "failed"
                                        ELSE status[k]]
           /\ attempts' = [attempts EXCEPT ![j] = attempts[j] + 1]
           /\ claims' = [claims EXCEPT ![j] = claims[j] + 1]
    BY <1>4, ClaimEffect
  <2>2. attempts[j] = claims[j] /\ claims[j] + 1 <= MaxAttempts
    BY <2>1, TimingAssumption DEF Eligible, Claimable, Accounting, Inv, TypeOK
  <2> QED  BY <2>1, <2>2, TimingAssumption DEF Accounting, Inv, TypeOK
<1>5. ASSUME NEW e \in Executors, FailExhausted(e) PROVE Accounting'
  BY <1>5 DEF FailExhausted, Accounting, Inv, TypeOK
<1>6. ASSUME NEW e \in Executors, WriteStatus(e) PROVE Accounting'
  <2>1. holds[e] \in Jobs /\ verdict[e] \in Terminal
    BY <1>6 DEF WriteStatus, Inv, Holding, Progress, Finalizing
  <2> QED  BY <1>6, <2>1 DEF WriteStatus, Accounting, Inv, TypeOK, Terminal
<1> QED  BY <1>1, <1>2, <1>3, <1>4, <1>5, <1>6, StepEffect

\* On a queued or running row the counter of attempts is the number of claims, although
\* updateWorkerJobStatus writes back whole rows read earlier.
THEOREM AccountingHolds == Spec => []Accounting
<1>1. ASSUME Init, NEW j \in Jobs
      PROVE  status[j] = "absent" /\ attempts[j] = 0 /\ claims[j] = 0
  BY <1>1 DEF Init
<1>2. 0 <= MaxAttempts
  BY TimingAssumption
<1>3. Init => Accounting
  BY <1>1, <1>2 DEF Accounting
<1> QED  BY <1>3, AccountingStep, Invariant, PTL DEF Spec

\* A job is started at most max_attempts times (claimNextWorkerJob), whatever is
\* reclaimed, crashes or is written late.
THEOREM BoundedExecutions == Spec => []ExecutionsBounded
<1>1. Accounting => ExecutionsBounded
  BY DEF Accounting, ExecutionsBounded
<1> QED  BY <1>1, AccountingHolds, PTL

\* No step takes a job out of the terminal states, although updateWorkerJobStatus
\* and cancelWorkerJob overwrite a row without looking at its status.
LEMMA FinalStep ==
  ASSUME Inv, [Next]_vars, NEW j \in Jobs, status[j] \in Terminal
  PROVE  status'[j] \in Terminal
<1>1. CASE UNCHANGED <<status, attempts, claims>>
  BY <1>1
<1>2. ASSUME NEW k \in Jobs, Enqueue(k) \/ CancelWrite(k) PROVE status'[j] \in Terminal
  BY <1>2 DEF Enqueue, CancelWrite, Inv, TypeOK, Terminal
<1>3. ASSUME NEW e \in Executors, Claim(e) PROVE status'[j] \in Terminal
  BY <1>3, ClaimEffect DEF Eligible, Claimable, Terminal
<1>4. ASSUME NEW e \in Executors, FailExhausted(e) PROVE status'[j] \in Terminal
  BY <1>4 DEF FailExhausted, Terminal
<1>5. ASSUME NEW e \in Executors, WriteStatus(e) PROVE status'[j] \in Terminal
  <2>1. verdict[e] \in Terminal
    BY <1>5 DEF WriteStatus, Inv, Progress, Finalizing
  <2> QED  BY <1>5, <2>1 DEF WriteStatus, Inv, TypeOK
<1> QED  BY <1>1, <1>2, <1>3, <1>4, <1>5, StepEffect

\* A finished job stays finished.
THEOREM FinalIsFinal == Spec => TerminalIsFinal
<1>1. Inv /\ [Next]_vars => [\A j \in Jobs : status[j] \in Terminal => status'[j] \in Terminal]_vars
  BY FinalStep
<1> QED  BY <1>1, Invariant, PTL DEF Spec, TerminalIsFinal

-----------------------------------------------------------------------------
(* Refinement: the queue with its executors implements JobLifecycle.       *)

LEMMA LifecycleInit == Init => Lifecycle!Init
  BY DEF Init, Lifecycle!Init

LEMMA LifecycleStep ==
  Inv /\ Accounting /\ [Next]_vars => [Lifecycle!Next]_(Lifecycle!vars)
<1> SUFFICES ASSUME Inv, Accounting, [Next]_vars
             PROVE  Lifecycle!Next \/ UNCHANGED <<status, claims>>
  BY DEF Lifecycle!vars
<1>1. CASE UNCHANGED <<status, attempts, claims>>
  BY <1>1
<1>2. ASSUME NEW j \in Jobs, Enqueue(j) PROVE Lifecycle!Create(j)
  BY <1>2 DEF Enqueue, Lifecycle!Create
<1>3. ASSUME NEW j \in Jobs, CancelWrite(j) PROVE Lifecycle!Settle(j)
  BY <1>3 DEF CancelWrite, Inv, Requested, Lifecycle!Settle, Lifecycle!Verdicts
<1>4. \A k \in GivenUp : k \in Lifecycle!Unfinished /\ claims[k] >= MaxAttempts
  BY DEF GivenUp, Exhausted, Claimable, Accounting, Lifecycle!Unfinished
<1>5. ASSUME NEW e \in Executors, Claim(e) PROVE \E j \in Jobs : Lifecycle!Start(j)
  <2>1. PICK j \in Eligible :
           /\ j \in Jobs /\ j \notin GivenUp
           /\ status' = [k \in Jobs |-> IF k = j THEN "running"
                                        ELSE IF k \in GivenUp THEN "failed"
                                        ELSE status[k]]
           /\ attempts' = [attempts EXCEPT ![j] = attempts[j] + 1]
           /\ claims' = [claims EXCEPT ![j] = claims[j] + 1]
    BY <1>5, ClaimEffect
  <2>2. status[j] \in {"queued", "running"} /\ claims[j] < MaxAttempts
    BY <2>1 DEF Eligible, Claimable, Accounting
  <2>3. GivenUp \in SUBSET (Lifecycle!Unfinished \ {j})
    BY <1>4, <2>1
  <2>4. status' = [Lifecycle!GiveUp(GivenUp) EXCEPT ![j] = "running"]
    BY <2>1 DEF Lifecycle!GiveUp
  <2> QED  BY <1>4, <2>1, <2>2, <2>3, <2>4 DEF Lifecycle!Start
<1>6. ASSUME NEW e \in Executors, FailExhausted(e) PROVE Lifecycle!Exhaust
  <2>1. status' = Lifecycle!GiveUp(GivenUp) /\ UNCHANGED claims
    BY <1>6 DEF FailExhausted, Lifecycle!GiveUp
  <2> QED  BY <1>4, <2>1 DEF Lifecycle!Exhaust
<1>7. ASSUME NEW e \in Executors, WriteStatus(e) PROVE \E j \in Jobs : Lifecycle!Settle(j)
  <2>1. /\ holds[e] \in Jobs /\ verdict[e] \in Terminal
        /\ status[holds[e]] # "absent" /\ claims[holds[e]] # 0
    BY <1>7 DEF WriteStatus, Inv, TypeOK, Holding, Progress, Finalizing
  <2>2. Lifecycle!Settle(holds[e])
    BY <1>7, <2>1 DEF WriteStatus, Terminal, Lifecycle!Settle, Lifecycle!Verdicts
  <2> QED  BY <2>1, <2>2
<1> QED
  BY <1>1, <1>2, <1>3, <1>5, <1>6, <1>7, StepEffect DEF Lifecycle!Next

\* The queue keeps the promise the orchestrators and the pull request flow rely
\* on: each of its steps is a step of JobLifecycle or leaves status and claims alone.
THEOREM Implementation == Spec => ImplementsLifecycle
  BY LifecycleInit, LifecycleStep, Invariant, AccountingHolds, PTL
  DEF Spec, ImplementsLifecycle, Lifecycle!Spec

-----------------------------------------------------------------------------
(***************************************************************************)
(* No job is executed twice at once: the argument that makes the lease a   *)
(* lock.  It needs two assumptions, both about time: LeaseCoversHeartbeat, *)
(* that the lease outlasts the renewals the heartbeat may miss, and Timely,*)
(* that an event loop fires its timers before more time passes.            *)
(*                                                                         *)
(* The inductive invariant keeps a budget: while a healthy executor runs a *)
(* job, what is left of its lease covers the time to the next heartbeat    *)
(* plus one interval for every renewal it may still miss.  Each missed     *)
(* renewal spends one interval of the budget and one of the allowed        *)
(* failures, so the executor is aborted before the budget is used up, and  *)
(* the row cannot be claimed earlier.                                      *)
(***************************************************************************)

\* The budget after n missed renewals, beyond the time to the next heartbeat.
Slack(n) == (Threshold - 1 - n) * Interval

LEMMA SlackFacts ==
  ASSUME LeaseCoversHeartbeat
  PROVE  /\ \A n \in Int : Slack(n) \in Int
         /\ \A n \in Int : Slack(n) = Slack(n + 1) + Interval
         /\ \A n \in Int : n < Threshold => Slack(n) >= 0
         /\ Slack(0) + Interval <= Lease
<1> USE TimingAssumption
<1>1. ASSUME NEW n \in Int PROVE Slack(n) \in Int
  BY DEF Slack
<1>2. ASSUME NEW n \in Int PROVE Slack(n) = Slack(n + 1) + Interval
  <2>1. \A k, i \in Int : k * i = (k - 1) * i + i
    OBVIOUS
  <2>2. Threshold - 1 - (n + 1) = (Threshold - 1 - n) - 1
    OBVIOUS
  <2> QED  BY <2>1, <2>2 DEF Slack
<1>3. ASSUME NEW n \in Int, n < Threshold PROVE Slack(n) >= 0
  <2>1. Threshold - 1 - n \in Nat
    BY <1>3
  <2>2. \A k, i \in Nat : k * i >= 0
    OBVIOUS
  <2> QED  BY <2>1, <2>2 DEF Slack
<1>4. Slack(0) + Interval <= Lease
  <2>1. \A k, i \in Int : k * i = (k - 1) * i + i
    OBVIOUS
  <2>2. Threshold - 1 - 0 = Threshold - 1
    OBVIOUS
  <2> QED  BY <2>1, <2>2 DEF Slack, LeaseCoversHeartbeat
<1> QED  BY <1>1, <1>2, <1>3, <1>4

LEMMA SlackMonotone == ASSUME NEW n \in Nat PROVE Slack(n) <= Slack(0)
<1>1. n * Interval >= 0 /\ n * Interval \in Int
  BY TimingAssumption
<1>2. Slack(n) = Slack(0) - n * Interval
  BY TimingAssumption DEF Slack
<1>3. Slack(0) \in Int
  BY TimingAssumption DEF Slack
<1> QED  BY <1>1, <1>2, <1>3

\* An executor that holds a job and has not been told to abort it.
Healthy(e) == pc[e] # "idle" /\ reason[e] = "none"

\* A healthy executor of a job that still counts as running owns an unexpired
\* lease, with the budget described above while the heartbeat is armed.
Covered ==
  \A e \in Executors : Healthy(e) /\ status[holds[e]] = "running" =>
    /\ owner[holds[e]] = WorkerOf[e]
    /\ hb[e] # "classify"
    /\ lease[holds[e]] >= 0
    /\ pc[e] = "claimed" => lease[holds[e]] = Lease
    /\ hb[e] = "armed" => lease[holds[e]] >= Slack(fails[e]) + beat[e]

\* Healthy executors hold different jobs, each under the job's latest claim.
Unshared ==
  /\ \A e, f \in Executors : e # f /\ Healthy(e) /\ Healthy(f) => holds[e] # holds[f]
  /\ \A e \in Executors : Healthy(e) => ticket[e] = claims[holds[e]]

Exclusive == Covered /\ Unshared

LEMMA InitExclusive == Init => Exclusive
  BY DEF Init, Exclusive, Covered, Unshared, Healthy

\* A step that renews no lease and starts no job, heartbeat or claim.
LEMMA Harmless ==
  ASSUME Inv, Exclusive, UNCHANGED claims,
         \A k \in Jobs : status'[k] = "running" =>
           status[k] = "running" /\ UNCHANGED <<owner[k], lease[k]>>,
         \A e \in Executors : Healthy(e)' =>
           /\ Healthy(e)
           /\ UNCHANGED <<holds[e], ticket[e]>>
           /\ hb'[e] = "armed" => UNCHANGED <<hb[e], beat[e], fails[e]>>
           /\ hb'[e] = "classify" => UNCHANGED hb[e]
           /\ pc'[e] = "claimed" => UNCHANGED pc[e]
  PROVE  Exclusive'
<1>1. \A e \in Executors : Healthy(e) => holds[e] \in Jobs
  BY DEF Inv, Holding, Healthy
<1>2. Covered'
  BY <1>1 DEF Exclusive, Covered
<1>3. Unshared'
  BY <1>1 DEF Exclusive, Unshared
<1> QED  BY <1>2, <1>3 DEF Exclusive

\* While a healthy executor holds a job, no claim can take it.
LEMMA HeldIsNotEligible ==
  ASSUME Inv, Exclusive, NEW e \in Executors, Healthy(e)
  PROVE  holds[e] \notin Eligible
  BY DEF Inv, TypeOK, Holding, Exclusive, Covered, Eligible, Claimable, Healthy

LEMMA ClaimExclusive ==
  ASSUME Inv, Exclusive, NEW e \in Executors, Claim(e) PROVE Exclusive'
<1>1. PICK j \in Eligible :
        /\ status' = [k \in Jobs |-> IF k = j THEN "running"
                                     ELSE IF k \in GivenUp THEN "failed"
                                     ELSE status[k]]
        /\ owner' = [owner EXCEPT ![j] = WorkerOf[e]]
        /\ lease' = [lease EXCEPT ![j] = Lease]
        /\ claims' = [claims EXCEPT ![j] = claims[j] + 1]
        /\ pc' = [pc EXCEPT ![e] = "claimed"]
        /\ holds' = [holds EXCEPT ![e] = j]
        /\ ticket' = [ticket EXCEPT ![e] = claims[j] + 1]
        /\ UNCHANGED heartVars
  BY DEF Claim
<1>2. j \in Jobs
  BY DEF Eligible
<1>3. /\ pc'[e] = "claimed" /\ holds'[e] = j /\ ticket'[e] = claims'[j]
      /\ status'[j] = "running" /\ owner'[j] = WorkerOf[e] /\ lease'[j] = Lease
      /\ hb'[e] = "off"
  BY <1>1, <1>2 DEF Claim, Inv, TypeOK, FreshStart, heartVars
<1>4. ASSUME NEW f \in Executors, f # e, Healthy(f)'
      PROVE  /\ Healthy(f) /\ holds[f] \in Jobs /\ holds[f] # j
             /\ UNCHANGED <<pc[f], holds[f], ticket[f], hb[f], beat[f], fails[f], reason[f]>>
             /\ UNCHANGED <<owner[holds[f]], lease[holds[f]], claims[holds[f]]>>
             /\ status'[holds[f]] = "running" => status[holds[f]] = "running"
  <2>1. /\ UNCHANGED <<pc[f], holds[f], ticket[f], hb[f], beat[f], fails[f], reason[f]>>
        /\ Healthy(f)
    BY <1>1, <1>4 DEF Inv, TypeOK, Healthy, heartVars
  <2>2. holds[f] \in Jobs /\ holds[f] # j
    BY <1>1, <2>1, HeldIsNotEligible DEF Inv, Holding, Healthy
  <2> QED  BY <1>1, <2>1, <2>2 DEF Inv, TypeOK
<1>5. Covered'
  <2>1. ASSUME NEW f \in Executors, Healthy(f)', status'[holds'[f]] = "running"
        PROVE  /\ owner'[holds'[f]] = WorkerOf[f]
               /\ hb'[f] # "classify"
               /\ lease'[holds'[f]] >= 0
               /\ pc'[f] = "claimed" => lease'[holds'[f]] = Lease
               /\ hb'[f] = "armed" => lease'[holds'[f]] >= Slack(fails'[f]) + beat'[f]
    <3>1. CASE f = e
      BY <1>3, <3>1, TimingAssumption
    <3>2. CASE f # e
      BY <1>4, <2>1, <3>2 DEF Exclusive, Covered
    <3> QED  BY <3>1, <3>2
  <2> QED  BY <2>1 DEF Covered, Slack, Healthy
<1>6. Unshared'
  BY <1>3, <1>4 DEF Exclusive, Unshared
<1> QED  BY <1>5, <1>6 DEF Exclusive

\* The row operations other than a claim: none makes a job running.
LEMMA RowsExclusive ==
  ASSUME Inv, Exclusive,
         \/ \E j \in Jobs : Enqueue(j) \/ CancelRead(j) \/ CancelWrite(j)
         \/ \E e \in Executors : FailExhausted(e) \/ WriteStatus(e)
  PROVE  Exclusive'
<1>1. ASSUME NEW j \in Jobs, Enqueue(j) \/ CancelRead(j) \/ CancelWrite(j) PROVE Exclusive'
  BY <1>1, Harmless
  DEF Enqueue, CancelRead, CancelWrite, Inv, TypeOK, Healthy, jobVars, execVars, heartVars
<1>2. ASSUME NEW e \in Executors, FailExhausted(e) PROVE Exclusive'
  BY <1>2, Harmless DEF FailExhausted, Inv, TypeOK, Healthy, execVars, heartVars
<1>3. ASSUME NEW e \in Executors, WriteStatus(e) PROVE Exclusive'
  <2>1. holds[e] \in Jobs /\ verdict[e] # "running"
    BY <1>3 DEF WriteStatus, Inv, Holding, Progress, Finalizing, Terminal
  <2>2. \A k \in Jobs : status'[k] = "running" =>
           status[k] = "running" /\ UNCHANGED <<owner[k], lease[k]>>
    BY <1>3, <2>1 DEF WriteStatus, Inv, TypeOK
  <2>3. /\ UNCHANGED claims
        /\ \A f \in Executors : Healthy(f)' =>
             /\ Healthy(f)
             /\ UNCHANGED <<pc[f], holds[f], ticket[f], hb[f], beat[f], fails[f]>>
    BY <1>3 DEF WriteStatus, GoIdle, Inv, TypeOK, Healthy
  <2> QED  BY <2>2, <2>3, Harmless
<1> QED  BY <1>1, <1>2, <1>3

\* The steps of an executor that touch no row and start no heartbeat.
LEMMA ExecutorExclusive ==
  ASSUME Inv, Exclusive, NEW e \in Executors,
         \/ BadPayload(e) \/ Sandbox(e) \/ Seal(e) \/ CheckOwner(e) \/ MergeRead(e)
         \/ Crash(e) \/ Classify(e)
  PROVE  Exclusive'
<1> DEFINE Quiet ==
      \A f \in Executors : Healthy(f)' =>
        /\ Healthy(f)
        /\ UNCHANGED <<holds[f], ticket[f]>>
        /\ hb'[f] = "armed" => UNCHANGED <<hb[f], beat[f], fails[f]>>
        /\ hb'[f] = "classify" => UNCHANGED hb[f]
        /\ pc'[f] = "claimed" => UNCHANGED pc[f]
<1>1. ASSUME Quiet, UNCHANGED jobVars PROVE Exclusive'
  BY <1>1, Harmless DEF jobVars
<1>2. ASSUME pc[e] # "idle", NEW v, LeaveSandbox(e, v) PROVE Quiet
  BY <1>2 DEF LeaveSandbox, Inv, TypeOK, Healthy
<1>3. ASSUME pc[e] # "idle", NEW to, to # "claimed", NEW n, Proceed(e, to, n) PROVE Quiet
  BY <1>3 DEF Proceed, Inv, TypeOK, Healthy, heartVars
<1>4. ASSUME GoIdle(e) PROVE Quiet
  BY <1>4 DEF GoIdle, Inv, TypeOK, Healthy
<1>5. CASE Sandbox(e)
  <2>1. pc[e] # "idle" /\ UNCHANGED jobVars
    BY <1>5
    DEF Sandbox, StartCheck, Prepare, NextCommand, CommandEnds, AllGreen, SandboxFails,
        LeaveSandbox, Proceed, InSandbox
  <2>2. \/ \E v \in Terminal : LeaveSandbox(e, v)
        \/ \E to \in {"prepare", "loop", "command"}, n \in Int : Proceed(e, to, n)
    BY <1>5, TimingAssumption
    DEF Sandbox, StartCheck, Prepare, NextCommand, CommandEnds, AllGreen, SandboxFails,
        Terminal, Inv, TypeOK
  <2> HIDE DEF Quiet
  <2> QED  BY <1>1, <1>2, <1>3, <2>1, <2>2
<1>6. CASE BadPayload(e) \/ Seal(e) \/ MergeRead(e)
  <2>1. Quiet
    BY <1>6 DEF BadPayload, Seal, MergeRead, Inv, TypeOK, Healthy, heartVars
  <2> QED  BY <1>1, <1>6, <2>1 DEF BadPayload, Seal, MergeRead
<1>7. CASE CheckOwner(e)
  <2>1. Quiet
    BY <1>4, <1>7 DEF CheckOwner, Inv, TypeOK, Healthy, heartVars
  <2> QED  BY <1>1, <1>7, <2>1 DEF CheckOwner
<1>8. CASE Crash(e)
  <2>1. Quiet
    BY <1>4, <1>8 DEF Crash
  <2> QED  BY <1>1, <1>8, <2>1 DEF Crash
<1>9. CASE Classify(e)
  <2>1. Quiet
    BY <1>9 DEF Classify, Inv, TypeOK, Healthy, execVars
  <2> QED  BY <1>1, <1>9, <2>1 DEF Classify
<1> QED  BY <1>5, <1>6, <1>7, <1>8, <1>9

-----------------------------------------------------------------------------
(* The heartbeat and the clock.                                            *)

LEMMA StartHeartbeatExclusive ==
  ASSUME LeaseCoversHeartbeat, Inv, Exclusive, NEW e \in Executors, StartHeartbeat(e)
  PROVE  Exclusive'
<1>1. /\ pc[e] = "claimed" /\ pc'[e] = "start" /\ hb'[e] = "armed" /\ beat'[e] = Interval
      /\ fails[e] = 0 /\ Healthy(e)
      /\ UNCHANGED <<jobVars, holds, ticket, reason, fails>>
      /\ \A f \in Executors \ {e} : UNCHANGED <<pc[f], hb[f], beat[f]>>
  BY DEF StartHeartbeat, Inv, TypeOK, FreshStart, Healthy
<1>2. Covered'
  BY <1>1, SlackFacts DEF Exclusive, Covered, Healthy, jobVars
<1>3. Unshared'
  BY <1>1 DEF Exclusive, Unshared, Healthy, jobVars
<1> QED  BY <1>2, <1>3 DEF Exclusive

\* The heartbeat that is due belongs to a healthy executor, and what it renews or
\* misses is no concern of the others: none of them is healthy on the same job.
LEMMA BeatExclusive ==
  ASSUME Inv, Exclusive, NEW e \in Executors, hb[e] # "off",
         UNCHANGED <<status, owner, claims, execVars>>,
         \A k \in Jobs : k # holds[e] => UNCHANGED lease[k],
         \A f \in Executors \ {e} : UNCHANGED <<hb[f], beat[f], fails[f], reason[f]>>,
         Healthy(e)' /\ status[holds[e]] = "running" =>
           /\ hb'[e] = "armed" /\ owner[holds[e]] = WorkerOf[e]
           /\ lease'[holds[e]] >= Slack(fails'[e]) + beat'[e]
           /\ lease'[holds[e]] >= 0
  PROVE  Exclusive'
<1>1. Healthy(e) /\ pc[e] # "claimed" /\ holds[e] \in Jobs
  BY DEF Inv, TypeOK, Holding, HeartbeatShape, Healthy, InSandbox, Finalizing
<1>2. ASSUME NEW f \in Executors, f # e, Healthy(f)'
      PROVE  Healthy(f) /\ holds[f] \in Jobs /\ holds[f] # holds[e]
  BY <1>1, <1>2 DEF Inv, Holding, Exclusive, Unshared, Healthy, execVars
<1>3. Covered'
  BY <1>1, <1>2 DEF Exclusive, Covered, execVars
<1>4. Unshared'
  BY <1>1, <1>2 DEF Exclusive, Unshared, execVars, Healthy
<1> QED  BY <1>3, <1>4 DEF Exclusive

LEMMA MissedEffect ==
  ASSUME Inv, NEW e \in Executors, NEW n, hb[e] # "off", Missed(e, n)
  PROVE  /\ UNCHANGED <<status, owner, claims, execVars>>
         /\ \A f \in Executors \ {e} : UNCHANGED <<hb[f], beat[f], fails[f], reason[f]>>
         /\ Healthy(e)' => /\ n < Threshold \/ ~(n \in Int)
                           /\ fails'[e] = n
                           /\ pc[e] \in InSandbox => hb'[e] = "armed" /\ beat'[e] = Interval
  BY TimingAssumption DEF Missed, FailsClosed, Healthy, Inv, TypeOK, execVars

LEMMA HeartbeatExclusive ==
  ASSUME LeaseCoversHeartbeat, Inv, Exclusive, NEW e \in Executors,
         RenewOk(e) \/ RenewNull(e) \/ RenewError(e) \/ RenewUnlogged(e) \/ ClassifyUnlogged(e)
  PROVE  Exclusive'
<1>1. /\ hb[e] # "off" /\ Healthy(e) /\ holds[e] \in Jobs /\ fails[e] \in Int
      /\ lease[holds[e]] \in Int
      /\ hb[e] = "armed" => pc[e] \in InSandbox
  BY DEF RenewOk, RenewNull, RenewError, RenewUnlogged, ClassifyUnlogged, Due, Inv, TypeOK,
         Holding, HeartbeatShape, Healthy, InSandbox, Finalizing
<1>2. Lease >= 0 /\ Interval >= 0 /\ 0 < Threshold
  BY TimingAssumption
<1>3. CASE RenewOk(e)
  <2>1. /\ hb'[e] = "armed" /\ owner[holds[e]] = WorkerOf[e]
        /\ lease'[holds[e]] = Lease /\ fails'[e] = 0 /\ beat'[e] = Interval
        /\ UNCHANGED <<status, owner, claims, execVars>>
        /\ \A k \in Jobs : k # holds[e] => UNCHANGED lease[k]
        /\ \A f \in Executors \ {e} : UNCHANGED <<hb[f], beat[f], fails[f], reason[f]>>
    BY <1>1, <1>3 DEF RenewOk, Due, Renewable, Inv, TypeOK
  <2> QED  BY <1>1, <1>2, <2>1, SlackFacts, BeatExclusive
<1>4. CASE RenewNull(e)
  <2>1. status[holds[e]] # "running"
    BY <1>1, <1>4 DEF RenewNull, Renewable, Exclusive, Covered
  <2>2. /\ UNCHANGED <<status, owner, claims, execVars>>
        /\ \A k \in Jobs : k # holds[e] => UNCHANGED lease[k]
        /\ \A f \in Executors \ {e} : UNCHANGED <<hb[f], beat[f], fails[f], reason[f]>>
    BY <1>4 DEF RenewNull, Inv, TypeOK, jobVars
  <2> QED  BY <1>1, <2>1, <2>2, BeatExclusive
<1>5. CASE RenewError(e)
  <2>1. hb[e] = "armed" /\ beat[e] = 0
    BY <1>5 DEF RenewError, Due
  <2>2. /\ \A k \in Jobs : k # holds[e] => UNCHANGED lease[k]
        /\ lease'[holds[e]] \in {lease[holds[e]], Lease}
        /\ Missed(e, fails[e] + 1)
    BY <1>1, <1>5 DEF RenewError, Inv, TypeOK
  <2>3. status[holds[e]] = "running" =>
          lease'[holds[e]] >= 0 /\ lease'[holds[e]] >= Slack(fails[e] + 1) + Interval
    <3>1. Slack(fails[e] + 1) + Interval = Slack(fails[e]) /\ Slack(fails[e]) \in Int
      BY <1>1, SlackFacts
    <3>2. Slack(fails[e]) <= Slack(0)
      BY <1>1, <1>2, TimingAssumption, SlackMonotone DEF Inv, TypeOK
    <3>3. status[holds[e]] = "running" => lease[holds[e]] >= 0 /\ lease[holds[e]] >= Slack(fails[e])
      BY <1>1, <2>1, <3>1 DEF Exclusive, Covered
    <3> QED  BY <1>1, <1>2, <2>2, <3>1, <3>2, <3>3, SlackFacts, TimingAssumption
  <2>4. /\ UNCHANGED <<status, owner, claims, execVars>>
        /\ \A f \in Executors \ {e} : UNCHANGED <<hb[f], beat[f], fails[f], reason[f]>>
        /\ Healthy(e)' => fails'[e] = fails[e] + 1 /\ hb'[e] = "armed" /\ beat'[e] = Interval
    BY <1>1, <2>1, <2>2, MissedEffect
  <2>5. status[holds[e]] = "running" => owner[holds[e]] = WorkerOf[e]
    BY <1>1 DEF Exclusive, Covered
  <2> QED  BY <1>1, <2>2, <2>3, <2>4, <2>5, BeatExclusive
<1>6. CASE RenewUnlogged(e)
  <2>1. /\ hb[e] = "armed" /\ owner[holds[e]] = WorkerOf[e] /\ lease'[holds[e]] = Lease
        /\ \A k \in Jobs : k # holds[e] => UNCHANGED lease[k]
        /\ Missed(e, 1)
    BY <1>1, <1>6 DEF RenewUnlogged, Due, Renewable, Inv, TypeOK
  <2>2. /\ UNCHANGED <<status, owner, claims, execVars>>
        /\ \A f \in Executors \ {e} : UNCHANGED <<hb[f], beat[f], fails[f], reason[f]>>
        /\ Healthy(e)' => fails'[e] = 1 /\ hb'[e] = "armed" /\ beat'[e] = Interval
    BY <1>1, <2>1, MissedEffect
  <2>3. Lease >= Slack(1) + Interval
    <3>1. Slack(0) = Slack(1) + Interval /\ Slack(0) \in Int /\ Slack(0) + Interval <= Lease
      BY SlackFacts
    <3> QED  BY <3>1, TimingAssumption
  <2> QED  BY <1>1, <1>2, <2>1, <2>2, <2>3, BeatExclusive
<1>7. CASE ClassifyUnlogged(e)
  <2>1. hb[e] = "classify" /\ UNCHANGED lease /\ Missed(e, fails[e] + 1)
    BY <1>7 DEF ClassifyUnlogged
  <2>2. status[holds[e]] # "running"
    BY <1>1, <2>1 DEF Exclusive, Covered
  <2>3. /\ UNCHANGED <<status, owner, claims, execVars>>
        /\ \A f \in Executors \ {e} : UNCHANGED <<hb[f], beat[f], fails[f], reason[f]>>
    BY <1>1, <2>1, MissedEffect
  <2> QED  BY <1>1, <2>1, <2>2, <2>3, BeatExclusive
<1> QED  BY <1>3, <1>4, <1>5, <1>6, <1>7

\* With Timely, time passes only while every healthy executor is in its sandbox
\* with its heartbeat armed and not yet due: both sides of the budget shrink by one.
LEMMA TickExclusive ==
  ASSUME Timely, LeaseCoversHeartbeat, Inv, Exclusive, Tick PROVE Exclusive'
<1>1. ASSUME NEW e \in Executors, Healthy(e)
      PROVE  /\ hb[e] \in {"armed", "classify"} /\ pc[e] # "claimed" /\ holds[e] \in Jobs
             /\ hb[e] = "armed" => beat'[e] = beat[e] - 1 /\ beat[e] > 0
             /\ fails[e] < Threshold /\ fails[e] \in Int
  BY <1>1 DEF Tick, Urgent, Due, Healthy, Inv, TypeOK, Holding, HeartbeatShape, Finalizing, InSandbox
<1>2. \A k \in Jobs : lease[k] >= 0 => lease'[k] = lease[k] - 1
  BY DEF Tick
<1>3. ASSUME NEW e \in Executors, Healthy(e), status[holds[e]] = "running"
      PROVE  /\ lease'[holds[e]] >= 0
             /\ hb[e] = "armed" => lease'[holds[e]] >= Slack(fails[e]) + beat'[e]
             /\ owner[holds[e]] = WorkerOf[e] /\ hb[e] = "armed"
  <2>1. /\ hb[e] = "armed" /\ lease[holds[e]] >= Slack(fails[e]) + beat[e]
        /\ lease[holds[e]] >= 0 /\ owner[holds[e]] = WorkerOf[e]
    BY <1>1, <1>3 DEF Exclusive, Covered
  <2>2. Slack(fails[e]) \in Int /\ Slack(fails[e]) >= 0
    BY <1>1, <1>3, SlackFacts
  <2>3. lease[holds[e]] \in Int /\ beat[e] \in Int
    BY <1>1, <1>3, TimingAssumption DEF Inv, TypeOK
  <2> QED  BY <1>1, <1>2, <1>3, <2>1, <2>2, <2>3
<1>4. Covered'
  BY <1>1, <1>3 DEF Tick, Covered, Healthy, execVars
<1>5. Unshared'
  BY DEF Tick, Exclusive, Unshared, Healthy, execVars
<1> QED  BY <1>4, <1>5 DEF Exclusive

LEMMA ExclusiveStep ==
  ASSUME Timely, LeaseCoversHeartbeat
  PROVE  Inv /\ Exclusive /\ [Next]_vars => Exclusive'
<1> SUFFICES ASSUME Inv, Exclusive, [Next]_vars PROVE Exclusive'
  OBVIOUS
<1>1. CASE UNCHANGED vars
  BY <1>1
  DEF Exclusive, Covered, Unshared, Healthy, vars, jobVars, execVars, heartVars
<1>2. ASSUME NEW e \in Executors, Poll(e) \/ Crash(e) PROVE Exclusive'
  BY <1>2, ClaimExclusive, RowsExclusive, ExecutorExclusive, StartHeartbeatExclusive
  DEF Poll, Finalize
<1>3. ASSUME NEW e \in Executors, HeartbeatTick(e) PROVE Exclusive'
  BY <1>3, ExecutorExclusive, HeartbeatExclusive DEF HeartbeatTick
<1> QED  BY <1>1, <1>2, <1>3, RowsExclusive, TickExclusive DEF Next

\* While an executor works, its heartbeat keeps the lease alive, so that claimNextWorkerJob
\* gives its job to nobody else.
THEOREM ExclusiveHolds ==
  ASSUME Timely, LeaseCoversHeartbeat PROVE Spec => []Exclusive
  BY InitExclusive, ExclusiveStep, Invariant, PTL DEF Spec

\* The lease is a lock: as long as it covers the renewals the heartbeat may miss
\* and timers fire on time, two executors never run one job's commands at once.
THEOREM Exclusion ==
  ASSUME Timely, LeaseCoversHeartbeat PROVE Spec => []NoDoubleExecution
<1>1. Inv /\ Exclusive => NoDoubleExecution
  BY DEF Exclusive, Unshared, NoDoubleExecution, Healthy, Executing, InSandbox
<1> QED  BY <1>1, ExclusiveHolds, Invariant, PTL

\* Under the same assumptions the owner guard of processClaimedJob is enough for
\* an executor that was never told to abort: the verdict it writes is the latest claim's.
THEOREM HealthyVerdicts ==
  ASSUME Timely, LeaseCoversHeartbeat PROVE Spec => []HealthyVerdictIsCurrent
<1>1. Exclusive => HealthyVerdictIsCurrent
  BY DEF Exclusive, Unshared, HealthyVerdictIsCurrent, Healthy
<1> QED  BY <1>1, ExclusiveHolds, PTL

=============================================================================
