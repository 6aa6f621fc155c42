-------------------------- MODULE SyncRounds_proofs --------------------------
(***************************************************************************)
(* Theorems about SyncRounds, for any settings, any number of rounds, any  *)
(* timeout, any decisions of a person and any worker that keeps what       *)
(* JobLifecycle promises.                                                  *)
(***************************************************************************)
EXTENDS SyncRounds, TLAPS

JobStates == {"absent", "queued", "running"} \cup Worker!Verdicts

\* A job with a verdict of its commands was started; only a cancel needs no start.
JobsOK ==
  /\ job \in [Jobs -> JobStates] /\ claims \in [Jobs -> 0 .. MaxAttempts]
  /\ \A j \in Jobs : job[j] \in Worker!Verdicts \ {"cancelled"} => claims[j] > 0

People == [pc : {"none", "merge", "write"}, decision : {"approved", "rejected"},
           status : Statuses, copy : Rows]

Types ==
  /\ mode \in Modes /\ session \in Rows /\ copy \in Rows
  /\ pc \in Pcs /\ round \in 0 .. MaxRounds
  /\ outcome \in {"passed", "failed", "needs_revision"}
  /\ report \in BOOLEAN /\ waited \in 0 .. Timeout
  /\ tested \in BOOLEAN /\ greens \subseteq Jobs
  /\ person \in People
  /\ decisions \in 0 .. MaxDecisions

Passed == pc = "done" /\ outcome = "passed" /\ round \in greens

Tested == {"poll", "sleep", "review", "judge"}

\* What the request has in hand.
RequestOK ==
  /\ report => pc \in {"review", "judge", "rejected"} /\ round \in greens
  /\ outcome = "passed" => pc \in {"save_verdict", "done", "rejected"} /\ round \in greens
  /\ pc \notin {"begin", "refused", "loop", "save_verdict", "done", "rejected"} => round \in Jobs
  /\ pc \in {"begin", "refused"} => round = 0 /\ ~tested
  /\ pc \in Tested \/ (pc = "loop" /\ round # 0) => tested

\* Where a passed status may be found: the row, or the hands of who read it.
PassedOK ==
  /\ session.status = "passed" => Passed
  /\ person.status = "passed" => Passed
  /\ copy.status # "passed"

\* As long as nobody decides, only the request writes the session.
UndecidedOK ==
  decisions = 0 =>
    /\ person.pc = "none" /\ copy.status = "running"
    /\ SessionAgrees

\* Worker mode: green reports and past rounds have their jobs.
WorkOK ==
  mode.worker =>
    /\ \A r \in greens : claims[r] > 0
    /\ \A r \in Jobs : r < round \/ (r = round /\ pc \in Tested \cup {"loop"}) => job[r] # "absent"

Inv == Types /\ JobsOK /\ RequestOK /\ PassedOK /\ UndecidedOK /\ WorkOK

LEMMA InvInit == Init => Inv
<1> SUFFICES ASSUME Init PROVE Inv  OBVIOUS
<1>1. NewRow \in Rows /\ Nobody \in People
  BY SyncAssumption DEF NewRow, Rows, Statuses, Nobody, People
<1>2. Types
  <2>1. 0 \in 0 .. MaxRounds /\ 0 \in 0 .. Timeout /\ 0 \in 0 .. MaxDecisions
    BY SyncAssumption
  <2>2. pc \in Pcs /\ outcome \in {"passed", "failed", "needs_revision"}
    BY DEF Init, Pcs
  <2> QED  BY <1>1, <2>1, <2>2 DEF Init, Types
<1>3. JobsOK
  BY SyncAssumption DEF Init, Worker!Init, JobsOK, JobStates, Worker!Verdicts
<1>4. RequestOK  BY SyncAssumption DEF Init, RequestOK, Tested
<1>5. PassedOK /\ UndecidedOK
  BY DEF Init, PassedOK, UndecidedOK, SessionAgrees, NewRow, Nobody
<1>6. WorkOK  BY SyncAssumption DEF Init, WorkOK, Tested, Jobs
<1> QED  BY <1>2, <1>3, <1>4, <1>5, <1>6 DEF Inv

-----------------------------------------------------------------------------
(* The worker plane.                                                       *)

JobsGrow == \A j \in Jobs : /\ job[j] # "absent" => job'[j] # "absent"
                            /\ claims'[j] >= claims[j]

LEMMA WorkerMoves ==
  ASSUME JobsOK, WorkerStep \/ \E j \in Jobs : Worker!Create(j)
  PROVE  JobsOK' /\ JobsGrow
<1>1. /\ MaxAttempts \in Nat \ {0}
      /\ \A j \in Jobs : claims[j] \in 0 .. MaxAttempts /\ job[j] \in JobStates
  BY SyncAssumption DEF JobsOK
<1>2. CASE \E j \in Jobs : Worker!Create(j)
  BY <1>1, <1>2 DEF Worker!Create, JobsOK, JobsGrow, JobStates, Worker!Verdicts
<1>3. CASE Worker!Exhaust
  <2>1. PICK S \in SUBSET Worker!Unfinished :
          /\ \A k \in S : claims[k] >= MaxAttempts
          /\ job' = Worker!GiveUp(S) /\ claims' = claims
    BY <1>3 DEF Worker!Exhaust
  <2> QED  BY <1>1, <2>1 DEF Worker!GiveUp, Worker!Unfinished, JobsOK, JobsGrow, JobStates, Worker!Verdicts
<1>4. ASSUME NEW j \in Jobs, Worker!Start(j) PROVE JobsOK' /\ JobsGrow
  <2>1. PICK S \in SUBSET (Worker!Unfinished \ {j}) :
          /\ \A k \in S : claims[k] >= MaxAttempts
          /\ job' = [Worker!GiveUp(S) EXCEPT ![j] = "running"]
          /\ claims[j] < MaxAttempts /\ claims' = [claims EXCEPT ![j] = claims[j] + 1]
    BY <1>4 DEF Worker!Start
  <2> QED  BY <1>1, <2>1 DEF Worker!GiveUp, Worker!Unfinished, JobsOK, JobsGrow, JobStates, Worker!Verdicts
<1>5. ASSUME NEW j \in Jobs, Worker!Settle(j) PROVE JobsOK' /\ JobsGrow
  BY <1>1, <1>5 DEF Worker!Settle, JobsOK, JobsGrow, JobStates, Worker!Verdicts
<1> QED  BY <1>2, <1>3, <1>4, <1>5 DEF WorkerStep

-----------------------------------------------------------------------------
(* The steps, for each part of the invariant.                              *)

LEMMA RowsTyped ==
  ASSUME Types
  PROVE  /\ NewRow \in Rows /\ Nobody \in People
         /\ RoundRow \in Rows /\ Verdict \in Rows
         /\ \A d \in {"approved", "rejected"} :
              [person.copy EXCEPT !.status = person.status, !.approval = d] \in Rows
<1>1. 0 \in 0 .. MaxRounds  BY SyncAssumption
<1>2. NewRow \in Rows  BY <1>1 DEF NewRow, Rows, Statuses
<1>3. Nobody \in People  BY <1>2 DEF Nobody, People, Statuses
<1>4. RoundRow \in Rows  BY DEF Types, RoundRow, Rows
<1>5. Verdict \in Rows  BY DEF Types, Verdict, Rows, Statuses
<1>6. person.copy \in Rows /\ person.status \in Statuses  BY DEF Types, People
<1>7. ASSUME NEW d \in {"approved", "rejected"}
      PROVE  [person.copy EXCEPT !.status = person.status, !.approval = d] \in Rows
  BY <1>6 DEF Rows
<1> QED  BY <1>2, <1>3, <1>4, <1>5, <1>7

LEMMA TypesKept ==
  ASSUME Inv, [Next]_vars PROVE Types'
<1>0. /\ Types /\ RequestOK /\ MaxRounds \in Nat /\ Timeout \in Nat
      /\ round \in Nat /\ round <= MaxRounds
  BY SyncAssumption DEF Inv, Types
<1>1. CASE Begin \/ NextRound \/ OutOfRounds
  BY <1>0, <1>1 DEF Begin, NextRound, OutOfRounds, MoreRounds, Goto, Same, Types, Pcs
<1>2. CASE SaveRound \/ SaveVerdict
  BY <1>0, <1>2, RowsTyped DEF SaveRound, SaveVerdict, Goto, Same, Types, Pcs
<1>3. CASE Implement \/ Enqueue \/ Review \/ Rejects
  BY <1>0, <1>3 DEF Implement, Enqueue, Review, Rejects, Goto, Same, Types, Pcs
<1>4. CASE TestInline \/ Poll
  <2>1. /\ round \in Jobs /\ UNCHANGED <<session, round, outcome, copy>> /\ Same
        /\ pc' \in Pcs /\ tested' \in BOOLEAN
        /\ (\E green \in BOOLEAN : Reported(green)) \/ UNCHANGED <<report, greens, waited>>
    BY <1>0, <1>4 DEF TestInline, Poll, Reported, IsGreen, RequestOK, Goto, Types, Pcs
  <2>2. 0 \in 0 .. Timeout  BY <1>0
  <2>3. report' \in BOOLEAN /\ greens' \subseteq Jobs /\ waited' \in 0 .. Timeout
    BY <1>0, <2>1, <2>2 DEF Reported, Types
  <2> QED  BY <1>0, <2>1, <2>3 DEF Same, Types
<1>5. CASE Wake  BY <1>0, <1>5 DEF Wake, Goto, Same, Types, Pcs
<1>6. CASE Judge  BY <1>0, <1>6 DEF Judge, Goto, Same, Types, Pcs
<1>7. ASSUME NEW d \in {"approved", "rejected"}, Decide(d) PROVE Types'
  <2>1. session.status \in Statuses /\ "rejected" \in Statuses  BY <1>0 DEF Types, Rows, Statuses
  <2>2. person' \in People  BY <1>0, <1>7, <2>1, RowsTyped DEF Decide, Nobody, People
  <2>3. decisions' \in 0 .. MaxDecisions  BY <1>0, <1>7, SyncAssumption DEF Decide, Types
  <2> QED  BY <1>0, <1>7, <2>2, <2>3 DEF Decide, Types, runVars
<1>8. CASE MergeRead  BY <1>0, <1>8 DEF MergeRead, Types, People, runVars
<1>9. CASE SetApproval
  <2>1. person.decision \in {"approved", "rejected"}  BY <1>0 DEF Types, People
  <2> QED  BY <1>0, <1>9, <2>1, RowsTyped DEF SetApproval, Types, runVars
<1>10. CASE WorkerStep \/ UNCHANGED vars
  BY <1>0, <1>10 DEF WorkerStep, Types, vars, runVars
<1> QED
  BY <1>1, <1>2, <1>3, <1>4, <1>5, <1>6, <1>7, <1>8, <1>9, <1>10 DEF Next, Request

LEMMA JobsKept ==
  ASSUME Inv, [Next]_vars PROVE JobsOK' /\ JobsGrow
<1>1. /\ JobsOK /\ RequestOK /\ \A j \in Jobs : claims[j] \in Nat
  BY SyncAssumption DEF Inv, JobsOK
<1>2. CASE Enqueue
  BY <1>1, <1>2, WorkerMoves DEF Enqueue, RequestOK
<1>3. CASE WorkerStep  BY <1>1, <1>3, WorkerMoves
<1>4. CASE UNCHANGED jobVars
  BY <1>1, <1>4 DEF jobVars, JobsOK, JobsGrow
<1>5. Enqueue \/ WorkerStep \/ UNCHANGED jobVars
  BY DEF Next, Request, vars, Begin, NextRound, OutOfRounds, SaveRound, Implement, TestInline, Poll,
     Wake, Review, Judge, SaveVerdict, Rejects, MergeRead, SetApproval, Decide
<1> QED  BY <1>2, <1>3, <1>4, <1>5

\* Whoever is not the request leaves what it has in hand alone.
LEMMA Bystanders ==
  ASSUME MergeRead \/ SetApproval \/ WorkerStep \/ UNCHANGED vars
         \/ \E d \in {"approved", "rejected"} : Decide(d)
  PROVE  UNCHANGED <<mode, runVars>>
BY DEF MergeRead, SetApproval, WorkerStep, Decide, vars

LEMMA RequestKept ==
  ASSUME Inv, [Next]_vars PROVE RequestOK'
<1>0. /\ RequestOK /\ MaxRounds \in Nat /\ round \in Nat /\ round <= MaxRounds /\ pc \in Pcs
  BY SyncAssumption DEF Inv, Types
<1>1. CASE Begin \/ SaveRound \/ OutOfRounds
  BY <1>0, <1>1 DEF Begin, SaveRound, OutOfRounds, Goto, RequestOK, Tested
<1>2. CASE NextRound
  BY <1>0, <1>2 DEF NextRound, MoreRounds, Goto, RequestOK, Tested, Jobs
<1>3. CASE Implement \/ Enqueue \/ Review
  BY <1>0, <1>3 DEF Implement, Enqueue, Review, Goto, RequestOK, Tested
<1>4. CASE TestInline \/ Poll
  BY <1>0, <1>4 DEF TestInline, Poll, Reported, Goto, RequestOK, Tested
<1>5. CASE Wake \/ Rejects \/ SaveVerdict
  BY <1>0, <1>5 DEF Wake, Rejects, SaveVerdict, Goto, RequestOK, Tested
<1>6. CASE Judge
  BY <1>0, <1>6 DEF Judge, Guarded, Goto, RequestOK, Tested
<1>7. CASE UNCHANGED runVars  BY <1>0, <1>7 DEF runVars, RequestOK
<1> QED
  BY <1>1, <1>2, <1>3, <1>4, <1>5, <1>6, <1>7, Bystanders DEF Next, Request

LEMMA PassedKept ==
  ASSUME Inv, [Next]_vars PROVE PassedOK'
<1>0. /\ RequestOK /\ PassedOK /\ session \in Rows /\ copy \in Rows /\ person \in People
      /\ person.copy \in Rows
  BY DEF Inv, Types, People
<1>1. NewRow.status # "passed" /\ Nobody.status # "passed"  BY DEF NewRow, Nobody
<1>2. CASE Begin \/ NextRound \/ OutOfRounds \/ Implement \/ Judge
  BY <1>0, <1>2 DEF Begin, NextRound, OutOfRounds, Implement, Judge, Goto, Same, PassedOK, Passed
<1>3. CASE SaveRound
  <2>1. RoundRow.status = copy.status  BY <1>0 DEF RoundRow, Rows
  <2> QED  BY <1>0, <1>1, <1>3, <2>1 DEF SaveRound, Goto, Same, PassedOK, Passed
<1>4. CASE SaveVerdict
  <2>1. Verdict.status = outcome  BY <1>0 DEF Verdict, Rows
  <2> QED  BY <1>0, <1>1, <1>4, <2>1 DEF SaveVerdict, Goto, Same, PassedOK, Passed, RequestOK
<1>5. CASE TestInline \/ Enqueue \/ Poll \/ Wake \/ Review \/ Rejects
  BY <1>0, <1>5
     DEF TestInline, Enqueue, Poll, Reported, Wake, Review, Rejects, Goto, Same, PassedOK, Passed
<1>6. ASSUME NEW d \in {"approved", "rejected"}, Decide(d) PROVE PassedOK'
  <2>1. person'.status \in {"rejected", session.status}  BY <1>6 DEF Decide, Nobody
  <2> QED  BY <1>0, <1>6, <2>1, Bystanders DEF Decide, PassedOK, Passed, runVars
<1>7. CASE MergeRead
  <2>1. person'.status = person.status  BY <1>0, <1>7 DEF MergeRead, People
  <2> QED  BY <1>0, <1>7, <2>1 DEF MergeRead, PassedOK, Passed, runVars
<1>8. CASE SetApproval
  <2>1. session'.status = person.status  BY <1>0, <1>8 DEF SetApproval, Rows
  <2> QED  BY <1>0, <1>1, <1>8, <2>1 DEF SetApproval, PassedOK, Passed, runVars
<1>9. CASE WorkerStep \/ UNCHANGED vars
  BY <1>0, <1>9 DEF WorkerStep, vars, PassedOK, Passed, runVars
<1> QED
  BY <1>2, <1>3, <1>4, <1>5, <1>6, <1>7, <1>8, <1>9 DEF Next, Request

LEMMA UndecidedKept ==
  ASSUME Inv, [Next]_vars PROVE UndecidedOK'
<1>0. /\ UndecidedOK /\ session \in Rows /\ copy \in Rows /\ decisions \in Nat
  BY SyncAssumption DEF Inv, Types
<1>1. NewRow.status = "running"  BY DEF NewRow
<1>2. CASE Begin \/ NextRound \/ OutOfRounds \/ Implement \/ Judge
  BY <1>0, <1>2
     DEF Begin, NextRound, OutOfRounds, Implement, Judge, Goto, Same, UndecidedOK, SessionAgrees
<1>3. CASE SaveRound
  <2>1. RoundRow.status = copy.status  BY <1>0 DEF RoundRow, Rows
  <2> QED  BY <1>0, <1>1, <1>3, <2>1 DEF SaveRound, Goto, Same, UndecidedOK, SessionAgrees
<1>4. CASE SaveVerdict
  <2>1. Verdict.status = outcome /\ Verdict.rounds = round  BY <1>0 DEF Verdict, Rows
  <2> QED  BY <1>0, <1>1, <1>4, <2>1 DEF SaveVerdict, Goto, Same, UndecidedOK, SessionAgrees
<1>5. CASE TestInline \/ Enqueue \/ Poll \/ Wake \/ Review \/ Rejects
  BY <1>0, <1>5
     DEF TestInline, Enqueue, Poll, Reported, Wake, Review, Rejects, Goto, Same, UndecidedOK,
         SessionAgrees
<1>6. CASE \E d \in {"approved", "rejected"} : Decide(d)
  BY <1>0, <1>6 DEF Decide, UndecidedOK
<1>7. CASE MergeRead \/ SetApproval
  BY <1>0, <1>7 DEF MergeRead, SetApproval, UndecidedOK
<1>8. CASE WorkerStep \/ UNCHANGED vars
  BY <1>0, <1>8 DEF WorkerStep, vars, UndecidedOK, SessionAgrees, runVars
<1> QED
  BY <1>2, <1>3, <1>4, <1>5, <1>6, <1>7, <1>8 DEF Next, Request

LEMMA WorkKept ==
  ASSUME Inv, [Next]_vars PROVE WorkOK'
<1>0. WorkOK /\ RequestOK /\ round \in Nat /\ greens \subseteq Jobs /\ Jobs \subseteq Nat
  BY SyncAssumption DEF Inv, Types, Jobs
<1>1. /\ \A j \in Jobs : job[j] # "absent" => job'[j] # "absent"
      /\ \A j \in Jobs : claims[j] > 0 => claims'[j] > 0
  <2>1. \A j \in Jobs : claims[j] \in Nat /\ claims'[j] \in Nat
    BY JobsKept, SyncAssumption DEF Inv, JobsOK
  <2> QED  BY JobsKept, <2>1 DEF JobsGrow
<1>2. CASE Begin
  <2>1. round = 0 /\ round' = 0 /\ \A r \in Jobs : ~ (r <= 0)
    BY <1>0, <1>2 DEF Begin, RequestOK, Jobs
  <2> QED  BY <1>0, <1>1, <1>2, <2>1 DEF Begin, Same, WorkOK
<1>8. CASE NextRound
  <2>1. \A r \in Jobs : r < round + 1 => r < round \/ r = round  BY <1>0
  <2> QED  BY <1>0, <1>1, <1>8, <2>1 DEF NextRound, Same, Goto, WorkOK, Tested
<1>9. CASE OutOfRounds \/ SaveRound \/ Implement
  BY <1>0, <1>1, <1>9 DEF OutOfRounds, SaveRound, Implement, Same, Goto, WorkOK, Tested
<1>3. CASE TestInline
  BY <1>0, <1>3 DEF TestInline, Same, WorkOK
<1>4. CASE Enqueue
  <2>1. job'[round] # "absent"
    BY <1>0, <1>4 DEF Inv, JobsOK, Enqueue, Worker!Create, RequestOK
  <2> QED  BY <1>0, <1>1, <1>4, <2>1 DEF Enqueue, Same, Goto, WorkOK, Tested
<1>5. CASE Poll
  <2>1. greens' = greens \/ (greens' = greens \cup {round} /\ job[round] = "passed")
    BY <1>5 DEF Poll, Reported, IsGreen
  <2>2. job[round] = "passed" => claims[round] > 0
    BY <1>0, <1>5 DEF Poll, RequestOK, Inv, JobsOK, Worker!Verdicts
  <2>3. round' = round /\ pc' \in Tested /\ pc \in Tested /\ mode' = mode
    BY <1>5 DEF Poll, Same, Reported, Goto, Tested
  <2>4. mode.worker => \A r \in greens' : claims'[r] > 0
    BY <1>0, <1>1, <1>5, <2>1, <2>2 DEF Poll, WorkOK, RequestOK
  <2>5. mode.worker => \A r \in Jobs : r < round \/ r = round => job'[r] # "absent"
    BY <1>0, <1>1, <2>3 DEF WorkOK
  <2> QED  BY <2>3, <2>4, <2>5 DEF WorkOK
<1>6. CASE Wake \/ Review \/ Judge \/ SaveVerdict \/ Rejects
  BY <1>0, <1>1, <1>6 DEF Wake, Review, Judge, SaveVerdict, Rejects, Same, Goto, WorkOK,
     Tested
<1>7. CASE UNCHANGED <<mode, runVars>>  BY <1>0, <1>1, <1>7 DEF runVars, WorkOK
<1> QED
  BY <1>2, <1>3, <1>4, <1>5, <1>6, <1>7, <1>8, <1>9, Bystanders DEF Next, Request

LEMMA Invariant == Spec => []Inv
<1>1. Inv /\ [Next]_vars => Inv'
  BY TypesKept, JobsKept, RequestKept, PassedKept, UndecidedKept, WorkKept DEF Inv
<1> QED  BY InvInit, <1>1, PTL DEF Spec

-----------------------------------------------------------------------------
(* A request in rounds is a run.                                           *)

LEMMA LifecycleInit == Init => Lifecycle!Init
BY DEF Init, Lifecycle!Init, RunStatus

LEMMA LifecycleStep == Inv /\ [Next]_vars => [Lifecycle!Next]_(Lifecycle!vars)
<1> DEFINE Round == IF round = 0 THEN 1 ELSE round
<1> SUFFICES ASSUME Inv, [Next]_vars, ~ (RunStatus' = RunStatus /\ Round' = Round)
             PROVE  Lifecycle!Next
  BY DEF Lifecycle!vars
<1>0. /\ RequestOK /\ MaxRounds \in Nat \ {0} /\ round \in Nat /\ round <= MaxRounds
      /\ outcome \in {"passed", "failed", "needs_revision"} /\ pc \in Pcs /\ tested \in BOOLEAN
  BY SyncAssumption DEF Inv, Types
<1>1. CASE RunStatus' = RunStatus /\ RunStatus = "waiting_for_worker" /\ Round < MaxRounds
           /\ Round' = Round + 1
  BY <1>1 DEF Lifecycle!Next, Lifecycle!Advance
<1>2. CASE Round' = Round /\ RunStatus = "absent" /\ RunStatus' = "running"
  BY <1>2 DEF Lifecycle!Next, Lifecycle!Begin
<1>3. CASE Round' = Round /\ RunStatus \in {"running", "waiting_for_worker"}
           /\ RunStatus' = "waiting_for_worker"
  BY <1>3 DEF Lifecycle!Next, Lifecycle!Await
<1>4. CASE Round' = Round /\ RunStatus \in {"running", "waiting_for_worker"}
           /\ RunStatus' \in Lifecycle!Decisions
  BY <1>4 DEF Lifecycle!Next, Lifecycle!Decide
<1>5. CASE Begin  BY <1>0, <1>2, <1>5 DEF Begin, Goto, RunStatus, RequestOK
<1>6. CASE NextRound
  <2>1. round # 0 => RunStatus = "waiting_for_worker" /\ RunStatus' = "waiting_for_worker"
    BY <1>0, <1>6 DEF NextRound, Goto, RunStatus, RequestOK
  <2>2. RunStatus' = RunStatus  BY <1>6 DEF NextRound, Goto, RunStatus
  <2> QED  BY <1>0, <1>1, <1>6, <2>1, <2>2 DEF NextRound, MoreRounds
<1>7. CASE TestInline \/ Enqueue
  BY <1>0, <1>3, <1>7 DEF TestInline, Enqueue, Reported, Goto, RunStatus
<1>8. CASE SaveVerdict
  BY <1>0, <1>4, <1>8 DEF SaveVerdict, Goto, RunStatus, Lifecycle!Decisions
<1>9. CASE OutOfRounds \/ SaveRound \/ Implement \/ Poll \/ Wake \/ Review \/ Judge \/ Rejects
  <2>1. RunStatus' = RunStatus /\ round' = round
    BY <1>9 DEF OutOfRounds, SaveRound, Implement, Poll, Reported, Wake, Review, Judge, Rejects, Goto,
       RunStatus
  <2> QED  BY <2>1
<1>10. CASE UNCHANGED runVars  BY <1>10 DEF runVars, RunStatus
<1> QED
  BY <1>5, <1>6, <1>7, <1>8, <1>9, <1>10, Bystanders DEF Next, Request

-----------------------------------------------------------------------------
(* The theorems.                                                           *)

\* Every variable keeps its type; in particular no round passes MaxRounds.
THEOREM TypeCorrect == Spec => []TypeOK
<1>1. Inv => TypeOK  BY DEF Inv, Types, JobsOK, JobStates, People, TypeOK
<1> QED  BY <1>1, Invariant, PTL

\* A session that says passed had green tests in its last round.
THEOREM GreenFirst == Spec => []GreenBeforePassed
<1>1. Inv => GreenBeforePassed  BY DEF Inv, PassedOK, Passed, GreenBeforePassed
<1> QED  BY <1>1, Invariant, PTL

\* In worker mode a green report is that of a started job of its round.
THEOREM WorkerReports == Spec => []GreenIsFromTheWorker
<1>1. Inv => GreenIsFromTheWorker  BY DEF Inv, WorkOK, GreenIsFromTheWorker
<1> QED  BY <1>1, Invariant, PTL

\* Nobody having decided anything, the session shows the verdict of its run.
THEOREM Agreement == Spec => []SessionAgrees
<1>1. Inv => SessionAgrees  BY DEF Inv, UndecidedOK, SessionAgrees
<1> QED  BY <1>1, Invariant, PTL

\* The request keeps what RunLifecycle promises of resumable runs.
THEOREM IsARun == Spec => ImplementsRunLifecycle
BY LifecycleInit, LifecycleStep, Invariant, PTL DEF Spec, ImplementsRunLifecycle, Lifecycle!Spec

=============================================================================
